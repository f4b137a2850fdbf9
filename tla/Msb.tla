-------------------------------- MODULE Msb ---------------------------------
(***************************************************************************)
(* The msb runtime, as far as msb-manager depends on it.  msb is a program  *)
(* of its own: this module is external, written from how the adapter       *)
(* (internal/msb/client.go), its error table (internal/msb/errors.go),      *)
(* CONTEXT.md and deploy/smoke-test.sh use and describe it.  Each operator  *)
(* is the effect one msb command has when it takes effect.                  *)
(***************************************************************************)
EXTENDS Names

VARIABLES
  status,   \* what msb ls reports for a sandbox; "absent" when it lists none
  mounts,   \* the named volumes of the sandbox's configuration
  disk      \* the named volumes that exist

msbVars == <<status, mounts, disk>>

\* A booting sandbox is on its way to running: msb create and msb run -d return
\* before the guest is up (client.go, "boots it in the background").
Status == {"absent", "stopped", "booting", "running"}

Exists(s) == status[s] # "absent"
Booting(s) == status[s] = "booting"
Running(s) == status[s] = "running"
Up(s) == Booting(s) \/ Running(s)
Mounted(s) == IF Up(s) THEN mounts[s] ELSE {}

MsbTypeOK ==
  /\ status \in [Sandbox -> Status]
  /\ mounts \in [Sandbox -> SUBSET Volume]
  /\ disk \in SUBSET Volume

\* No two sandboxes that are up share a volume, and what they mount exists.
MsbInit ==
  /\ MsbTypeOK
  /\ \A s \in Sandbox : ~Exists(s) => mounts[s] = {}
  /\ \A s, t \in Sandbox : s # t => Mounted(s) \cap Mounted(t) = {}
  /\ \A s \in Sandbox : Mounted(s) \subseteq disk

\* msb create / msb run -d: the sandbox is booted in the background, or has to
\* be started (deploy/smoke-test.sh); a volume it names has to exist.
CanCreate(s, vs) == ~Exists(s) /\ vs \subseteq disk
CreateEffect(s, vs) ==
  /\ \E st \in {"stopped", "booting"} : status' = [status EXCEPT ![s] = st]
  /\ mounts' = [mounts EXCEPT ![s] = vs]
  /\ UNCHANGED disk

\* The boot ends, one way or the other.
BootEffect(s) ==
  /\ \E st \in {"stopped", "running"} : status' = [status EXCEPT ![s] = st]
  /\ UNCHANGED <<mounts, disk>>

\* msb start.
CanStart(s) == Exists(s) /\ mounts[s] \subseteq disk
StartEffect(s) ==
  /\ status' = [status EXCEPT ![s] = "running"]
  /\ UNCHANGED <<mounts, disk>>

\* msb stop, and a guest that powers itself off.
StopEffect(s) ==
  /\ status' = [status EXCEPT ![s] = "stopped"]
  /\ UNCHANGED <<mounts, disk>>

\* msb rm refuses a running sandbox, msb rm -f does not.
CanRemove(s) == Exists(s) /\ ~Running(s)
RemoveEffect(s) ==
  /\ status' = [status EXCEPT ![s] = "absent"]
  /\ mounts' = [mounts EXCEPT ![s] = {}]
  /\ UNCHANGED disk

\* msb volume create, and msb volume rm, which does not look at who mounts
\* the volume (CONTEXT.md, "msb volume rm does NOT block on in-use volumes").
VolumeCreateEffect(v) == disk' = disk \cup {v} /\ UNCHANGED <<status, mounts>>
VolumeRmEffect(v) == disk' = disk \ {v} /\ UNCHANGED <<status, mounts>>
=============================================================================
