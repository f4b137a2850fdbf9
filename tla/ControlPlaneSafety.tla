------------------------- MODULE ControlPlaneSafety -------------------------
(***************************************************************************)
(* What ControlPlane is asked to satisfy, and the inductive invariant the    *)
(* proofs about it rest on.                                                  *)
(***************************************************************************)
EXTENDS ControlPlane

\* One sandbox per volume, running or on its way to running: CONTEXT.md,
\* "Concurrency"; the purpose of the volume lock and of every claim, rollback
\* and reconcile around it.
NoDoubleMount ==
  \A s, t \in Sandbox : s # t => Mounted(s) \cap Mounted(t) = {}

\* CONTEXT.md to the letter: "exactly one *running* sandbox may mount a given
\* volume at a time", however a crash meets a sandbox that is still booting
\* (main.go: the reconcile seeds the lock "so a crash-restart doesn't think every
\* volume is free").
OneRunningPerVolume ==
  \A s, t \in Sandbox :
    s # t /\ Running(s) /\ Running(t) => mounts[s] \cap mounts[t] = {}

\* While requests are served, the lock knows every volume a booting or running
\* sandbox mounts: no failed command, rollback, stop, delete or restart has left
\* one without its claim.
RunningClaimed ==
  Serving => \A s \in Sandbox : \A v \in Mounted(s) : held[v] = s

\* handleStopSandbox and handleDeleteSandbox give the claims back only when
\* the sandbox is not running: "releasing its claim here is strictly safe".
ReleaseIsSafe ==
  \A r \in Request : pc[r] = "release" => ~Up(req[r].box)

\* A volume a running sandbox mounts is not removed: README, DELETE
\* /volumes/{name} is "refused with 409 if a running sandbox holds the volume".
RunningVolumeExists == \A s \in Sandbox : Mounted(s) \subseteq disk

\* Mutating msb commands never overlap: Client, "serialising every msb
\* invocation that changes state".
InMsb(r) == pc[r] \in {"run", "keys", "rollback"}
CommandsSerialised ==
  \A r, q \in Request : InMsb(r) /\ InMsb(q) => r = q

\* A claim is left over by no request: once the server is idle, a volume is
\* claimed only by a sandbox that exists and is configured to mount it.
NoLeakedClaims ==
  phase = "serving" /\ (\A r \in Request : pc[r] = "idle") =>
    \A v \in Volume : held[v] # Nobody => v \in mounts[held[v]]

\* Only a request about a sandbox takes that sandbox's claims away, whatever
\* else runs, fails or is retried (AcquireMany's conflict check, the owner
\* guards of Release and ReleaseVolumes); a restart starts from msb instead.
ForeignClaimsKept ==
  [][Serving /\ Serving' =>
       \A v \in Volume : held[v] # Nobody /\ held'[v] # held[v] =>
         \E r \in Request : pc'[r] # pc[r] /\ req[r].box = held[v]]_vars

\* While a create installs the ssh keys or rolls back, no other request's step
\* touches the sandbox it made: its rm -f removes its own sandbox only
\* (Client.Create, "under the lock").  Guests still exit on their own.
CreateIsAtomic ==
  [][pc' # pc =>
       \A r \in Request :
         pc[r] \in {"keys", "rollback"} /\ pc'[r] = pc[r] =>
           /\ status'[req[r].box] = status[req[r].box]
           /\ mounts'[req[r].box] = mounts[req[r].box]]_vars

\* Every request is answered, however many wait for the adapter's mutex.
RequestsAnswered == \A r \in Request : pc[r] # "idle" ~> pc[r] = "idle"

\* The control plane keeps the claim protocol.
Promised == INSTANCE ClaimProtocol
              WITH open <- Serving, owner <- held,
                   inUse <- [s \in Sandbox |-> Mounted(s)]
KeepsClaimProtocol == Promised!Spec

-----------------------------------------------------------------------------
(* The inductive invariant, for clients that wait for the answer about a     *)
(* sandbox before they ask for something else on it, commands whose failure  *)
(* means they had no effect, and restarts that find no boot under way.       *)

Disciplined ==
  /\ OneRequestPerName
  /\ Cuttable \cap {"create", "start", "rollback"} = {}
  /\ ~LateBoots

\* Nothing is claimed and no request is there unless requests are served.
GateClosed ==
  ~Serving => held = Unclaimed /\ \A r \in Request : pc[r] = "idle"

\* No boot is under way while the reconcile lists and inspects.
NothingBoots ==
  phase \in {"listing", "inspecting"} => \A s \in Sandbox : ~Booting(s)

\* What the reconcile has still to look at, and what it has collected, cover
\* every running sandbox; a sandbox it looks at later overwrites nothing.
ReconcileCovers ==
  phase = "inspecting" =>
    \A s \in Sandbox : Running(s) =>
      /\ s \in todo \/ \A v \in mounts[s] : seed[v] = s
      /\ \A t \in todo \ {s} : mounts[s] \cap mounts[t] = {}

\* Two requests at work are about different sandboxes.
NamesApart ==
  \A r, q \in Request :
    r # q /\ pc[r] # "idle" /\ req[r].box # Nobody => req[q].box # req[r].box

\* What a request asks for fits where it is.
Placed(r) ==
  /\ pc[r] = "idle" => req[r] = NoRequest
  /\ req[r].op \in LifecycleOp <=> req[r].box \in Sandbox
  /\ pc[r] \in {"claim", "unclaim"} => req[r].op \in {"create", "start"}
  /\ pc[r] = "inspect" => req[r].op = "start"
  /\ pc[r] = "holder" => req[r].op = "volume_delete"
  /\ pc[r] \in {"keys", "rollback"} => req[r].op = "create"
  /\ pc[r] = "release" => req[r].op \in {"stop", "delete"}
WellPlaced == \A r \in Request : Placed(r)

\* A create or start that got past AcquireMany holds its volumes until it ends,
\* and a sandbox it starts can mount no others; what it would take back is not
\* mounted.
Claiming == {"lock", "run", "keys", "rollback", "unclaim"}
HoldsClaims(r) ==
  req[r].op \in {"create", "start"} =>
    /\ pc[r] \in Claiming => /\ \A v \in vols[r] : held[v] = req[r].box
                             /\ newly[r] \subseteq vols[r]
    /\ req[r].op = "start" /\ pc[r] \notin {"idle", "inspect"}
         => mounts[req[r].box] \subseteq vols[r]
    /\ pc[r] \in {"lock", "run", "unclaim"}
         => newly[r] \cap Mounted(req[r].box) = {}
ClaimsHeld == \A r \in Request : HoldsClaims(r)

IInv ==
  /\ TypeOK
  /\ GateClosed
  /\ NothingBoots
  /\ ReconcileCovers
  /\ NamesApart
  /\ WellPlaced
  /\ ClaimsHeld
  /\ ReleaseIsSafe
  /\ NoDoubleMount
  /\ RunningClaimed
-----------------------------------------------------------------------------
(* The inductive invariant behind NoLeakedClaims, for the same clients and   *)
(* sandboxes that are removed through the manager only.                      *)

Tidy ==
  /\ OneRequestPerName
  /\ "removed_by_hand" \notin Mishaps
  /\ "delete" \notin Cuttable

\* Why a volume may be claimed for a sandbox: it is configured to mount it, or a
\* request at work claimed it or is about to give it back.
Justified(v, s) ==
  \/ v \in mounts[s]
  \/ \E r \in Request :
       /\ req[r].box = s
       /\ \/ pc[r] = "release"
          \/ pc[r] \in {"lock", "run", "unclaim"} /\ v \in newly[r]
ClaimsJustified ==
  Serving => \A v \in Volume : held[v] # Nobody => Justified(v, held[v])

\* The reconcile collects claims of configured mounts only.
SeedJustified ==
  phase = "inspecting" =>
    \A v \in Volume : seed[v] # Nobody => v \in mounts[seed[v]]

AbsentMountsNothing == \A s \in Sandbox : ~Exists(s) => mounts[s] = {}

\* Only a create or start claims; a start claims what its sandbox mounts all
\* along, and the sandbox a create made has no claims but that request's.
ClaimsTraced(r) ==
  /\ newly[r] # {} => req[r].op \in {"create", "start"} /\ pc[r] \in Claiming
  /\ newly[r] \subseteq vols[r]
  /\ req[r].op = "start" /\ pc[r] \in {"claim", "lock", "run", "unclaim"}
       => vols[r] \subseteq mounts[req[r].box]
  /\ pc[r] \in {"keys", "rollback"} =>
       \A v \in Volume : held[v] = req[r].box => v \in newly[r]
AllClaimsTraced == \A r \in Request : ClaimsTraced(r)

TidyInv ==
  /\ TypeOK
  /\ GateClosed
  /\ NamesApart
  /\ WellPlaced
  /\ AbsentMountsNothing
  /\ AllClaimsTraced
  /\ SeedJustified
  /\ ClaimsJustified
=============================================================================
