---------------------------- MODULE ControlPlane ----------------------------
(***************************************************************************)
(* The msb-manager process: the HTTP handlers that change state             *)
(* (internal/server), the volume lock they share (internal/lock), the       *)
(* mutex of the msb adapter (internal/msb), the start-up reconcile, and     *)
(* shutdowns and crashes (cmd/msb-manager), over the msb runtime (Msb).     *)
(*                                                                          *)
(* A request slot is the goroutine net/http runs a handler on.  A handler   *)
(* touches shared state at these points only, and each is one step: a call  *)
(* to the volume lock, taking the adapter's mutex, an msb command that      *)
(* runs under it, a read-only msb command.  Giving the mutex back is part   *)
(* of the step of the last command run under it.                            *)
(***************************************************************************)
EXTENDS VolumeLock, Msb, FiniteSets, Naturals

CONSTANTS
  Request,            \* request slots: how many handlers run at a time
  Ops,                \* the operations clients ask for
  Cuttable,           \* commands that may fail with their effect unknown
  Mishaps,            \* what happens to sandboxes behind the manager's back
  LateBoots,          \* whether the service may come back while a sandbox it
                      \* created is still booting
  OneRequestPerName   \* whether clients wait for the answer about a sandbox
                      \* before they ask for something else on it

LifecycleOp == {"create", "start", "stop", "delete"}
VolumeOp == {"volume_create", "volume_delete"}
\* "plain" is a command under the mutex that changes nothing modelled here:
\* exec, snapshot create and snapshot rm.
AllOps == LifecycleOp \cup VolumeOp \cup {"plain"}

ASSUME ControlPlaneAssumption ==
  /\ Nobody \notin Request
  /\ Ops \subseteq AllOps
  /\ Cuttable \subseteq LifecycleOp \cup {"rollback"}
  /\ Mishaps \subseteq {"guest_exit", "removed_by_hand"}
  /\ LateBoots \in BOOLEAN
  /\ OneRequestPerName \in BOOLEAN

VARIABLES
  phase,   \* of the process: down, listing, inspecting, serving, draining
  todo,    \* sandboxes the reconcile listed as running and has to inspect
  seed,    \* the claims the reconcile has collected
  held,    \* the volume lock
  mutex,   \* the request that holds the adapter's mutex
  pc,      \* where each request is
  req,     \* what each request asks for
  vols,    \* the volumes each request is about
  newly    \* the volumes each request newly claimed

procVars == <<phase, todo, seed>>
aimVars == <<req, vols, newly>>
vars == <<phase, todo, seed, held, mutex, pc, req, vols, newly,
          status, mounts, disk>>

Phase == {"down", "listing", "inspecting", "serving", "draining"}

PC == {"idle", "inspect", "claim", "holder", "lock", "run", "keys",
       "rollback", "unclaim", "release"}

\* box: the sandbox of a lifecycle request; keys: whether a create has ssh
\* keys to install.
Asking == [op : AllOps \cup {"none"}, box : Sandbox \cup {Nobody}, keys : BOOLEAN]

NoRequest == [op |-> "none", box |-> Nobody, keys |-> FALSE]

TypeOK ==
  /\ phase \in Phase
  /\ todo \in SUBSET Sandbox
  /\ seed \in Holding
  /\ held \in Holding
  /\ mutex \in Request \cup {Nobody}
  /\ pc \in [Request -> PC]
  /\ req \in [Request -> Asking]
  /\ vols \in [Request -> SUBSET Volume]
  /\ newly \in [Request -> SUBSET Volume]
  /\ MsbTypeOK

Init ==
  /\ phase = "down"
  /\ todo = {}
  /\ seed = Unclaimed
  /\ held = Unclaimed
  /\ mutex = Nobody
  /\ pc = [r \in Request |-> "idle"]
  /\ req = [r \in Request |-> NoRequest]
  /\ vols = [r \in Request |-> {}]
  /\ newly = [r \in Request |-> {}]
  /\ MsbInit

-----------------------------------------------------------------------------
(* The process: start-up, shutdown, crash.                                  *)

Serving == phase \in {"serving", "draining"}

\* main: a fresh lock, then the reconcile.  systemd waits before it brings the
\* service back (RestartSec), long enough for a boot to end unless LateBoots.
Boot ==
  /\ phase = "down"
  /\ LateBoots \/ \A s \in Sandbox : ~Booting(s)
  /\ phase' = "listing"
  /\ held' = Unclaimed
  /\ UNCHANGED <<todo, seed, mutex, pc, aimVars, msbVars>>

\* reconcileVolumes: msb ls; only what it reports as running is looked at, so a
\* sandbox that is still booting is passed over.
ListRunning ==
  /\ phase = "listing"
  /\ phase' = "inspecting"
  /\ todo' = {s \in Sandbox : Running(s)}
  /\ seed' = Unclaimed
  /\ UNCHANGED <<held, mutex, pc, aimVars, msbVars>>

\* msb inspect of one listed sandbox, which may have stopped since.
InspectListed(s) ==
  /\ phase = "inspecting"
  /\ s \in todo
  /\ Exists(s)
  /\ todo' = todo \ {s}
  /\ seed' = Acquired(seed, mounts[s], s)
  /\ UNCHANGED <<phase, held, mutex, pc, aimVars, msbVars>>

\* Any failed msb call abandons the attempt; after the backoff it starts over.
ReconcileFailed ==
  /\ phase = "inspecting"
  /\ todo # {}
  /\ phase' = "listing"
  /\ todo' = {}
  /\ seed' = Unclaimed
  /\ UNCHANGED <<held, mutex, pc, aimVars, msbVars>>

ServeUnseeded ==                                                    \* mutant
  /\ phase = "inspecting"
  /\ phase' = "serving"
  /\ todo' = {}
  /\ seed' = Unclaimed
  /\ UNCHANGED <<held, mutex, pc, aimVars, msbVars>>

\* VolumeLock.Reconcile replaces every claim; only then the listener starts.
Serve ==
  /\ phase = "inspecting"
  /\ todo = {}
  /\ phase' = "serving"
  /\ held' = seed
  /\ seed' = Unclaimed
  /\ UNCHANGED <<todo, mutex, pc, aimVars, msbVars>>

\* SIGTERM: srv.Shutdown takes no new request and waits for those in flight.
Drain ==
  /\ phase = "serving"
  /\ phase' = "draining"
  /\ UNCHANGED <<todo, seed, held, mutex, pc, aimVars, msbVars>>

\* A crash, the end of the drain (complete or out of time), or a signal
\* during start-up.  Handlers in flight end where they are and the service's
\* child processes with them: a command that had taken effect already is the
\* command's own step followed by this one.
Exit ==
  /\ phase # "down"
  /\ phase' = "down"
  /\ todo' = {}
  /\ seed' = Unclaimed
  /\ held' = Unclaimed
  /\ mutex' = Nobody
  /\ pc' = [r \in Request |-> "idle"]
  /\ req' = [r \in Request |-> NoRequest]
  /\ vols' = [r \in Request |-> {}]
  /\ newly' = [r \in Request |-> {}]
  /\ UNCHANGED msbVars

-----------------------------------------------------------------------------
(* The handlers.                                                            *)

Goto(r, p) == pc' = [pc EXCEPT ![r] = p]

\* The handler has written its response.
Finish(r) ==
  /\ Goto(r, "idle")
  /\ req' = [req EXCEPT ![r] = NoRequest]
  /\ vols' = [vols EXCEPT ![r] = {}]
  /\ newly' = [newly EXCEPT ![r] = {}]

\* Between the commands of one adapter method the mutex stays taken; when the
\* method returns, its deferred Unlock has run, and the handler goes on at p or
\* has nothing left to do but answer.
LetGo == mutex' = Nobody                                            \* mutant
Hold == UNCHANGED mutex
Unlock == mutex' = Nobody
ReturnTo(r, p) == Unlock /\ Goto(r, p) /\ UNCHANGED aimVars
ReturnAndFinish(r) == Unlock /\ Finish(r)

\* Requests that are past authentication, parsing and validation.  A spec
\* names at most one volume (volumesFromSpec); a start finds its volumes out.
WellFormed(op, s, vs, k) ==
  /\ s \in Sandbox <=> op \in LifecycleOp
  /\ k => op = "create"
  /\ op = "create" => vs = {} \/ \E v \in Volume : vs = {v}
  /\ op \in VolumeOp => \E v \in Volume : vs = {v}
  /\ op \notin VolumeOp \cup {"create"} => vs = {}

\* What the handler of an operation does first.
FirstStep(op) ==
  IF op = "create" THEN "claim"
  ELSE IF op = "start" THEN "inspect"
  ELSE IF op = "volume_delete" THEN "holder" ELSE "lock"

\* Nobody else is asking for anything of this sandbox.
Undisputed(r, s) ==
  \A q \in Request \ {r} : pc[q] # "idle" => req[q].box # s

Accept(r) ==
  /\ phase = "serving"
  /\ pc[r] = "idle"
  /\ \E op \in Ops, s \in Sandbox \cup {Nobody}, vs \in SUBSET Volume,
        k \in BOOLEAN :
       /\ WellFormed(op, s, vs, k)
       /\ OneRequestPerName /\ s # Nobody => Undisputed(r, s)
       /\ req' = [req EXCEPT ![r] = [op |-> op, box |-> s, keys |-> k]]
       /\ vols' = [vols EXCEPT ![r] = vs]
       /\ Goto(r, FirstStep(op))
  /\ UNCHANGED <<procVars, held, mutex, newly, msbVars>>

\* handleStartSandbox looks the sandbox's volumes up, or gives up.
Inspect(r) ==
  /\ pc[r] = "inspect"
  /\ \/ /\ Exists(req[r].box)
        /\ vols' = [vols EXCEPT ![r] = mounts[req[r].box]]
        /\ Goto(r, "claim")
        /\ UNCHANGED <<req, newly>>
     \/ Finish(r)
  /\ UNCHANGED <<procVars, held, mutex, msbVars>>

\* AcquireMany, all or nothing; a conflict is answered 409.
Claim(r) ==
  /\ pc[r] = "claim"
  /\ \/ /\ ~VolumeBusy(held, vols[r], req[r].box)
        /\ held' = Acquired(held, vols[r], req[r].box)
        /\ newly' = [newly EXCEPT ![r] = NewlyClaimed(held, vols[r])]
        /\ Goto(r, "lock")
        /\ UNCHANGED <<req, vols>>
     \/ /\ VolumeBusy(held, vols[r], req[r].box)
        /\ Finish(r)
        /\ UNCHANGED held
  /\ UNCHANGED <<procVars, mutex, msbVars>>

\* handleDeleteVolume asks for the holder, and claims nothing itself.
CheckHolder(r) ==
  /\ pc[r] = "holder"
  /\ IF \E v \in vols[r] : Held(held, v)
       THEN Finish(r)
       ELSE Goto(r, "lock") /\ UNCHANGED aimVars
  /\ UNCHANGED <<procVars, held, mutex, msbVars>>

\* c.mu.Lock() at the head of every mutating method.
AlwaysFree == TRUE                                                  \* mutant
MutexFree == mutex = Nobody
Lock(r) ==
  /\ pc[r] = "lock"
  /\ MutexFree
  /\ mutex' = r
  /\ Goto(r, "run")
  /\ UNCHANGED <<procVars, held, aimVars, msbVars>>

Runs(r, op) == pc[r] = "run" /\ req[r].op = op

\* Client.Create: the sandbox is made, and its keys are installed next, or it
\* is done; the command fails; it is killed after it took effect.
RunCreate(r) ==
  /\ Runs(r, "create")
  /\ \/ /\ CanCreate(req[r].box, vols[r])
        /\ CreateEffect(req[r].box, vols[r])
        /\ \/ req[r].keys /\ Goto(r, "keys") /\ Hold /\ UNCHANGED aimVars
           \/ ~req[r].keys /\ ReturnAndFinish(r)
           \/ "create" \in Cuttable /\ ReturnTo(r, "unclaim")
     \/ UNCHANGED msbVars /\ ReturnTo(r, "unclaim")
  /\ UNCHANGED <<procVars, held>>

\* The exec that installs the keys, under the same hold of the mutex.
InstallKeys(r) ==
  /\ pc[r] = "keys"
  /\ \/ Running(req[r].box) /\ ReturnAndFinish(r)
     \/ Goto(r, "rollback") /\ Hold /\ UNCHANGED aimVars
  /\ UNCHANGED <<procVars, held, msbVars>>

\* rm -f of what create made; its failure is logged and no more.
Rollback(r) ==
  /\ pc[r] = "rollback"
  /\ \/ RemoveEffect(req[r].box)
     \/ "rollback" \in Cuttable /\ UNCHANGED msbVars
  /\ ReturnTo(r, "unclaim")
  /\ UNCHANGED <<procVars, held>>

RunStart(r) ==
  /\ Runs(r, "start")
  /\ \/ /\ CanStart(req[r].box)
        /\ StartEffect(req[r].box)
        /\ \/ ReturnAndFinish(r)
           \/ "start" \in Cuttable /\ ReturnTo(r, "unclaim")
     \/ UNCHANGED msbVars /\ ReturnTo(r, "unclaim")
  /\ UNCHANGED <<procVars, held>>

ReleaseWhateverHappened(r) ==                                       \* mutant
  /\ Runs(r, "stop")
  /\ StopEffect(req[r].box) \/ UNCHANGED msbVars
  /\ ReturnTo(r, "release")
  /\ UNCHANGED <<procVars, held>>

\* Success and "sandbox not found" both lead to Release; every other failure
\* leaves the claims as they are.
RunStop(r) ==
  /\ Runs(r, "stop")
  /\ \/ /\ Exists(req[r].box)
        /\ StopEffect(req[r].box)
        /\ \/ ReturnTo(r, "release")
           \/ "stop" \in Cuttable /\ ReturnAndFinish(r)
     \/ /\ ~Exists(req[r].box)
        /\ UNCHANGED msbVars
        /\ ReturnTo(r, "release")
     \/ UNCHANGED msbVars /\ ReturnAndFinish(r)
  /\ UNCHANGED <<procVars, held>>

RunDelete(r) ==
  /\ Runs(r, "delete")
  /\ \/ /\ CanRemove(req[r].box)
        /\ RemoveEffect(req[r].box)
        /\ \/ ReturnTo(r, "release")
           \/ "delete" \in Cuttable /\ ReturnAndFinish(r)
     \/ /\ ~Exists(req[r].box)
        /\ UNCHANGED msbVars
        /\ ReturnTo(r, "release")
     \/ UNCHANGED msbVars /\ ReturnAndFinish(r)
  /\ UNCHANGED <<procVars, held>>

\* The commands whose outcome changes no claim: done or failed, it only
\* shows in msb.
RunOther(r) ==
  /\ pc[r] = "run"
  /\ \/ /\ req[r].op = "volume_create"
        /\ \E v \in vols[r] : VolumeCreateEffect(v)
     \/ /\ req[r].op = "volume_delete"
        /\ \E v \in vols[r] : VolumeRmEffect(v)
     \/ /\ req[r].op \in VolumeOp \cup {"plain"}
        /\ UNCHANGED msbVars
  /\ ReturnAndFinish(r)
  /\ UNCHANGED <<procVars, held>>

\* A failed create or start takes back the claims it newly made.
Unclaim(r) ==
  /\ pc[r] = "unclaim"
  /\ held' = ReleasedVolumes(held, newly[r], req[r].box)
  /\ Finish(r)
  /\ UNCHANGED <<procVars, mutex, msbVars>>

\* A stop or delete gives back every claim of the sandbox.
Release(r) ==
  /\ pc[r] = "release"
  /\ held' = Released(held, req[r].box)
  /\ Finish(r)
  /\ UNCHANGED <<procVars, mutex, msbVars>>

-----------------------------------------------------------------------------
(* What happens to sandboxes behind the manager's back.                     *)

BootEnds(s) ==
  /\ Booting(s)
  /\ BootEffect(s)
  /\ UNCHANGED <<procVars, held, mutex, pc, aimVars>>

GuestExit(s) ==
  /\ "guest_exit" \in Mishaps
  /\ Running(s)
  /\ StopEffect(s)
  /\ UNCHANGED <<procVars, held, mutex, pc, aimVars>>

\* An operator runs msb rm -f on the host.
RemovedByHand(s) ==
  /\ "removed_by_hand" \in Mishaps
  /\ Exists(s)
  /\ RemoveEffect(s)
  /\ UNCHANGED <<procVars, held, mutex, pc, aimVars>>

-----------------------------------------------------------------------------
Process ==
  \/ Boot \/ ListRunning \/ ReconcileFailed \/ Serve \/ Drain \/ Exit
  \/ \E s \in Sandbox : InspectListed(s)

\* The steps a handler takes on its own, other than waiting for the mutex.
Proceed(r) ==
  \/ Inspect(r) \/ Claim(r) \/ CheckHolder(r)
  \/ RunCreate(r) \/ InstallKeys(r) \/ Rollback(r) \/ RunStart(r)
  \/ RunStop(r) \/ RunDelete(r) \/ RunOther(r)
  \/ Unclaim(r) \/ Release(r)

Handler(r) == Accept(r) \/ Lock(r) \/ Proceed(r)

Environment == \E s \in Sandbox : BootEnds(s) \/ GuestExit(s) \/ RemovedByHand(s)

Next == Process \/ Environment \/ \E r \in Request : Handler(r)

Spec == Init /\ [][Next]_vars

\* A handler runs on: every msb command ends, at the latest at its timeout
\* (Client.run), and a sync.Mutex does not starve a waiter, since it is handed
\* to the longest waiting goroutine after 1ms.  Nothing makes clients ask,
\* guests exit or the process start or end.
Fairness == \A r \in Request : WF_vars(Proceed(r)) /\ SF_vars(Lock(r))

FairSpec == Spec /\ Fairness
=============================================================================
