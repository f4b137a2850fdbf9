------------------------- MODULE ControlPlaneProofs -------------------------
(***************************************************************************)
(* Proofs about ControlPlane, for every set of sandboxes, volumes and        *)
(* request slots.                                                            *)
(***************************************************************************)
EXTENDS ControlPlaneSafety, TLAPS

-----------------------------------------------------------------------------
(* Type correctness, for any clients and any failures.                       *)

\* What msb does to its own state keeps it well-typed.
LEMMA MsbType ==
  ASSUME MsbTypeOK, NEW s \in Sandbox, NEW vs \in SUBSET Volume
  PROVE  /\ CreateEffect(s, vs) => MsbTypeOK'
         /\ BootEffect(s) => MsbTypeOK'
         /\ StartEffect(s) => MsbTypeOK'
         /\ StopEffect(s) => MsbTypeOK'
         /\ RemoveEffect(s) => MsbTypeOK'
BY DEF MsbTypeOK, Status, CreateEffect, BootEffect, StartEffect, StopEffect, RemoveEffect

LEMMA MsbVolumeType ==
  ASSUME MsbTypeOK, NEW v \in Volume
  PROVE  VolumeCreateEffect(v) \/ VolumeRmEffect(v) => MsbTypeOK'
BY DEF MsbTypeOK, VolumeCreateEffect, VolumeRmEffect

\* The volume lock's methods return holdings.
LEMMA LockType ==
  ASSUME NEW h \in Holding, NEW vs \in SUBSET Volume, NEW s \in Sandbox \cup {Nobody}
  PROVE  /\ Unclaimed \in Holding
         /\ Acquired(h, vs, s) \in Holding
         /\ NewlyClaimed(h, vs) \in SUBSET vs
         /\ Released(h, s) \in Holding
         /\ ReleasedVolumes(h, vs, s) \in Holding
BY DEF Holding, Unclaimed, Acquired, NewlyClaimed, Released, ReleasedVolumes

LEMMA TypeInit == Init => TypeOK
BY LockType DEF Init, TypeOK, Phase, PC, Asking, NoRequest, MsbInit,
  AllOps, Unclaimed, Holding

LEMMA TypeProcess == TypeOK /\ Process => TypeOK'
<1> SUFFICES ASSUME TypeOK, Process PROVE TypeOK'
  OBVIOUS
<1> USE DEF TypeOK, Phase, msbVars, aimVars, MsbTypeOK
<1>0. Unclaimed \in Holding
  BY DEF Unclaimed, Holding
<1>1. CASE Boot BY <1>0, <1>1 DEF Boot
<1>2. CASE ListRunning BY <1>0, <1>2 DEF ListRunning
<1>3. CASE ReconcileFailed BY <1>0, <1>3 DEF ReconcileFailed
<1>4. CASE Serve BY <1>0, <1>4 DEF Serve
<1>5. CASE Drain BY <1>5 DEF Drain
<1>6. CASE Exit BY <1>0, <1>6 DEF Exit, PC, Asking, NoRequest
<1>7. ASSUME NEW s \in Sandbox, InspectListed(s) PROVE TypeOK'
  <2>1. Acquired(seed, mounts[s], s) \in Holding
    BY LockType
  <2> QED BY <1>7, <2>1 DEF InspectListed
<1> QED BY <1>1, <1>2, <1>3, <1>4, <1>5, <1>6, <1>7 DEF Process

\* What a handler keeps in its own variables is well-typed.
LocalType ==
  /\ pc \in [Request -> PC]
  /\ req \in [Request -> Asking]
  /\ vols \in [Request -> SUBSET Volume]
  /\ newly \in [Request -> SUBSET Volume]

LEMMA MovesType ==
  ASSUME LocalType, NEW r \in Request
  PROVE  /\ Finish(r) => LocalType'
         /\ ReturnAndFinish(r) => LocalType' /\ mutex' = Nobody
         /\ \A p \in PC : Goto(r, p) => pc' \in [Request -> PC]
         /\ \A p \in PC : ReturnTo(r, p) => LocalType' /\ mutex' = Nobody
<1>1. Finish(r) => LocalType'
  BY DEF LocalType, Finish, Goto, PC, Asking, NoRequest
<1>2. \A p \in PC : Goto(r, p) => pc' \in [Request -> PC]
  BY DEF LocalType, Goto
<1> QED
  BY <1>1, <1>2 DEF LocalType, ReturnAndFinish, ReturnTo, Unlock, aimVars

\* A handler step keeps the shared variables and its own well-typed.
LEMMA TypeHandler ==
  ASSUME TypeOK, WellPlaced, NEW r \in Request, Handler(r)
  PROVE  TypeOK'
<1> DEFINE SharedType == /\ phase' \in Phase /\ todo' \in SUBSET Sandbox
                         /\ seed' \in Holding /\ held' \in Holding
                         /\ mutex' \in Request \cup {Nobody}
<1>0. LocalType /\ MsbTypeOK
  BY DEF TypeOK, LocalType
<1>1. SUFFICES SharedType /\ LocalType' /\ MsbTypeOK'
  BY DEF TypeOK, LocalType
<1>b. req[r].box \in Sandbox \cup {Nobody} /\ vols[r] \in SUBSET Volume
  BY <1>0 DEF LocalType, Asking
<1>w. newly[r] \in SUBSET Volume
  BY <1>0 DEF LocalType
<1>p. {"idle", "inspect", "claim", "holder", "lock", "run", "keys",
       "rollback", "unclaim", "release"} = PC
  BY DEF PC
<1> USE DEF procVars, aimVars, msbVars
<1>a. CASE Accept(r)
  <2>1. ASSUME NEW op \in AllOps PROVE FirstStep(op) \in PC
    BY DEF FirstStep, PC
  <2> QED
    BY <1>0, <1>a, <2>1, MovesType, ControlPlaneAssumption
    DEF Accept, LocalType, MsbTypeOK, TypeOK, Asking
<1>c. CASE Inspect(r)
  <2>1. req[r].box \in Sandbox
    BY <1>c DEF Inspect, WellPlaced, Placed, LifecycleOp
  <2> QED
    BY <1>0, <1>c, <1>p, <2>1, MovesType DEF Inspect, LocalType, MsbTypeOK, TypeOK
<1>d. CASE Claim(r)
  BY <1>0, <1>b, <1>d, <1>p, MovesType, LockType DEF Claim, LocalType, MsbTypeOK, TypeOK
<1>e. CASE CheckHolder(r)
  BY <1>0, <1>e, <1>p, MovesType DEF CheckHolder, LocalType, MsbTypeOK, TypeOK
<1>f. CASE Lock(r)
  BY <1>0, <1>f, <1>p, MovesType DEF Lock, LocalType, MsbTypeOK, TypeOK
<1>s. \/ req[r].op \in LifecycleOp
      \/ pc[r] \in {"inspect", "claim", "keys", "rollback", "unclaim", "release"}
      => req[r].box \in Sandbox
  BY DEF WellPlaced, Placed, LifecycleOp
<1>g. CASE RunCreate(r)
  <2>1. req[r].box \in Sandbox
    BY <1>g, <1>s DEF RunCreate, Runs, LifecycleOp
  <2> QED
    BY <1>0, <1>b, <1>g, <1>p, <2>1, MovesType, MsbType
    DEF RunCreate, TypeOK, Hold, LocalType, MsbTypeOK
<1>h. CASE InstallKeys(r)
  BY <1>0, <1>h, <1>p, MovesType DEF InstallKeys, TypeOK, Hold, LocalType, MsbTypeOK
<1>i. CASE Rollback(r)
  BY <1>0, <1>i, <1>p, <1>s, MovesType, MsbType DEF Rollback, TypeOK, MsbTypeOK
<1>j. CASE RunStart(r)
  <2>1. req[r].box \in Sandbox
    BY <1>j, <1>s DEF RunStart, Runs, LifecycleOp
  <2> QED
    BY <1>0, <1>j, <1>p, <2>1, MovesType, MsbType DEF RunStart, TypeOK, MsbTypeOK
<1>k. CASE RunStop(r)
  <2>1. req[r].box \in Sandbox
    BY <1>k, <1>s DEF RunStop, Runs, LifecycleOp
  <2> QED
    BY <1>0, <1>k, <1>p, <2>1, MovesType, MsbType DEF RunStop, TypeOK, MsbTypeOK
<1>l. CASE RunDelete(r)
  <2>1. req[r].box \in Sandbox
    BY <1>l, <1>s DEF RunDelete, Runs, LifecycleOp
  <2> QED
    BY <1>0, <1>l, <1>p, <2>1, MovesType, MsbType DEF RunDelete, TypeOK, MsbTypeOK
<1>m. CASE RunOther(r)
  BY <1>0, <1>b, <1>m, <1>p, MovesType, MsbVolumeType DEF RunOther, TypeOK, MsbTypeOK
<1>n. CASE Unclaim(r)
  BY <1>0, <1>n, <1>p, MovesType, LockType, <1>s, <1>w DEF Unclaim, TypeOK, LocalType, MsbTypeOK
<1>o. CASE Release(r)
  BY <1>0, <1>b, <1>o, <1>p, MovesType, LockType DEF Release, TypeOK, LocalType, MsbTypeOK
<1> QED
  BY <1>a, <1>c, <1>d, <1>e, <1>f, <1>g, <1>h, <1>i, <1>j, <1>k, <1>l, <1>m, <1>n,
     <1>o DEF Handler, Proceed

\* The request of a step moves; every other request stays as it was.
OthersStay(r) ==
  \A q \in Request \ {r} :
    /\ pc'[q] = pc[q] /\ req'[q] = req[q]
    /\ vols'[q] = vols[q] /\ newly'[q] = newly[q]

LEMMA OnlyOneMoves ==
  ASSUME LocalType, NEW r \in Request, Handler(r)
  PROVE  OthersStay(r)
<1> USE DEF LocalType, OthersStay, Goto, aimVars
<1>1. Finish(r) => OthersStay(r)
  BY DEF Finish
<1>2. ReturnAndFinish(r) => OthersStay(r)
  BY <1>1 DEF ReturnAndFinish
<1>3. \A p : ReturnTo(r, p) => OthersStay(r)
  BY DEF ReturnTo
<1>4. CASE Accept(r) BY <1>4 DEF Accept
<1>5. CASE Inspect(r) BY <1>1, <1>5 DEF Inspect
<1>6. CASE Claim(r) BY <1>1, <1>6 DEF Claim
<1>7. CASE CheckHolder(r) BY <1>1, <1>7 DEF CheckHolder
<1>8. CASE Lock(r) BY <1>8 DEF Lock
<1>9. CASE RunCreate(r) BY <1>2, <1>3, <1>9 DEF RunCreate
<1>10. CASE InstallKeys(r) BY <1>2, <1>10 DEF InstallKeys
<1>11. CASE Rollback(r) BY <1>3, <1>11 DEF Rollback
<1>12. CASE RunStart(r) BY <1>2, <1>3, <1>12 DEF RunStart
<1>13. CASE RunStop(r) BY <1>2, <1>3, <1>13 DEF RunStop
<1>14. CASE RunDelete(r) BY <1>2, <1>3, <1>14 DEF RunDelete
<1>15. CASE RunOther(r) BY <1>2, <1>15 DEF RunOther
<1>16. CASE Unclaim(r) BY <1>1, <1>16 DEF Unclaim
<1>17. CASE Release(r) BY <1>1, <1>17 DEF Release
<1> QED
  BY <1>4, <1>5, <1>6, <1>7, <1>8, <1>9, <1>10, <1>11, <1>12, <1>13, <1>14, <1>15,
     <1>16, <1>17 DEF Handler, Proceed

LEMMA PlacedHandler ==
  ASSUME TypeOK, WellPlaced, NEW r \in Request, Handler(r)
  PROVE  WellPlaced'
<1>0. LocalType /\ OthersStay(r)
  BY OnlyOneMoves DEF TypeOK, LocalType
<1>1. SUFFICES Placed(r)'
  BY <1>0 DEF WellPlaced, Placed, OthersStay
<1> USE DEF Placed, LocalType
<1>2. Placed(r)
  BY DEF WellPlaced
<1>3. Finish(r) => Placed(r)'
  BY <1>0, NobodyAssumption DEF Finish, Goto, NoRequest, LifecycleOp
<1>4. ReturnAndFinish(r) => Placed(r)'
  BY <1>3 DEF ReturnAndFinish
<1>5. \A p : Goto(r, p) => pc'[r] = p
  BY <1>0 DEF Goto
<1>6. \A p : ReturnTo(r, p) => pc'[r] = p /\ req' = req
  BY <1>5 DEF ReturnTo, aimVars
<1> USE DEF aimVars
<1>a. CASE Accept(r)
  BY <1>0, <1>5, <1>a DEF Accept, FirstStep, WellFormed, LifecycleOp, Asking
<1>c. CASE Inspect(r) BY <1>2, <1>3, <1>5, <1>c DEF Inspect
<1>d. CASE Claim(r) BY <1>2, <1>3, <1>5, <1>d DEF Claim
<1>e. CASE CheckHolder(r) BY <1>2, <1>3, <1>5, <1>e DEF CheckHolder
<1>f. CASE Lock(r) BY <1>2, <1>5, <1>f DEF Lock
<1>g. CASE RunCreate(r) BY <1>2, <1>4, <1>5, <1>6, <1>g DEF RunCreate, Runs
<1>h. CASE InstallKeys(r) BY <1>2, <1>4, <1>5, <1>h DEF InstallKeys
<1>i. CASE Rollback(r) BY <1>2, <1>6, <1>i DEF Rollback
<1>j. CASE RunStart(r) BY <1>2, <1>4, <1>6, <1>j DEF RunStart, Runs
<1>k. CASE RunStop(r) BY <1>2, <1>4, <1>6, <1>k DEF RunStop, Runs
<1>l. CASE RunDelete(r) BY <1>2, <1>4, <1>6, <1>l DEF RunDelete, Runs
<1>m. CASE RunOther(r) BY <1>4, <1>m DEF RunOther
<1>n. CASE Unclaim(r) BY <1>3, <1>n DEF Unclaim
<1>o. CASE Release(r) BY <1>3, <1>o DEF Release
<1> QED
  BY <1>a, <1>c, <1>d, <1>e, <1>f, <1>g, <1>h, <1>i, <1>j, <1>k, <1>l, <1>m, <1>n,
     <1>o DEF Handler, Proceed

-----------------------------------------------------------------------------
(* The inductive invariant, for disciplined clients and commands.            *)

\* A handler step changes nothing of other sandboxes: not what msb says about
\* them, and not their claims.
KeepsOthers(b) ==
  /\ \A s \in Sandbox \ {b} : status'[s] = status[s] /\ mounts'[s] = mounts[s]
  /\ \A v \in Volume : held[v] \notin {Nobody, b} => held'[v] = held[v]

LEMMA HandlerKeepsOthers ==
  ASSUME TypeOK, NEW r \in Request, Handler(r), pc[r] # "idle"
  PROVE  KeepsOthers(req[r].box)
<1> USE DEF TypeOK, MsbTypeOK, KeepsOthers, msbVars
<1>1. ASSUME NEW b,
             \/ \E vs : CreateEffect(b, vs)
             \/ StartEffect(b) \/ StopEffect(b) \/ RemoveEffect(b) \/ UNCHANGED msbVars
      PROVE  \A s \in Sandbox \ {b} : status'[s] = status[s] /\ mounts'[s] = mounts[s]
  BY <1>1 DEF CreateEffect, StartEffect, StopEffect, RemoveEffect
<1>a. CASE Accept(r) BY <1>a DEF Accept
<1>c. CASE Inspect(r) BY <1>c DEF Inspect
<1>d. CASE Claim(r) BY <1>d DEF Claim, Acquired, VolumeBusy, Holding
<1>e. CASE CheckHolder(r) BY <1>e DEF CheckHolder
<1>f. CASE Lock(r) BY <1>f DEF Lock
<1>g. CASE RunCreate(r) BY <1>1, <1>g DEF RunCreate
<1>h. CASE InstallKeys(r) BY <1>h DEF InstallKeys
<1>i. CASE Rollback(r) BY <1>1, <1>i DEF Rollback
<1>j. CASE RunStart(r) BY <1>1, <1>j DEF RunStart
<1>k. CASE RunStop(r) BY <1>1, <1>k DEF RunStop
<1>l. CASE RunDelete(r) BY <1>1, <1>l DEF RunDelete
<1>m. CASE RunOther(r) BY <1>m DEF RunOther, VolumeCreateEffect, VolumeRmEffect
<1>n. CASE Unclaim(r) BY <1>n DEF Unclaim, ReleasedVolumes, Holding
<1>o. CASE Release(r) BY <1>o DEF Release, Released, Holding
<1> QED
  BY <1>a, <1>c, <1>d, <1>e, <1>f, <1>g, <1>h, <1>i, <1>j, <1>k, <1>l, <1>m, <1>n,
     <1>o DEF Handler, Proceed

\* The sandbox a handler works on: its claims cover what it mounts after the
\* step as well, and a step on the way to Release leaves it not running.
Covered(b) == \A v \in Mounted(b) : held[v] = b

LEMMA OwnSandbox ==
  ASSUME Disciplined, TypeOK, WellPlaced, ClaimsHeld, ReleaseIsSafe,
         NEW r \in Request, Handler(r), pc[r] # "idle",
         NEW b \in Sandbox, req[r].box = b, Covered(b)
  PROVE  Covered(b)' /\ (pc'[r] = "release" => ~Up(b)')
<1> USE DEF TypeOK, MsbTypeOK, Covered, Mounted, Up, Booting, Running, msbVars
<1>0. Placed(r) /\ HoldsClaims(r)
  BY DEF WellPlaced, ClaimsHeld
<1>1. UNCHANGED <<msbVars, held>> => Covered(b)'
  OBVIOUS
<1>2. \A p : Goto(r, p) => pc'[r] = p
  BY DEF Goto
<1>3. Finish(r) \/ ReturnAndFinish(r) => pc'[r] # "release"
  BY <1>2 DEF Finish, ReturnAndFinish
<1>4. \A p : ReturnTo(r, p) => pc'[r] = p
  BY <1>2 DEF ReturnTo
<1>a. CASE Accept(r) BY <1>a DEF Accept
<1>c. CASE Inspect(r) BY <1>1, <1>2, <1>3, <1>c DEF Inspect
<1>d. CASE Claim(r)
  BY <1>2, <1>3, <1>d DEF Claim, Acquired, VolumeBusy, Holding
<1>e. CASE CheckHolder(r) BY <1>1, <1>2, <1>3, <1>e DEF CheckHolder
<1>f. CASE Lock(r) BY <1>1, <1>2, <1>f DEF Lock
<1>g. CASE RunCreate(r)
  BY <1>0, <1>1, <1>2, <1>3, <1>4, <1>g
  DEF RunCreate, Runs, CreateEffect, HoldsClaims, Claiming
<1>h. CASE InstallKeys(r) BY <1>1, <1>2, <1>3, <1>h DEF InstallKeys
<1>i. CASE Rollback(r) BY <1>1, <1>4, <1>i DEF Rollback, RemoveEffect
<1>j. CASE RunStart(r)
  BY <1>0, <1>1, <1>3, <1>4, <1>j
  DEF RunStart, Runs, StartEffect, HoldsClaims, Claiming
<1>k. CASE RunStop(r)
  BY <1>1, <1>3, <1>4, <1>k DEF RunStop, StopEffect, Exists
<1>l. CASE RunDelete(r)
  BY <1>1, <1>3, <1>4, <1>l DEF RunDelete, RemoveEffect, Exists
<1>m. CASE RunOther(r)
  BY <1>3, <1>m DEF RunOther, VolumeCreateEffect, VolumeRmEffect
<1>n. CASE Unclaim(r)
  BY <1>0, <1>3, <1>n
  DEF Unclaim, ReleasedVolumes, Holding, Placed, HoldsClaims
<1>o. CASE Release(r)
  BY <1>3, <1>o DEF Release, ReleaseIsSafe
<1> QED
  BY <1>a, <1>c, <1>d, <1>e, <1>f, <1>g, <1>h, <1>i, <1>j, <1>k, <1>l, <1>m, <1>n,
     <1>o DEF Handler, Proceed

\* What a create or start holds, step by step.
LEMMA OwnClaims ==
  ASSUME Disciplined, TypeOK, WellPlaced, ClaimsHeld, RunningClaimed, Serving,
         NEW r \in Request, Handler(r)
  PROVE  HoldsClaims(r)'
<1> USE DEF TypeOK, MsbTypeOK, Mounted, Up, Booting, Running, msbVars, aimVars, Claiming
<1>0. Placed(r) /\ HoldsClaims(r)
  BY DEF WellPlaced, ClaimsHeld
<1>2. \A p : Goto(r, p) => pc'[r] = p
  BY DEF Goto
<1>3. Finish(r) => HoldsClaims(r)'
  BY DEF Finish, HoldsClaims, NoRequest
<1>4. ReturnAndFinish(r) => HoldsClaims(r)'
  BY <1>3 DEF ReturnAndFinish
<1>5. \A p : ReturnTo(r, p) => pc'[r] = p /\ UNCHANGED aimVars
  BY <1>2 DEF ReturnTo
<1>a. CASE Accept(r)
  BY <1>2, <1>a DEF Accept, FirstStep, HoldsClaims, Asking
<1>c. CASE Inspect(r)
  BY <1>0, <1>2, <1>3, <1>c DEF Inspect, HoldsClaims
<1>d. CASE Claim(r)
  <2>1. req[r].box \in Sandbox /\ req[r].op \in {"create", "start"}
    BY <1>0, <1>d DEF Claim, Placed, LifecycleOp
  <2>2. \A v \in Mounted(req[r].box) : held[v] # Nobody
    BY <2>1, NobodyAssumption DEF RunningClaimed
  <2> QED
    BY <1>0, <1>2, <1>3, <1>d, <2>1, <2>2
    DEF Claim, Acquired, NewlyClaimed, VolumeBusy, Holding, HoldsClaims
<1>e. CASE CheckHolder(r)
  BY <1>0, <1>2, <1>3, <1>e DEF CheckHolder, HoldsClaims, Placed
<1>f. CASE Lock(r)
  BY <1>0, <1>2, <1>f DEF Lock, HoldsClaims
<1>g. CASE RunCreate(r)
  BY <1>0, <1>2, <1>4, <1>5, <1>g
  DEF RunCreate, Runs, CreateEffect, HoldsClaims, Disciplined
<1>h. CASE InstallKeys(r)
  BY <1>0, <1>2, <1>4, <1>h DEF InstallKeys, HoldsClaims
<1>i. CASE Rollback(r)
  <2>1. req[r].box \in Sandbox /\ req[r].op = "create"
    BY <1>0, <1>i DEF Rollback, Placed, LifecycleOp
  <2> QED
    BY <1>0, <1>5, <1>i, <2>1 DEF Rollback, RemoveEffect, HoldsClaims, Disciplined
<1>j. CASE RunStart(r)
  BY <1>0, <1>4, <1>5, <1>j
  DEF RunStart, Runs, StartEffect, HoldsClaims, Disciplined
<1>k. CASE RunStop(r)
  BY <1>0, <1>4, <1>5, <1>k DEF RunStop, Runs, HoldsClaims
<1>l. CASE RunDelete(r)
  BY <1>0, <1>4, <1>5, <1>l DEF RunDelete, Runs, HoldsClaims
<1>m. CASE RunOther(r) BY <1>4, <1>m DEF RunOther
<1>n. CASE Unclaim(r) BY <1>3, <1>n DEF Unclaim
<1>o. CASE Release(r) BY <1>3, <1>o DEF Release
<1> QED
  BY <1>a, <1>c, <1>d, <1>e, <1>f, <1>g, <1>h, <1>i, <1>j, <1>k, <1>l, <1>m, <1>n,
     <1>o DEF Handler, Proceed

\* A request keeps what it asks for until it is answered.
LEMMA AskingKept ==
  ASSUME TypeOK, NEW r \in Request, Proceed(r) \/ Lock(r)
  PROVE  pc[r] # "idle" /\ req'[r] \in {req[r], NoRequest}
<1> USE DEF TypeOK, aimVars
<1>1. Finish(r) => req'[r] = NoRequest
  BY DEF Finish
<1>2. ReturnAndFinish(r) => req'[r] = NoRequest
  BY <1>1 DEF ReturnAndFinish
<1>3. \A p : ReturnTo(r, p) => req' = req
  BY DEF ReturnTo
<1>4. CASE Inspect(r) BY <1>1, <1>4 DEF Inspect
<1>5. CASE Claim(r) BY <1>1, <1>5 DEF Claim
<1>6. CASE CheckHolder(r) BY <1>1, <1>6 DEF CheckHolder
<1>7. CASE Lock(r) BY <1>7 DEF Lock
<1>8. CASE RunCreate(r) BY <1>2, <1>3, <1>8 DEF RunCreate, Runs
<1>9. CASE InstallKeys(r) BY <1>2, <1>9 DEF InstallKeys
<1>10. CASE Rollback(r) BY <1>3, <1>10 DEF Rollback
<1>11. CASE RunStart(r) BY <1>2, <1>3, <1>11 DEF RunStart, Runs
<1>12. CASE RunStop(r) BY <1>2, <1>3, <1>12 DEF RunStop, Runs
<1>13. CASE RunDelete(r) BY <1>2, <1>3, <1>13 DEF RunDelete, Runs
<1>14. CASE RunOther(r) BY <1>2, <1>14 DEF RunOther
<1>15. CASE Unclaim(r) BY <1>1, <1>15 DEF Unclaim
<1>16. CASE Release(r) BY <1>1, <1>16 DEF Release
<1> QED
  BY <1>4, <1>5, <1>6, <1>7, <1>8, <1>9, <1>10, <1>11, <1>12, <1>13, <1>14, <1>15,
     <1>16 DEF Proceed

\* No handler touches the process; handlers run only while it serves.
LEMMA HandlerServes ==
  ASSUME TypeOK, GateClosed, NEW r \in Request, Handler(r)
  PROVE  Serving /\ UNCHANGED procVars
<1>1. pc[r] # "idle" => Serving
  BY DEF GateClosed
<1>2. CASE Accept(r) BY <1>2 DEF Accept, Serving
<1>3. CASE Lock(r) \/ Proceed(r)
  <2>1. Serving
    BY <1>1, <1>3, AskingKept
  <2> QED
    BY <1>3, <2>1 DEF Lock, Proceed, Inspect, Claim, CheckHolder, RunCreate,
       InstallKeys, Rollback, RunStart, RunStop, RunDelete, RunOther, Unclaim, Release
<1> QED BY <1>2, <1>3 DEF Handler

LEMMA NamesApartStep ==
  ASSUME OneRequestPerName, TypeOK, NamesApart, WellPlaced, NEW r \in Request, Handler(r)
  PROVE  NamesApart'
<1>0. OthersStay(r)
  BY OnlyOneMoves DEF TypeOK, LocalType
<1>1. \A q \in Request : pc[q] = "idle" => req[q].box = Nobody
  BY DEF WellPlaced, Placed, NoRequest
<1>2. CASE Accept(r)
  <2>1. PICK s \in Sandbox \cup {Nobody} :
          req'[r].box = s /\ (s # Nobody => Undisputed(r, s))
    BY <1>2 DEF Accept, TypeOK, Asking
  <2> QED
    BY <1>0, <1>1, <2>1 DEF NamesApart, OthersStay, Undisputed
<1>3. CASE Proceed(r) \/ Lock(r)
  BY <1>0, <1>1, <1>3, AskingKept DEF NamesApart, OthersStay, NoRequest
<1> QED
  BY <1>2, <1>3 DEF Handler

LEMMA HandlerStep ==
  ASSUME Disciplined, IInv, NEW r \in Request, Handler(r)
  PROVE  IInv'
<1> USE DEF IInv
<1>1. TypeOK' /\ WellPlaced' /\ NamesApart'
  BY TypeHandler, PlacedHandler, NamesApartStep DEF Disciplined
<1>2. Serving /\ Serving' /\ UNCHANGED procVars
  BY HandlerServes DEF Serving, procVars
<1>3. GateClosed' /\ NothingBoots' /\ ReconcileCovers'
  BY <1>2 DEF GateClosed, NothingBoots, ReconcileCovers, Serving, procVars
<1>4. OthersStay(r)
  BY OnlyOneMoves DEF TypeOK, LocalType
<1>5. CASE Accept(r)
  <2>1. UNCHANGED <<msbVars, held>> /\ pc[r] = "idle" /\ pc'[r] # "release"
    BY <1>5 DEF Accept, Goto, FirstStep, TypeOK
  <2>2. HoldsClaims(r)'
    BY <1>2, OwnClaims
  <2>3. ASSUME NEW q \in Request \ {r} PROVE HoldsClaims(q)'
    BY <1>4, <2>1 DEF ClaimsHeld, HoldsClaims, OthersStay, Mounted, Up, Booting, Running, msbVars
  <2>4. ClaimsHeld'
    BY <2>2, <2>3 DEF ClaimsHeld
  <2>5. ReleaseIsSafe'
    BY <1>4, <2>1 DEF ReleaseIsSafe, OthersStay, Up, Booting, Running, msbVars
  <2> QED
    BY <1>1, <1>2, <1>3, <2>1, <2>4, <2>5
    DEF NoDoubleMount, RunningClaimed, Mounted, Up, Booting, Running, msbVars
<1>6. CASE Proceed(r) \/ Lock(r)
  <2> DEFINE b == req[r].box
  <2>1. pc[r] # "idle" /\ KeepsOthers(b)
    BY <1>6, AskingKept, HandlerKeepsOthers DEF Handler
  <2>2. HoldsClaims(r)'
    BY <1>2, OwnClaims
  <2>3. ASSUME NEW q \in Request \ {r}, req[q].box \in Sandbox
        PROVE  req[q].box # b
    BY <2>1, <2>3, NobodyAssumption DEF NamesApart
  <2>4. ASSUME NEW q \in Request \ {r} PROVE HoldsClaims(q)'
    <3>1. SUFFICES ASSUME req[q].op \in {"create", "start"} PROVE HoldsClaims(q)'
      BY <1>4 DEF HoldsClaims, OthersStay
    <3>2. req[q].box \in Sandbox
      BY <3>1 DEF WellPlaced, Placed, LifecycleOp
    <3>3. vols[q] \subseteq Volume /\ HoldsClaims(q)
      BY DEF ClaimsHeld, TypeOK
    <3> QED
      BY <1>4, <2>1, <2>3, <3>2, <3>3, NobodyAssumption
      DEF HoldsClaims, OthersStay, KeepsOthers, Mounted, Up, Booting, Running
  <2>5. ClaimsHeld'
    BY <2>2, <2>4 DEF ClaimsHeld
  <2>6. ASSUME NEW s \in Sandbox PROVE Covered(s)'
    <3>1. Covered(s)
      BY <1>2 DEF RunningClaimed, Covered
    <3>2. CASE s = b
      BY <2>1, <3>1, <3>2, OwnSandbox
    <3>3. CASE s # b
      BY <2>1, <3>1, <3>3, NobodyAssumption
      DEF Covered, KeepsOthers, Mounted, Up, Booting, Running, TypeOK, MsbTypeOK
    <3> QED BY <3>2, <3>3
  <2>7. RunningClaimed' /\ NoDoubleMount'
    BY <2>6 DEF RunningClaimed, NoDoubleMount, Covered
  <2>8. ReleaseIsSafe'
    <3>1. SUFFICES ASSUME NEW q \in Request, pc'[q] = "release"
                   PROVE ~Up(req[q].box)'
      BY DEF ReleaseIsSafe
    <3>2. req'[q].box \in Sandbox /\ req'[q] # NoRequest
      BY <1>1, <3>1, NobodyAssumption DEF WellPlaced, Placed, LifecycleOp, NoRequest
    <3>3. CASE q = r
      <4>1. req'[r] = req[r]
        BY <1>6, <3>2, <3>3, AskingKept
      <4>2. Covered(b)
        BY <1>2, <3>2, <3>3, <4>1 DEF RunningClaimed, Covered
      <4> QED
        BY <2>1, <3>1, <3>2, <3>3, <4>1, <4>2, OwnSandbox DEF Up, Booting, Running
    <3>4. CASE q # r
      BY <1>4, <2>1, <2>3, <3>1, <3>2, <3>4
      DEF OthersStay, KeepsOthers, ReleaseIsSafe, Up, Booting, Running
    <3> QED BY <3>3, <3>4
  <2> QED
    BY <1>1, <1>3, <2>5, <2>7, <2>8
<1> QED BY <1>5, <1>6 DEF Handler

\* An idle slot asks for nothing.
LEMMA NothingAsked ==
  NoRequest.op \notin LifecycleOp /\ NoRequest.box \notin Sandbox
BY NobodyAssumption DEF NoRequest, LifecycleOp

LEMMA IdleSlot ==
  ASSUME NEW r \in Request, pc[r] = "idle", req[r] = NoRequest
  PROVE  Placed(r) /\ HoldsClaims(r)
<1>1. req[r].op \notin LifecycleOp /\ req[r].box \notin Sandbox
  BY NothingAsked
<1> QED
  BY <1>1 DEF Placed, HoldsClaims, LifecycleOp

\* The same of the next state.
LEMMA IdleSlotNext ==
  ASSUME NEW r \in Request, pc'[r] = "idle", req'[r] = NoRequest
  PROVE  Placed(r)' /\ HoldsClaims(r)'
<1>1. req'[r].op \notin LifecycleOp /\ req'[r].box \notin Sandbox
  BY NothingAsked
<1> QED
  BY <1>1 DEF Placed, HoldsClaims, LifecycleOp

LEMMA EnvironmentStep ==
  ASSUME IInv, Environment
  PROVE  IInv'
<1> USE DEF IInv, TypeOK, MsbTypeOK, procVars, aimVars
<1>1. PICK s \in Sandbox : BootEnds(s) \/ GuestExit(s) \/ RemovedByHand(s)
  BY DEF Environment
<1>2. /\ (Booting(s) /\ BootEffect(s)) \/ StopEffect(s) \/ RemoveEffect(s)
      /\ UNCHANGED <<procVars, held, mutex, pc, aimVars>>
  BY <1>1 DEF BootEnds, GuestExit, RemovedByHand
<1>3. TypeOK'
  BY <1>2, MsbType
<1>4. /\ \A t \in Sandbox : Mounted(t)' \subseteq Mounted(t) /\ mounts'[t] \subseteq mounts[t]
      /\ \A t \in Sandbox : Up(t)' => Up(t) /\ mounts'[t] = mounts[t]
      /\ NothingBoots /\ phase \in {"listing", "inspecting"} =>
           \A t \in Sandbox : Running(t)' => Running(t)
      /\ \A t \in Sandbox : Booting(t)' => Booting(t)
  BY <1>2 DEF NothingBoots, BootEffect, StopEffect, RemoveEffect, Mounted, Up, Booting, Running
<1>5. GateClosed' /\ NamesApart' /\ WellPlaced'
  BY <1>2 DEF GateClosed, NamesApart, WellPlaced, Placed, Serving
<1>6. NothingBoots' /\ ReconcileCovers'
  BY <1>2, <1>4 DEF NothingBoots, ReconcileCovers, Up, Booting, Running
<1>7. ClaimsHeld'
  <2>1. SUFFICES ASSUME NEW r \in Request, req[r].op \in {"create", "start"}
                 PROVE  HoldsClaims(r)'
    BY <1>2 DEF ClaimsHeld, HoldsClaims
  <2>2. HoldsClaims(r) /\ req[r].box \in Sandbox
    BY <2>1 DEF ClaimsHeld, WellPlaced, Placed, LifecycleOp
  <2>3. Mounted(req[r].box)' \subseteq Mounted(req[r].box)
    BY <1>2, <1>4, <2>2 DEF Mounted, Up, Booting, Running
  <2> QED
    BY <1>2, <1>4, <2>2, <2>3 DEF HoldsClaims
<1>8. ReleaseIsSafe'
  <2>1. SUFFICES ASSUME NEW r \in Request, pc[r] = "release"
                 PROVE  ~Up(req[r].box)'
    BY <1>2 DEF ReleaseIsSafe
  <2>2. req[r].box \in Sandbox
    BY <2>1 DEF WellPlaced, Placed, LifecycleOp
  <2> QED
    BY <1>2, <1>4, <2>1, <2>2 DEF ReleaseIsSafe, Up, Booting, Running
<1>9. NoDoubleMount' /\ RunningClaimed'
  BY <1>2, <1>4 DEF NoDoubleMount, RunningClaimed, Serving
<1> QED BY <1>3, <1>5, <1>6, <1>7, <1>8, <1>9

\* Steps of the process: nothing but the reconcile decides what is claimed
\* when the server starts to serve.
LEMMA ProcessStep ==
  ASSUME Disciplined, IInv, Process
  PROVE  IInv'
<1> USE DEF IInv
<1>1. TypeOK'
  BY TypeProcess
<1>2. UNCHANGED msbVars /\ NoDoubleMount'
  BY DEF Process, Boot, ListRunning, ReconcileFailed, Serve, Drain, Exit,
         InspectListed, NoDoubleMount, Mounted, Up, Booting, Running, msbVars
<1>3. ASSUME ~Serving', held' = Unclaimed, \A r \in Request : pc'[r] = "idle",
             \A r \in Request : req'[r] = NoRequest, NothingBoots', ReconcileCovers'
      PROVE  IInv'
  <2>1. \A r \in Request : Placed(r)'
    BY <1>3, IdleSlotNext
  <2>2. \A r \in Request : HoldsClaims(r)'
    BY <1>3, IdleSlotNext
  <2>3. NamesApart' /\ ReleaseIsSafe' /\ GateClosed' /\ RunningClaimed'
    BY <1>3 DEF NamesApart, ReleaseIsSafe, GateClosed, RunningClaimed
  <2> QED
    BY <1>1, <1>2, <1>3, <2>1, <2>2, <2>3 DEF WellPlaced, ClaimsHeld
<1> USE DEF procVars, aimVars, msbVars, NothingBoots, Booting
<1>4. ~Serving => /\ held = Unclaimed
                  /\ \A r \in Request : pc[r] = "idle" /\ req[r] = NoRequest
  BY DEF GateClosed, WellPlaced, Placed
<1>5. CASE Boot
  BY <1>3, <1>4, <1>5 DEF Boot, Serving, NothingBoots, ReconcileCovers, Disciplined, Booting
<1>6. CASE ListRunning
  <2>1. ReconcileCovers'
    BY <1>6 DEF ListRunning, ReconcileCovers, NoDoubleMount, Mounted, Up, Booting, Running
  <2> QED
    BY <1>3, <1>4, <1>6, <2>1 DEF ListRunning, Serving
<1>7. CASE ReconcileFailed
  BY <1>3, <1>4, <1>7 DEF ReconcileFailed, Serving, ReconcileCovers
<1>8. ASSUME NEW s \in Sandbox, InspectListed(s) PROVE IInv'
  <2>1. ReconcileCovers'
    BY <1>8 DEF InspectListed, ReconcileCovers, Acquired, Up, Booting, Running, TypeOK, MsbTypeOK
  <2> QED
    BY <1>3, <1>4, <1>8, <2>1 DEF InspectListed, Serving
<1>9. CASE Exit
  BY <1>3, <1>9 DEF Exit, Serving, ReconcileCovers
<1>10. CASE Drain
  BY <1>1, <1>2, <1>10
  DEF Drain, Serving, GateClosed, ReconcileCovers, NamesApart, WellPlaced, Placed,
      ClaimsHeld, HoldsClaims, ReleaseIsSafe, RunningClaimed, Mounted, Up, Booting, Running
<1>11. CASE Serve
  <2>1. ~Serving /\ Serving' /\ UNCHANGED <<pc, aimVars>>
    BY <1>11 DEF Serve, Serving
  <2>2. RunningClaimed'
    BY <1>11 DEF Serve, ReconcileCovers, RunningClaimed, Mounted, Up, Booting, Running
  <2>3. GateClosed' /\ ReconcileCovers' /\ NothingBoots'
    BY <1>11 DEF Serve, GateClosed, ReconcileCovers, Serving
  <2>4. NamesApart' /\ WellPlaced' /\ ClaimsHeld' /\ ReleaseIsSafe'
    BY <1>4, <2>1, IdleSlotNext
    DEF NamesApart, WellPlaced, ClaimsHeld, ReleaseIsSafe
  <2> QED
    BY <1>1, <1>2, <2>2, <2>3, <2>4
<1> QED
  BY <1>5, <1>6, <1>7, <1>8, <1>9, <1>10, <1>11 DEF Process

LEMMA IInvInit == Init => IInv
<1> SUFFICES ASSUME Init PROVE IInv
  OBVIOUS
<1>1. TypeOK
  BY TypeInit
<1>2. NoDoubleMount
  BY DEF Init, MsbInit, NoDoubleMount
<1>3. ~Serving /\ phase \notin {"listing", "inspecting"} /\ held = Unclaimed
  BY DEF Init, Serving
<1>4. \A r \in Request : pc[r] = "idle" /\ req[r] = NoRequest
  BY DEF Init
<1> QED
  <2>1. \A r \in Request : Placed(r)
    BY <1>4, IdleSlot
  <2>2. \A r \in Request : HoldsClaims(r)
    BY <1>4, IdleSlot
  <2>3. /\ NamesApart /\ ReleaseIsSafe /\ GateClosed /\ RunningClaimed
        /\ NothingBoots /\ ReconcileCovers
    BY <1>3, <1>4
    DEF NamesApart, NothingBoots, ReleaseIsSafe, GateClosed, RunningClaimed, ReconcileCovers
  <2> QED
    BY <1>1, <1>2, <2>1, <2>2, <2>3 DEF IInv, WellPlaced, ClaimsHeld

LEMMA IInvStep == Disciplined /\ IInv /\ [Next]_vars => IInv'
<1> SUFFICES ASSUME Disciplined, IInv, [Next]_vars PROVE IInv'
  OBVIOUS
<1>1. CASE Process BY <1>1, ProcessStep
<1>2. CASE Environment BY <1>2, EnvironmentStep
<1>3. ASSUME NEW r \in Request, Handler(r) PROVE IInv'
  BY <1>3, HandlerStep
<1>4. CASE UNCHANGED vars
  BY <1>4
  DEF vars, IInv, TypeOK, MsbTypeOK, GateClosed, NothingBoots, ReconcileCovers, NamesApart,
      WellPlaced, Placed, ClaimsHeld, HoldsClaims, ReleaseIsSafe, NoDoubleMount,
      RunningClaimed, Serving, Mounted, Up, Booting, Running
<1> QED BY <1>1, <1>2, <1>3, <1>4 DEF Next

-----------------------------------------------------------------------------
(* The theorems.  Disciplined is a statement about the constants alone.      *)

\* The inductive invariant holds in every reachable state.
THEOREM Invariance == ASSUME Disciplined PROVE Spec => []IInv
<1>1. IInv /\ [Next]_vars => IInv'
  BY IInvStep
<1> QED BY IInvInit, <1>1, PTL DEF Spec

\* One running sandbox per volume, across handlers, failures of stop and
\* delete, guests that exit, removals by hand, crashes and restarts.
THEOREM OneSandboxPerVolume == ASSUME Disciplined PROVE Spec => []NoDoubleMount
<1>1. IInv => NoDoubleMount
  BY DEF IInv
<1> QED BY <1>1, Invariance, PTL

\* No running sandbox is ever without its claims while requests are served.
THEOREM RunningSandboxesClaimed == ASSUME Disciplined PROVE Spec => []RunningClaimed
<1>1. IInv => RunningClaimed
  BY DEF IInv
<1> QED BY <1>1, Invariance, PTL

\* Stop and delete give claims back only of sandboxes that do not run.
THEOREM ReleasesAreSafe == ASSUME Disciplined PROVE Spec => []ReleaseIsSafe
<1>1. IInv => ReleaseIsSafe
  BY DEF IInv
<1> QED BY <1>1, Invariance, PTL

-----------------------------------------------------------------------------
(* What needs no discipline: any clients, any failures.                      *)

Basics == TypeOK /\ WellPlaced /\ GateClosed

LEMMA BasicsStep == Basics /\ [Next]_vars => Basics'
<1> SUFFICES ASSUME Basics, [Next]_vars PROVE Basics'
  OBVIOUS
<1> USE DEF Basics
<1>1. CASE Process
  <2>1. TypeOK'
    BY <1>1, TypeProcess
  <2>2. \/ UNCHANGED <<pc, req>>
        \/ \A r \in Request : pc'[r] = "idle" /\ req'[r] = NoRequest
    BY <1>1 DEF Process, Boot, ListRunning, ReconcileFailed, Serve, Drain, Exit,
                InspectListed, aimVars
  <2>3. WellPlaced'
    <3>1. CASE UNCHANGED <<pc, req>>
      BY <3>1 DEF WellPlaced, Placed
    <3>2. CASE \A r \in Request : pc'[r] = "idle" /\ req'[r] = NoRequest
      BY <3>2, IdleSlotNext DEF WellPlaced
    <3> QED BY <2>2, <3>1, <3>2
  <2>4. GateClosed'
    BY <1>1 DEF GateClosed, Serving, Process, Boot, ListRunning, ReconcileFailed,
                Serve, Drain, Exit, InspectListed
  <2> QED BY <2>1, <2>3, <2>4
<1>2. CASE Environment
  <2>1. PICK s \in Sandbox : BootEnds(s) \/ GuestExit(s) \/ RemovedByHand(s)
    BY <1>2 DEF Environment
  <2>2. /\ (Booting(s) /\ BootEffect(s)) \/ StopEffect(s) \/ RemoveEffect(s)
        /\ UNCHANGED <<procVars, held, mutex, pc, aimVars>>
    BY <2>1 DEF BootEnds, GuestExit, RemovedByHand
  <2>3. TypeOK'
    BY <2>2, MsbType DEF TypeOK, MsbTypeOK, procVars, aimVars
  <2> QED
    BY <2>2, <2>3 DEF GateClosed, WellPlaced, Placed, Serving, procVars, aimVars
<1>3. ASSUME NEW r \in Request, Handler(r) PROVE Basics'
  <2>1. TypeOK' /\ WellPlaced'
    BY <1>3, TypeHandler, PlacedHandler
  <2>2. GateClosed'
    BY <1>3, HandlerServes DEF GateClosed, Serving, procVars
  <2> QED BY <2>1, <2>2
<1>4. CASE UNCHANGED vars
  BY <1>4 DEF vars, TypeOK, MsbTypeOK, GateClosed, WellPlaced, Placed, Serving
<1> QED BY <1>1, <1>2, <1>3, <1>4 DEF Next

LEMMA BasicsInvariant == Spec => []Basics
<1>1. Init => Basics
  BY IInvInit DEF IInv, Basics
<1> QED BY <1>1, BasicsStep, PTL DEF Spec

\* Every variable keeps its type.
THEOREM TypeCorrect == Spec => []TypeOK
<1>1. Basics => TypeOK
  BY DEF Basics
<1> QED BY <1>1, BasicsInvariant, PTL

\* The step property behind ForeignClaimsKept.
LEMMA ForeignClaimsStep ==
  ASSUME Basics, [Next]_vars, Serving, Serving',
         NEW v \in Volume, held[v] # Nobody, held'[v] # held[v]
  PROVE  \E r \in Request : pc'[r] # pc[r] /\ req[r].box = held[v]
<1> USE DEF Basics
<1>1. CASE Process
  BY <1>1 DEF Process, Boot, ListRunning, ReconcileFailed, Serve, Drain, Exit,
              InspectListed, Serving
<1>2. CASE Environment
  BY <1>2 DEF Environment, BootEnds, GuestExit, RemovedByHand
<1>3. ASSUME NEW r \in Request, Handler(r)
      PROVE  pc'[r] # pc[r] /\ req[r].box = held[v]
  <2>1. Claim(r) \/ Unclaim(r) \/ Release(r)
    BY <1>3 DEF Handler, Proceed, Accept, Lock, Inspect, CheckHolder, RunCreate,
       InstallKeys, Rollback, RunStart, RunStop, RunDelete, RunOther
  <2>2. KeepsOthers(req[r].box)
    BY <1>3, <2>1, HandlerKeepsOthers DEF Claim, Unclaim, Release
  <2>3. pc'[r] # pc[r]
    BY <2>1 DEF Claim, Unclaim, Release, Finish, Goto, TypeOK
  <2> QED BY <2>2, <2>3 DEF KeepsOthers
<1>4. CASE UNCHANGED vars
  BY <1>4 DEF vars
<1> QED BY <1>1, <1>2, <1>3, <1>4 DEF Next

\* Whatever clients do and however commands fail, a request takes away the
\* claims of its own sandbox only.
THEOREM ForeignClaims == Spec => ForeignClaimsKept
<1>1. Basics /\ [Next]_vars =>
        [Serving /\ Serving' =>
           \A v \in Volume : held[v] # Nobody /\ held'[v] # held[v] =>
             \E r \in Request : pc'[r] # pc[r] /\ req[r].box = held[v]]_vars
  BY ForeignClaimsStep
<1> QED BY <1>1, BasicsInvariant, PTL DEF Spec, ForeignClaimsKept

-----------------------------------------------------------------------------
(* The adapter's mutex.                                                      *)

\* A request is inside the adapter exactly while it holds the mutex.
MutexOwned == \A r \in Request : InMsb(r) <=> mutex = r

LEMMA MutexHandler ==
  ASSUME Basics, MutexOwned, NEW r \in Request, Handler(r)
  PROVE  MutexOwned'
<1> USE DEF InMsb, MutexOwned, Basics
<1>0. OthersStay(r)
  BY OnlyOneMoves DEF TypeOK, LocalType
<1>1. SUFFICES /\ InMsb(r)' <=> mutex' = r
               /\ \A q \in Request \ {r} : mutex' = q <=> mutex = q
  BY <1>0 DEF OthersStay
<1>2. \A p : Goto(r, p) => pc'[r] = p
  BY DEF Goto, TypeOK
<1>3. Finish(r) => pc'[r] = "idle"
  BY <1>2 DEF Finish
<1>4. ReturnAndFinish(r) => pc'[r] = "idle" /\ mutex' = Nobody
  BY <1>3 DEF ReturnAndFinish, Unlock
<1>5. \A p : ReturnTo(r, p) => pc'[r] = p /\ mutex' = Nobody
  BY <1>2 DEF ReturnTo, Unlock
<1>6. Nobody \notin Request
  BY ControlPlaneAssumption
<1>a. CASE Accept(r) BY <1>2, <1>a DEF Accept, FirstStep
<1>c. CASE Inspect(r) BY <1>2, <1>3, <1>c DEF Inspect
<1>d. CASE Claim(r) BY <1>2, <1>3, <1>d DEF Claim
<1>e. CASE CheckHolder(r) BY <1>2, <1>3, <1>e DEF CheckHolder
<1>f. CASE Lock(r) BY <1>2, <1>6, <1>f DEF Lock, MutexFree
<1>g. CASE RunCreate(r) BY <1>2, <1>4, <1>5, <1>6, <1>g DEF RunCreate, Runs, Hold
<1>h. CASE InstallKeys(r) BY <1>2, <1>4, <1>6, <1>h DEF InstallKeys, Hold
<1>i. CASE Rollback(r) BY <1>5, <1>6, <1>i DEF Rollback
<1>j. CASE RunStart(r) BY <1>4, <1>5, <1>6, <1>j DEF RunStart, Runs
<1>k. CASE RunStop(r) BY <1>4, <1>5, <1>6, <1>k DEF RunStop, Runs
<1>l. CASE RunDelete(r) BY <1>4, <1>5, <1>6, <1>l DEF RunDelete, Runs
<1>m. CASE RunOther(r) BY <1>4, <1>6, <1>m DEF RunOther
<1>n. CASE Unclaim(r) BY <1>3, <1>n DEF Unclaim
<1>o. CASE Release(r) BY <1>3, <1>o DEF Release
<1> QED
  BY <1>a, <1>c, <1>d, <1>e, <1>f, <1>g, <1>h, <1>i, <1>j, <1>k, <1>l, <1>m, <1>n,
     <1>o DEF Handler, Proceed

LEMMA MutexStep == Basics /\ MutexOwned /\ [Next]_vars => MutexOwned'
<1> SUFFICES ASSUME Basics, MutexOwned, [Next]_vars PROVE MutexOwned'
  OBVIOUS
<1>1. CASE Process
  BY <1>1, ControlPlaneAssumption
  DEF MutexOwned, InMsb, Process, Boot, ListRunning, ReconcileFailed, Serve, Drain,
      Exit, InspectListed
<1>2. CASE Environment
  BY <1>2 DEF MutexOwned, InMsb, Environment, BootEnds, GuestExit, RemovedByHand
<1>3. ASSUME NEW r \in Request, Handler(r) PROVE MutexOwned'
  BY <1>3, MutexHandler
<1>4. CASE UNCHANGED vars
  BY <1>4 DEF vars, MutexOwned, InMsb
<1> QED BY <1>1, <1>2, <1>3, <1>4 DEF Next

LEMMA MutexInvariant == Spec => [](Basics /\ MutexOwned)
<1>1. Init => MutexOwned
  BY ControlPlaneAssumption DEF Init, MutexOwned, InMsb
<1> QED BY <1>1, MutexStep, BasicsInvariant, PTL DEF Spec

\* No two mutating msb commands overlap.
THEOREM Serialised == Spec => []CommandsSerialised
<1>1. MutexOwned => CommandsSerialised
  BY DEF MutexOwned, CommandsSerialised
<1> QED BY <1>1, MutexInvariant, PTL

\* The step property behind CreateIsAtomic.
LEMMA AtomicStep ==
  ASSUME Basics, MutexOwned, [Next]_vars, pc' # pc,
         NEW r \in Request, pc[r] \in {"keys", "rollback"}, pc'[r] = pc[r]
  PROVE  UNCHANGED msbVars
<1>1. CASE Process
  BY <1>1 DEF Process, Boot, ListRunning, ReconcileFailed, Serve, Drain, Exit,
              InspectListed
<1>2. CASE Environment
  BY <1>2 DEF Environment, BootEnds, GuestExit, RemovedByHand
<1>3. ASSUME NEW q \in Request, Handler(q) PROVE UNCHANGED msbVars
  <2>1. CASE q = r
    <3>1. \A p : Goto(r, p) => pc'[r] = p
      BY DEF Goto, TypeOK, Basics
    <3>2. InstallKeys(r) \/ Rollback(r)
      BY <1>3, <2>1 DEF Handler, Proceed, Accept, Lock, Inspect, Claim, CheckHolder,
         RunCreate, RunStart, RunStop, RunDelete, RunOther, Unclaim, Release, Runs
    <3> QED
      BY <3>1, <3>2 DEF InstallKeys, Rollback, ReturnTo
  <2>2. CASE q # r
    <3>1. ~InMsb(q)
      BY <2>2 DEF MutexOwned, InMsb
    <3> QED
      BY <1>3, <3>1 DEF InMsb, Handler, Proceed, Accept, Lock, Inspect, Claim,
         CheckHolder, RunCreate, InstallKeys, Rollback, RunStart, RunStop, RunDelete,
         RunOther, Unclaim, Release, Runs
  <2> QED BY <2>1, <2>2
<1>4. CASE UNCHANGED vars
  BY <1>4 DEF vars, msbVars
<1> QED BY <1>1, <1>2, <1>3, <1>4 DEF Next

\* While a create installs keys or rolls back, no other request's step changes
\* anything in msb.
THEOREM CreateAtomic == Spec => CreateIsAtomic
<1>1. Basics /\ MutexOwned /\ [Next]_vars =>
        [pc' # pc =>
           \A r \in Request :
             pc[r] \in {"keys", "rollback"} /\ pc'[r] = pc[r] =>
               /\ status'[req[r].box] = status[req[r].box]
               /\ mounts'[req[r].box] = mounts[req[r].box]]_vars
  BY AtomicStep DEF msbVars
<1> QED BY <1>1, MutexInvariant, PTL DEF Spec, CreateIsAtomic

-----------------------------------------------------------------------------
(* No request leaves a claim behind: NoLeakedClaims, for clients that wait for *)
(* the answer about a sandbox, sandboxes that are removed through the manager,   *)
(* and deletes whose failure means that nothing was removed.                     *)

\* The reason a claim of the sandbox a request is about has lies in msb or with
\* that request, since no other request is about the sandbox.
LEMMA OwnReason ==
  ASSUME TidyInv, Serving, NEW r \in Request, pc[r] # "idle",
         NEW v \in Volume, req[r].box \in Sandbox, held[v] = req[r].box
  PROVE  \/ v \in mounts[req[r].box]
         \/ pc[r] = "release"
         \/ pc[r] \in {"lock", "run", "unclaim"} /\ v \in newly[r]
<1>1. Justified(v, req[r].box)
  BY NobodyAssumption DEF TidyInv, ClaimsJustified
<1>2. \A q \in Request : req[q].box = req[r].box => q = r
  BY NobodyAssumption DEF TidyInv, NamesApart, WellPlaced
<1> QED BY <1>1, <1>2 DEF Justified

\* A handler's step leaves its own sandbox's claims with a reason.
LEMMA OwnJustified ==
  ASSUME Tidy, TidyInv, Serving, NEW r \in Request, Handler(r), pc[r] # "idle",
         NEW v \in Volume, NEW b \in Sandbox, req[r].box = b, held'[v] = b
  PROVE  \/ v \in mounts'[b]
         \/ /\ req'[r].box = b
            /\ \/ pc'[r] = "release"
               \/ pc'[r] \in {"lock", "run", "unclaim"} /\ v \in newly'[r]
<1> USE DEF TidyInv, TypeOK, MsbTypeOK, msbVars, aimVars
<1>0. Placed(r) /\ ClaimsTraced(r)
  BY DEF WellPlaced, AllClaimsTraced
<1>1. held[v] = b => \/ v \in mounts[b]
                     \/ pc[r] = "release"
                     \/ pc[r] \in {"lock", "run", "unclaim"} /\ v \in newly[r]
  BY OwnReason
<1>2. \A p : Goto(r, p) => pc'[r] = p
  BY DEF Goto
<1>3. \A p : ReturnTo(r, p) => pc'[r] = p /\ UNCHANGED aimVars
  BY <1>2 DEF ReturnTo
<1>4. b # Nobody
  BY NobodyAssumption
<1>a. CASE Accept(r) BY <1>a DEF Accept
<1>c. CASE Inspect(r) BY <1>1, <1>c DEF Inspect
<1>d. CASE Claim(r)
  BY <1>1, <1>2, <1>d DEF Claim, VolumeBusy, Acquired, NewlyClaimed, Holding
<1>e. CASE CheckHolder(r) BY <1>1, <1>e DEF CheckHolder
<1>f. CASE Lock(r) BY <1>1, <1>2, <1>f DEF Lock
<1>g. CASE RunCreate(r)
  BY <1>0, <1>1, <1>3, <1>g
  DEF RunCreate, Runs, CanCreate, CreateEffect, ClaimsTraced, AbsentMountsNothing
<1>h. CASE InstallKeys(r) BY <1>1, <1>h DEF InstallKeys
<1>i. CASE Rollback(r)
  BY <1>0, <1>3, <1>i DEF Rollback, ClaimsTraced
<1>j. CASE RunStart(r)
  BY <1>0, <1>1, <1>3, <1>j DEF RunStart, Runs, StartEffect, ClaimsTraced
<1>k. CASE RunStop(r)
  BY <1>0, <1>1, <1>3, <1>k DEF RunStop, Runs, StopEffect, ClaimsTraced
<1>l. CASE RunDelete(r)
  BY <1>0, <1>1, <1>3, <1>l DEF RunDelete, Runs, ClaimsTraced, Tidy
<1>m. CASE RunOther(r)
  BY <1>0, <1>m DEF RunOther, Placed, LifecycleOp, VolumeOp
<1>n. CASE Unclaim(r)
  BY <1>1, <1>4, <1>n DEF Unclaim, ReleasedVolumes, Holding
<1>o. CASE Release(r)
  BY <1>4, <1>o DEF Release, Released, Holding
<1> QED
  BY <1>a, <1>c, <1>d, <1>e, <1>f, <1>g, <1>h, <1>i, <1>j, <1>k, <1>l, <1>m, <1>n,
     <1>o DEF Handler, Proceed

\* What a request has claimed stays traced to it.
LEMMA OwnTraced ==
  ASSUME Tidy, TidyInv, Serving, NEW r \in Request, Handler(r)
  PROVE  ClaimsTraced(r)'
<1> USE DEF TidyInv, TypeOK, MsbTypeOK, msbVars, aimVars, ClaimsTraced, Claiming
<1>0. Placed(r) /\ ClaimsTraced(r)
  BY DEF WellPlaced, AllClaimsTraced
<1>2. \A p : Goto(r, p) => pc'[r] = p
  BY DEF Goto
<1>3. Finish(r) => ClaimsTraced(r)'
  BY <1>2 DEF Finish, NoRequest
<1>4. ReturnAndFinish(r) => ClaimsTraced(r)'
  BY <1>3 DEF ReturnAndFinish
<1>5. \A p : ReturnTo(r, p) => pc'[r] = p /\ UNCHANGED aimVars
  BY <1>2 DEF ReturnTo
<1>a. CASE Accept(r)
  BY <1>0, <1>2, <1>a DEF Accept, FirstStep
<1>c. CASE Inspect(r) BY <1>0, <1>2, <1>3, <1>c DEF Inspect
<1>d. CASE Claim(r)
  BY <1>0, <1>2, <1>3, <1>d DEF Claim, NewlyClaimed, Placed
<1>e. CASE CheckHolder(r) BY <1>0, <1>2, <1>3, <1>e DEF CheckHolder, Placed
<1>f. CASE Lock(r) BY <1>0, <1>2, <1>f DEF Lock
<1>g. CASE RunCreate(r)
  <2>1. CASE Goto(r, "keys") /\ CanCreate(req[r].box, vols[r]) /\ UNCHANGED aimVars
    <3>1. mounts[req[r].box] = {} /\ req[r].box \in Sandbox /\ UNCHANGED held
      BY <1>0, <1>g, <2>1
      DEF RunCreate, Runs, CanCreate, AbsentMountsNothing, Placed, LifecycleOp
    <3>2. \A v \in Volume : held[v] = req[r].box => v \in newly[r]
      BY <1>g, <3>1, OwnReason DEF RunCreate, Runs
    <3> QED BY <1>0, <1>2, <1>g, <2>1, <3>1, <3>2 DEF RunCreate, Runs
  <2> QED BY <1>0, <1>4, <1>5, <1>g, <2>1 DEF RunCreate, Runs
<1>h. CASE InstallKeys(r) BY <1>0, <1>2, <1>4, <1>h DEF InstallKeys
<1>i. CASE Rollback(r) BY <1>0, <1>5, <1>i DEF Rollback, Placed
<1>j. CASE RunStart(r) BY <1>0, <1>4, <1>5, <1>j DEF RunStart, Runs, StartEffect
<1>k. CASE RunStop(r) BY <1>0, <1>4, <1>5, <1>k DEF RunStop, Runs
<1>l. CASE RunDelete(r) BY <1>0, <1>4, <1>5, <1>l DEF RunDelete, Runs
<1>m. CASE RunOther(r) BY <1>4, <1>m DEF RunOther
<1>n. CASE Unclaim(r) BY <1>3, <1>n DEF Unclaim
<1>o. CASE Release(r) BY <1>3, <1>o DEF Release
<1> QED
  BY <1>a, <1>c, <1>d, <1>e, <1>f, <1>g, <1>h, <1>i, <1>j, <1>k, <1>l, <1>m, <1>n,
     <1>o DEF Handler, Proceed

\* The sandbox of a request mounts something only while it exists.
LEMMA OwnMounts ==
  ASSUME TidyInv, NEW r \in Request, Handler(r)
  PROVE  AbsentMountsNothing'
<1> USE DEF TidyInv, TypeOK, MsbTypeOK, msbVars, AbsentMountsNothing, Exists
<1>1. ASSUME NEW b \in Sandbox,
             \/ \E vs : CreateEffect(b, vs)
             \/ Exists(b) /\ StartEffect(b)
             \/ Exists(b) /\ StopEffect(b)
             \/ RemoveEffect(b) \/ UNCHANGED msbVars
      PROVE  AbsentMountsNothing'
  BY <1>1 DEF CreateEffect, StartEffect, StopEffect, RemoveEffect
<1>2. ASSUME req[r].box \in Sandbox,
             RunCreate(r) \/ Rollback(r) \/ RunStart(r) \/ RunStop(r) \/ RunDelete(r)
      PROVE  AbsentMountsNothing'
  <2>1. CASE RunCreate(r) BY <1>1, <1>2, <2>1 DEF RunCreate
  <2>2. CASE Rollback(r) BY <1>1, <1>2, <2>2 DEF Rollback
  <2>3. CASE RunStart(r) BY <1>2, <2>3 DEF RunStart, CanStart, StartEffect
  <2>4. CASE RunStop(r) BY <1>1, <1>2, <2>4 DEF RunStop
  <2>5. CASE RunDelete(r) BY <1>1, <1>2, <2>5 DEF RunDelete
  <2> QED BY <1>2, <2>1, <2>2, <2>3, <2>4, <2>5
<1>3. CASE RunOther(r)
  BY <1>3 DEF RunOther, VolumeCreateEffect, VolumeRmEffect
<1>4. CASE Accept(r) \/ Inspect(r) \/ Claim(r) \/ CheckHolder(r) \/ Lock(r)
           \/ InstallKeys(r) \/ Unclaim(r) \/ Release(r)
  BY <1>4 DEF Accept, Inspect, Claim, CheckHolder, Lock, InstallKeys, Unclaim, Release
<1>5. RunCreate(r) \/ Rollback(r) \/ RunStart(r) \/ RunStop(r) \/ RunDelete(r)
        => req[r].box \in Sandbox
  BY DEF RunCreate, Rollback, RunStart, RunStop, RunDelete, Runs, WellPlaced, Placed,
     LifecycleOp
<1> QED BY <1>2, <1>3, <1>4, <1>5 DEF Handler, Proceed

LEMMA TidyHandler ==
  ASSUME Tidy, TidyInv, NEW r \in Request, Handler(r)
  PROVE  TidyInv'
<1> USE DEF TidyInv
<1>1. TypeOK' /\ WellPlaced' /\ NamesApart' /\ AbsentMountsNothing'
  BY TypeHandler, PlacedHandler, NamesApartStep, OwnMounts DEF Tidy
<1>2. Serving /\ Serving' /\ UNCHANGED procVars
  BY HandlerServes DEF Serving, procVars
<1>3. GateClosed' /\ SeedJustified'
  BY <1>2 DEF GateClosed, SeedJustified, Serving, procVars
<1>4. OthersStay(r)
  BY OnlyOneMoves DEF TypeOK, LocalType
<1>5. CASE Accept(r)
  <2>1. UNCHANGED <<msbVars, held>> /\ pc[r] = "idle"
    BY <1>5 DEF Accept
  <2>2. ClaimsTraced(r)'
    BY <1>2, OwnTraced
  <2>3. AllClaimsTraced'
    BY <1>4, <2>1, <2>2 DEF AllClaimsTraced, ClaimsTraced, OthersStay, msbVars
  <2>4. ASSUME NEW v \in Volume, held'[v] # Nobody PROVE Justified(v, held[v])'
    <3>1. Justified(v, held[v])
      BY <1>2, <2>1, <2>4 DEF ClaimsJustified
    <3> QED
      BY <1>4, <2>1, <3>1 DEF Justified, OthersStay, msbVars
  <2> QED BY <1>1, <1>3, <2>3, <2>4 DEF ClaimsJustified
<1>6. CASE Proceed(r) \/ Lock(r)
  <2> DEFINE b == req[r].box
  <2>1. pc[r] # "idle" /\ KeepsOthers(b)
    BY <1>6, AskingKept, HandlerKeepsOthers DEF Handler
  <2>2. ClaimsTraced(r)'
    BY <1>2, OwnTraced
  <2>3. ASSUME NEW q \in Request \ {r}, req[q].box \in Sandbox
        PROVE  req[q].box # b
    BY <2>1, <2>3, NobodyAssumption DEF NamesApart
  <2>h. \A v \in Volume : held'[v] \in {held[v], Nobody, b}
    BY <1>6 DEF Lock, Proceed, Inspect, Claim, CheckHolder, RunCreate, InstallKeys,
       Rollback, RunStart, RunStop, RunDelete, RunOther, Unclaim, Release,
       Acquired, Released, ReleasedVolumes
  <2>4. ASSUME NEW q \in Request \ {r} PROVE ClaimsTraced(q)'
    <3>1. ClaimsTraced(q) /\ Placed(q)
      BY DEF AllClaimsTraced, WellPlaced
    <3>2. CASE req[q].box \in Sandbox
      BY <1>4, <2>1, <2>3, <2>h, <3>1, <3>2, NobodyAssumption
      DEF ClaimsTraced, OthersStay, KeepsOthers
    <3>3. CASE req[q].box \notin Sandbox
      BY <1>4, <3>1, <3>3 DEF ClaimsTraced, OthersStay, Placed, LifecycleOp
    <3> QED BY <3>2, <3>3
  <2>5. ASSUME NEW v \in Volume, held'[v] # Nobody PROVE Justified(v, held[v])'
    <3>1. held'[v] \in Sandbox
      BY <1>1, <2>5 DEF TypeOK, Holding
    <3>2. CASE held'[v] = b
      BY <1>2, <2>1, <3>1, <3>2, OwnJustified DEF Justified
    <3>3. CASE held'[v] # b
      <4>1. held[v] = held'[v]
        BY <2>5, <2>h, <3>3
      <4>2. Justified(v, held[v])
        BY <1>2, <2>5, <4>1 DEF ClaimsJustified
      <4> QED
        BY <1>4, <2>1, <3>1, <3>3, <4>1, <4>2 DEF Justified, OthersStay, KeepsOthers
    <3> QED BY <3>2, <3>3
  <2> QED
    BY <1>1, <1>3, <2>2, <2>4, <2>5 DEF AllClaimsTraced, ClaimsJustified
<1> QED BY <1>5, <1>6 DEF Handler

LEMMA TidyProcess ==
  ASSUME TidyInv, Process
  PROVE  TidyInv'
<1> USE DEF TidyInv
<1>1. TypeOK' /\ UNCHANGED msbVars
  BY TypeProcess
  DEF Process, Boot, ListRunning, ReconcileFailed, Serve, Drain, Exit, InspectListed
<1>2. AbsentMountsNothing'
  BY <1>1 DEF AbsentMountsNothing, Exists, msbVars
<1>3. CASE UNCHANGED <<pc, aimVars>>
  <2>1. NamesApart' /\ WellPlaced'
    BY <1>3 DEF NamesApart, WellPlaced, Placed, aimVars
  <2>2. GateClosed'
    BY <1>3 DEF GateClosed, Serving, Process, Boot, ListRunning, ReconcileFailed, Serve,
       Drain, Exit, InspectListed, aimVars
  <2>3. AllClaimsTraced'
    <3>1. CASE Serving
      BY <1>1, <1>3, <3>1 DEF AllClaimsTraced, ClaimsTraced, msbVars, aimVars, Serving,
         Process, Boot, ListRunning, ReconcileFailed, Serve, Drain, Exit, InspectListed
    <3>2. CASE ~Serving
      BY <1>1, <1>3, <3>2 DEF AllClaimsTraced, ClaimsTraced, GateClosed, msbVars, aimVars
    <3> QED BY <3>1, <3>2
  <2>4. SeedJustified'
    BY <1>1 DEF SeedJustified, Process, Boot, ListRunning, ReconcileFailed, Serve, Drain,
       Exit, InspectListed, Acquired, Unclaimed, msbVars, TypeOK
  <2>5. ClaimsJustified'
    <3>1. CASE Serve
      BY <1>1, <3>1 DEF Serve, SeedJustified, ClaimsJustified, Justified, msbVars
    <3>2. CASE ~Serve /\ ~Exit
      BY <1>1, <1>3, <3>2 DEF ClaimsJustified, Justified, msbVars, aimVars, Serving,
         Process, Boot, ListRunning, ReconcileFailed, Drain, InspectListed
    <3>3. CASE Exit
      BY <3>3 DEF Exit, ClaimsJustified, Serving
    <3> QED BY <3>1, <3>2, <3>3
  <2> QED BY <1>1, <1>2, <2>1, <2>2, <2>3, <2>4, <2>5
<1>4. CASE Exit
  <2>1. \A r \in Request : pc'[r] = "idle" /\ req'[r] = NoRequest /\ newly'[r] = {}
    BY <1>4 DEF Exit
  <2>2. NamesApart' /\ WellPlaced'
    BY <2>1, IdleSlotNext DEF NamesApart, WellPlaced
  <2>3. AllClaimsTraced'
    BY <2>1 DEF AllClaimsTraced, ClaimsTraced, NoRequest
  <2> QED
    BY <1>1, <1>2, <1>4, <2>1, <2>2, <2>3
    DEF Exit, GateClosed, SeedJustified, ClaimsJustified, Serving
<1> QED
  BY <1>3, <1>4 DEF Process, Boot, ListRunning, ReconcileFailed, Serve, Drain,
     InspectListed

\* A sandbox that comes up or goes down by itself keeps its configuration.
LEMMA TidyEnvironment ==
  ASSUME Tidy, TidyInv, Environment
  PROVE  TidyInv'
<1> USE DEF TidyInv
<1>1. PICK s \in Sandbox : BootEnds(s) \/ GuestExit(s)
  BY DEF Environment, RemovedByHand, Tidy
<1>2. /\ UNCHANGED <<procVars, held, mutex, pc, aimVars, mounts, disk>>
      /\ \A t \in Sandbox : Exists(t) => Exists(t)'
      /\ status' \in [Sandbox -> Status]
  BY <1>1 DEF BootEnds, GuestExit, BootEffect, StopEffect, Exists, Status, TypeOK, MsbTypeOK
<1>3. TypeOK' /\ GateClosed' /\ NamesApart' /\ WellPlaced'
  BY <1>2 DEF TypeOK, MsbTypeOK, GateClosed, NamesApart, WellPlaced, Placed, Serving,
     procVars, aimVars
<1>4. AbsentMountsNothing' /\ AllClaimsTraced'
  BY <1>2 DEF AbsentMountsNothing, AllClaimsTraced, ClaimsTraced, aimVars
<1>5. SeedJustified' /\ ClaimsJustified'
  BY <1>2 DEF SeedJustified, ClaimsJustified, Justified, Serving, procVars, aimVars
<1> QED BY <1>3, <1>4, <1>5

LEMMA TidyInit == Init => TidyInv
<1> SUFFICES ASSUME Init PROVE TidyInv
  OBVIOUS
<1>1. TypeOK /\ GateClosed /\ NamesApart /\ WellPlaced
  BY IInvInit DEF IInv
<1> QED
  BY <1>1 DEF TidyInv, Init, MsbInit, AbsentMountsNothing, AllClaimsTraced, ClaimsTraced,
     SeedJustified, ClaimsJustified, Serving, NoRequest

\* No claim is left over by any request: create, start, stop and delete give back
\* what they claimed or leave it with a sandbox configured to mount it, however
\* creates, starts, stops and rollbacks fail or are cut off.
THEOREM NoLeaks == ASSUME Tidy PROVE Spec => []NoLeakedClaims
<1>1. TidyInv /\ [Next]_vars => TidyInv'
  <2> SUFFICES ASSUME TidyInv, [Next]_vars PROVE TidyInv'
    OBVIOUS
  <2>1. CASE UNCHANGED vars
    BY <2>1 DEF vars, TidyInv, TypeOK, MsbTypeOK, GateClosed, NamesApart, WellPlaced,
       Placed, AbsentMountsNothing, AllClaimsTraced, ClaimsTraced, SeedJustified,
       ClaimsJustified, Justified, Serving, Exists
  <2> QED
    BY <2>1, TidyProcess, TidyEnvironment, TidyHandler DEF Next
<1>2. TidyInv => NoLeakedClaims
  BY DEF TidyInv, NoLeakedClaims, ClaimsJustified, Justified, Serving
<1> QED BY <1>1, <1>2, TidyInit, PTL DEF Spec

-----------------------------------------------------------------------------
(* Disciplined control planes keep the claim protocol: each of their steps   *)
(* is one of the protocol's steps or changes nothing the protocol sees.      *)


InUse == [s \in Sandbox |-> Mounted(s)]

LEMMA ProtocolSees ==
  Promised!cpVars = <<Serving, held, InUse>>
BY DEF Promised!cpVars, InUse

LEMMA ProtocolInit == IInv /\ Init => Promised!Init
BY DEF Init, Promised!Init, Promised!Unowned, Promised!Exclusive, Unclaimed,
       Serving, MsbInit, MsbTypeOK, Mounted, Up, Booting, Running, IInv, TypeOK

\* A step that changes only what one sandbox mounts.
LEMMA InUseChanges ==
  ASSUME TypeOK, NEW b \in Sandbox,
         \A s \in Sandbox \ {b} : status'[s] = status[s] /\ mounts'[s] = mounts[s]
  PROVE  InUse' = [InUse EXCEPT ![b] = Mounted(b)']
BY DEF InUse, Mounted, Up, Booting, Running

\* Steps after which the protocol sees nothing new, or an unmount.
LEMMA UnmountStep ==
  ASSUME TypeOK, NEW b \in Sandbox, UNCHANGED <<Serving, held>>, Mounted(b)' = {},
         \A s \in Sandbox \ {b} : status'[s] = status[s] /\ mounts'[s] = mounts[s]
  PROVE  Promised!Unmount(b)
BY InUseChanges DEF Promised!Unmount, InUse

LEMMA ProcessRefines ==
  ASSUME IInv, IInv', Process
  PROVE  [Promised!Next]_(Promised!cpVars)
<1> USE DEF IInv
<1>1. UNCHANGED InUse
  BY DEF InUse, Mounted, Up, Booting, Running, Process, Boot, ListRunning, ReconcileFailed, Serve,
         Drain, Exit, InspectListed, msbVars
<1>2. CASE UNCHANGED <<Serving, held>>
  BY <1>1, <1>2, ProtocolSees DEF Promised!cpVars, InUse
<1>3. CASE Serve
  <2>1. Serving = FALSE /\ Serving' = TRUE
    BY <1>3 DEF Serve, Serving
  <2>2. held' \in [Volume -> Sandbox \cup {Nobody}]
    BY DEF TypeOK, Holding
  <2>3. \A s \in Sandbox : \A v \in InUse[s] : held'[v] = s
    BY <1>1, <2>1 DEF RunningClaimed, InUse
  <2>4. Promised!Open
    BY <1>1, <2>1, <2>2, <2>3 DEF Promised!Open, Promised!Covers, InUse
  <2> QED BY <2>4 DEF Promised!Next
<1>4. CASE Exit /\ Serving
  <2>1. Serving = TRUE /\ Serving' = FALSE /\ held' = Unclaimed
    BY <1>4 DEF Exit, Serving
  <2>2. Promised!Close
    BY <1>1, <2>1 DEF Promised!Close, Promised!Unowned, Unclaimed, InUse
  <2> QED BY <2>2 DEF Promised!Next
<1>5. CASE Boot \/ ListRunning \/ ReconcileFailed \/ Drain
           \/ (Exit /\ ~Serving) \/ \E s \in Sandbox : InspectListed(s)
  BY <1>2, <1>5 DEF Boot, ListRunning, ReconcileFailed, Drain, Exit, InspectListed,
     Serving, GateClosed
<1> QED BY <1>3, <1>4, <1>5 DEF Process

LEMMA EnvironmentRefines ==
  ASSUME IInv, Environment
  PROVE  [Promised!Next]_(Promised!cpVars)
<1> USE DEF IInv, TypeOK, MsbTypeOK, Mounted, Up, Booting, Running
<1>1. PICK s \in Sandbox : BootEnds(s) \/ GuestExit(s) \/ RemovedByHand(s)
  BY DEF Environment
<1>2. UNCHANGED <<Serving, held>>
  BY <1>1 DEF BootEnds, GuestExit, RemovedByHand, Serving, procVars
<1>3. \A t \in Sandbox \ {s} : status'[t] = status[t] /\ mounts'[t] = mounts[t]
  BY <1>1 DEF BootEnds, GuestExit, RemovedByHand, BootEffect, StopEffect, RemoveEffect
<1>4. Mounted(s)' = {} \/ Mounted(s)' = Mounted(s)
  BY <1>1 DEF BootEnds, GuestExit, RemovedByHand, BootEffect, StopEffect, RemoveEffect
<1>5. CASE Mounted(s)' = {}
  BY <1>2, <1>3, <1>5, UnmountStep DEF Promised!Next
<1>6. CASE Mounted(s)' = Mounted(s)
  <2>1. UNCHANGED InUse
    BY <1>3, <1>6, InUseChanges DEF InUse
  <2> QED
    BY <1>2, <2>1, ProtocolSees DEF Promised!cpVars, InUse
<1> QED BY <1>4, <1>5, <1>6

\* A command that takes effect mounts or unmounts one sandbox's volumes.
LEMMA HandlerRefines ==
  ASSUME Disciplined, IInv, NEW r \in Request, Handler(r)
  PROVE  [Promised!Next]_(Promised!cpVars)
<1> USE DEF IInv, TypeOK, MsbTypeOK
<1>1. UNCHANGED Serving /\ Serving = TRUE
  BY HandlerServes DEF Serving, procVars
<1>2. ASSUME UNCHANGED held, UNCHANGED msbVars
      PROVE  [Promised!Next]_(Promised!cpVars)
  <2>1. UNCHANGED InUse
    BY <1>2 DEF InUse, Mounted, Up, Booting, Running, msbVars
  <2> QED
    BY <1>1, <1>2, <2>1, ProtocolSees DEF Promised!cpVars, InUse
<1>3. CASE Claim(r) /\ ~UNCHANGED held
  <2>1. req[r].box \in Sandbox
    BY <1>3 DEF Claim, WellPlaced, Placed, LifecycleOp
  <2>2. UNCHANGED InUse
    BY <1>3 DEF Claim, InUse, Mounted, Up, Booting, Running, msbVars
  <2>3. Promised!Reserve(req[r].box, vols[r])
    BY <1>1, <1>3, <2>1, <2>2
    DEF Claim, Promised!Reserve, VolumeBusy, Acquired, InUse, Holding
  <2> QED BY <2>1, <2>3 DEF Promised!Next
<1>4. CASE Unclaim(r)
  <2>1. req[r].box \in Sandbox /\ req[r].op \in {"create", "start"}
    BY <1>4 DEF Unclaim, WellPlaced, Placed, LifecycleOp
  <2>2. /\ \A v \in newly[r] : held[v] = req[r].box
        /\ newly[r] \cap Mounted(req[r].box) = {}
    BY <1>4, <2>1 DEF Unclaim, ClaimsHeld, HoldsClaims, Claiming
  <2>3. UNCHANGED InUse
    BY <1>4 DEF Unclaim, InUse, Mounted, Up, Booting, Running, msbVars
  <2>4. Promised!GiveBack(req[r].box, newly[r])
    BY <1>1, <1>4, <2>1, <2>2, <2>3
    DEF Unclaim, Promised!GiveBack, ReleasedVolumes, InUse, Holding
  <2> QED BY <2>1, <2>4 DEF Promised!Next
<1>5. CASE Release(r)
  <2> DEFINE freed == {v \in Volume : held[v] = req[r].box}
  <2>1. req[r].box \in Sandbox
    BY <1>5 DEF Release, WellPlaced, Placed, LifecycleOp
  <2>2. Mounted(req[r].box) = {}
    BY <1>5 DEF Release, ReleaseIsSafe, Mounted
  <2>3. UNCHANGED InUse
    BY <1>5 DEF Release, InUse, Mounted, Up, Booting, Running, msbVars
  <2>4. Promised!GiveBack(req[r].box, freed)
    BY <1>1, <1>5, <2>1, <2>2, <2>3
    DEF Release, Promised!GiveBack, Released, InUse, Holding
  <2> QED BY <2>1, <2>4 DEF Promised!Next
<1>6. ASSUME NEW b \in Sandbox, req[r].box = b, pc[r] # "idle", UNCHANGED held
      PROVE  /\ Mounted(b)' = {} => Promised!Unmount(b)
             /\ Mounted(b)' = Mounted(b) => UNCHANGED InUse
             /\ Mounted(b) = {} => Promised!Mount(b, Mounted(b)')
  <2>1. \A s \in Sandbox \ {b} : status'[s] = status[s] /\ mounts'[s] = mounts[s]
    BY <1>6, HandlerKeepsOthers DEF KeepsOthers
  <2>2. InUse' = [InUse EXCEPT ![b] = Mounted(b)']
    BY <2>1, InUseChanges
  <2>3. \A v \in Mounted(b) : held[v] = b
    BY <1>1 DEF RunningClaimed
  <2>4. \A v \in Mounted(b)' : held[v] = b
    BY <1>1, <1>6, <2>3, OwnSandbox DEF Covered
  <2>5. Mounted(b)' = {} => Promised!Unmount(b)
    BY <1>1, <1>6, <2>1, UnmountStep
  <2>6. Mounted(b)' = Mounted(b) => UNCHANGED InUse
    BY <2>2 DEF InUse
  <2>7. Mounted(b) = {} => Promised!Mount(b, Mounted(b)')
    BY <1>1, <1>6, <2>2, <2>4 DEF Promised!Mount, InUse
  <2> QED BY <2>5, <2>6, <2>7
<1>7. ASSUME NEW b \in Sandbox, req[r].box = b, pc[r] # "idle", UNCHANGED held,
             \/ Mounted(b)' = {}
             \/ Mounted(b)' = Mounted(b)
             \/ Mounted(b) = {}
      PROVE  [Promised!Next]_(Promised!cpVars)
  <2>1. CASE Mounted(b)' = {}
    BY <1>6, <1>7, <2>1 DEF Promised!Next
  <2>2. CASE Mounted(b)' = Mounted(b)
    BY <1>1, <1>6, <1>7, <2>2, ProtocolSees DEF Promised!cpVars, InUse
  <2>3. CASE Mounted(b) = {}
    <3>1. Mounted(b)' \in SUBSET Volume
      <4>1. mounts' \in [Sandbox -> SUBSET Volume]
        BY TypeHandler
      <4> QED BY <4>1 DEF Mounted, Up, Booting, Running
    <3> QED BY <1>6, <1>7, <2>3, <3>1 DEF Promised!Next
  <2> QED BY <1>7, <2>1, <2>2, <2>3
<1>8. CASE Accept(r) \/ Inspect(r) \/ CheckHolder(r) \/ Lock(r) \/ InstallKeys(r)
           \/ (Claim(r) /\ UNCHANGED held)
  <2>1. UNCHANGED held /\ UNCHANGED msbVars
    BY <1>8 DEF Accept, Inspect, CheckHolder, Lock, InstallKeys, Claim, msbVars
  <2> QED BY <1>2, <2>1
<1>9. ASSUME NEW b, req[r].box = b,
             RunCreate(r) \/ Rollback(r) \/ RunStart(r) \/ RunStop(r) \/ RunDelete(r)
      PROVE  [Promised!Next]_(Promised!cpVars)
  <2> USE DEF Mounted, Up, Booting, Running, msbVars
  <2>1. b \in Sandbox /\ pc[r] # "idle" /\ UNCHANGED held
    BY <1>9 DEF RunCreate, Rollback, RunStart, RunStop, RunDelete, Runs,
       WellPlaced, Placed, LifecycleOp
  <2>2. Mounted(b)' = {} \/ Mounted(b)' = Mounted(b) \/ Mounted(b) = {}
    <3>1. CASE RunCreate(r)
      BY <1>9, <2>1, <3>1 DEF RunCreate, CanCreate, CreateEffect, Exists
    <3>2. CASE Rollback(r)
      BY <1>9, <2>1, <3>2 DEF Rollback, RemoveEffect
    <3>3. CASE RunStart(r)
      BY <1>9, <2>1, <3>3 DEF RunStart, StartEffect
    <3>4. CASE RunStop(r)
      BY <1>9, <2>1, <3>4 DEF RunStop, StopEffect
    <3>5. CASE RunDelete(r)
      BY <1>9, <2>1, <3>5 DEF RunDelete, RemoveEffect
    <3> QED BY <1>9, <3>1, <3>2, <3>3, <3>4, <3>5
  <2> QED BY <1>7, <1>9, <2>1, <2>2
<1>10. CASE RunOther(r)
  <2>1. UNCHANGED <<held, status, mounts>>
    BY <1>10 DEF RunOther, VolumeCreateEffect, VolumeRmEffect, msbVars
  <2>2. UNCHANGED InUse
    BY <2>1 DEF InUse, Mounted, Up, Booting, Running
  <2> QED BY <1>1, <2>1, <2>2, ProtocolSees DEF Promised!cpVars, InUse
<1> QED
  BY <1>3, <1>4, <1>5, <1>8, <1>9, <1>10 DEF Handler, Proceed

LEMMA RefineStep ==
  Disciplined /\ IInv /\ IInv' /\ [Next]_vars => [Promised!Next]_(Promised!cpVars)
<1> SUFFICES ASSUME Disciplined, IInv, IInv', [Next]_vars
             PROVE  [Promised!Next]_(Promised!cpVars)
  OBVIOUS
<1>1. CASE UNCHANGED vars
  BY <1>1, ProtocolSees
  DEF vars, Promised!cpVars, Serving, InUse, Mounted, Up, Booting, Running
<1> QED
  BY <1>1, ProcessRefines, EnvironmentRefines, HandlerRefines DEF Next

\* With disciplined clients and commands that have no effect when they fail,
\* the control plane implements the claim protocol: a claim always precedes a
\* mount and outlives it, across every failure, crash and restart modelled.
THEOREM Refinement == ASSUME Disciplined PROVE Spec => KeepsClaimProtocol
<1>1. IInv /\ IInv' /\ [Next]_vars => [Promised!Next]_(Promised!cpVars)
  BY RefineStep
<1>2. IInv /\ Init => Promised!Init
  BY ProtocolInit
<1> QED
  BY <1>1, <1>2, Invariance, PTL DEF Spec, KeepsClaimProtocol, Promised!Spec
=============================================================================
