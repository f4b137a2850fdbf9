-------------------------- MODULE DeadlinesProofs ---------------------------
(***************************************************************************)
(* Proofs about Deadlines, for every number of requests and every timeout:   *)
(* type correctness, no orphan of a failed key installation but for a failed  *)
(* rollback, and an answer in time for the requests of one command that had   *)
(* not to wait.                                                              *)
(***************************************************************************)
EXTENDS Deadlines, TLAPS

USE DeadlinesAssumption

THEOREM TypeCorrect == Spec => []TypeOK
<1>1. Init => TypeOK
  BY DEF Init, TypeOK, Accepted, PC, AllKinds, OneCommand
<1>2. TypeOK /\ [Next]_vars => TypeOK'
  <2> SUFFICES ASSUME TypeOK, [Next]_vars PROVE TypeOK'
    OBVIOUS
  <2> USE DEF TypeOK, PC, AllKinds, OneCommand
  <2>1. CASE Tick
    BY <2>1 DEF Tick, Waits, InCommand
  <2>2. ASSUME NEW r \in Request, Outside(r) PROVE TypeOK'
    <3>1. CASE Arrive(r)
      BY <3>1 DEF Arrive, Goto
    <3>2. CASE Leave(r)
      BY <3>2 DEF Leave, InCommand
    <3>3. CASE Succeeds(r)
      BY <3>3 DEF Succeeds, InCommand, Goto, Done
    <3>4. CASE FailsByItself(r)
      BY <3>4 DEF FailsByItself, Fail, AtCreate, CreateFails, RollbackFails, InCommand, Goto, Done
    <3> QED BY <2>2, <3>1, <3>2, <3>3, <3>4 DEF Outside
  <2>3. ASSUME NEW r \in Request, Lock(r) PROVE TypeOK'
    BY <2>3 DEF Lock, Goto
  <2>4. ASSUME NEW r \in Request, Inside(r) PROVE TypeOK'
    <3>1. CASE Read(r)
      BY <3>1 DEF Read, Goto
    <3>2. CASE Kill(r)
      BY <3>2 DEF Kill, Fail, AtCreate, CreateFails, RollbackFails, InCommand, Goto, Done
    <3>3. CASE Write(r)
      BY <3>3 DEF Write, Goto
    <3> QED BY <2>4, <3>1, <3>2, <3>3 DEF Inside
  <2>5. CASE UNCHANGED vars
    BY <2>5 DEF vars
  <2> QED BY <2>1, <2>2, <2>3, <2>4, <2>5 DEF Next
<1> QED BY <1>1, <1>2, PTL DEF Spec

-----------------------------------------------------------------------------
\* What a request may have made, failed at and left behind, by where it is.
OrphanInv ==
  /\ TypeOK
  /\ \A r \in Request :
       /\ pc[r] \in {"idle", "reading", "look", "waiting", "command"}
            => r \notin failed \cup made \cup orphaned \cup cut
       /\ pc[r] = "keys" => r \notin failed \cup orphaned \cup cut
       /\ pc[r] = "rollback" => r \notin orphaned \cup cut
       /\ pc[r] = "writing" /\ r \in failed \cap made => r \in orphaned \cup cut

\* A create that failed after msb create had succeeded leaves no sandbox behind
\* unless its rollback failed (Client.Create), for any number of requests,
\* timeouts and disconnections.
THEOREM NoOrphans == Spec => []NoOrphan
<1>1. Init => OrphanInv
  BY DEF Init, OrphanInv, TypeOK, Accepted, PC, AllKinds, OneCommand
<1>2. OrphanInv /\ TypeOK' /\ [Next]_vars => OrphanInv'
  <2> SUFFICES ASSUME OrphanInv, TypeOK', [Next]_vars PROVE OrphanInv'
    OBVIOUS
  <2> USE DEF OrphanInv
  <2>0. pc \in [Request -> PC] /\ TypeOK
    BY DEF TypeOK
  <2>1. CASE Tick
    BY <2>0, <2>1 DEF Tick
  <2>2. ASSUME NEW r \in Request, Outside(r) PROVE OrphanInv'
    <3>1. CASE Arrive(r)
      BY <2>0, <3>1 DEF Arrive, Goto
    <3>2. CASE Leave(r)
      BY <2>0, <3>2 DEF Leave
    <3>3. CASE Succeeds(r)
      BY <2>0, <3>3 DEF Succeeds, InCommand, Goto, Done
    <3>4. CASE FailsByItself(r)
      BY <2>0, <3>4 DEF FailsByItself, Fail, AtCreate, CreateFails, RollbackFails,
         InCommand, Goto, Done
    <3> QED BY <2>2, <3>1, <3>2, <3>3, <3>4 DEF Outside
  <2>3. ASSUME NEW r \in Request, Lock(r) PROVE OrphanInv'
    BY <2>0, <2>3 DEF Lock, Goto
  <2>4. ASSUME NEW r \in Request, Inside(r) PROVE OrphanInv'
    <3>1. CASE Read(r)
      BY <2>0, <3>1 DEF Read, Goto
    <3>2. CASE Kill(r)
      BY <2>0, <3>2 DEF Kill, Fail, AtCreate, CreateFails, RollbackFails, InCommand, Goto, Done
    <3>3. CASE Write(r)
      BY <2>0, <3>3 DEF Write, Goto
    <3> QED BY <2>4, <3>1, <3>2, <3>3 DEF Inside
  <2>5. CASE UNCHANGED vars
    BY <2>5 DEF vars
  <2> QED BY <2>1, <2>2, <2>3, <2>4, <2>5 DEF Next
<1>3. OrphanInv => NoOrphan
  BY DEF OrphanInv, NoOrphan, TypeOK
<1> QED BY <1>1, <1>2, <1>3, TypeCorrect, PTL DEF Spec

-----------------------------------------------------------------------------
\* The write timeout leaves room for reading the request, one command and its
\* kill (config.MaxCmdTimeout: 15s + 90s + 5s < 120s).
RoomForOne == ReadTimeout + MaxCmdTimeout + KillGrace < WriteTimeout

\* How old a one-command request can be that has never waited, by where it is.
Young(r) ==
  /\ pc[r] \notin {"keys", "rollback"}
  /\ kind[r] = "single" => pc[r] # "look"
  /\ kind[r] = "read" => pc[r] \notin {"waiting", "command"}
  /\ pc[r] \in {"reading", "waiting"} => age[r] <= ReadTimeout
  /\ pc[r] \in {"look", "command"} => age[r] <= ReadTimeout + cmdAge[r]
  /\ pc[r] = "writing" => age[r] <= ReadTimeout + timeout + KillGrace

AgeInv ==
  /\ TypeOK
  /\ Accepted(timeout)
  /\ \A r \in Request : pc[r] = "idle" => age[r] = 0
  /\ \A r \in Request \ delayed : kind[r] \in OneCommand => Young(r)

LEMMA Ages == Spec => []AgeInv
<1>1. Init => AgeInv
  BY DEF Init, AgeInv, Young, TypeOK, Accepted, PC, AllKinds, OneCommand
<1>2. AgeInv /\ TypeOK' /\ [Next]_vars => AgeInv'
  <2> SUFFICES ASSUME AgeInv, TypeOK', [Next]_vars PROVE AgeInv'
    OBVIOUS
  <2> USE DEF AgeInv, Young
  <2>0. TypeOK /\ timeout \in Nat
    BY DEF TypeOK
  <2>1. CASE Tick
    <3>1. /\ UNCHANGED <<timeout, pc, kind>>
          /\ \A r \in Request : Waits(r)
          /\ \A r \in Request : r \notin delayed' => r \notin delayed /\ pc[r] # "waiting"
          /\ \A r \in Request : pc[r] = "idle" => age'[r] = age[r]
      BY <2>0, <2>1 DEF Tick, TypeOK
    <3>2. ASSUME NEW r \in Request, r \notin delayed, kind[r] \in OneCommand, pc[r] # "waiting"
          PROVE  Young(r)'
      BY <2>0, <2>1, <3>1, <3>2 DEF Tick, Waits, TypeOK, InCommand
    <3> QED BY <2>0, <3>1, <3>2
  <2>2. ASSUME NEW r \in Request, Outside(r) PROVE AgeInv'
    <3>1. CASE Arrive(r)
      BY <2>0, <3>1 DEF Arrive, Goto, TypeOK
    <3>2. CASE Leave(r)
      BY <2>0, <3>2 DEF Leave, TypeOK, InCommand
    <3>3. CASE Succeeds(r)
      <4>1. /\ cmdAge[r] <= timeout
            /\ UNCHANGED <<timeout, kind, age, delayed>>
            /\ cmdAge[r] \in Nat /\ age \in [Request -> Nat]
            /\ \A q \in Request \ {r} : pc'[q] = pc[q] /\ cmdAge'[q] = cmdAge[q]
        BY <2>0, <3>3 DEF Succeeds, Goto, Done, TypeOK
      <4>2. ASSUME r \notin delayed, kind[r] \in OneCommand
            PROVE  pc[r] \in {"look", "command"} /\ pc'[r] = "writing"
        BY <2>0, <3>3, <4>2 DEF Succeeds, InCommand, Goto, Done, TypeOK, OneCommand
      <4>3. pc'[r] # "idle"
        BY <2>0, <3>3 DEF Succeeds, InCommand, Goto, Done, TypeOK
      <4>4. ASSUME r \notin delayed, kind[r] \in OneCommand PROVE Young(r)'
        BY <2>0, <4>1, <4>2, <4>4 DEF DeadlinesAssumption
      <4> QED BY <4>1, <4>3, <4>4
    <3>4. CASE FailsByItself(r)
      BY <2>0, <3>4 DEF FailsByItself, Fail, AtCreate, CreateFails, RollbackFails,
         InCommand, Goto, Done, TypeOK
    <3> QED BY <2>2, <3>1, <3>2, <3>3, <3>4 DEF Outside
  <2>3. ASSUME NEW r \in Request, Lock(r) PROVE AgeInv'
    BY <2>0, <2>3 DEF Lock, Goto, TypeOK
  <2>4. ASSUME NEW r \in Request, Inside(r) PROVE AgeInv'
    <3>1. CASE Read(r)
      BY <2>0, <3>1 DEF Read, Goto, TypeOK
    <3>2. CASE Kill(r)
      BY <2>0, <3>2 DEF Kill, Fail, AtCreate, CreateFails, RollbackFails,
         InCommand, Goto, Done, TypeOK
    <3>3. CASE Write(r)
      BY <2>0, <3>3 DEF Write, Goto, TypeOK
    <3> QED BY <2>4, <3>1, <3>2, <3>3 DEF Inside
  <2>5. CASE UNCHANGED vars
    BY <2>5 DEF vars
  <2> QED BY <2>1, <2>2, <2>3, <2>4, <2>5 DEF Next
<1> QED BY <1>1, <1>2, TypeCorrect, PTL DEF Spec

\* With the deadlines in that order the answer, a 504 for instance, is ready
\* before the connection is torn down, however many other requests there are,
\* as long as they do not keep this one waiting (config.parseTimeout).
THEOREM AnswersInTime == ASSUME RoomForOne PROVE Spec => []InTime
<1>1. AgeInv => InTime
  BY DEF AgeInv, Young, InTime, AnswerSurfaces, TypeOK, RoomForOne, Accepted
<1> QED BY <1>1, Ages, PTL
=============================================================================
