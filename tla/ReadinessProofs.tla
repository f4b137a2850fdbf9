-------------------------- MODULE ReadinessProofs ---------------------------
(***************************************************************************)
(* Theorems about Readiness, for any number of probes and any TTL.           *)
(***************************************************************************)
EXTENDS Readiness, TLAPS

\* The mutex belongs to the probe that lists, and a result that may still be
\* served as ready is no younger than the success it came from.
CacheInv ==
  /\ TypeOK
  /\ \A p \in Probe : pc[p] = "listing" <=> mutex = p
  /\ cached = "ok" /\ age < TTL => okAge <= age

\* While no msb ls runs, the result is no older than the last one started.
SpawnInv == CacheInv /\ (mutex = NoProbe => age <= spawnAge)

LEMMA AgeGrows ==
  ASSUME NEW a \in Age, NEW b \in Age
  PROVE  /\ Older(a) \in Age
         /\ a <= b => Older(a) <= Older(b)
         /\ Older(a) < TTL => a < TTL /\ Older(a) = a + 1
BY ReadinessAssumption DEF Age, Older

LEMMA CacheInit == Init => SpawnInv
BY ReadinessAssumption DEF Init, SpawnInv, CacheInv, TypeOK, Age, Result

LEMMA TypeStep == TypeOK /\ [Next]_vars => TypeOK'
<1> SUFFICES ASSUME TypeOK, [Next]_vars PROVE TypeOK'
  OBVIOUS
<1> USE DEF TypeOK, cacheVars, ageVars
<1>0. 0 \in Age
  BY ReadinessAssumption DEF Age
<1>1. CASE Tick
  BY <1>1, AgeGrows DEF Tick
<1>2. CASE MsbTurns
  BY <1>2 DEF MsbTurns
<1>3. ASSUME NEW p \in Probe, Arrive(p) \/ Leave(p) \/ Check(p) \/ Ends(p)
      PROVE  TypeOK'
  <2>1. CASE Arrive(p) BY <2>1 DEF Arrive
  <2>2. CASE Leave(p) BY <2>2 DEF Leave
  <2>3. CASE FromCache(p) BY <2>3 DEF FromCache, Answer
  <2>4. CASE NotStarted(p) BY <2>4 DEF NotStarted, Answer
  <2>5. CASE Spawn(p) BY <1>0, <2>5 DEF Spawn
  <2>6. CASE ListEnds(p)
    BY <1>0, <2>6 DEF ListEnds, Answer, Unlock, Remember, Succeeded, Failed, Result
  <2>7. CASE Killed(p)
    BY <1>0, <2>7 DEF Killed, Answer, Unlock, Remember, Result
  <2>8. CASE KilledTooLate(p)
    BY <2>8, ReadinessAssumption DEF KilledTooLate, Answer, Unlock, Age
  <2> QED
    BY <1>3, <2>1, <2>2, <2>3, <2>4, <2>5, <2>6, <2>7, <2>8 DEF Check, Ends
<1>4. CASE UNCHANGED vars
  BY <1>4 DEF vars
<1> QED
  BY <1>1, <1>2, <1>3, <1>4 DEF Next

\* The state of the probes and of their cache is what TypeOK says it is.
THEOREM TypeCorrect == Spec => []TypeOK
<1>1. Init => TypeOK
  BY CacheInit DEF SpawnInv, CacheInv
<1> QED BY <1>1, TypeStep, PTL DEF Spec

LEMMA CacheStep == CacheInv /\ [Next]_vars => CacheInv'
<1> SUFFICES ASSUME CacheInv, [Next]_vars PROVE CacheInv'
  OBVIOUS
<1> USE ReadinessAssumption DEF CacheInv, cacheVars, ageVars
<1>0. TypeOK /\ TypeOK'
  BY TypeStep
<1>1. CASE Tick
  <2>1. cached' = "ok" /\ age' < TTL => okAge' <= age'
    BY <1>0, <1>1, AgeGrows DEF Tick, TypeOK
  <2> QED BY <1>0, <1>1, <2>1 DEF Tick
<1>2. CASE MsbTurns
  BY <1>0, <1>2 DEF MsbTurns
<1>3. ASSUME NEW p \in Probe, Arrive(p) \/ Leave(p) \/ Check(p) \/ Ends(p)
      PROVE  CacheInv'
  <2> USE DEF TypeOK
  <2>1. CASE Arrive(p) BY <1>0, <2>1 DEF Arrive
  <2>2. CASE Leave(p) BY <1>0, <2>2 DEF Leave
  <2>3. CASE FromCache(p) BY <1>0, <2>3 DEF FromCache, Answer
  <2>4. CASE NotStarted(p) BY <1>0, <2>4 DEF NotStarted, Answer
  <2>5. CASE Spawn(p) BY <1>0, <2>5 DEF Spawn
  <2>6. CASE ListEnds(p)
    BY <1>0, <2>6 DEF ListEnds, Answer, Unlock, Remember, Succeeded, Failed
  <2>7. CASE Killed(p) BY <1>0, <2>7 DEF Killed, Answer, Unlock, Remember
  <2>8. CASE KilledTooLate(p) BY <1>0, <2>8 DEF KilledTooLate, Answer, Unlock
  <2> QED
    BY <1>3, <2>1, <2>2, <2>3, <2>4, <2>5, <2>6, <2>7, <2>8 DEF Check, Ends
<1>4. CASE UNCHANGED vars
  BY <1>0, <1>4 DEF vars
<1> QED
  BY <1>1, <1>2, <1>3, <1>4 DEF Next

LEMMA CacheInvariant == Spec => []CacheInv
<1>1. Init => CacheInv
  BY CacheInit DEF SpawnInv
<1> QED BY <1>1, CacheStep, PTL DEF Spec

\* Whichever probe ran msb ls and however long this one waited, "ready" rests
\* on a success less than a TTL old; also when callers disconnect.
THEOREM ReadyRecent == Spec => ReadyIsRecent
<1>1. CacheInv /\ [Next]_vars =>
        [\A p \in Probe :
           answer[p] # "ready" /\ answer'[p] = "ready" => okAge' < TTL]_vars
  <2> SUFFICES ASSUME CacheInv, Next, NEW p \in Probe,
                      answer[p] # "ready", answer'[p] = "ready"
               PROVE  okAge' < TTL
    OBVIOUS
  <2> USE ReadinessAssumption DEF CacheInv, TypeOK, Age, cacheVars, ageVars
  <2>1. PICK q \in Probe : FromCache(q) \/ ListEnds(q)
    <3>1. ~Tick /\ ~MsbTurns
      BY DEF Tick, MsbTurns
    <3>2. PICK q \in Probe : Arrive(q) \/ Leave(q) \/ Check(q) \/ Ends(q)
      BY <3>1 DEF Next
    <3>3. ~Arrive(q) /\ ~Leave(q) /\ ~Spawn(q)
      BY DEF Arrive, Leave, Spawn
    <3>4. ~NotStarted(q) /\ ~Killed(q) /\ ~KilledTooLate(q)
      BY DEF NotStarted, Killed, KilledTooLate, Answer
    <3> QED BY <3>2, <3>3, <3>4 DEF Check, Ends
  <2>2. CASE FromCache(q)
    BY <2>2 DEF FromCache, Answer, Fresh, Result
  <2>3. CASE ListEnds(q)
    BY <2>3 DEF ListEnds, Succeeded, Failed, Answer
  <2> QED BY <2>1, <2>2, <2>3
<1> QED BY <1>1, CacheInvariant, PTL DEF Spec, ReadyIsRecent

LEMMA SpawnStep == SpawnInv /\ [Next]_vars => SpawnInv'
<1> SUFFICES ASSUME SpawnInv, [Next]_vars PROVE SpawnInv'
  OBVIOUS
<1> USE ReadinessAssumption DEF cacheVars, ageVars
<1>0. CacheInv /\ CacheInv'
  BY CacheStep DEF SpawnInv
<1>1. mutex' = NoProbe => age' <= spawnAge'
  <2> USE <1>0 DEF CacheInv, TypeOK, SpawnInv, Age
  <2>1. CASE Tick
    BY <2>1, AgeGrows DEF Tick
  <2>2. CASE MsbTurns \/ UNCHANGED vars
    BY <2>2 DEF MsbTurns, vars
  <2>3. ASSUME NEW p \in Probe, Arrive(p) \/ Leave(p) \/ Check(p)
        PROVE  mutex' = NoProbe => age' <= spawnAge'
    BY <2>3 DEF Arrive, Leave, Check, FromCache, NotStarted, Spawn, Answer
  <2>4. ASSUME NEW p \in Probe, Ends(p)
        PROVE  mutex' = NoProbe => age' <= spawnAge'
    BY <2>4 DEF Ends, ListEnds, Killed, KilledTooLate, Remember, Unlock
  <2> QED BY <2>1, <2>2, <2>3, <2>4 DEF Next
<1> QED BY <1>0, <1>1 DEF SpawnInv

\* Other than after a kill that hit a child which had just ended, msb ls is
\* started at most once per TTL, whatever the callers do.
THEOREM RateIsBounded == Spec => RateBounded
<1>1. SpawnInv /\ [Next]_vars =>
        [\A p \in Probe :
           pc[p] # "listing" /\ pc'[p] = "listing" => spawnAge = TTL]_vars
  <2> SUFFICES ASSUME SpawnInv, Next, NEW p \in Probe,
                      pc[p] # "listing", pc'[p] = "listing"
               PROVE  spawnAge = TTL
    OBVIOUS
  <2> USE ReadinessAssumption DEF SpawnInv, CacheInv, TypeOK, Age
  <2>1. PICK q \in Probe : Arrive(q) \/ Leave(q) \/ Check(q) \/ Ends(q)
    BY DEF Next, Tick, MsbTurns
  <2>2. ~Arrive(q) /\ ~Leave(q)
    BY DEF Arrive, Leave
  <2>3. ~FromCache(q) /\ ~NotStarted(q) /\ ~Ends(q)
    BY DEF FromCache, NotStarted, Ends, ListEnds, Killed, KilledTooLate, Answer,
           Succeeded, Failed
  <2>4. Spawn(q)
    BY <2>1, <2>2, <2>3 DEF Check
  <2> QED BY <2>4 DEF Spawn, Fresh
<1>2. SpawnInv /\ [Next]_vars => SpawnInv'
  BY SpawnStep
<1> QED BY <1>1, <1>2, CacheInit, PTL DEF Spec, RateBounded
=============================================================================
