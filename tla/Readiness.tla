----------------------------- MODULE Readiness ------------------------------
(***************************************************************************)
(* GET /readyz (internal/server/server.go): probes nobody authenticates      *)
(* share one cached result of  msb ls,  which is refreshed under the cache's *)
(* mutex when it is older than its TTL.                                      *)
(*                                                                          *)
(* Time is kept as ages that stop counting at TTL, where the code compares   *)
(* time.Since(checkedAt) with the TTL and never looks further.  A probe's    *)
(* client may leave at any time; net/http then cancels the request context,  *)
(* and ExecRunner kills the child with SIGKILL.                              *)
(***************************************************************************)
EXTENDS Naturals

CONSTANTS
  Probe,       \* callers of /readyz at a time
  NoProbe,     \* the mutex's owner when it is free
  TTL          \* readinessTTL, in ticks

ASSUME ReadinessAssumption ==
  /\ NoProbe \notin Probe
  /\ TTL \in Nat \ {0}

VARIABLES
  age,      \* of the cached result; TTL when it is stale or there is none
  cached,   \* the cached result
  mutex,    \* the probe that holds the cache's mutex
  pc,       \* where each probe is
  gone,     \* the probes whose client has left
  answer,   \* what each probe was last answered
  healthy,  \* whether msb ls succeeds just now
  okAge,    \* history: how long ago msb ls last succeeded
  failAge,  \* history: how long ago msb ls last failed by itself
  spawnAge  \* history: how long ago an msb ls was last started, but for those
            \* whose caller was told that it left too early

cacheVars == <<age, cached>>
ageVars == <<okAge, failAge, spawnAge>>
vars == <<age, cached, mutex, pc, gone, answer, healthy, okAge, failAge, spawnAge>>

Result == {"ok", "error"}
Age == 0 .. TTL

TypeOK ==
  /\ age \in Age
  /\ cached \in Result
  /\ mutex \in Probe \cup {NoProbe}
  /\ pc \in [Probe -> {"away", "waiting", "listing"}]
  /\ gone \in SUBSET Probe
  /\ answer \in [Probe -> {"none", "ready", "unready"}]
  /\ healthy \in BOOLEAN
  /\ okAge \in Age
  /\ failAge \in Age
  /\ spawnAge \in Age

\* The zero readinessCache: checkedAt is infinitely old and err is nil.
Init ==
  /\ age = TTL
  /\ cached = "ok"
  /\ mutex = NoProbe
  /\ pc = [p \in Probe |-> "away"]
  /\ gone = {}
  /\ answer = [p \in Probe |-> "none"]
  /\ healthy \in BOOLEAN
  /\ okAge = TTL
  /\ failAge = TTL
  /\ spawnAge = TTL

-----------------------------------------------------------------------------
Unbounded(a) == a + 1                                               \* mutant
Older(a) == IF a < TTL THEN a + 1 ELSE TTL

Tick ==
  /\ age' = Older(age)
  /\ okAge' = Older(okAge)
  /\ failAge' = Older(failAge)
  /\ spawnAge' = Older(spawnAge)
  /\ UNCHANGED <<cached, mutex, pc, gone, answer, healthy>>

MsbTurns ==
  /\ healthy' = ~healthy
  /\ UNCHANGED <<cacheVars, mutex, pc, gone, answer, ageVars>>

Arrive(p) ==
  /\ pc[p] = "away"
  /\ pc' = [pc EXCEPT ![p] = "waiting"]
  /\ gone' = gone \ {p}
  /\ answer' = [answer EXCEPT ![p] = "none"]
  /\ UNCHANGED <<cacheVars, mutex, healthy, ageVars>>

Leave(p) ==
  /\ pc[p] # "away"
  /\ gone' = gone \cup {p}
  /\ UNCHANGED <<cacheVars, mutex, pc, answer, healthy, ageVars>>

Answer(p, res) ==
  /\ pc' = [pc EXCEPT ![p] = "away"]
  /\ answer' = [answer EXCEPT ![p] = IF res = "ok" THEN "ready" ELSE "unready"]

Unlock == mutex' = NoProbe

FreshAtTTL == age <= TTL                                            \* mutant
FreshOnceFailed == cached = "error" \/ age < TTL                    \* mutant
Fresh == age < TTL

\* A hit: locked, answered from the cache, unlocked.
FromCache(p) ==
  /\ pc[p] = "waiting"
  /\ mutex = NoProbe
  /\ Fresh
  /\ Answer(p, cached)
  /\ UNCHANGED <<cacheVars, mutex, gone, healthy, ageVars>>

LockedForGood(p) ==                                                 \* mutant
  /\ pc[p] = "waiting"
  /\ mutex = NoProbe
  /\ ~Fresh
  /\ p \in gone
  /\ mutex' = p
  /\ Answer(p, "error")
  /\ UNCHANGED <<cacheVars, gone, healthy, ageVars>>

\* A miss for a client that left while waiting: exec starts nothing and
\* returns context.Canceled, which is not cached.
NotStarted(p) ==
  /\ pc[p] = "waiting"
  /\ mutex = NoProbe
  /\ ~Fresh
  /\ p \in gone
  /\ Answer(p, "error")
  /\ UNCHANGED <<cacheVars, mutex, gone, healthy, ageVars>>

\* A miss: msb ls runs while the mutex is held.
Spawn(p) ==
  /\ pc[p] = "waiting"
  /\ mutex = NoProbe
  /\ ~Fresh
  /\ p \notin gone
  /\ mutex' = p
  /\ pc' = [pc EXCEPT ![p] = "listing"]
  /\ spawnAge' = 0
  /\ UNCHANGED <<cacheVars, gone, answer, healthy, okAge, failAge>>

Remember(res) == age' = 0 /\ cached' = res

\* msb ls ends by itself: it succeeds, or fails, prints nonsense or runs into
\* the command timeout.
Succeeded(p) == okAge' = 0 /\ UNCHANGED failAge /\ Answer(p, "ok")
Failed(p) == failAge' = 0 /\ UNCHANGED okAge /\ Answer(p, "error")

OnlySuccessRemembered(p) ==                                         \* mutant
  /\ pc[p] = "listing"
  /\ \/ healthy /\ Remember("ok") /\ Succeeded(p)
     \/ ~healthy /\ UNCHANGED cacheVars /\ Failed(p)
  /\ Unlock
  /\ UNCHANGED <<gone, healthy, spawnAge>>

ListEnds(p) ==
  /\ pc[p] = "listing"
  /\ \/ healthy /\ Remember("ok") /\ Succeeded(p)
     \/ ~healthy /\ Remember("error") /\ Failed(p)
  /\ Unlock
  /\ UNCHANGED <<gone, healthy, spawnAge>>

\* The client left and the child is killed: os/exec reports how the child
\* ended, "signal: killed", not why, so it is remembered like a failure.
Killed(p) ==
  /\ pc[p] = "listing"
  /\ p \in gone
  /\ Remember("error")
  /\ Answer(p, "error")
  /\ Unlock
  /\ UNCHANGED <<gone, healthy, ageVars>>

\* The child had exited with success and was not reaped yet when it was killed:
\* os/exec reports context.Canceled, which is not cached.
KilledTooLate(p) ==
  /\ pc[p] = "listing"
  /\ p \in gone
  /\ healthy
  /\ Answer(p, "error")
  /\ Unlock
  /\ spawnAge' = TTL
  /\ UNCHANGED <<cacheVars, gone, healthy, okAge, failAge>>

Check(p) == FromCache(p) \/ NotStarted(p) \/ Spawn(p)
Ends(p) == ListEnds(p) \/ Killed(p) \/ KilledTooLate(p)

Next ==
  \/ Tick \/ MsbTurns
  \/ \E p \in Probe : Arrive(p) \/ Leave(p) \/ Check(p) \/ Ends(p)

Spec == Init /\ [][Next]_vars

\* Time passes; msb ls ends, at the latest at the command timeout; a sync.Mutex
\* does not starve a waiter.
Fairness ==
  /\ WF_vars(Tick)
  /\ \A p \in Probe : SF_vars(Check(p)) /\ WF_vars(Ends(p))

FairSpec == Spec /\ Fairness

-----------------------------------------------------------------------------
\* "ready" means msb ls succeeded less than a TTL ago, whichever probe ran it
\* and however long this one waited for the mutex.
ReadyIsRecent ==
  [][\A p \in Probe : answer[p] # "ready" /\ answer'[p] = "ready" => okAge' < TTL]_vars

\* "The TTL bounds the subprocess rate to at most one per interval regardless
\* of request volume" (readinessCache): however many probes come and leave, an
\* msb ls is started only when a TTL has passed since the start of any other,
\* those left out that end in the very moment they are killed (KilledTooLate).
RateBounded ==
  [][\A p \in Probe : pc[p] # "listing" /\ pc'[p] = "listing" => spawnAge = TTL]_vars

\* A client that is still there is told "unready" only if msb ls itself failed
\* less than a TTL ago: a caller that disconnects does not "poison the cache",
\* "or every probe in the next TTL window would see a spurious 503 while msb is
\* actually healthy" (ready).
NoSpuriousUnready ==
  [][\A p \in Probe \ gone :
       answer[p] # "unready" /\ answer'[p] = "unready" => failAge' < TTL]_vars

\* Every probe is answered, however many wait behind a slow msb ls.
ProbesAnswered == \A p \in Probe : pc[p] # "away" ~> pc[p] = "away"

\* A failure is not remembered for ever: once msb stays healthy and clients
\* wait for their answers, no more "unready" is answered after a while.
Recovers ==
  <>[](healthy /\ gone = {}) =>
    <>[][\A p \in Probe : answer[p] # "unready" => answer'[p] # "unready"]_vars
=============================================================================
