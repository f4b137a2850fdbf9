----------------------------- MODULE Deadlines ------------------------------
(***************************************************************************)
(* The deadlines a request runs under: the HTTP server's read and write      *)
(* timeouts (cmd/msb-manager), the timeout of every msb command              *)
(* (internal/config, Client.run), the time a killed child may still take     *)
(* (ExecRunner), and the adapter's mutex, which a handler waits for without   *)
(* any deadline.  A client may disconnect at any time, for instance when its   *)
(* own deadline is over (cmd/msbctl); that cancels the request's context.    *)
(*                                                                          *)
(* Handlers compute in no time: time passes while a body is read, a command  *)
(* runs or a request waits for a mutex somebody holds.  Ages count ticks and  *)
(* stop at the write timeout.                                                *)
(***************************************************************************)
EXTENDS Naturals

CONSTANTS
  Request,          \* request slots
  Nobody,           \* the mutex's owner when it is free
  Kinds,            \* of AllKinds, what clients ask for
  Configured,       \* what MSB_MANAGER_CMD_TIMEOUT may be set to, in ticks
  MaxCmdTimeout,
  KillGrace,        \* killGraceDelay
  ReadTimeout,
  WriteTimeout,
  ClientTimeout     \* how long a client waits: requestTimeout, for msbctl

\* "read" is one command without the mutex (list, inspect, logs, metrics),
\* "single" one command under it (stop, delete, exec, ...), "start" looks at the
\* sandbox first, "create" installs ssh keys afterwards.
OneCommand == {"read", "single"}
AllKinds == OneCommand \cup {"start", "create"}

ASSUME DeadlinesAssumption ==
  /\ Nobody \notin Request
  /\ Kinds \subseteq AllKinds
  /\ Configured \subseteq Nat
  /\ {MaxCmdTimeout, ReadTimeout, WriteTimeout, ClientTimeout} \subseteq Nat
  /\ KillGrace \in Nat \ {0}

\* parseTimeout, and the comment there: what the process starts with.
AnyPositive(d) == d > 0                                             \* mutant
Accepted(d) == d > 0 /\ d <= MaxCmdTimeout

VARIABLES
  timeout,   \* of every msb command
  mutex,     \* the request that holds the adapter's mutex
  pc,        \* where each request is
  kind,      \* what it asks for
  age,       \* how long ago its header was read
  cmdAge,    \* how long its command has been running
  gone,      \* the requests whose client has disconnected
  failed,    \* the requests of which a command has failed
  made,      \* the creates that made a sandbox which is still there
  orphaned,  \* the creates whose rollback has failed
  cut,       \* history: the creates of which msb create itself failed
  delayed    \* history: the requests that had to wait for the mutex

vars == <<timeout, mutex, pc, kind, age, cmdAge, gone, failed, made, orphaned,
          cut, delayed>>

PC == {"idle", "reading", "look", "waiting", "command", "keys", "rollback", "writing"}

\* An msb command of the request is running.
InCommand(r) == pc[r] \in {"look", "command", "keys", "rollback"}

TypeOK ==
  /\ timeout \in Configured
  /\ mutex \in Request \cup {Nobody}
  /\ pc \in [Request -> PC]
  /\ kind \in [Request -> AllKinds]
  /\ age \in [Request -> 0 .. WriteTimeout]
  /\ cmdAge \in [Request -> 0 .. timeout + KillGrace]
  /\ gone \in SUBSET Request
  /\ failed \in SUBSET Request
  /\ made \in SUBSET Request
  /\ orphaned \in SUBSET Request
  /\ cut \in SUBSET Request
  /\ delayed \in SUBSET Request
  /\ \A r \in Request : mutex = r <=> pc[r] \in {"command", "keys", "rollback"}

Init ==
  /\ timeout \in {d \in Configured : Accepted(d)}
  /\ mutex = Nobody
  /\ pc = [r \in Request |-> "idle"]
  /\ kind = [r \in Request |-> "single"]
  /\ age = [r \in Request |-> 0]
  /\ cmdAge = [r \in Request |-> 0]
  /\ gone = {}
  /\ failed = {}
  /\ made = {}
  /\ orphaned = {}
  /\ cut = {}
  /\ delayed = {}

-----------------------------------------------------------------------------
(* Time.                                                                     *)

\* Nobody has anything to do at once: the reading is not out of time, a
\* command not at the end of its timeout and grace, no answer ready, and nobody
\* waits for a mutex that is free.
Waits(r) ==
  CASE pc[r] = "idle" -> TRUE
    [] pc[r] = "reading" -> age[r] < ReadTimeout
    [] pc[r] = "waiting" -> mutex # Nobody
    [] pc[r] = "writing" -> FALSE
    [] OTHER -> cmdAge[r] < timeout + KillGrace

Tick ==
  /\ \E r \in Request : pc[r] # "idle"
  /\ \A r \in Request : Waits(r)
  /\ age' = [r \in Request |->
       IF pc[r] = "idle" \/ age[r] = WriteTimeout THEN age[r] ELSE age[r] + 1]
  /\ cmdAge' = [r \in Request |-> IF InCommand(r) THEN cmdAge[r] + 1 ELSE 0]
  /\ delayed' = delayed \cup {r \in Request : pc[r] = "waiting"}
  /\ UNCHANGED <<timeout, mutex, pc, kind, gone, failed, made, orphaned, cut>>

-----------------------------------------------------------------------------
(* A request.                                                                *)

Goto(r, p) == pc' = [pc EXCEPT ![r] = p] /\ cmdAge' = [cmdAge EXCEPT ![r] = 0]

Arrive(r) ==
  /\ pc[r] = "idle"
  /\ \E k \in Kinds : kind' = [kind EXCEPT ![r] = k]
  /\ Goto(r, "reading")
  /\ UNCHANGED <<timeout, mutex, age, gone, failed, made, orphaned, cut, delayed>>

\* The client disconnects, at its own deadline or before: a command under the
\* request's context is killed.
Leave(r) ==
  /\ pc[r] # "idle"
  /\ r \notin gone
  /\ gone' = gone \cup {r}
  /\ cmdAge' = IF InCommand(r) /\ pc[r] # "rollback" /\ cmdAge[r] < timeout
                 THEN [cmdAge EXCEPT ![r] = timeout] ELSE cmdAge
  /\ UNCHANGED <<timeout, mutex, pc, kind, age, failed, made, orphaned, cut, delayed>>

\* The body is read, within the read timeout.  Under the context of a request
\* whose client has gone exec starts no command, and the call has failed at once.
Read(r) ==
  /\ pc[r] = "reading"
  /\ \/ /\ kind[r] \notin {"read", "start"}
        /\ Goto(r, "waiting") /\ UNCHANGED failed
     \/ /\ kind[r] \in {"read", "start"} /\ r \notin gone
        /\ Goto(r, "look") /\ UNCHANGED failed
     \/ /\ kind[r] \in {"read", "start"} /\ r \in gone
        /\ Goto(r, "writing") /\ failed' = failed \cup {r}
  /\ UNCHANGED <<timeout, mutex, kind, age, gone, made, orphaned, cut, delayed>>

\* The mutex is taken whether the client is still there or not; a handler whose
\* command does not start gives it back at once.
Lock(r) ==
  /\ pc[r] = "waiting"
  /\ mutex = Nobody
  /\ \/ /\ r \notin gone
        /\ mutex' = r /\ Goto(r, "command") /\ UNCHANGED failed
     \/ /\ r \in gone
        /\ Goto(r, "writing") /\ failed' = failed \cup {r} /\ UNCHANGED mutex
  /\ UNCHANGED <<timeout, kind, age, gone, made, orphaned, cut, delayed>>

\* The deferred Unlock, and the answer.
StillLocked(r) == UNCHANGED mutex /\ Goto(r, "writing")             \* mutant
Done(r) ==
  /\ mutex' = IF mutex = r THEN Nobody ELSE mutex
  /\ Goto(r, "writing")

\* A command ends by itself, at any time before it is killed.
Succeeds(r) ==
  /\ InCommand(r)
  /\ cmdAge[r] <= timeout
  /\ r \in gone => pc[r] = "rollback"
  /\ \/ /\ pc[r] = "look"
        /\ IF kind[r] = "read" THEN Done(r) ELSE Goto(r, "waiting") /\ UNCHANGED mutex
        /\ UNCHANGED made
     \/ /\ pc[r] = "command"
        /\ IF kind[r] = "create"
             THEN made' = made \cup {r} /\ Goto(r, "keys") /\ UNCHANGED mutex
             ELSE Done(r) /\ UNCHANGED made
     \/ pc[r] = "keys" /\ Done(r) /\ UNCHANGED made
     \/ pc[r] = "rollback" /\ Done(r) /\ made' = made \ {r}
  /\ UNCHANGED <<timeout, kind, age, gone, failed, orphaned, cut, delayed>>

AtCreate(r) == pc[r] = "command" /\ kind[r] = "create"

\* What a create that fails at msb create itself leaves: the command may have
\* had its effect before it failed or was killed, and the handler returns.
CreateFails(r) ==
  /\ made' \in {made, made \cup {r}}
  /\ cut' = cut \cup {r}
  /\ UNCHANGED orphaned

\* So may a rollback that fails.
RollbackFails(r) ==
  /\ made' \in {made, made \ {r}}
  /\ orphaned' = orphaned \cup {r}
  /\ UNCHANGED cut

RolledBackUnderTheRequest(r) ==                                     \* mutant
  /\ failed' = failed \cup {r}
  /\ \/ /\ pc[r] = "keys"
        /\ IF r \in gone THEN Done(r) ELSE Goto(r, "rollback") /\ UNCHANGED mutex
        /\ UNCHANGED <<made, orphaned, cut>>
     \/ pc[r] = "rollback" /\ Done(r) /\ RollbackFails(r)
     \/ AtCreate(r) /\ Done(r) /\ CreateFails(r)
     \/ /\ pc[r] \in {"look", "command"} /\ ~AtCreate(r)
        /\ Done(r) /\ UNCHANGED <<made, orphaned, cut>>
  /\ UNCHANGED <<timeout, kind, age, gone, delayed>>

\* A failed installation of the keys is rolled back, with a context of its
\* own; every other failure is the answer.
Fail(r) ==
  /\ failed' = failed \cup {r}
  /\ \/ /\ pc[r] = "keys"
        /\ Goto(r, "rollback") /\ UNCHANGED <<mutex, made, orphaned, cut>>
     \/ pc[r] = "rollback" /\ Done(r) /\ RollbackFails(r)
     \/ AtCreate(r) /\ Done(r) /\ CreateFails(r)
     \/ /\ pc[r] \in {"look", "command"} /\ ~AtCreate(r)
        /\ Done(r) /\ UNCHANGED <<made, orphaned, cut>>
  /\ UNCHANGED <<timeout, kind, age, gone, delayed>>

\* A command that fails by itself, and one that is killed at its timeout, or
\* because its client has gone, and is not there any more after the grace.
FailsByItself(r) == InCommand(r) /\ cmdAge[r] <= timeout /\ Fail(r)
KillTheAbandoned(r) == InCommand(r) /\ r \in gone /\ cmdAge[r] >= timeout /\ Fail(r)  \* mutant
Kill(r) == InCommand(r) /\ cmdAge[r] >= timeout /\ Fail(r)

\* The answer is written, or the connection is torn down.
Write(r) ==
  /\ pc[r] = "writing"
  /\ Goto(r, "idle")
  /\ kind' = [kind EXCEPT ![r] = "single"]
  /\ age' = [age EXCEPT ![r] = 0]
  /\ gone' = gone \ {r}
  /\ failed' = failed \ {r}
  /\ made' = made \ {r}
  /\ orphaned' = orphaned \ {r}
  /\ cut' = cut \ {r}
  /\ delayed' = delayed \ {r}
  /\ UNCHANGED <<timeout, mutex>>

\* What msb and clients do, and what the server does by itself.
Outside(r) == Arrive(r) \/ Leave(r) \/ Succeeds(r) \/ FailsByItself(r)
Inside(r) == Read(r) \/ Kill(r) \/ Write(r)

Next == Tick \/ \E r \in Request : Outside(r) \/ Lock(r) \/ Inside(r)

Spec == Init /\ [][Next]_vars

\* Time passes, however busy the server is; its own steps happen; a
\* sync.Mutex does not starve a waiter.  msb commands need not end by themselves.
Fairness ==
  /\ SF_vars(Tick)
  /\ \A r \in Request : SF_vars(Lock(r)) /\ WF_vars(Inside(r))

FairSpec == Spec /\ Fairness

-----------------------------------------------------------------------------
\* An answer is ready before the connection is torn down: "a timed-out msb call
\* can always surface its 504" (config.MaxCmdTimeout, writeTimeout).
AnswerSurfaces(r) == pc[r] = "writing" => age[r] < WriteTimeout
AlwaysSurfaces == \A r \in Request \ gone : AnswerSurfaces(r)

\* What the deadlines do guarantee of it, whatever timeout was accepted: the
\* request runs one command and found the mutex free.
InTime ==
  \A r \in Request \ (gone \cup delayed) : kind[r] \in OneCommand => AnswerSurfaces(r)

\* An answer to such a request is ready before a client's own deadline, counted
\* from the header's arrival: "msb-manager itself bounds the msb subprocess ...;
\* this is the client-side backstop against a wedged connection" (requestTimeout).
HeardOf(r) == pc[r] # "writing" => age[r] < ClientTimeout
Heard == \A r \in Request \ (gone \cup delayed) : kind[r] \in OneCommand => HeardOf(r)

\* Once msb create has succeeded, a create that fails leaves a sandbox behind
\* only if the rollback itself failed, whenever the client disconnects
\* (Client.Create, "atomic 'either fully created or nothing' semantics").  When
\* msb create itself fails there is no rollback, and what it made stays.
NoOrphan ==
  \A r \in failed \cap made : pc[r] = "writing" => r \in orphaned \cup cut

\* A wedged msb fails the request that runs into it and hangs no other.
Served == \A r \in Request : pc[r] # "idle" ~> pc[r] = "idle"
=============================================================================
