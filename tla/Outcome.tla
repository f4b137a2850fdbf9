------------------------------ MODULE Outcome -------------------------------
(***************************************************************************)
(* What becomes of one msb invocation: from the child process, through the   *)
(* runner's capture cap, the command timeout, the classification of stderr   *)
(* and the HTTP status, to the exit code of msbctl (internal/msb,            *)
(* internal/server, cmd/msbctl).                                             *)
(*                                                                          *)
(* A stream is a sequence of tokens, written in chunks: "error" stands for   *)
(* the text "error: ", a row of the classifier table for its prefix, "text"  *)
(* for anything else.  A call is at its command from the moment it holds the *)
(* adapter's mutex, which ControlPlane models.                               *)
(***************************************************************************)
EXTENDS Integers, Sequences

CONSTANTS
  Ops,         \* of AllOps, what is called
  Limit,       \* the capture cap, in tokens per stream
  GuestSays,   \* what guest commands may write to stderr
  Garbled      \* sets of tokens the secrets of a create occur in

\* "keys" is the exec that installs the ssh keys of a create, "plain" any
\* command whose streams msb writes and whose arguments hold no secret.
AllOps == {"exec", "keys", "create", "plain"}

\* classifierTable, in its order.
Table == <<"sandbox not found", "sandbox exists", "sandbox running", "volume exists",
           "volume not found", "snapshot exists", "snapshot not found", "no logs">>
Category == {Table[i] : i \in DOMAIN Table}
Token == Category \cup {"error", "text", "redacted"}

ASSUME OutcomeAssumption ==
  /\ Ops \subseteq AllOps
  /\ Limit \in Nat \ {0}
  /\ GuestSays \subseteq Seq(Token)
  /\ Garbled \subseteq SUBSET Token

VARIABLES
  call,    \* the operation, and how its child ends if it is left alone
  pc,      \* where the call is
  sent,    \* how much the child has written to each stream
  kept,    \* how much of it the runner has stored
  over,    \* the streams that ran over the cap
  ctx,     \* the command's context: live, canceled or expired
  gone,    \* whether the client has left
  err,     \* what cmd.Run returned
  status,  \* the HTTP status, 0 before
  exit     \* msbctl's exit code, -1 before

vars == <<call, pc, sent, kept, over, ctx, gone, err, status, exit>>

Stream == {"stdout", "stderr"}

\* How a child ends if it is left alone: by whom, whether it ends at all, its
\* exit code (-1 for a signal), its stderr, the length of its stdout, and
\* whether a process it leaves behind keeps its pipes open.
Fate == [by : {"msb", "guest"}, ends : BOOLEAN, code : {-1, 0, 1, 3},
         says : Seq(Token), out : Nat, holds : BOOLEAN]

\* msb refuses, or fails in another way, is killed, does its work, or hangs.
MsbFate ==
  [by : {"msb"}, ends : {TRUE}, code : {1}, says : {<<"error", t>> : t \in Category \cup {"text"}},
   out : {0}, holds : {FALSE}]
  \cup [by : {"msb"}, ends : {TRUE}, code : {-1}, says : {<<>>}, out : {0}, holds : {FALSE}]
  \cup [by : {"msb"}, ends : {TRUE}, code : {0}, says : {<<>>, <<"text">>}, out : {0, Limit + 1},
        holds : BOOLEAN]
  \cup [by : {"msb"}, ends : {FALSE}, code : {0}, says : {<<>>}, out : {0}, holds : {FALSE}]

\* The guest command ran, to its end or not.
GuestFate ==
  [by : {"guest"}, ends : BOOLEAN, code : {0, 3}, says : GuestSays, out : {0, Limit, Limit + 1},
   holds : {FALSE}]

FatesOf(op) == IF op \in {"exec", "keys"} THEN MsbFate \cup GuestFate ELSE MsbFate

NoCall ==
  [op |-> "plain", garbled |-> {},
   fate |-> [by |-> "msb", ends |-> TRUE, code |-> 0, says |-> <<>>, out |-> 0, holds |-> FALSE]]

Place == {"away", "queued", "running", "ended", "answered", "over"}
RunError == {"nil", "exit", "killed", "context", "wait delay"}
Status == {0, 200, 404, 409, 500, 504}

TypeOK ==
  /\ call \in [op : AllOps, garbled : SUBSET Token, fate : Fate]
  /\ pc \in Place
  /\ sent \in [Stream -> Nat]
  /\ kept \in [Stream -> 0 .. Limit]
  /\ over \in SUBSET Stream
  /\ ctx \in {"live", "canceled", "expired"}
  /\ gone \in BOOLEAN
  /\ err \in RunError
  /\ status \in Status
  /\ exit \in -1 .. 255

Init ==
  /\ call = NoCall
  /\ pc = "away"
  /\ sent = [f \in Stream |-> 0]
  /\ kept = [f \in Stream |-> 0]
  /\ over = {}
  /\ ctx = "live"
  /\ gone = FALSE
  /\ err = "nil"
  /\ status = 0
  /\ exit = -1

fate == call.fate
Length(f) == IF f = "stdout" THEN fate.out ELSE Len(fate.says)

-----------------------------------------------------------------------------
(* The child and its runner.                                                 *)

Ask ==
  /\ pc = "away"
  /\ \E op \in Ops : \E ft \in FatesOf(op) : \E g \in Garbled :
       /\ op # "create" => g = {}
       /\ call' = [op |-> op, garbled |-> g, fate |-> ft]
  /\ pc' = "queued"
  /\ UNCHANGED <<sent, kept, over, ctx, gone, err, status, exit>>

\* msbctl gives up, at its requestTimeout or because it is interrupted; the
\* request's context is canceled.
Leave ==
  /\ pc \in {"queued", "running", "ended", "answered"}
  /\ ~gone
  /\ gone' = TRUE
  /\ exit' = 1
  /\ ctx' = IF ctx = "live" THEN "canceled" ELSE ctx
  /\ UNCHANGED <<call, pc, sent, kept, over, err, status>>

\* The command's timeout.
Expire ==
  /\ pc \in {"running", "ended"}
  /\ ctx = "live"
  /\ ctx' = "expired"
  /\ UNCHANGED <<call, pc, sent, kept, over, gone, err, status, exit>>

Ended(e) == pc' = "ended" /\ err' = e

\* With a context that is done already exec starts nothing.
Spawn ==
  /\ pc = "queued"
  /\ \/ ctx = "live" /\ pc' = "running" /\ UNCHANGED err
     \/ ctx # "live" /\ Ended("context")
  /\ UNCHANGED <<call, sent, kept, over, ctx, gone, status, exit>>

\* capWriter.Write: how much is stored after a chunk of n.
StoresTheWholeChunk(k, n) == IF k < Limit THEN k + n ELSE k         \* mutant
Stored(k, n) == IF n > Limit - k THEN Limit ELSE k + n

Write(f, n) ==
  /\ pc = "running"
  /\ sent[f] + n <= Length(f)
  /\ sent' = [sent EXCEPT ![f] = sent[f] + n]
  /\ kept' = [kept EXCEPT ![f] = Stored(kept[f], n)]
  /\ over' = IF n > Limit - kept[f] THEN over \cup {f} ELSE over
  /\ UNCHANGED <<call, pc, ctx, gone, err, status, exit>>

AllWritten == \A f \in Stream : sent[f] = Length(f)

\* A child of which a process is left that keeps the pipes open counts as
\* failed after WaitDelay, though it succeeded.
Exits ==
  /\ pc = "running"
  /\ fate.ends
  /\ AllWritten
  /\ Ended(IF fate.code # 0 THEN "exit" ELSE IF fate.holds THEN "wait delay" ELSE "nil")
  /\ UNCHANGED <<call, sent, kept, over, ctx, gone, status, exit>>

KilledOnlyForTheClient ==                                           \* mutant
  /\ pc = "running"
  /\ ctx = "canceled"
  /\ Ended("killed")
  /\ UNCHANGED <<call, sent, kept, over, ctx, gone, status, exit>>

\* SIGKILL; a child that had just exited with success counts as failed too.
Kill ==
  /\ pc = "running"
  /\ ctx # "live"
  /\ \/ Ended("killed")
     \/ fate.ends /\ fate.code = 0 /\ AllWritten /\ Ended("context")
  /\ UNCHANGED <<call, sent, kept, over, ctx, gone, status, exit>>

-----------------------------------------------------------------------------
(* The verdict.                                                              *)

Captured == SubSeq(fate.says, 1, kept["stderr"])

\* redactSecrets.
Redacted(s) == [i \in DOMAIN s |-> IF s[i] \in call.garbled THEN "redacted" ELSE s[i]]

\* Two rows of the table stand for one sentinel.
Sentinel(t) == IF t = "no logs" THEN "sandbox not found" ELSE t

\* classifyError: the first row of the table that occurs anywhere.
Classified(s) ==
  LET rows == {i \in DOMAIN Table : \E k \in DOMAIN s : s[k] = Table[i]}
  IN IF rows = {} THEN "none"
     ELSE Sentinel(Table[CHOOSE i \in rows : \A j \in rows : i <= j])

\* classifyErrorAnchored: only at the very start, after "error: ".
ClassifiedAnchored(s) ==
  IF Len(s) >= 2 /\ s[1] = "error" /\ s[2] \in Category THEN Sentinel(s[2]) ELSE "none"

OverflowOfFailuresOnly ==                                           \* mutant
  IF over # {} /\ err # "nil" THEN "too large" ELSE err

\* ExecRunner.Run: what ran over the cap is never a success.
RunnerErr == IF over # {} THEN "too large" ELSE err

\* Client.run.
RunErr == IF RunnerErr # "nil" /\ ctx = "expired" THEN "timeout" ELSE RunnerErr

\* wrapRunErr: the sentinel a failed command is reported as.
Wrapped(s) ==
  IF RunErr \in {"nil", "timeout", "too large"} THEN RunErr
  ELSE IF Classified(s) # "none" THEN Classified(s) ELSE RunErr

AnyOccurrence ==                                                    \* mutant
  IF RunErr \in {"nil", "timeout", "too large"} THEN RunErr
  ELSE IF Classified(Captured) # "none" THEN Classified(Captured)
  ELSE IF err = "exit" /\ fate.code > 0 THEN "nil" ELSE RunErr

StderrFirst ==                                                      \* mutant
  IF RunErr = "nil" THEN RunErr
  ELSE IF ClassifiedAnchored(Captured) # "none" THEN ClassifiedAnchored(Captured)
  ELSE IF RunErr \in {"timeout", "too large"} THEN RunErr
  ELSE IF err = "exit" /\ fate.code > 0 THEN "nil" ELSE RunErr

\* execOutcome: a guest command that ends with a positive code has run.
ExecOutcome ==
  IF RunErr \in {"nil", "timeout", "too large"} THEN RunErr
  ELSE IF ClassifiedAnchored(Captured) # "none" THEN ClassifiedAnchored(Captured)
  ELSE IF err = "exit" /\ fate.code > 0 THEN "nil" ELSE RunErr

Verdict ==
  IF call.op = "exec" THEN ExecOutcome
  ELSE IF call.op = "create" THEN Wrapped(Redacted(Captured)) ELSE Wrapped(Captured)

\* statusForAdapterError; 200 stands for the status of a success.
StatusFor(e) ==
  IF e = "nil" THEN 200
  ELSE IF e \in {"sandbox not found", "volume not found", "snapshot not found"} THEN 404
  ELSE IF e \in Category THEN 409
  ELSE IF e = "timeout" THEN 504 ELSE 500

Judge ==
  /\ pc = "ended"
  /\ pc' = "answered"
  /\ status' = StatusFor(Verdict)
  /\ UNCHANGED <<call, sent, kept, over, ctx, gone, err, exit>>

\* exitCodeForStatus.
ExitCodeForStatus(st) == IF st < 300 THEN 0 ELSE IF st < 500 THEN 4 ELSE 5

Received(code) ==
  /\ pc = "answered"
  /\ ~gone
  /\ exit' = code
  /\ pc' = "over"
  /\ UNCHANGED <<call, sent, kept, over, ctx, gone, err, status>>

\* cmdExec: msbctl ends with the guest's code if the guest command ran.
ReceiveExec ==
  /\ call.op = "exec"
  /\ Received(IF status = 200 THEN fate.code ELSE ExitCodeForStatus(status))

\* doAction.
ReceiveAction == call.op # "exec" /\ Received(ExitCodeForStatus(status))

Unread ==
  /\ pc = "answered"
  /\ gone
  /\ pc' = "over"
  /\ UNCHANGED <<call, sent, kept, over, ctx, gone, err, status, exit>>

\* The next call finds everything as the first did.
Again ==
  /\ pc = "over"
  /\ call' = NoCall
  /\ pc' = "away"
  /\ sent' = [f \in Stream |-> 0]
  /\ kept' = [f \in Stream |-> 0]
  /\ over' = {}
  /\ ctx' = "live"
  /\ gone' = FALSE
  /\ err' = "nil"
  /\ status' = 0
  /\ exit' = -1

Works == Spawn \/ Exits \/ Kill \/ Judge \/ ReceiveExec \/ ReceiveAction \/ Unread
Writes == \E f \in Stream : \E n \in 1 .. Limit + 2 : Write(f, n)

Next == Ask \/ Leave \/ Expire \/ Writes \/ Works \/ Again

Spec == Init /\ [][Next]_vars

\* The timeout fires, a killed child is gone at the latest after WaitDelay, and
\* the handler and msbctl go on.  Children need not write or end.
Fairness == WF_vars(Expire) /\ WF_vars(Works)

FairSpec == Spec /\ Fairness

-----------------------------------------------------------------------------
Answered == pc \in {"answered", "over"}
ByGuest == fate.by = "guest"
LooksLikeMsb == ClassifiedAnchored(fate.says) # "none"
LeftAlone == fate.ends /\ ctx = "live" /\ over = {} /\ ~fate.holds

\* The two cases execOutcome's comments concede: the guest of an exec writes
\* what msb would, and msb fails in a way the table does not know.  And one
\* they do not: what the guest writes while keys are installed is classified
\* by a category anywhere in it (README.md, "Divergences").
Conceded ==
  \/ call.op = "exec" /\ ByGuest /\ LooksLikeMsb
  \/ call.op = "exec" /\ ~ByGuest /\ fate.code > 0 /\ ~LooksLikeMsb
  \/ call.op = "keys" /\ ByGuest /\ Classified(fate.says) # "none"

\* What the caller should be told of a command that was left alone.
Truth ==
  IF ByGuest /\ call.op = "exec" THEN 200
  ELSE IF fate.code = 0 THEN 200
  ELSE IF fate.code = 1 THEN StatusFor(ClassifiedAnchored(fate.says)) ELSE 500

\* A command that ended by itself, in time and within the cap is answered by
\* what it did: "HTTP errors are reserved for the control plane itself"
\* (README), and msb's categories reach the caller as their statuses, also
\* through the redaction of secrets that are no part of a category's text.
AnswersAreTrue ==
  Answered /\ LeftAlone /\ ~Conceded => status = Truth

\* msbctl ends with 0 only if the command did, and, of an exec, with another
\* remote code only if the guest command did; none of the output is missing
\* (execOutcome, ExecRunner.Run: "an over-cap invocation is never reported as
\* success, even if the child exited 0").
ExitIsFaithful ==
  exit = 0 \/ (exit > 0 /\ ~gone /\ status = 200) =>
    /\ fate.ends /\ fate.code = exit
    /\ AllWritten /\ \A f \in Stream : kept[f] = Length(f)

\* A command that never ends is answered 504 to a client that waits, however
\* much it has written and whatever that looks like (Client.run).
HungIs504 == Answered /\ ~fate.ends /\ ~gone => status = 504

\* The output of an exec with a category somewhere in it is not taken for msb's
\* own error: README, "Guest stderr is never mistaken for an msb error: only an
\* error: <category>: line at the very start of stderr" counts.
GuestNeverMistaken ==
  Answered /\ call.op = "exec" /\ ByGuest /\ ~LooksLikeMsb => status \notin {404, 409}

\* Every call is over some time, whatever msb and the guest command do.
CallsEnd == pc = "queued" ~> pc = "over"
=============================================================================
