--------------------------- MODULE OutcomeProofs ----------------------------
(***************************************************************************)
(* What a caller is told of an msb invocation is what happened, for any cap  *)
(* on the captured output, anything a guest may write, and timeouts and      *)
(* disconnections at any moment.                                             *)
(***************************************************************************)
EXTENDS Outcome, TLAPS

\* No secret of a create occurs in the text of a category.
SecretsApart == \A g \in Garbled : g \cap Category = {}

\* A call is one that can be asked for.
CallFits ==
  /\ fate \in MsbFate \cup GuestFate
  /\ call.op \notin {"exec", "keys"} => fate \in MsbFate
  /\ call.garbled \in Garbled \cup {{}}
  /\ call.op # "create" => call.garbled = {}

\* The runner stores all of a stream that stays within the cap.
CaptureInv ==
  \A f \in Stream :
    /\ pc = "away" => sent[f] = 0
    /\ sent[f] <= Length(f)
    /\ kept[f] <= sent[f]
    /\ f \notin over => kept[f] = sent[f]

\* What cmd.Run returned says how the child ended.
EndedAs ==
  /\ err \in {"nil", "exit", "wait delay"} => fate.ends /\ AllWritten
  /\ err = "nil" => fate.code = 0
  /\ err = "exit" => fate.code # 0
  /\ err = "wait delay" => fate.holds
  /\ err \in {"killed", "context"} => ctx # "live"

\* The request's context is canceled by its client only.
ContextInv == (gone => ctx # "live") /\ (ctx = "canceled" => gone)

\* msbctl's exit code follows the answer, unless it has left before.
ExitFollows ==
  /\ gone => exit = 1
  /\ ~gone /\ pc # "over" => exit = -1
  /\ ~gone /\ pc = "over" =>
       exit = IF call.op = "exec" /\ status = 200 THEN fate.code ELSE ExitCodeForStatus(status)

\* What was judged is what there still is to judge, for a client that waits.
Judged == Answered /\ ~gone => status = StatusFor(Verdict)

OutcomeInv ==
  /\ TypeOK
  /\ CallFits
  /\ CaptureInv
  /\ ContextInv
  /\ pc \in {"ended", "answered", "over"} => EndedAs
  /\ ExitFollows
  /\ Judged
  /\ GuestNeverMistaken

-----------------------------------------------------------------------------
(* The operators.                                                            *)

LEMMA Statuses == ASSUME NEW e PROVE StatusFor(e) \in Status \ {0}
BY DEF StatusFor, Status

\* Both streams have a length.
LEMMA Lengths == ASSUME TypeOK, NEW f \in Stream PROVE Length(f) \in Nat
<1>1. fate.out \in Nat /\ fate.says \in Seq(Token)
  BY DEF TypeOK, Fate, fate
<1> QED BY <1>1 DEF Length

LEMMA LengthsNext == ASSUME TypeOK' PROVE \A f \in Stream : Length(f)' \in Nat
<1>1. fate'.out \in Nat /\ fate'.says \in Seq(Token)
  BY DEF TypeOK, Fate, fate
<1> QED BY <1>1 DEF Length

LEMMA FatesAreFates == MsbFate \cup GuestFate \subseteq Fate
<1> DEFINE By == {"msb", "guest"}
           Code == {-1, 0, 1, 3}
           Saying == {<<"error", t>> : t \in Category \cup {"text"}}
<1>1. Fate = [by : By, ends : BOOLEAN, code : Code, says : Seq(Token), out : Nat, holds : BOOLEAN]
  BY DEF Fate
<1>2. 0 \in Nat /\ Limit \in Nat /\ Limit + 1 \in Nat
  BY OutcomeAssumption
<1>3. <<>> \in Seq(Token) /\ <<"text">> \in Seq(Token) /\ Saying \subseteq Seq(Token)
  <2>1. \A t \in Category \cup {"text"} : <<"error", t>> \in Seq(Token)
    BY DEF Token
  <2>2. <<>> \in Seq(Token) /\ <<"text">> \in Seq(Token)
    BY DEF Token
  <2> QED BY <2>1, <2>2
<1>4. {"msb", "guest"} \subseteq By /\ {-1, 0, 1, 3} \subseteq Code
  OBVIOUS
<1>5. MsbFate =
        [by : {"msb"}, ends : {TRUE}, code : {1}, says : Saying, out : {0}, holds : {FALSE}]
        \cup [by : {"msb"}, ends : {TRUE}, code : {-1}, says : {<<>>}, out : {0}, holds : {FALSE}]
        \cup [by : {"msb"}, ends : {TRUE}, code : {0}, says : {<<>>, <<"text">>},
              out : {0, Limit + 1}, holds : BOOLEAN]
        \cup [by : {"msb"}, ends : {FALSE}, code : {0}, says : {<<>>}, out : {0}, holds : {FALSE}]
  BY DEF MsbFate
<1> HIDE DEF By, Code, Saying
<1>6. [by : {"msb"}, ends : {TRUE}, code : {1}, says : Saying, out : {0}, holds : {FALSE}]
        \subseteq Fate
  BY <1>1, <1>2, <1>3, <1>4
<1>7. [by : {"msb"}, ends : {TRUE}, code : {-1}, says : {<<>>}, out : {0}, holds : {FALSE}]
        \subseteq Fate
  BY <1>1, <1>2, <1>3, <1>4
<1>8. [by : {"msb"}, ends : {TRUE}, code : {0}, says : {<<>>, <<"text">>}, out : {0, Limit + 1},
       holds : BOOLEAN] \subseteq Fate
  BY <1>1, <1>2, <1>3, <1>4
<1>9. [by : {"msb"}, ends : {FALSE}, code : {0}, says : {<<>>}, out : {0}, holds : {FALSE}]
        \subseteq Fate
  BY <1>1, <1>2, <1>3, <1>4
<1>10. GuestFate \subseteq Fate
  BY <1>1, <1>2, <1>4, OutcomeAssumption DEF GuestFate
<1> QED BY <1>5, <1>6, <1>7, <1>8, <1>9, <1>10

\* What does not change what a verdict rests on does not change the verdict.
LEMMA SameVerdict ==
  ASSUME UNCHANGED <<call, kept, over, ctx, err>>
  PROVE  StatusFor(Verdict)' = StatusFor(Verdict)
BY DEF StatusFor, Verdict, ExecOutcome, Wrapped, RunErr, RunnerErr, Captured, Redacted, fate

\* A sentinel is a row of the table, or nothing was found.
LEMMA AnchoredIsCategory ==
  ASSUME NEW s PROVE ClassifiedAnchored(s) \in Category \cup {"none"}
<1>1. "sandbox not found" \in Category
  <2>1. Table[1] = "sandbox not found" /\ 1 \in DOMAIN Table
    BY DEF Table
  <2> QED BY <2>1 DEF Category
<1> QED BY <1>1 DEF ClassifiedAnchored, Sentinel

\* The classifier's table, as a set.
LEMMA Categories ==
  /\ Category = {"sandbox not found", "sandbox exists", "sandbox running", "volume exists",
                 "volume not found", "snapshot exists", "snapshot not found", "no logs"}
  /\ DOMAIN Table = {1, 2, 3, 4, 5, 6, 7, 8}
<1>1. DOMAIN Table = {1, 2, 3, 4, 5, 6, 7, 8}
  BY DEF Table
<1>2. /\ Table[1] = "sandbox not found" /\ Table[2] = "sandbox exists"
      /\ Table[3] = "sandbox running" /\ Table[4] = "volume exists"
      /\ Table[5] = "volume not found" /\ Table[6] = "snapshot exists"
      /\ Table[7] = "snapshot not found" /\ Table[8] = "no logs"
  BY DEF Table
<1>3. Category = {Table[1], Table[2], Table[3], Table[4], Table[5], Table[6], Table[7], Table[8]}
  BY <1>1 DEF Category
<1> QED BY <1>1, <1>2, <1>3

\* No error of the runner is a category.
LEMMA OwnErrors == \A e \in RunError \cup {"too large", "timeout", "none"} : e \notin Category
<1>1. /\ "nil" \notin Category /\ "exit" \notin Category /\ "killed" \notin Category
      /\ "context" \notin Category /\ "wait delay" \notin Category
      /\ "too large" \notin Category /\ "timeout" \notin Category /\ "none" \notin Category
  BY Categories
<1> QED BY <1>1 DEF RunError

LEMMA NilIsNone == "nil" \notin Category \cup {"none"}
BY Categories

\* What is not a category is answered by 200, 500 or 504.
LEMMA OwnStatus == ASSUME NEW e, e \notin Category PROVE StatusFor(e) \notin {404, 409}
<1>1. e \notin {"sandbox not found", "volume not found", "snapshot not found"}
  BY Categories
<1>2. StatusFor(e) = IF e = "nil" THEN 200 ELSE IF e = "timeout" THEN 504 ELSE 500
  BY <1>1 DEF StatusFor
<1> QED BY <1>2

LEMMA OwnStatuses ==
  /\ StatusFor("nil") = 200 /\ StatusFor("timeout") = 504
  /\ StatusFor("exit") = 500 /\ StatusFor("none") = 500
<1>1. "nil" \notin Category /\ "exit" \notin Category /\ "none" \notin Category
      /\ "timeout" \notin Category
  BY Categories
<1> QED BY <1>1 DEF StatusFor

\* Only "nil" is answered by 200.
LEMMA OnlyNil == ASSUME NEW e, StatusFor(e) = 200 PROVE e = "nil"
BY DEF StatusFor

\* The rows of the table that occur in a text, of which the first one counts.
Rows(s) == {i \in DOMAIN Table : \E k \in DOMAIN s : s[k] = Table[i]}

LEMMA RowFound ==
  ASSUME NEW s
  PROVE  /\ Rows(s) = {} => Classified(s) = "none"
         /\ Rows(s) # {} => \E i \in Rows(s) : Classified(s) = Sentinel(Table[i])
<1>1. Classified(s) = IF Rows(s) = {} THEN "none"
                      ELSE Sentinel(Table[CHOOSE i \in Rows(s) : \A j \in Rows(s) : i <= j])
  BY DEF Classified, Rows
<1>2. ASSUME Rows(s) # {} PROVE \E i \in Rows(s) : \A j \in Rows(s) : i <= j
  <2>1. Rows(s) \subseteq {1, 2, 3, 4, 5, 6, 7, 8}
    BY Categories DEF Rows
  <2>2. CASE 1 \in Rows(s) BY <2>1, <2>2
  <2>3. CASE 1 \notin Rows(s) /\ 2 \in Rows(s) BY <2>1, <2>3
  <2>4. CASE {1, 2} \cap Rows(s) = {} /\ 3 \in Rows(s) BY <2>1, <2>4
  <2>5. CASE {1, 2, 3} \cap Rows(s) = {} /\ 4 \in Rows(s) BY <2>1, <2>5
  <2>6. CASE {1, 2, 3, 4} \cap Rows(s) = {} /\ 5 \in Rows(s) BY <2>1, <2>6
  <2>7. CASE {6, 7, 8} \cap Rows(s) # {} /\ {1, 2, 3, 4, 5} \cap Rows(s) = {}
    BY <2>1, <2>7
  <2> QED BY <1>2, <2>1, <2>2, <2>3, <2>4, <2>5, <2>6, <2>7
<1> QED BY <1>1, <1>2

LEMMA ClassifiedIsCategory == ASSUME NEW s PROVE Classified(s) \in Category \cup {"none"}
<1>1. CASE Rows(s) = {} BY <1>1, RowFound
<1>2. CASE Rows(s) # {}
  <2>1. PICK i \in Rows(s) : Classified(s) = Sentinel(Table[i])
    BY <1>2, RowFound
  <2>2. Table[i] \in Category
    BY DEF Rows, Category
  <2> QED BY <2>1, <2>2, Categories DEF Sentinel
<1> QED BY <1>1, <1>2

\* The classifier finds the category of the only line msb writes.
LEMMA LineClassified ==
  ASSUME NEW x, NEW t, x \notin Category
  PROVE  Classified(<<x, t>>) = IF t \in Category THEN Sentinel(t) ELSE "none"
<1>1. Rows(<<x, t>>) = {i \in DOMAIN Table : t = Table[i]}
  <2>1. \A i \in DOMAIN Table : x # Table[i]
    BY DEF Category
  <2> QED BY <2>1 DEF Rows
<1>2. CASE t \in Category
  <2>1. Rows(<<x, t>>) # {}
    BY <1>1, <1>2 DEF Category
  <2> QED BY <1>1, <1>2, <2>1, RowFound
<1>3. CASE t \notin Category
  <2>1. Rows(<<x, t>>) = {}
    BY <1>1, <1>3 DEF Category
  <2> QED BY <1>3, <2>1, RowFound
<1> QED BY <1>2, <1>3

\* It finds nothing in nothing.
LEMMA NothingClassified == Classified(<<>>) = "none" /\ ClassifiedAnchored(<<>>) = "none"
BY DEF Classified, ClassifiedAnchored

\* What the cap leaves of a stream starts as msb's own line only if it does.
LEMMA PrefixAnchored ==
  ASSUME NEW s \in Seq(Token), NEW n \in 0 .. Len(s),
         ClassifiedAnchored(SubSeq(s, 1, n)) # "none"
  PROVE  ClassifiedAnchored(s) = ClassifiedAnchored(SubSeq(s, 1, n))
<1>1. Len(SubSeq(s, 1, n)) = n /\ \A i \in 1 .. n : SubSeq(s, 1, n)[i] = s[i]
  OBVIOUS
<1> QED BY <1>1 DEF ClassifiedAnchored

-----------------------------------------------------------------------------
(* The parts of the invariant, one by one.                                   *)

\* The slot of a call, while there is none.
LEMMA NoCallIsOne ==
  /\ NoCall.fate \in MsbFate /\ NoCall.garbled = {} /\ NoCall.op = "plain"
  /\ NoCall \in [op : AllOps, garbled : SUBSET Token, fate : Fate]
<1>1. NoCall.fate \in MsbFate
  BY DEF NoCall, MsbFate
<1>2. NoCall = [op |-> "plain", garbled |-> {}, fate |-> NoCall.fate]
  BY DEF NoCall
<1>3. NoCall.garbled = {} /\ NoCall.op = "plain"
  BY <1>2
<1>4. NoCall.fate \in Fate
  BY <1>1, FatesAreFates
<1>5. [op |-> "plain", garbled |-> {}, fate |-> NoCall.fate]
        \in [op : AllOps, garbled : SUBSET Token, fate : Fate]
  BY <1>4 DEF AllOps
<1> QED BY <1>1, <1>2, <1>3, <1>5

LEMMA OutcomeInit == Init => OutcomeInv
<1> SUFFICES ASSUME Init PROVE OutcomeInv
  OBVIOUS
<1>1. fate \in MsbFate /\ TypeOK
  <2>1. call \in [op : AllOps, garbled : SUBSET Token, fate : Fate] /\ fate \in MsbFate
    BY NoCallIsOne DEF Init, fate
  <2>2. pc \in Place /\ err \in RunError /\ status \in Status
    <3>1. pc \in Place
      BY DEF Init, Place
    <3>2. err \in RunError
      BY DEF Init, RunError
    <3>3. status \in Status
      BY DEF Init, Status
    <3> QED BY <3>1, <3>2, <3>3
  <2>3. 0 \in Nat /\ 0 \in 0 .. Limit /\ -1 \in -1 .. 255
    BY OutcomeAssumption
  <2> QED BY <2>1, <2>2, <2>3 DEF Init, TypeOK
<1>2. CallFits
  BY <1>1, NoCallIsOne DEF Init, CallFits
<1>3. CaptureInv
  BY <1>1, Lengths DEF Init, CaptureInv
<1> QED BY <1>1, <1>2, <1>3 DEF Init, OutcomeInv, ContextInv, ExitFollows, Judged,
           GuestNeverMistaken, Answered

\* A call that is asked for.
LEMMA Asked ==
  ASSUME Ask
  PROVE  /\ call' \in [op : AllOps, garbled : SUBSET Token, fate : Fate]
         /\ CallFits'
<1>0. PICK op \in Ops : \E ft \in FatesOf(op) : \E g \in Garbled :
        /\ op # "create" => g = {}
        /\ call' = [op |-> op, garbled |-> g, fate |-> ft]
  BY DEF Ask
<1>1. PICK ft \in FatesOf(op), g \in Garbled :
        /\ op # "create" => g = {}
        /\ call' = [op |-> op, garbled |-> g, fate |-> ft]
  BY <1>0
<1>2. ft \in MsbFate \cup GuestFate /\ (op \notin {"exec", "keys"} => ft \in MsbFate)
  BY DEF FatesOf
<1>3. op \in AllOps /\ g \in SUBSET Token
  BY OutcomeAssumption
<1> QED BY <1>1, <1>2, <1>3, FatesAreFates DEF CallFits, fate

LEMMA TypeStep == ASSUME TypeOK, Next PROVE TypeOK'
<1> USE DEF TypeOK
<1>1. CASE Ask BY <1>1, Asked DEF Ask, Place
<1>2. CASE Leave BY <1>2 DEF Leave
<1>3. CASE Expire BY <1>3 DEF Expire
<1>4. CASE Writes
  <2>1. PICK f \in Stream, n \in 1 .. Limit + 2 : Write(f, n)
    BY <1>4 DEF Writes
  <2>2. sent[f] + n \in Nat /\ Stored(kept[f], n) \in 0 .. Limit
    BY OutcomeAssumption DEF Stored
  <2> QED BY <2>1, <2>2 DEF Write
<1>5. CASE Spawn
  <2>1. pc' \in Place /\ err' \in RunError
    BY <1>5 DEF Spawn, Ended, Place, RunError
  <2> QED BY <1>5, <2>1 DEF Spawn
<1>6. CASE Exits
  <2>1. pc' \in Place /\ err' \in RunError
    BY <1>6 DEF Exits, Ended, Place, RunError
  <2> QED BY <1>6, <2>1 DEF Exits
<1>7. CASE Kill
  <2>1. pc' \in Place /\ err' \in RunError
    BY <1>7 DEF Kill, Ended, Place, RunError
  <2> QED BY <1>7, <2>1 DEF Kill
<1>8. CASE Judge
  <2>1. pc' \in Place
    BY <1>8 DEF Judge, Place
  <2>2. status' \in Status
    BY <1>8, Statuses DEF Judge
  <2> QED BY <1>8, <2>1, <2>2 DEF Judge
<1>9. CASE ReceiveExec
  <2>1. fate.code \in -1 .. 255
    BY DEF Fate, fate
  <2>2. ExitCodeForStatus(status) \in -1 .. 255
    BY DEF ExitCodeForStatus
  <2>3. (IF status = 200 THEN fate.code ELSE ExitCodeForStatus(status)) \in -1 .. 255
    BY <2>1, <2>2
  <2> QED BY <1>9, <2>3 DEF ReceiveExec, Received, Place
<1>10. CASE ReceiveAction
  <2>1. ExitCodeForStatus(status) \in -1 .. 255
    BY DEF ExitCodeForStatus
  <2> QED BY <1>10, <2>1 DEF ReceiveAction, Received, Place
<1>11. CASE Unread BY <1>11 DEF Unread, Place
<1>12. CASE Again
  <2>1. pc' \in Place /\ err' \in RunError
    BY <1>12 DEF Again, Place, RunError
  <2>2. status' \in Status
    BY <1>12 DEF Again, Status
  <2>3. call' \in [op : AllOps, garbled : SUBSET Token, fate : Fate]
    BY <1>12, NoCallIsOne DEF Again
  <2>4. 0 \in Nat /\ 0 \in 0 .. Limit /\ -1 \in -1 .. 255
    BY OutcomeAssumption
  <2> QED BY <1>12, <2>1, <2>2, <2>3, <2>4 DEF Again
<1> QED BY <1>1, <1>2, <1>3, <1>4, <1>5, <1>6, <1>7, <1>8, <1>9, <1>10, <1>11, <1>12
        DEF Next, Works

\* The runner, the handler and msbctl change neither the call nor its context.
LEMMA WorksKeep ==
  ASSUME Works
  PROVE  /\ UNCHANGED <<call, sent, kept, over, ctx, gone>>
         /\ pc \in {"queued", "running", "ended", "answered"}
         /\ pc' \in {"running", "ended", "answered", "over"}
<1>1. CASE Spawn BY <1>1 DEF Spawn, Ended
<1>2. CASE Exits BY <1>2 DEF Exits, Ended
<1>3. CASE Kill BY <1>3 DEF Kill, Ended
<1>4. CASE Judge BY <1>4 DEF Judge
<1>5. CASE ReceiveExec BY <1>5 DEF ReceiveExec, Received
<1>6. CASE ReceiveAction BY <1>6 DEF ReceiveAction, Received
<1>7. CASE Unread BY <1>7 DEF Unread
<1> QED BY <1>1, <1>2, <1>3, <1>4, <1>5, <1>6, <1>7 DEF Works

LEMMA CallStep == ASSUME TypeOK, CallFits, Next PROVE CallFits'
<1>1. CASE Ask BY <1>1, Asked
<1>2. CASE Again BY <1>2, NoCallIsOne DEF Again, CallFits, fate
<1>3. CASE Leave \/ Expire \/ Writes \/ Works
  <2>1. UNCHANGED call
    BY <1>3, WorksKeep DEF Leave, Expire, Writes, Write
  <2> QED BY <2>1 DEF CallFits, fate
<1> QED BY <1>1, <1>2, <1>3 DEF Next

\* A chunk that fits is stored whole; of one that does not, what still fits is.
LEMMA CaptureStep == ASSUME TypeOK, TypeOK', CaptureInv, Next PROVE CaptureInv'
<1>1. CASE Ask
  <2>1. UNCHANGED <<sent, kept, over>> /\ pc = "away" /\ pc' = "queued"
    BY <1>1 DEF Ask
  <2>2. \A f \in Stream : Length(f)' \in Nat
    BY LengthsNext
  <2> QED BY <2>1, <2>2 DEF CaptureInv, TypeOK
<1>2. CASE Writes
  <2>1. PICK f \in Stream, n \in 1 .. Limit + 2 : Write(f, n)
    BY <1>2 DEF Writes
  <2>2. UNCHANGED call /\ \A g \in Stream : Length(g)' = Length(g)
    BY <2>1 DEF Write, Length, fate
  <2>3. Length(f) \in Nat /\ Limit \in Nat
    BY Lengths, OutcomeAssumption
  <2> QED BY <2>1, <2>2, <2>3 DEF Write, Stored, CaptureInv, TypeOK
<1>3. CASE Leave \/ Expire \/ Works
  <2>1. UNCHANGED <<call, sent, kept, over>> /\ pc' # "away"
    BY <1>3, WorksKeep DEF Leave, Expire
  <2>2. \A g \in Stream : Length(g)' = Length(g)
    BY <2>1 DEF Length, fate
  <2> QED BY <2>1, <2>2 DEF CaptureInv
<1>4. CASE Again
  <2>1. \A f \in Stream : sent'[f] = 0 /\ kept'[f] = 0
    BY <1>4 DEF Again
  <2>2. \A f \in Stream : Length(f)' \in Nat
    BY LengthsNext
  <2> QED BY <2>1, <2>2 DEF CaptureInv
<1> QED BY <1>1, <1>2, <1>3, <1>4 DEF Next

LEMMA ContextStep == ASSUME TypeOK, ContextInv, Next PROVE ContextInv'
<1> USE DEF ContextInv
<1>1. CASE Ask BY <1>1 DEF Ask
<1>2. CASE Leave BY <1>2 DEF Leave
<1>3. CASE Expire BY <1>3 DEF Expire
<1>4. CASE Writes BY <1>4 DEF Writes, Write
<1>5. CASE Works BY <1>5, WorksKeep
<1>6. CASE Again BY <1>6 DEF Again
<1> QED BY <1>1, <1>2, <1>3, <1>4, <1>5, <1>6 DEF Next

LEMMA EndedStep ==
  ASSUME TypeOK, Next, pc \in {"ended", "answered", "over"} => EndedAs,
         pc' \in {"ended", "answered", "over"}
  PROVE  EndedAs'
<1>1. UNCHANGED <<call, sent>> /\ (AllWritten => AllWritten') /\ fate' = fate
  <2>1. UNCHANGED <<call, sent>>
    BY WorksKeep DEF Next, Ask, Leave, Expire, Writes, Write, Again
  <2> QED BY <2>1 DEF AllWritten, Length, fate
<1>2. CASE Spawn BY <1>1, <1>2 DEF Spawn, Ended, EndedAs
<1>3. CASE Exits BY <1>1, <1>3 DEF Exits, Ended, EndedAs
<1>4. CASE Kill BY <1>1, <1>4 DEF Kill, Ended, EndedAs
<1>5. CASE Leave \/ Expire \/ Judge \/ ReceiveExec \/ ReceiveAction \/ Unread
  <2>1. pc \in {"ended", "answered", "over"} /\ UNCHANGED err /\ (ctx' = "live" => ctx = "live")
    BY <1>5 DEF Leave, Expire, Judge, ReceiveExec, ReceiveAction, Received, Unread
  <2> QED BY <1>1, <2>1 DEF EndedAs
<1>6. ~Ask /\ ~Writes /\ ~Again
  BY DEF Ask, Writes, Write, Again
<1> QED BY <1>2, <1>3, <1>4, <1>5, <1>6 DEF Next, Works

LEMMA ExitStep == ASSUME TypeOK, ExitFollows, Next PROVE ExitFollows'
<1> USE DEF ExitFollows
<1>1. CASE Ask BY <1>1 DEF Ask
<1>2. CASE Leave BY <1>2 DEF Leave
<1>3. CASE Expire BY <1>3 DEF Expire
<1>4. CASE Writes BY <1>4 DEF Writes, Write
<1>5. CASE Spawn \/ Exits \/ Kill
  <2>1. UNCHANGED <<gone, exit, call, status>> /\ pc # "over" /\ pc' # "over"
    <3>1. CASE Spawn BY <3>1 DEF Spawn, Ended
    <3>2. CASE Exits BY <3>2 DEF Exits, Ended
    <3>3. CASE Kill BY <3>3 DEF Kill, Ended
    <3> QED BY <1>5, <3>1, <3>2, <3>3
  <2> QED BY <2>1
<1>6. CASE Judge BY <1>6 DEF Judge
<1>7. CASE ReceiveExec BY <1>7 DEF ReceiveExec, Received, fate
<1>8. CASE ReceiveAction BY <1>8 DEF ReceiveAction, Received
<1>9. CASE Unread BY <1>9 DEF Unread
<1>10. CASE Again BY <1>10 DEF Again
<1> QED BY <1>1, <1>2, <1>3, <1>4, <1>5, <1>6, <1>7, <1>8, <1>9, <1>10 DEF Next, Works

LEMMA JudgedStep == ASSUME TypeOK, Judged, Next PROVE Judged'
<1> SUFFICES ASSUME Answered', ~gone' PROVE status' = StatusFor(Verdict)'
  BY DEF Judged
<1>1. CASE Judge
  <2>1. StatusFor(Verdict)' = StatusFor(Verdict)
    BY <1>1, SameVerdict DEF Judge
  <2> QED BY <1>1, <2>1 DEF Judge
<1>2. CASE ReceiveExec \/ ReceiveAction \/ Unread
  <2>1. Answered /\ ~gone /\ UNCHANGED <<call, kept, over, ctx, err, status>>
    BY <1>2 DEF ReceiveExec, ReceiveAction, Received, Unread, Answered
  <2>2. StatusFor(Verdict)' = StatusFor(Verdict)
    BY <2>1, SameVerdict
  <2> QED BY <2>1, <2>2 DEF Judged
<1>3. ~Ask /\ ~Leave /\ ~Expire /\ ~Writes /\ ~Spawn /\ ~Exits /\ ~Kill /\ ~Again
  BY DEF Answered, Ask, Leave, Expire, Writes, Write, Spawn, Exits, Kill, Ended, Again
<1> QED BY <1>1, <1>2, <1>3 DEF Next, Works

\* The runner's cap leaves a beginning of what the child wrote.
LEMMA CapturedIsPrefix ==
  ASSUME TypeOK, CaptureInv
  PROVE  fate.says \in Seq(Token) /\ kept["stderr"] \in 0 .. Len(fate.says)
<1>1. fate.says \in Seq(Token)
  BY DEF TypeOK, Fate, fate
<1>2. "stderr" \in Stream
  BY DEF Stream
<1>3. kept["stderr"] \in Nat /\ sent["stderr"] \in Nat
  BY <1>2, OutcomeAssumption DEF TypeOK
<1>4. kept["stderr"] <= Len(fate.says)
  BY <1>2, <1>3 DEF CaptureInv, Length
<1> QED BY <1>1, <1>3, <1>4

\* What Client.run returns is no category.
LEMMA RunErrIsOwn == ASSUME TypeOK PROVE RunErr \in RunError \cup {"too large", "timeout"}
BY DEF TypeOK, RunErr, RunnerErr

LEMMA GuestStep ==
  ASSUME TypeOK, CaptureInv, GuestNeverMistaken, Next
  PROVE  GuestNeverMistaken'
<1> SUFFICES ASSUME Answered', call'.op = "exec", ByGuest', ~LooksLikeMsb'
             PROVE  status' \notin {404, 409}
  BY DEF GuestNeverMistaken
<1>1. CASE Judge
  <2>1. call.op = "exec" /\ ~LooksLikeMsb /\ status' = StatusFor(Verdict)
    BY <1>1 DEF Judge, LooksLikeMsb, fate
  <2>2. ClassifiedAnchored(Captured) = "none"
    BY <2>1, CapturedIsPrefix, PrefixAnchored DEF LooksLikeMsb, Captured
  <2>3. Verdict \in {RunErr, "nil"}
    BY <2>1, <2>2 DEF Verdict, ExecOutcome
  <2>4. Verdict \in RunError \cup {"too large", "timeout", "none"}
    BY <2>3, RunErrIsOwn DEF RunError
  <2>5. Verdict \notin Category
    BY <2>4, OwnErrors
  <2> QED BY <2>1, <2>5, OwnStatus
<1>2. CASE Leave \/ ReceiveExec \/ ReceiveAction \/ Unread
  <2>1. Answered /\ UNCHANGED <<call, status>>
    BY <1>2 DEF Leave, ReceiveExec, ReceiveAction, Received, Unread, Answered
  <2> QED BY <2>1 DEF GuestNeverMistaken, ByGuest, LooksLikeMsb, fate
<1>3. ~Ask /\ ~Expire /\ ~Writes /\ ~Spawn /\ ~Exits /\ ~Kill /\ ~Again
  BY DEF Answered, Ask, Expire, Writes, Write, Spawn, Exits, Kill, Ended, Again
<1> QED BY <1>1, <1>2, <1>3 DEF Next, Works

LEMMA OutcomeStep == ASSUME OutcomeInv, [Next]_vars PROVE OutcomeInv'
<1>1. CASE Next
  <2> USE DEF OutcomeInv
  <2>1. TypeOK'
    BY <1>1, TypeStep
  <2>2. CallFits' /\ ContextInv' /\ ExitFollows' /\ Judged' /\ GuestNeverMistaken'
    BY <1>1, CallStep, ContextStep, ExitStep, JudgedStep, GuestStep
  <2>3. CaptureInv'
    BY <1>1, <2>1, CaptureStep
  <2>4. (pc \in {"ended", "answered", "over"} => EndedAs)'
    BY <1>1, EndedStep
  <2> QED BY <2>1, <2>2, <2>3, <2>4
<1>2. CASE UNCHANGED vars
  <2>1. UNCHANGED <<call, pc, sent, kept, over, ctx, gone, err, status, exit>>
    BY <1>2 DEF vars
  <2>2. TypeOK' /\ CallFits' /\ ContextInv'
    BY <2>1 DEF OutcomeInv, TypeOK, CallFits, ContextInv, fate
  <2>3. CaptureInv' /\ (EndedAs => EndedAs')
    BY <2>1 DEF OutcomeInv, CaptureInv, EndedAs, AllWritten, Length, fate
  <2>4. ExitFollows' /\ GuestNeverMistaken'
    BY <2>1 DEF OutcomeInv, ExitFollows, GuestNeverMistaken, Answered, ByGuest, LooksLikeMsb, fate
  <2>5. Judged'
    BY <2>1, SameVerdict DEF OutcomeInv, Judged, Answered
  <2> QED BY <2>1, <2>2, <2>3, <2>4, <2>5 DEF OutcomeInv
<1> QED BY <1>1, <1>2

LEMMA OutcomeInvariant == Spec => []OutcomeInv
<1>1. Init => OutcomeInv
  BY OutcomeInit
<1>2. OutcomeInv /\ [Next]_vars => OutcomeInv'
  BY OutcomeStep
<1> QED BY <1>1, <1>2, PTL DEF Spec

-----------------------------------------------------------------------------
(* What a caller is told.                                                    *)

\* The state of an invocation is what TypeOK says it is.
THEOREM TypeCorrect == Spec => []TypeOK
<1>1. OutcomeInv => TypeOK
  BY DEF OutcomeInv
<1> QED BY <1>1, OutcomeInvariant, PTL

\* A verdict that is answered by 200 rests on the whole output of a child that
\* ended, with 0 or, in an exec, with the guest's own code.
LEMMA SuccessIsWhole ==
  ASSUME OutcomeInv, Answered, Verdict = "nil"
  PROVE  /\ fate.ends /\ AllWritten /\ \A f \in Stream : kept[f] = Length(f)
         /\ fate.code = 0 \/ (call.op = "exec" /\ fate.code > 0)
<1>1. TypeOK /\ CaptureInv /\ EndedAs
  BY DEF OutcomeInv, Answered
<1>2. /\ RunErr \notin {"too large", "timeout"}
      /\ RunErr = "nil" \/ (call.op = "exec" /\ err = "exit" /\ fate.code > 0)
  <2>1. CASE call.op = "exec"
    <3>1. ClassifiedAnchored(Captured) # "nil"
      BY AnchoredIsCategory, NilIsNone
    <3> QED BY <2>1, <3>1 DEF Verdict, ExecOutcome
  <2>2. CASE call.op # "exec"
    <3>1. PICK s : Verdict = Wrapped(s)
      BY <2>2 DEF Verdict
    <3>2. Classified(s) # "nil"
      BY ClassifiedIsCategory, NilIsNone
    <3> QED BY <3>1, <3>2 DEF Wrapped
  <2> QED BY <2>1, <2>2
<1>3. over = {} /\ err \in {"nil", "exit"}
  BY <1>2 DEF RunErr, RunnerErr
<1>4. fate.ends /\ AllWritten /\ \A f \in Stream : kept[f] = Length(f)
  BY <1>1, <1>3 DEF EndedAs, CaptureInv, AllWritten
<1>5. CASE RunErr = "nil"
  <2>1. err = "nil"
    BY <1>3, <1>5 DEF RunErr, RunnerErr
  <2> QED BY <1>1, <1>4, <2>1 DEF EndedAs
<1> QED BY <1>2, <1>4, <1>5

\* ExecRunner.Run and execOutcome: msbctl ends with 0, or with the code of a
\* guest command, only if the command did, and nothing of its output is missing.
THEOREM ExitFaithful == Spec => []ExitIsFaithful
<1>1. ASSUME OutcomeInv, exit = 0 \/ (exit > 0 /\ ~gone /\ status = 200)
      PROVE  /\ fate.ends /\ fate.code = exit
             /\ AllWritten /\ \A f \in Stream : kept[f] = Length(f)
  <2>1. ~gone /\ pc = "over" /\ Answered
    BY <1>1 DEF OutcomeInv, ExitFollows, Answered
  <2>2. status = 200
    <3>1. exit = IF call.op = "exec" /\ status = 200 THEN fate.code ELSE ExitCodeForStatus(status)
      BY <1>1, <2>1 DEF OutcomeInv, ExitFollows
    <3>2. status \in Status \ {0}
      BY <1>1, <2>1, Statuses DEF OutcomeInv, Judged
    <3> QED BY <1>1, <3>1, <3>2 DEF ExitCodeForStatus, Status
  <2>3. Verdict = "nil"
    BY <1>1, <2>1, <2>2, OnlyNil DEF OutcomeInv, Judged
  <2>4. fate.code = exit
    BY <1>1, <2>1, <2>2, <2>3, SuccessIsWhole DEF OutcomeInv, ExitFollows, ExitCodeForStatus
  <2> QED BY <1>1, <2>1, <2>3, <2>4, SuccessIsWhole
<1>2. OutcomeInv => ExitIsFaithful
  BY <1>1 DEF ExitIsFaithful
<1> QED BY <1>2, OutcomeInvariant, PTL

\* Client.run: a command that hangs is answered by 504 to a client that waits,
\* whatever it has written and however much.
THEOREM HungMeans504 == Spec => []HungIs504
<1>1. ASSUME OutcomeInv, Answered, ~fate.ends, ~gone PROVE status = 504
  <2>1. EndedAs /\ TypeOK /\ ContextInv
    BY <1>1 DEF OutcomeInv, Answered
  <2>2. err \notin {"nil", "exit", "wait delay"} /\ ctx # "live"
    BY <1>1, <2>1 DEF EndedAs, TypeOK, RunError
  <2>3. ctx = "expired"
    BY <1>1, <2>1, <2>2 DEF ContextInv, TypeOK
  <2>4. RunErr = "timeout"
    BY <2>2, <2>3 DEF RunErr, RunnerErr
  <2>5. Verdict = "timeout"
    BY <2>4 DEF Verdict, ExecOutcome, Wrapped
  <2> QED BY <1>1, <2>5, OwnStatuses DEF OutcomeInv, Judged
<1>2. OutcomeInv => HungIs504
  BY <1>1 DEF HungIs504
<1> QED BY <1>2, OutcomeInvariant, PTL

\* classifyErrorAnchored: no output of a guest command that has a category
\* anywhere but in the place msb writes it is taken for msb's own error.
THEOREM GuestsNotMistaken == Spec => []GuestNeverMistaken
<1>1. OutcomeInv => GuestNeverMistaken
  BY DEF OutcomeInv
<1> QED BY <1>1, OutcomeInvariant, PTL

\* What a child that is left alone leads to: what the runner returns and what
\* is classified are what it did and what it wrote.
LEMMA LeftAloneIsSeen ==
  ASSUME OutcomeInv, Answered, LeftAlone
  PROVE  /\ ~gone /\ Captured = fate.says
         /\ RunErr = err /\ err \in {"nil", "exit"} /\ (err = "nil" <=> fate.code = 0)
<1>1. /\ TypeOK /\ CaptureInv /\ ContextInv /\ EndedAs
      /\ fate.ends /\ ctx = "live" /\ over = {} /\ ~fate.holds
  BY DEF OutcomeInv, Answered, LeftAlone
<1>2. err \in {"nil", "exit"} /\ AllWritten /\ (err = "nil" <=> fate.code = 0)
  BY <1>1 DEF EndedAs, TypeOK, RunError
<1>3. RunErr = err
  BY <1>1 DEF RunErr, RunnerErr
<1>4. ~gone
  BY <1>1 DEF ContextInv
<1>5. Captured = fate.says
  <2>1. "stderr" \in Stream
    BY DEF Stream
  <2>2. kept["stderr"] = Len(fate.says)
    BY <1>1, <1>2, <2>1 DEF CaptureInv, AllWritten, Length
  <2>3. fate.says \in Seq(Token)
    BY <1>1, CapturedIsPrefix
  <2> QED BY <2>2, <2>3 DEF Captured
<1> QED BY <1>2, <1>3, <1>4, <1>5

\* What msb writes when it fails.
LEMMA MsbSays ==
  ASSUME fate \in MsbFate, fate.code # 0
  PROVE  \/ fate.code = 1 /\ \E t \in Category \cup {"text"} : fate.says = <<"error", t>>
         \/ fate.code = -1 /\ fate.says = <<>>
BY DEF MsbFate

\* Of what msb writes, all commands but exec read what exec reads: its first
\* line has the category right after "error: ".
LEMMA SameReading ==
  ASSUME NEW t \in Category \cup {"text"}, NEW x, x \notin Category
  PROVE  /\ ClassifiedAnchored(<<"error", t>>) = IF t = "text" THEN "none" ELSE Sentinel(t)
         /\ Classified(<<x, t>>) = ClassifiedAnchored(<<"error", t>>)
<1>1. "text" \notin Category
  BY Categories
<1>2. ClassifiedAnchored(<<"error", t>>) = IF t = "text" THEN "none" ELSE Sentinel(t)
  BY <1>1 DEF ClassifiedAnchored
<1> QED BY <1>1, <1>2, LineClassified

\* Hiding the secrets of a create leaves a category as it is.
LEMMA CategoriesShow ==
  ASSUME SecretsApart, CallFits, NEW t \in Category \cup {"text"}
  PROVE  Classified(Redacted(<<"error", t>>)) = ClassifiedAnchored(<<"error", t>>)
<1> DEFINE hidden(x) == IF x \in call.garbled THEN "redacted" ELSE x
<1>1. Redacted(<<"error", t>>) = <<hidden("error"), hidden(t)>>
  BY DEF Redacted
<1>2. "error" \notin Category /\ "redacted" \notin Category /\ "text" \notin Category
  BY Categories
<1>3. CASE t \in Category
  <2>1. hidden(t) = t
    BY <1>3 DEF SecretsApart, CallFits
  <2> QED BY <1>1, <1>2, <2>1, SameReading
<1>4. CASE t = "text"
  <2>1. hidden(t) \notin Category /\ hidden("error") \notin Category
    BY <1>2, <1>4
  <2>2. Classified(Redacted(<<"error", t>>)) = "none"
    BY <1>1, <2>1, LineClassified
  <2> QED BY <1>2, <1>4, <2>2, SameReading
<1> QED BY <1>3, <1>4

\* run, execOutcome, wrapRunErr and statusForAdapterError: a command that ended
\* by itself, in time and within the cap is answered by what it did, with the
\* cases conceded, if no secret occurs in a category.
THEOREM AnswersTrue == ASSUME SecretsApart PROVE Spec => []AnswersAreTrue
<1>1. ASSUME OutcomeInv, Answered, LeftAlone, ~Conceded PROVE status = Truth
  <2>1. /\ ~gone /\ Captured = fate.says
        /\ RunErr = err /\ err \in {"nil", "exit"} /\ (err = "nil" <=> fate.code = 0)
    BY <1>1, LeftAloneIsSeen
  <2>2. status = StatusFor(Verdict)
    BY <1>1, <2>1 DEF OutcomeInv, Judged
  <2>3. CallFits /\ call.op \in AllOps
    BY <1>1 DEF OutcomeInv, TypeOK
  <2>4. ASSUME fate.code # 0
        PROVE  /\ ExecOutcome = IF ClassifiedAnchored(fate.says) # "none"
                               THEN ClassifiedAnchored(fate.says)
                               ELSE IF fate.code > 0 THEN "nil" ELSE "exit"
               /\ \A s : Wrapped(s) = IF Classified(s) # "none" THEN Classified(s) ELSE "exit"
    <3>1. RunErr = "exit" /\ err = "exit"
      BY <2>1, <2>4
    <3> QED BY <2>1, <3>1 DEF ExecOutcome, Wrapped
  <2>5. CASE fate.code = 0
    <3>1. Verdict = "nil"
      BY <2>1, <2>5 DEF Verdict, ExecOutcome, Wrapped
    <3> QED BY <2>2, <2>5, <3>1, OwnStatuses DEF Truth
  <2>6. CASE fate.code # 0 /\ ByGuest
    <3>1. fate \in GuestFate /\ fate.code = 3 /\ call.op \in {"exec", "keys"}
      BY <2>3, <2>6 DEF CallFits, ByGuest, MsbFate, GuestFate
    <3>2. CASE call.op = "exec"
      <4>1. ClassifiedAnchored(Captured) = "none"
        BY <1>1, <2>1, <2>6, <3>2 DEF Conceded, LooksLikeMsb
      <4>2. Verdict = "nil"
        BY <2>1, <2>6, <2>4, <3>1, <3>2, <4>1 DEF Verdict
      <4> QED BY <2>2, <2>6, <3>2, <4>2, OwnStatuses DEF Truth
    <3>3. CASE call.op = "keys"
      <4>1. Classified(Captured) = "none"
        BY <1>1, <2>1, <2>6, <3>3 DEF Conceded
      <4>2. Verdict = "exit"
        BY <2>6, <2>4, <3>3, <4>1 DEF Verdict
      <4> QED BY <2>2, <3>1, <3>3, <4>2, OwnStatuses DEF Truth
    <3> QED BY <3>1, <3>2, <3>3
  <2>7. CASE fate.code = 1 /\ ~ByGuest
    <3>1. fate \in MsbFate
      BY <2>3, <2>7 DEF CallFits, ByGuest, GuestFate
    <3>2. PICK t \in Category \cup {"text"} : fate.says = <<"error", t>>
      BY <2>7, <3>1, MsbSays
    <3>3. Truth = StatusFor(ClassifiedAnchored(fate.says))
      BY <2>7 DEF Truth
    <3>4. CASE call.op = "exec"
      <4>1. ClassifiedAnchored(fate.says) # "none"
        BY <1>1, <2>7, <3>4 DEF Conceded, LooksLikeMsb
      <4>2. Verdict = ClassifiedAnchored(fate.says)
        BY <2>7, <2>4, <3>4, <4>1 DEF Verdict
      <4> QED BY <2>2, <3>3, <4>2
    <3>5. CASE call.op # "exec"
      <4>1. PICK s : Verdict = Wrapped(s) /\ Classified(s) = ClassifiedAnchored(fate.says)
        <5>1. "error" \notin Category
          BY Categories
        <5>2. CASE call.op = "create"
          BY <2>1, <2>3, <3>2, <5>2, CategoriesShow DEF Verdict
        <5>3. CASE call.op # "create"
          BY <2>1, <3>2, <3>5, <5>1, <5>3, SameReading DEF Verdict
        <5> QED BY <5>2, <5>3
      <4>2. Verdict = IF Classified(s) # "none" THEN Classified(s) ELSE "exit"
        BY <2>7, <2>4, <4>1
      <4> QED BY <2>2, <3>3, <4>1, <4>2, OwnStatuses
    <3> QED BY <3>4, <3>5
  <2>8. CASE fate.code \notin {0, 1} /\ ~ByGuest
    <3>1. fate \in MsbFate
      BY <2>3, <2>8 DEF CallFits, ByGuest, GuestFate
    <3>2. fate.code = -1 /\ fate.says = <<>>
      BY <2>8, <3>1, MsbSays
    <3>3. Redacted(<<>>) = <<>>
      BY DEF Redacted
    <3>4. Verdict = "exit"
      BY <2>1, <2>8, <2>4, <3>2, <3>3, NothingClassified DEF Verdict
    <3> QED BY <2>2, <2>8, <3>4, OwnStatuses DEF Truth
  <2> QED BY <2>5, <2>6, <2>7, <2>8
<1>2. OutcomeInv => AnswersAreTrue
  BY <1>1 DEF AnswersAreTrue
<1> QED BY <1>2, OutcomeInvariant, PTL
=============================================================================
