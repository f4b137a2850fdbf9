------------------------------- MODULE Msbctl -------------------------------
(***************************************************************************)
(* One invocation of msbctl after the other: dispatch and configuration        *)
(* (cmd/msbctl/main.go, config.go), the flags of the command (commands.go), the *)
(* variables of a spec (interpolate.go), the request and the exit code           *)
(* (commands.go, client.go).                                                   *)
(*                                                                          *)
(* What the user means is a sequence of items in the order they are typed: a     *)
(* positional, an option with its value, "--" and a positional, or (exec) "--"   *)
(* and a command.  A text is a sequence of tokens, <<>> the empty one.           *)
(***************************************************************************)
EXTENDS Integers, SequencesExt

CONSTANTS
  Calls,         \* what users may type, and where
  Tokens,        \* what texts are made of
  Placeholders,  \* the tokens ${NAME}; a variable is identified with its token
  DefaultURL     \* defaultURL

VARIABLES
  call,      \* the invocation
  args,      \* the arguments of its command, as typed
  pc,        \* where it is
  target,    \* resolveTarget's result
  request,   \* what is sent
  answer,    \* the server's status; 0 for none
  exit       \* the exit code

vars == <<call, args, pc, target, request, answer, exit>>

Text == Seq(Tokens)
Empty == <<>>
\* One dash or two make a flag (two are one token); a lone "-" stands for stdin.
Dashes == {"-", "--"}
Terminator == <<"--">>
Dashed(t) == t = Terminator \/ (Len(t) > 1 /\ t[1] \in Dashes)

-----------------------------------------------------------------------------
(* What is typed, and parseFlags.                                            *)

\* -f v or -f=v, with one dash or two, a flag that needs no value only the
\* latter; a positional; "--" and what is after it.
Forms == [dash : Dashes, joined : BOOLEAN]
Short(dash, flag) == <<dash, flag>>
Joined(dash, flag, t) == <<dash, flag, "=">> \o t
Typed(item, form) ==
  CASE item.kind = "word" -> <<item.text>>
    [] item.kind = "switch" -> <<Short(form.dash, item.flag)>>
    [] item.kind = "after" -> <<Terminator>> \o item.texts
    [] item.kind = "option" /\ (form.joined \/ item.flag = "force") ->
         <<Joined(form.dash, item.flag, item.text)>>
    [] OTHER -> <<Short(form.dash, item.flag), item.text>>

\* The flag sets; a flag of kind "map" is a kvFlag.
Flags(cmd) ==
  CASE cmd \in {"ls", "list", "inspect", "metrics", "volume ls", "snapshot ls"} -> [o |-> "string"]
    [] cmd = "logs" -> [tail |-> "string", since |-> "string", source |-> "string"]
    [] cmd = "create" -> [f |-> "string", set |-> "map"]
    [] cmd = "volume create" -> [size |-> "string", f |-> "string"]
    [] cmd = "snapshot create" -> [from |-> "string", force |-> "bool", label |-> "map"]
    [] OTHER -> <<>>

Commands == {"ls", "list", "inspect", "create", "start", "stop", "rm", "exec", "logs", "metrics",
             "volume ls", "volume create", "volume rm", "snapshot ls", "snapshot create", "snapshot rm"}

\* What a user can mean.  A word is no flag, that is what "--" is for; only exec
\* takes more than one argument after it, and nothing behind them; what is meant as a
\* switch is one, or lacks its value at the end of the line.
Item(cmd, x, last) ==
  \/ x.kind = "word" /\ x.text \in Text /\ ~Dashed(x.text)
  \/ x.kind = "after" /\ x.texts \in Seq(Text) /\ IF cmd = "exec" THEN last ELSE Len(x.texts) = 1
  \/ x.kind = "option" /\ cmd # "exec" /\ x.flag \in Tokens /\ x.text \in Text
  \/ /\ x.kind = "switch" /\ cmd # "exec" /\ x.flag \in Tokens /\ x.text = <<"true">>
     /\ last \/ x.flag \notin DOMAIN Flags(cmd) \/ Flags(cmd)[x.flag] = "bool"

Invocation(c) ==
  /\ c.told \in Seq(ToSet(c.told))
  /\ \A i \in DOMAIN c.told : Item(c.cmd, c.told[i], i = Len(c.told))
  /\ c.doc \in Seq([part : {"key", "value"}, text : Text, quoted : BOOLEAN])
  /\ c.vars \in [Placeholders -> Text]
  /\ c.file \in {"missing", "garbled", "blank", "comments"} => c.doc = <<>>

ASSUME MsbctlAssumption ==
  /\ DefaultURL # ""
  /\ Placeholders \cup {"-", "--", "="} \subseteq Tokens
  /\ \A c \in Calls : Invocation(c)

Failed(r) == [r EXCEPT !.ok = FALSE]
Setting(f, k, v) == [x \in DOMAIN f \cup {k} |-> IF x = k THEN v ELSE f[x]]

\* splitKeyValue and kvFlag.Set: only the first "=" separates.
AtLastEquals(t) == SelectLastInSeq(t, LAMBDA x : x = "=")           \* mutant
EqualsAt(t) == SelectInSeq(t, LAMBDA x : x = "=")
SetPair(r, t) ==
  IF EqualsAt(t) > 1
    THEN [r EXCEPT !.map = Setting(@, SubSeq(t, 1, EqualsAt(t) - 1), SubSeq(t, EqualsAt(t) + 1, Len(t)))]
    ELSE Failed(r)

SetFlag(fs, r, flag, t) ==
  CASE fs[flag] = "map" -> SetPair(r, t)
    [] fs[flag] = "bool" /\ t \notin {<<"true">>, <<"false">>} -> Failed(r)
    [] OTHER -> [r EXCEPT !.value = Setting(@, flag, t)]

\* flag.FlagSet.Parse, called again after each positional: "--" makes the next
\* argument a positional, and only that one.
FlagsFirst(r, a) == r.pos # <<>> \/ r.literal \/ ~Dashed(a)           \* mutant
Positional(r, a) == r.literal \/ ~Dashed(a)

ParseArg(fs, r, a) ==
  IF ~r.ok THEN r
  ELSE IF r.flag # "" THEN SetFlag(fs, [r EXCEPT !.flag = ""], r.flag, a)
  ELSE IF Positional(r, a) THEN [r EXCEPT !.pos = Append(@, a), !.literal = FALSE]
  ELSE IF a = Terminator THEN [r EXCEPT !.literal = TRUE]
  ELSE IF a[2] \notin DOMAIN fs THEN Failed(r)
  ELSE IF Len(a) > 2 THEN SetFlag(fs, r, a[2], SubSeq(a, 4, Len(a)))
  ELSE IF fs[a[2]] = "bool" THEN SetFlag(fs, r, a[2], <<"true">>)
  ELSE [r EXCEPT !.flag = a[2]]

NoArgs == [ok |-> TRUE, flag |-> "", literal |-> FALSE, pos |-> <<>>, value |-> <<>>, map |-> <<>>]

ParseAll(fs, as) == FoldLeft(LAMBDA r, a : ParseArg(fs, r, a), NoArgs, as)
ParseFlags(cmd) ==
  LET r == ParseAll(Flags(cmd), args)
  IN IF r.flag # "" THEN Failed(r) ELSE r

\* cmdExec: one name before the first "--", the remote command verbatim after it.
Separator(as) == SelectInSeq(as, LAMBDA a : a = Terminator)
ParseExec ==
  LET sep == Separator(args)
  IN IF sep = 2 /\ Len(args) > sep
       THEN [NoArgs EXCEPT !.pos = <<args[1]>>, !.value = [command |-> SubSeq(args, sep + 1, Len(args))]]
       ELSE Failed(NoArgs)

Parsed(cmd) == IF cmd = "exec" THEN ParseExec ELSE ParseFlags(cmd)

Value(r, flag) == IF flag \in DOMAIN r.value THEN r.value[flag] ELSE Empty

\* oneName, and the options a command requires.
Nameless == {"ls", "list", "create", "volume ls", "snapshot ls"}
Batch(cmd, r) == cmd = "volume create" /\ Value(r, "f") # Empty
OneName(r) == Len(r.pos) = 1 /\ r.pos[1] # Empty
WellFormed(cmd, r) ==
  /\ r.ok
  /\ cmd \in Nameless \/ Batch(cmd, r) \/ OneName(r)
  /\ cmd = "create" => Value(r, "f") # Empty
  /\ cmd = "volume create" => Value(r, "f") # Empty \/ Value(r, "size") # Empty
  /\ cmd = "snapshot create" => Value(r, "from") # Empty

\* What a file is read as.  Comments alone make no node, which yaml.v3 encodes as null.
Null == [part |-> "value", text |-> Empty, quoted |-> FALSE]
Written == IF call.file = "comments" THEN <<Null>> ELSE call.doc

\* The request: route, name, parameters and document.
Request(cmd, r) ==
  LET named == ~(cmd \in Nameless \/ Batch(cmd, r))
      given == {f \in DOMAIN r.value \ {"o", "f"} : r.value[f] # Empty /\ ~(f = "force" /\ r.value[f] = <<"false">>)}
  IN [op |-> IF cmd = "list" THEN "ls" ELSE IF Batch(cmd, r) THEN "batch" ELSE cmd,
      name |-> IF named THEN r.pos[1] ELSE Empty,
      params |-> IF Batch(cmd, r) THEN {} ELSE {<<f, r.value[f]>> : f \in given},
      labels |-> IF cmd = "snapshot create" THEN r.map ELSE <<>>,
      doc |-> IF cmd = "create" THEN Written ELSE IF Batch(cmd, r) THEN call.doc ELSE <<>>]

-----------------------------------------------------------------------------
(* The target.                                                               *)

FirstNonEmpty(s) ==
  LET i == SelectInSeq(s, LAMBDA x : x # "") IN IF i = 0 THEN "" ELSE s[i]

ProfileName ==
  FirstNonEmpty(<<call.flags.profile, call.env.profile,
                  IF call.cfg.state = "there" THEN call.cfg.default ELSE "">>)
NoProfile == [url |-> "", token |-> ""]

\* A named profile has to exist.
FallsThrough == TRUE                                                \* mutant
ProfileFound ==
  ProfileName = "" \/ (call.cfg.state = "there" /\ ProfileName \in DOMAIN call.cfg.profiles)
Profile ==
  IF ProfileName # "" /\ call.cfg.state = "there" /\ ProfileName \in DOMAIN call.cfg.profiles
    THEN call.cfg.profiles[ProfileName] ELSE NoProfile

ResolveTarget ==
  [url |-> FirstNonEmpty(<<call.flags.url, call.env.url, Profile.url, DefaultURL>>),
   token |-> FirstNonEmpty(<<call.flags.token, call.env.token, Profile.token>>)]

-----------------------------------------------------------------------------
(* The variables of a spec.  A document is the sequence of its scalars, each with *)
(* its part ("key" or "value"): interpolate changes scalars, never what is around. *)

EnvironmentFirst(set, v) ==                                         \* mutant
  IF call.vars[v] # Empty THEN <<call.vars[v]>> ELSE IF <<v>> \in DOMAIN set THEN <<set[<<v>>]>> ELSE <<>>
\* makeLookup: at most one value.
Lookup(set, v) ==
  IF <<v>> \in DOMAIN set THEN <<set[<<v>>]>> ELSE IF call.vars[v] # Empty THEN <<call.vars[v]>> ELSE <<>>

Variables(t) == ToSet(t) \cap Placeholders

Substituted(set, t) ==
  FlattenSeq([i \in DOMAIN t |->
    IF t[i] \notin Placeholders \/ Lookup(set, t[i]) = <<>> THEN <<t[i]>> ELSE Lookup(set, t[i])[1]])
Substitute(set, n) ==
  [n EXCEPT !.text = Substituted(set, @), !.quoted = @ \/ Variables(n.text) # {}]

Defined(set, doc) == \A i \in DOMAIN doc : \A v \in Variables(doc[i].text) : Lookup(set, v) # <<>>

Interpolate(set, doc) == [i \in DOMAIN doc |-> Substitute(set, doc[i])]

-----------------------------------------------------------------------------
ExitOK == 0
ExitGeneric == 1

ExitCodeForStatus(status) ==
  CASE status = 207 -> 2
    [] status \in (200 .. 299) \ {207} -> ExitOK
    [] status \in 400 .. 499 -> 4
    [] status >= 500 -> 5
    [] OTHER -> ExitGeneric

\* doAction, doRead and cmdLogs take every status below 400 for success,
\* doStatusAction asks exitCodeForStatus.
BatchAsAction(op, status) == IF status >= 400 THEN ExitCodeForStatus(status) ELSE ExitOK  \* mutant
ExitFor(op, status) == IF status >= 400 \/ op = "batch" THEN ExitCodeForStatus(status) ELSE ExitOK

NoRequest == [op |-> "", name |-> Empty, params |-> {}, labels |-> <<>>, doc |-> <<>>]

Init ==
  /\ call \in Calls
  /\ args = <<>> /\ pc = "typing" /\ target = NoProfile /\ request = NoRequest
  /\ answer = 0 /\ exit = ExitOK

Over(code) == pc' = "over" /\ exit' = code

Type ==
  /\ pc = "typing"
  /\ \E form \in [DOMAIN call.told -> Forms] :
       args' = FlattenSeq([i \in DOMAIN call.told |-> Typed(call.told[i], form[i])])
  /\ pc' = "dispatch"
  /\ UNCHANGED <<call, target, request, answer, exit>>

\* run: help, or an unknown command, before any configuration is looked at.
Dispatch ==
  /\ pc = "dispatch"
  /\ \/ call.cmd = "help" /\ Over(ExitOK)
     \/ call.cmd \notin Commands \cup {"help"} /\ Over(ExitGeneric)
     \/ call.cmd \in Commands /\ pc' = "configure" /\ UNCHANGED exit
  /\ UNCHANGED <<call, args, target, request, answer>>

\* loadConfig and resolveTarget; no file is no error.
Configure ==
  /\ pc = "configure"
  /\ IF call.cfg.state # "broken" /\ ProfileFound
       THEN target' = ResolveTarget /\ pc' = "parse" /\ UNCHANGED exit
       ELSE Over(ExitGeneric) /\ UNCHANGED target
  /\ UNCHANGED <<call, args, request, answer>>

\* The command up to its request: flags, readSpec and interpolate, which refuses a
\* spec that is nothing but whitespace or no YAML.
Prepare ==
  /\ pc = "parse"
  /\ LET r == Parsed(call.cmd)
         req == Request(call.cmd, r)
     IN IF \/ ~WellFormed(call.cmd, r)
           \/ req.op \in {"create", "batch"} /\ call.file = "missing"
           \/ req.op = "create" /\ (call.file \in {"garbled", "blank"} \/ ~Defined(r.map, req.doc))
          THEN Over(ExitGeneric) /\ UNCHANGED request
          ELSE /\ request' = IF req.op = "create" THEN [req EXCEPT !.doc = Interpolate(r.map, @)] ELSE req
               /\ pc' = "send" /\ UNCHANGED exit
  /\ UNCHANGED <<call, args, target, answer>>

\* ensureToken and client.do; what the routes of internal/server answer.
Statuses(op) ==
  {400, 401, 404, 409, 413, 500, 503, 504}
  \cup (CASE op = "batch" -> {201, 207}
          [] op \in {"create", "volume create", "snapshot create"} -> {201}
          [] op \in {"start", "stop", "rm", "volume rm", "snapshot rm"} -> {204}
          [] OTHER -> {200})

Send ==
  /\ pc = "send"
  /\ IF target.token = "" THEN Over(ExitGeneric) /\ UNCHANGED answer
     ELSE answer' \in Statuses(request.op) /\ pc' = "answered" /\ UNCHANGED exit
  /\ UNCHANGED <<call, args, target, request>>

\* The request, or its answer, is lost, or takes more than requestTimeout.
Lose ==
  /\ pc = "send"
  /\ target.token # ""
  /\ Over(ExitGeneric)
  /\ UNCHANGED <<call, args, target, request, answer>>

\* What doRead is called for, and the formats renderRead knows.
Reads == {"ls", "inspect", "metrics", "volume ls", "snapshot ls"}
KnownFormat(t) == t \in {Empty, <<"table">>, <<"json">>, <<"yaml">>}

\* renderRead refuses a format it does not know; cmdExec exits with the guest's code.
Render ==
  /\ pc = "answered"
  /\ IF request.op = "exec" /\ answer < 400 THEN \E guest \in {0, 3} : Over(guest)
     ELSE IF request.op \in Reads /\ answer < 400 /\ ~KnownFormat(Value(Parsed(call.cmd), "o"))
       THEN Over(ExitGeneric)
     ELSE Over(ExitFor(request.op, answer))
  /\ UNCHANGED <<call, args, target, request, answer>>

Next == Type \/ Dispatch \/ Configure \/ Prepare \/ Send \/ Lose \/ Render

Spec == Init /\ [][Next]_vars

-----------------------------------------------------------------------------
(* What the user means, said without any parsing: the order of what is typed     *)
(* matters only between the values of one option.                             *)

Given(flag) ==
  {i \in DOMAIN call.told : call.told[i].kind \in {"option", "switch"} /\ call.told[i].flag = flag}
Meant(flag) == IF Given(flag) = {} THEN Empty ELSE call.told[Max(Given(flag))].text
KeysOf(t) == {SubSeq(t, 1, n) : n \in {m \in 1 .. Len(t) - 1 : t[m + 1] = "=" /\ \A j \in 1 .. m : t[j] # "="}}
Keys(flag) == UNION {KeysOf(call.told[i].text) : i \in Given(flag)}
MeantFor(flag, k) ==
  LET t == call.told[Max({i \in Given(flag) : k \in KeysOf(call.told[i].text)})].text
  IN SubSeq(t, Len(k) + 2, Len(t))

Words(x) ==
  CASE x.kind = "word" -> <<x.text>>
    [] x.kind = "after" -> x.texts
    [] OTHER -> <<>>
WordsMeant == FlattenSeq([i \in DOMAIN call.told |-> Words(call.told[i])])

\* The request is the one the user means wherever flags and name are typed, the
\* last of an option's values counting, a value beginning with "-" included
\* (parseFlags, kvFlag; exec passes its command on verbatim).
DoesAsTold ==
  request # NoRequest =>
    IF request.op = "exec"
      THEN WordsMeant = <<request.name>> \o (CHOOSE p \in request.params : TRUE)[2]
      ELSE /\ request.name # Empty => WordsMeant = <<request.name>>
           /\ \A x \in ToSet(call.told) : x.kind \in {"option", "switch"} => x.flag \in DOMAIN Flags(call.cmd)
           /\ request.op # "batch" =>
                request.params = {<<f, Meant(f)>> : f \in {g \in {"tail", "since", "source", "size", "from", "force"} :
                                        Meant(g) # Empty /\ ~(g = "force" /\ Meant(g) = <<"false">>)}}
           /\ request.op = "snapshot create" =>
                /\ DOMAIN request.labels = Keys("label")
                /\ \A k \in Keys("label") : request.labels[k] = MeantFor("label", k)

ValueOf(v) == IF <<v>> \in Keys("set") THEN MeantFor("set", <<v>>) ELSE call.vars[v]

RightlyTyped ==
  LET batch == call.cmd = "volume create" /\ Meant("f") # Empty
  IN /\ \A x \in ToSet(call.told) : x.kind \in {"option", "switch"} =>
          /\ x.flag \in DOMAIN Flags(call.cmd)
          /\ x.kind = "switch" => x.flag = "force"
          /\ x.flag = "force" => x.text \in {<<"true">>, <<"false">>}
          /\ x.flag \in {"set", "label"} => KeysOf(x.text) # {}
     /\ CASE call.cmd = "exec" -> /\ [i \in DOMAIN call.told |-> call.told[i].kind] = <<"word", "after">>
                                  /\ call.told[1].text # Empty /\ call.told[2].texts # <<>>
          [] call.cmd \in Nameless \/ batch -> TRUE
          [] OTHER -> Len(WordsMeant) = 1 /\ WordsMeant[1] # Empty
     /\ call.cmd = "snapshot create" => Meant("from") # Empty
     /\ call.cmd = "volume create" => batch \/ Meant("size") # Empty
     /\ call.cmd = "create" =>
          /\ Meant("f") # Empty /\ call.file \notin {"missing", "garbled", "blank"}
          /\ \A n \in DOMAIN Written : \A v \in Variables(Written[n].text) :
               <<v>> \in Keys("set") \/ call.vars[v] # Empty
     /\ batch => call.file # "missing"

\* What is rightly typed is sent: flags after a name, names that look like flags
\* after "--" and repeated options are none of them refused (parseFlags).
RefusedForAReason ==
  pc = "over" /\ target.url # "" /\ request = NoRequest => ~RightlyTyped

FirstNamed(x, s) == x # "" /\ \E i \in DOMAIN s : s[i] = x /\ \A j \in 1 .. i - 1 : s[j] = ""

\* A request goes where the user says, with the token that belongs there: flags
\* before the environment before the profile, itself the first that is named.  A
\* profile that is named but not there sends no request ("so a typo fails loudly
\* instead of quietly hitting the loopback default", resolveTarget); no token, no
\* request.
GoesWhereNamed ==
  LET names == <<call.flags.profile, call.env.profile,
                 IF call.cfg.state = "there" THEN call.cfg.default ELSE "">>
      By(p) == /\ FirstNamed(target.url, <<call.flags.url, call.env.url, p.url, DefaultURL>>)
               /\ FirstNamed(target.token, <<call.flags.token, call.env.token, p.token>>)
  IN answer # 0 =>
       \/ (\A i \in DOMAIN names : names[i] = "") /\ By(NoProfile)
       \/ \E n \in DOMAIN call.cfg.profiles : FirstNamed(n, names) /\ By(call.cfg.profiles[n])

\* The document sent is the one written, with each variable's value, --set before
\* the environment, in the place of its ${NAME} and nowhere else: a value is not
\* substituted again, adds or splits no scalar, and is read as a string.  It is said
\* of values, and of the keys without a variable (KeysUntouched is about the others).
SpecSubstituted ==
  LET Before(t, i) == FlattenSeq([j \in 1 .. i - 1 |-> IF t[j] \in Placeholders THEN ValueOf(t[j]) ELSE <<t[j]>>])
  IN request.op = "create" =>
       /\ Len(request.doc) = Len(Written)
       /\ \A n \in DOMAIN Written :
            LET t == Written[n].text
                u == request.doc[n].text
            IN /\ request.doc[n].part = Written[n].part
               /\ Written[n].part = "value" \/ Variables(t) = {} =>
                    /\ Len(u) = Len(Before(t, Len(t) + 1))
                    /\ \A i \in DOMAIN t :
                         LET at == Len(Before(t, i))
                             v == IF t[i] \in Placeholders THEN ValueOf(t[i]) ELSE <<t[i]>>
                         IN SubSeq(u, at + 1, at + Len(v)) = v
                    /\ Variables(t) # {} => request.doc[n].quoted

\* A script can tell from the exit code what became of the request: 0 only if all
\* of it was done, 2 if some of it was, 4 and 5 whose fault it was; exec's own
\* codes aside (client.go:14-21, ADR-0009).
ExitTellsOutcome ==
  pc = "over" /\ call.cmd # "help" /\ ~(request.op = "exec" /\ answer = 200) =>
    /\ exit = 0 => answer \in {200, 201, 204}
    /\ exit = 2 <=> answer = 207
    /\ exit = 4 <=> answer \in 400 .. 499
    /\ exit = 5 <=> answer \in 500 .. 599

\* "It parses the document to a node tree and rewrites only *scalar values*, never
\* structure, so a substituted value can never introduce a new key"
\* (interpolate.go:18-21).
KeysUntouched ==
  request.op = "create" =>
    \A n \in DOMAIN Written : Written[n].part = "key" => request.doc[n].text = Written[n].text

\* "An empty document would survive the round trip below as "null\n" and be POSTed to
\* the server" (interpolate.go:32-33), against which only whitespace is refused.
EmptySpecFails == request.op = "create" => call.file # "comments"
=============================================================================
