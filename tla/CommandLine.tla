---------------------------- MODULE CommandLine -----------------------------
(***************************************************************************)
(* From the body or path of an HTTP request to the msb command line, and     *)
(* from msb's inspect output back to the public answer: validation           *)
(* (internal/spec, internal/server, internal/msb/validate.go), the argument   *)
(* lists (internal/msb), msb's reading of them (external: clap), the ssh key  *)
(* script and sh's reading of it, and what a caller is shown of the sandbox.  *)
(*                                                                          *)
(* A text is a sequence of tokens: one character that some grammar here tells  *)
(* from the others ("a" and "1" stand for letters and digits, "nl" for a       *)
(* newline, "sp" for a blank), or a literal of the program such as a flag or   *)
(* a command, which is one token if it is two words.                         *)
(***************************************************************************)
EXTENDS Integers, SequencesExt, TLC

CONSTANTS
  Requests,    \* what clients may send
  BodyLimit,   \* maxSpecBytes; a body longer than that is cut after one more
  MaxName      \* how long an identifier may be

\* What the bodies, paths and parameters of requests decode to: texts are sequences
\* of characters (a source may be spelled right), a spec names at most one volume.
Char == {"a", "1", "-", "_", ".", "/", ":", "@", "=", ",", "'", "\\", "sp", "nl"}
Text == Seq(Char)
Printed == {"inspect", "metrics"}
OneName == {"inspect", "metrics", "start", "stop", "rm", "snapshot-rm", "volume-rm"}
WithBody == {"create", "exec", "snapshot-create", "volume-create"}
LogsSource == {"stdout", "stderr", "output", "system", "all"}
DecodedSpec ==
  [name : Text, image : Text, snapshot : Text, cpus : Int, memory : Int,
   volume : Seq([name : Text, mount : Text]), env : SUBSET (Text \X Text),
   ports : Seq([host : Int, guest : Int]),
   secrets : Seq([key : Text, value : Text, host : Text]), keys : Seq(Text)]
Decoded(q) ==
  CASE q.op = "create" -> q.spec \in DecodedSpec /\ Len(q.spec.volume) <= 1 /\ IsFiniteSet(q.spec.env)
    [] q.op = "exec" -> q.name \in Text /\ q.command \in Seq(Text)
    [] q.op = "logs" ->
         /\ {q.name, q.since, q.until, q.grep} \subseteq Text
         /\ q.source \in Seq(Char \cup LogsSource) /\ q.tail \in Seq(Int) /\ Len(q.tail) <= 1
    [] q.op = "snapshot-create" ->
         /\ q.name \in Text /\ q.from \in Text /\ q.force \in BOOLEAN
         /\ q.labels \in SUBSET (Text \X Text) /\ IsFiniteSet(q.labels)
    [] q.op = "volume-create" -> q.name \in Text /\ q.size \in Text
    [] OTHER -> q.op \in OneName /\ q.name \in Text

ASSUME CommandLineAssumption ==
  /\ BodyLimit \in Nat \ {0} /\ MaxName \in Nat \ {0}
  /\ \A q \in Requests : Decoded(q)

VARIABLES
  sent,     \* what the client sent
  request,  \* what the handler decoded
  pc,       \* where the request is
  argv,     \* the command line msb is started with
  claimed,  \* the volumes a create claims
  box,      \* the sandbox msb made: what it understood of the command line
  shown     \* what GET /sandboxes/{name} shows of it then

vars == <<sent, request, pc, argv, claimed, box, shown>>

Empty == <<>>

-----------------------------------------------------------------------------
(* What is accepted.                                                         *)

Letter == {"a"}
Digit == {"1"}
Alnum == Letter \cup Digit

Shaped(t, first, rest) ==
  /\ t # Empty
  /\ t[1] \in first
  /\ \A i \in 2 .. Len(t) : t[i] \in rest

ValidName(t) == Shaped(t, Alnum, Alnum \cup {"_", ".", "-"}) /\ Len(t) <= MaxName
ValidImage(t) == Shaped(t, Alnum \cup {".", "_"}, Alnum \cup {".", "_", "/", ":", "@", "-"})
ValidEnvKey(t) == Shaped(t, Letter \cup {"_"}, Alnum \cup {"_"}) /\ Len(t) <= MaxName
ValidSize(t) ==
  \E n \in DOMAIN t : /\ Len(t) <= n + 3
                      /\ \A i \in DOMAIN t : t[i] \in (IF i <= n THEN Digit ELSE Letter)

Has(t, c) == \E i \in DOMAIN t : t[i] = c
Dashed(t) == t # Empty /\ t[1] = "-"

AtInTheValue(s) ==                                                  \* mutant
  /\ s.key # Empty /\ s.value # Empty /\ s.host # Empty
  /\ ~Dashed(s.key) /\ ~Has(s.key, "=") /\ ~Has(s.key, "@") /\ ~Has(s.host, "@")
ValidSecret(s) ==
  /\ s.key # Empty /\ s.value # Empty /\ s.host # Empty
  /\ ~Dashed(s.key)
  /\ ~Has(s.key, "=") /\ ~Has(s.key, "@")
  /\ ~Has(s.host, "@")
  /\ ~Has(s.value, "@")

\* Spec.Validate.  A volume is a sequence of at most one mount.
Port == 1 .. 65535
ValidSpec(s) ==
  /\ ValidName(s.name)
  /\ (s.image = Empty) # (s.snapshot = Empty)
  /\ s.image # Empty => ValidImage(s.image)
  /\ s.snapshot # Empty => ValidName(s.snapshot)
  /\ s.cpus >= 0 /\ s.memory >= 0
  /\ \A i \in DOMAIN s.volume :
       ValidName(s.volume[i].name) /\ s.volume[i].mount # Empty /\ s.volume[i].mount[1] = "/"
  /\ \A kv \in s.env : ValidEnvKey(kv[1])
  /\ \A i \in DOMAIN s.ports : s.ports[i].host \in Port /\ s.ports[i].guest \in Port
  /\ \A i \in DOMAIN s.keys : s.keys[i] # Empty /\ ~Has(s.keys[i], "nl")
  /\ \A i \in DOMAIN s.secrets : ValidSecret(s.secrets[i])

\* The handlers' own checks of the other bodies and parameters.
ValidSource(t) ==
  Len(t) % 2 = 1 /\ \A i \in DOMAIN t : t[i] \in (IF i % 2 = 1 THEN LogsSource ELSE {","})
ValidLogs(q) ==
  /\ ~Dashed(q.since) /\ ~Dashed(q.until) /\ ~Dashed(q.grep)
  /\ q.source # Empty => ValidSource(q.source)
  /\ \A i \in DOMAIN q.tail : q.tail[i] >= 0

Valid(q) ==
  CASE q.op = "create" -> ValidSpec(q.spec)
    [] q.op = "exec" -> ValidName(q.name) /\ q.command # <<>> /\ q.command[1] # Empty
    [] q.op = "logs" -> ValidName(q.name) /\ ValidLogs(q)
    [] q.op = "snapshot-create" ->
         ValidName(q.from) /\ ValidName(q.name) /\ \A kv \in q.labels : ValidName(kv[1])
    [] q.op = "volume-create" -> ValidName(q.name) /\ ValidSize(q.size)
    [] q.op \in OneName -> ValidName(q.name)

-----------------------------------------------------------------------------
(* The command lines.  An argument is a text; a flag or a number is one token. *)

Option(flag, t) == <<<<flag>>, t>>
Given(flag, t) == IF t = Empty THEN <<>> ELSE Option(flag, t)
Positive(flag, n) == IF n > 0 THEN Option(flag, <<ToString(n)>>) ELSE <<>>
Each(Arg(_), s) == FlattenSeq([i \in DOMAIN s |-> Arg(s[i])])
Pairs(flag, kvs) == Each(LAMBDA kv : Option(flag, kv[1] \o <<"=">> \o kv[2]), SetToSeq(kvs))
Trailing(name) == <<<<"--">>, name>>

\* shellSingleQuote and sshKeysScript; "printf" is the command up to its argument.
BackslashOnly(k) ==                                                 \* mutant
  <<"'">> \o Each(LAMBDA c : IF c = "'" THEN <<"\\", "'">> ELSE <<c>>, k) \o <<"'">>
ShellSingleQuote(k) ==
  <<"'">> \o Each(LAMBDA c : IF c = "'" THEN <<"'", "\\", "'", "'">> ELSE <<c>>, k) \o <<"'">>
SshKeysScript(keys) ==
  Each(LAMBDA k : <<"printf">> \o ShellSingleQuote(k) \o <<"nl">>, keys)

\* buildCreateArgs.
CreateArgs(s) ==
  (IF s.snapshot # Empty
     THEN <<<<"run">>, <<"-d">>>> \o Option("--snapshot", s.snapshot) ELSE <<<<"create">>>>)
  \o Option("-n", s.name)
  \o Positive("-c", s.cpus) \o Positive("-m", s.memory)
  \o Each(LAMBDA v : Option("-v", v.name \o <<":">> \o v.mount), s.volume)
  \o Pairs("-e", s.env)
  \o Each(LAMBDA p : Option("-p", <<ToString(p.host), ":", ToString(p.guest)>>), s.ports)
  \o Each(LAMBDA x : Option("--secret", x.key \o <<"=">> \o x.value \o <<"@">> \o x.host), s.secrets)
  \o (IF s.keys # <<>> THEN Option("--script-raw", <<"install-ssh-keys", "=">> \o SshKeysScript(s.keys)) ELSE <<>>)
  \o (IF s.snapshot = Empty THEN Trailing(s.image) ELSE <<>>)

\* Client.Exec, Logs, SnapshotCreate, VolumeCreate, and the methods of one name.
Unterminated(q) == <<<<q.op>>, q.name>>                             \* mutant
OneNameArgs(q) ==
  <<<<q.op>>>> \o (IF q.op \in Printed THEN Option("--format", <<"json">>) ELSE <<>>) \o Trailing(q.name)

Argv(q) ==
  CASE q.op = "create" -> CreateArgs(q.spec)
    [] q.op = "exec" -> <<<<"exec">>, q.name, <<"--">>>> \o q.command
    [] q.op = "logs" ->
         <<<<"logs">>>> \o Each(LAMBDA n : Positive("--tail", n), q.tail)
         \o Given("--since", q.since) \o Given("--until", q.until)
         \o Given("--source", q.source) \o Given("--grep", q.grep)
         \o <<<<"--json">>>> \o Trailing(q.name)
    [] q.op = "snapshot-create" ->
         <<<<"snapshot-create">>>> \o Option("--from", q.from) \o Pairs("--label", q.labels)
         \o (IF q.force THEN <<<<"--force">>>> ELSE <<>>) \o Trailing(q.name)
    [] q.op = "volume-create" -> <<<<"volume-create">>>> \o Option("--size", q.size) \o Trailing(q.name)
    [] q.op \in OneName -> OneNameArgs(q)

-----------------------------------------------------------------------------
(* What msb makes of a command line, as the repository describes it: after the  *)
(* command come flags, each with a value that is not itself shaped like a flag, *)
(* and positionals; after "--" everything is a positional.                     *)

Switches == {"-d", "--json", "--force"}
Options == {"-n", "-c", "-m", "-v", "-e", "-p", "--secret", "--script-raw", "--snapshot",
            "--format", "--tail", "--since", "--until", "--source", "--grep", "--from", "--label", "--size"}
NoFlag == "none"
FlagShaped(t) == t # Empty /\ t[1] \in Switches \cup Options \cup {"-", "--"}

ReadArg(r, t) ==
  IF r.ended THEN [r EXCEPT !.pos = Append(@, t)]
  ELSE IF r.flag # NoFlag /\ ~FlagShaped(t)
    THEN [r EXCEPT !.flag = NoFlag, !.opts = @ \cup {<<r.flag, t>>}]
  ELSE IF r.flag # NoFlag THEN [r EXCEPT !.bad = TRUE]
  ELSE IF ~FlagShaped(t) THEN [r EXCEPT !.pos = Append(@, t)]
  ELSE IF t[1] \in Switches THEN [r EXCEPT !.opts = @ \cup {<<t[1]>>}]
  ELSE IF t[1] \in Options THEN [r EXCEPT !.flag = t[1]]
  ELSE IF t = <<"--">> THEN [r EXCEPT !.ended = TRUE] ELSE [r EXCEPT !.bad = TRUE]

\* A text cut in two at one place, or not at all.
CutAt(t, i) == IF i = 0 THEN <<t>> ELSE <<SubSeq(t, 1, i - 1), SubSeq(t, i + 1, Len(t))>>
AtFirst(t, c) == CutAt(t, SelectInSeq(t, LAMBDA x : x = c))
AtLast(t, c) == CutAt(t, SelectLastInSeq(t, LAMBDA x : x = c))

\* sh reads a script: a quote begins and ends a stretch taken literally, a
\* backslash outside takes one token literally, blanks and newlines end words.
ShToken(sh, c) ==
  IF sh.mode = "quoted" THEN IF c = "'" THEN [sh EXCEPT !.mode = "bare"] ELSE [sh EXCEPT !.word = Append(@, c)]
  ELSE IF sh.mode = "escaped" THEN [sh EXCEPT !.mode = "bare", !.word = Append(@, c)]
  ELSE CASE c = "printf" -> sh
         [] c = "'" -> [sh EXCEPT !.mode = "quoted"]
         [] c = "\\" -> [sh EXCEPT !.mode = "escaped"]
         [] c \in {"sp", "nl"} -> [sh EXCEPT !.lines = Append(@, sh.word), !.word = Empty]
         [] OTHER -> [sh EXCEPT !.word = Append(@, c)]

\* What the script leaves in authorized_keys.
AuthorizedKeys(script) ==
  FoldLeft(ShToken, [mode |-> "bare", word |-> Empty, lines |-> <<>>], script).lines

\* Which "@" ends a secret's value is not known: the first or the last.
Meaning(opt, lastAt) ==
  CASE opt[1] \in {"-v", "-p"} -> <<opt[1]>> \o AtFirst(opt[2], ":")
    [] opt[1] \in {"-e", "--label"} -> <<opt[1]>> \o AtFirst(opt[2], "=")
    [] opt[1] = "--script-raw" -> <<"keys", AuthorizedKeys(AtFirst(opt[2], "=")[2])>>
    [] opt[1] = "--secret" ->
         LET kv == AtFirst(opt[2], "=")
         IN <<opt[1], kv[1]>> \o (IF lastAt THEN AtLast(kv[2], "@") ELSE AtFirst(kv[2], "@"))
    [] OTHER -> opt

\* The facts msb reads out of a command line; none if it refuses it.
Understood(args, lastAt) ==
  LET r == FoldLeft(ReadArg, [ended |-> FALSE, flag |-> NoFlag, bad |-> FALSE, opts |-> {}, pos |-> <<>>],
                    Tail(args))
  IN IF r.bad \/ r.flag # NoFlag THEN {}
     ELSE {<<"command", args[1]>>, <<"positionals">> \o r.pos}
          \cup {Meaning(o, lastAt) : o \in r.opts}

-----------------------------------------------------------------------------
(* msb inspect, as in internal/msb/testdata, and what becomes of it.         *)

TmpMount == [type |-> "Tmpfs", name |-> Empty, guest |-> <<"/", "a">>]
OwnEnv == <<<<"PATH">>, <<"/">>>>

Of(flag, facts) == {f \in facts : f[1] = flag}

MsbInspect(facts) ==
  [name |-> CHOOSE n \in {f[2] : f \in Of("-n", facts)} : TRUE,
   image |-> [Oci |-> [reference |-> CHOOSE t \in {Append(f, <<"base">>)[2] : f \in Of("positionals", facts)} : TRUE]],
   env |-> {OwnEnv} \cup {Tail(f) : f \in Of("-e", facts)},
   mounts |-> {TmpMount} \cup {[type |-> "Named", name |-> f[2], guest |-> f[3]] : f \in Of("-v", facts)},
   secrets |-> {<<f[2], f[3]>> : f \in Of("--secret", facts)}]

\* parseInspect, with imageReference: of the network subtree nothing is decoded.
WithTheNetwork(raw) ==                                              \* mutant
  [name |-> raw.name, image |-> raw.image.Oci.reference,
   env |-> {kv \in raw.env : Len(kv) = 2} \cup raw.secrets, mounts |-> raw.mounts]
ParseInspect(raw) ==
  [name |-> raw.name, image |-> raw.image.Oci.reference,
   env |-> {kv \in raw.env : Len(kv) = 2}, mounts |-> raw.mounts]

\* The public answer copies these fields, and only these.
NewSandboxDetail(d) == [f \in {"name", "image", "env", "mounts"} |-> d[f]]

\* SandboxDetail.VolumeNames, and volumesFromSpec.
AllMounts(d) == {m.name : m \in d.mounts}                           \* mutant
VolumeNames(d) == {m.name : m \in {n \in d.mounts : n.type = "Named" /\ n.name # Empty}}
VolumesFromSpec(s) == {v.name : v \in ToSet(s.volume)}

-----------------------------------------------------------------------------
(* One request after the other.                                              *)

HasBody(q) == q.op \in WithBody

\* io.LimitReader: how much of a body of n is read.
OneLess(n) == IF n <= BodyLimit THEN n ELSE BodyLimit               \* mutant
ReadOf(n) == IF n <= BodyLimit + 1 THEN n ELSE BodyLimit + 1

\* A body that is cut may still be YAML, of which the last fields are missing.
Cut(q) ==
  CASE q.op = "create" -> [q EXCEPT !.spec.volume = <<>>]
    [] q.op = "exec" -> [q EXCEPT !.command = [i \in {1} \cap DOMAIN @ |-> @[i]]]
    [] q.op = "snapshot-create" -> [q EXCEPT !.labels = {}]
    [] OTHER -> q

Nothing == [op |-> "rm", name |-> <<"a">>]

Init ==
  /\ sent = Nothing /\ request = Nothing
  /\ pc = "idle"
  /\ argv = <<>>
  /\ claimed = {}
  /\ box = {}
  /\ shown = {}

\* The handler reads and decodes the body, or refuses it for its length (413).
Receive ==
  /\ pc = "idle"
  /\ \E q \in Requests : \E n \in (IF HasBody(q) THEN BodyLimit .. BodyLimit + 2 ELSE {0}) :
       /\ sent' = q
       /\ request' = IF n > ReadOf(n) THEN Cut(q) ELSE q
       /\ pc' = IF HasBody(q) /\ ReadOf(n) > BodyLimit THEN "refused" ELSE "decoded"
  /\ UNCHANGED <<argv, claimed, box, shown>>

\* 400.
Refuse ==
  /\ pc = "decoded"
  /\ ~Valid(request)
  /\ pc' = "refused"
  /\ UNCHANGED <<sent, request, argv, claimed, box, shown>>

\* The claims of a create, and the command, which msb carries out as it reads it.
Run ==
  /\ pc = "decoded"
  /\ Valid(request)
  /\ pc' = "run"
  /\ argv' = Argv(request)
  /\ claimed' = IF request.op = "create" THEN VolumesFromSpec(request.spec) ELSE {}
  /\ \E lastAt \in BOOLEAN : box' = Understood(argv', lastAt)
  /\ UNCHANGED <<sent, request, shown>>

\* GET /sandboxes/{name} of the sandbox a create has made.
Show ==
  /\ pc = "run"
  /\ request.op = "create"
  /\ box # {}
  /\ shown' = {NewSandboxDetail(ParseInspect(MsbInspect(box)))}
  /\ pc' = "shown"
  /\ UNCHANGED <<sent, request, argv, claimed, box>>

Again ==
  /\ pc \in {"refused", "run", "shown"}
  /\ sent' = Nothing /\ request' = Nothing
  /\ pc' = "idle"
  /\ argv' = <<>> /\ claimed' = {} /\ box' = {} /\ shown' = {}

Next == Receive \/ Refuse \/ Run \/ Show \/ Again

Spec == Init /\ [][Next]_vars

-----------------------------------------------------------------------------
\* What a request asks of msb, said without any command line.
AskedOfCreate(s) ==
  (IF s.snapshot = Empty
     THEN {<<"command", <<"create">>>>, <<"positionals", s.image>>}
     ELSE {<<"command", <<"run">>>>, <<"-d">>, <<"positionals">>, <<"--snapshot", s.snapshot>>})
  \cup {<<"-n", s.name>>}
  \cup {<<"-c", <<ToString(n)>>>> : n \in {s.cpus} \ {0}}
  \cup {<<"-m", <<ToString(n)>>>> : n \in {s.memory} \ {0}}
  \cup {<<"-v", v.name, v.mount>> : v \in ToSet(s.volume)}
  \cup {<<"-e">> \o kv : kv \in s.env}
  \cup {<<"-p", <<ToString(p.host)>>, <<ToString(p.guest)>>>> : p \in ToSet(s.ports)}
  \cup {<<"--secret", x.key, x.value, x.host>> : x \in ToSet(s.secrets)}
  \cup (IF s.keys = <<>> THEN {} ELSE {<<"keys", s.keys>>})

Asked(q) ==
  CASE q.op = "create" -> AskedOfCreate(q.spec)
    [] q.op = "exec" -> {<<"command", <<"exec">>>>, <<"positionals", q.name>> \o q.command}
    [] q.op = "logs" ->
         {<<"command", <<"logs">>>>, <<"--json">>, <<"positionals", q.name>>}
         \cup {<<"--tail", <<ToString(n)>>>> : n \in ToSet(q.tail)}
         \cup {f \in {<<"--since", q.since>>, <<"--until", q.until>>, <<"--source", q.source>>,
                       <<"--grep", q.grep>>} : f[2] # Empty}
    [] q.op = "snapshot-create" ->
         {<<"command", <<q.op>>>>, <<"--from", q.from>>, <<"positionals", q.name>>}
         \cup {<<"--label">> \o kv : kv \in q.labels} \cup {<<"--force">> : x \in {q.force} \ {FALSE}}
    [] q.op = "volume-create" -> {<<"command", <<q.op>>>>, <<"--size", q.size>>, <<"positionals", q.name>>}
    [] q.op \in OneName ->
         {<<"command", <<q.op>>>>, <<"positionals", q.name>>}
         \cup {<<"--format", <<"json">>>> : x \in {q.op} \cap Printed}

\* msb does what the client asked, all of it and nothing else, whichever "@" it
\* splits a secret at: no text of a client's is read as a flag, moves to another
\* field or is cut off, and the keys a sandbox gets are the keys of its spec
\* (spec.Validate, issues #3, #22, #23; buildCreateArgs; shellSingleQuote).
MsbReadsTheRequest ==
  pc \in {"run", "shown"} /\ ~(sent.op = "logs" /\ sent.tail = <<0>>) =>
    \A lastAt \in BOOLEAN : Understood(argv, lastAt) = Asked(sent)

\* A name that slips past validation is still read as a name: Client.Start, "even
\* an identifier that slipped validation cannot be parsed as a flag".
TerminatorHolds ==
  pc = "decoded" /\ request.op \in OneName =>
    Understood(Argv(request), TRUE) = Asked(request)

\* The volume a create claims is the one that a later start or the reconcile
\* after a restart finds by inspecting the sandbox (volumesFromSpec,
\* SandboxDetail.VolumeNames).
ClaimsAreTheMounts == \A d \in shown : claimed = VolumeNames(d)

\* GET shows of a sandbox what its spec says in public, and nothing that only a
\* secret says ("do NOT add a field for config.network.secrets").
ShownAsAsked ==
  \A d \in shown :
    /\ d.name = sent.spec.name
    /\ sent.spec.image # Empty => d.image = sent.spec.image
    /\ d.env = sent.spec.env \cup {OwnEnv}
    /\ {<<m.name, m.guest>> : m \in d.mounts \ {TmpMount}}
         = {<<v.name, v.mount>> : v \in ToSet(sent.spec.volume)}

\* Every query parameter of GET logs reaches msb: README.md:76, "each mapping 1:1
\* to the msb flag of the same name".
ParamsMapOneToOne ==
  pc = "run" /\ sent.op = "logs" => Understood(argv, TRUE) = Asked(sent)

\* A secret's fields are single lines: docs/adr/0008, "spec.Validate rejects
\* =/@/newlines in secret fields".
SecretsOnOneLine ==
  pc = "run" /\ sent.op = "create" =>
    \A x \in ToSet(sent.spec.secrets) : \A t \in {x.key, x.value, x.host} : ~Has(t, "nl")
=============================================================================
