------------------------------ MODULE MCMsbctl ------------------------------
(* Small instances of Msbctl: every command line of up to three items, every     *)
(* way of naming a target, every small spec.                                   *)
EXTENDS Msbctl

Variable == {"${A}", "${B}"}
Token ==
  Variable \cup {"-", "--", "=", "x", "nl", "1", "2", "web", "5", "6", "tail", "since", "from", "db", "force",
                "true", "false", "label", "k", "v", "size", "f", "set", "ls", "la", "o", "json", "xml"}
Nowhere == [url |-> "", profile |-> "", token |-> ""]
NoVars == [v \in Variable |-> <<>>]

Word(t) == [kind |-> "word", text |-> t]
After(ts) == [kind |-> "after", texts |-> ts]
Option(f, t) == [kind |-> "option", flag |-> f, text |-> t]
Switch(f) == [kind |-> "switch", flag |-> f, text |-> <<"true">>]

Node(p, t) == [part |-> p, text |-> t, quoted |-> FALSE]
SomeDoc == <<Node("key", <<"x">>), Node("value", <<"x">>)>>

NoFile == [state |-> "missing", default |-> "", profiles |-> <<>>]
Plain == [cmd |-> "ls", told |-> <<>>, flags |-> Nowhere, env |-> [Nowhere EXCEPT !.token = "te"],
          cfg |-> NoFile, file |-> "there", doc |-> SomeDoc, vars |-> NoVars]

UpTo(S, n) == UNION {[1 .. k -> S] : k \in 0 .. n}

\* Names, a name after "--", and options with values of every kind.
Items(cmd) ==
  {Word(<<"web">>), Word(<<>>)} \cup
  (IF cmd = "exec" THEN {} ELSE {After(<<<<"-", "x">>>>), After(<<<<"--", "tail">>>>)}) \cup
  CASE cmd = "logs" -> {Option("tail", <<"5">>), Option("tail", <<"-", "tail">>), Option("since", <<"5">>), Option("since", <<>>)}
    [] cmd = "snapshot create" ->
         {Option("from", <<"db">>), Switch("force"), Option("force", <<"false">>),
          Option("label", <<"k", "=", "v", "=">>), Option("label", <<"k", "=">>),
          Option("label", <<"=", "v">>)}
    [] cmd = "volume create" -> {Option("size", <<"5">>), Option("size", <<"6">>), Option("f", <<"-">>)}
    [] cmd = "create" -> {Option("f", <<"-">>), Option("set", <<"k">>)}
    [] cmd = "exec" -> {After(<<<<"-", "x">>>>), After(<<<<"ls">>, <<"-", "la">>, <<"--">>>>), After(<<>>)}
    [] cmd \in {"ls", "inspect"} -> {Option("o", <<"json">>), Option("o", <<"xml">>)}
    [] OTHER -> {Option("o", <<"json">>)}

Typings ==
  UNION {{[Plain EXCEPT !.cmd = c, !.told = t] :
            t \in {u \in UpTo(Items(c), IF c \in {"logs", "snapshot create"} THEN 3 ELSE 2) :
                     \A i \in DOMAIN u : Item(c, u[i], i = Len(u))}} :
           c \in Commands \cup {"help", "frobnicate"}}
  \cup {[Plain EXCEPT !.cmd = "snapshot create",
          !.told = <<Option("label", <<"k", "=">>), Word(<<"web">>), Option("from", <<"db">>), Option("label", <<"k", "=", "v", "=">>)>>],
        [Plain EXCEPT !.cmd = "logs", !.told = <<Word(<<"web">>), Switch("tail")>>]}

Targets ==
  {[Plain EXCEPT !.flags = [url |-> u, profile |-> p, token |-> t], !.env = [url |-> v, profile |-> q, token |-> s],
                 !.cfg = c] :
     u \in {"", "uf"}, p \in {"", "p", "typo"}, t \in {"", "tf"},
     v \in {"", "ue"}, q \in {"", "p", "typo"}, s \in {"", "te"},
     c \in {NoFile, [NoFile EXCEPT !.state = "broken"]}
           \cup {[state |-> "there", default |-> d, profiles |-> [n \in {"p"} |-> [url |-> w, token |-> x]]] :
                   d \in {"", "p", "typo"}, w \in {"", "up"}, x \in {"", "tp"}}}

Values == {<<>>, <<"x">>, <<"${B}">>, <<"x", "nl", "=">>}
Specs ==
  {[Plain EXCEPT !.cmd = "create", !.told = t, !.doc = d, !.vars = [v \in Variable |-> IF v = "${A}" THEN a ELSE b]] :
     t \in {<<Option("f", <<"-">>)>>,
            <<Option("set", <<"${A}", "=", "x">>), Option("f", <<"-">>), Option("set", <<"${A}", "=", "1", "=", "2">>)>>},
     d \in {<<>>} \cup {<<Node("key", k), Node("value", w)>> : k \in {<<"x">>, <<"${A}">>}, w \in UpTo({"x"} \cup Variable, 2)},
     a \in Values, b \in {<<>>, <<"1">>}}
  \cup {[Plain EXCEPT !.cmd = c, !.told = <<Option("f", <<"-">>)>>, !.file = s, !.doc = <<>>] :
          c \in {"create", "volume create"}, s \in {"there", "missing", "garbled", "blank", "comments"}}

Everything == Typings \cup Targets \cup Specs
=============================================================================
