--------------------------- MODULE MCCommandLine ----------------------------
(* Small instances of CommandLine for TLC: in every request one or two texts   *)
(* vary over all short sequences of the tokens that matter to them.           *)
EXTENDS CommandLine

Texts(tokens, n) == UNION {[1 .. k -> tokens] : k \in 0 .. n}

Plain == [name |-> <<"a">>, image |-> <<"a">>, snapshot |-> <<>>, cpus |-> 0, memory |-> 0,
          volume |-> <<>>, env |-> {}, ports |-> <<>>, secrets |-> <<>>, keys |-> <<>>]

Vol(n, m) == <<[name |-> n, mount |-> m]>>
Sec(k, v, h) == [key |-> k, value |-> v, host |-> h]

\* A spec with something in every field.
Full == [Plain EXCEPT !.cpus = 2, !.memory = 512, !.volume = Vol(<<"1">>, <<"/", "a">>),
          !.env = {<<<<"a">>, <<"1">>>>, <<<<"_">>, <<>>>>},
          !.ports = <<[host |-> 8080, guest |-> 80], [host |-> 1, guest |-> 65535]>>,
          !.secrets = <<Sec(<<"a">>, <<"1">>, <<"a", ".">>), Sec(<<"1">>, <<"_">>, <<"a">>)>>,
          !.keys = <<<<"a", "sp", "1">>, <<"'">>>>]

Names == Texts({"a", "1", "-", "_", "nl"}, 2) \cup {<<"a", "a", "a">>}
SecretTexts == Texts({"a", "-", "=", "@", "nl"}, 2)

Specs ==
  {Plain, Full, [Full EXCEPT !.image = <<>>, !.snapshot = <<"1">>]}
  \cup {[Full EXCEPT !.name = t] : t \in Names}
  \cup {[Plain EXCEPT !.image = t, !.snapshot = u] :
          t \in Texts({"a", "-", "@", ":", "sp"}, 2), u \in Texts({"a", "-"}, 2)}
  \cup {[Plain EXCEPT !.cpus = n, !.memory = k] : n \in {-1, 0, 1}, k \in {-1, 0, 512}}
  \cup {[Plain EXCEPT !.volume = Vol(t, u)] : t \in Names, u \in Texts({"a", "/", ":"}, 2)}
  \cup {[Plain EXCEPT !.env = {<<t, u>>}] : t \in Texts({"a", "1", "-", "="}, 2), u \in Texts({"a", "-", "="}, 2)}
  \cup {[Plain EXCEPT !.ports = <<[host |-> n, guest |-> k]>>] : n \in {0, 1, 65536}, k \in {0, 65535}}
  \cup {[Plain EXCEPT !.secrets = <<Sec(t, u, v)>>] :
          t \in Texts({"a", "-", "=", "@"}, 1), u \in SecretTexts, v \in Texts({"a", "-", "@"}, 1)}
  \cup {[Plain EXCEPT !.keys = <<t>>] : t \in Texts({"a", "sp", "'", "\\", "nl"}, 3)}

SomeTexts == Texts({"a", "-"}, 2)

Everything ==
  {[op |-> "create", spec |-> s] : s \in Specs}
  \cup {[op |-> o, name |-> t] : o \in OneName, t \in Names}
  \cup {[op |-> "exec", name |-> t, command |-> c] :
          t \in Names, c \in {<<>>, <<<<>>>>, <<<<"a">>>>, <<<<"-", "a">>, <<"-", "-">>, <<>>>>}}
  \cup {[op |-> "logs", name |-> <<"a">>, since |-> t, until |-> u, grep |-> v, source |-> w, tail |-> n] :
          t \in SomeTexts, u \in {<<>>, <<"1">>}, v \in SomeTexts,
          w \in {<<>>, <<"all">>, <<"stdout", ",", "stderr">>, <<"stdout", ",">>, <<"-", "a">>},
          n \in {<<>>, <<-1>>, <<0>>, <<1>>}}
  \cup {[op |-> "snapshot-create", from |-> t, name |-> u, labels |-> l, force |-> b] :
          t \in SomeTexts, u \in SomeTexts, b \in BOOLEAN,
          l \in {{}} \cup {{<<k, v>>} : k \in SomeTexts, v \in {<<>>, <<"=", "a">>}}}
  \cup {[op |-> "volume-create", name |-> t, size |-> u] : t \in Names, u \in Texts({"a", "1", "-"}, 3)}
=============================================================================
