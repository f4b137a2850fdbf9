----------------------------- MODULE VolumeBatch ----------------------------
(***************************************************************************)
(* POST /volumes with a manifest (internal/server/volumes.go, ADR-0009): a   *)
(* pre-flight, one look at what exists, a plan per item, and then one msb    *)
(* command per item planned as created, while other requests create and      *)
(* delete volumes.  Sizes are the numbers and units of internal/msb/size.go. *)
(*                                                                          *)
(* The adapter's mutex serialises the commands (ControlPlane), so a command  *)
(* is one step; between two commands of a batch anything else may run.       *)
(***************************************************************************)
EXTENDS Integers, Sequences

CONSTANTS
  Volume,      \* volume names
  Batch,       \* batch requests at a time
  Manifest,    \* the bodies clients submit
  Kilo,        \* how many of a unit make one of the next: 1024
  MaxInt       \* the largest Go int

\* A size: digits and a unit.  "odd" is any short suffix msb.ValidSize lets
\* through and ParseSizeMiB does not know; "malformed" does not pass ValidSize.
Unit == {"M", "G", "T", "odd", "malformed"}
Size == [num : Nat, unit : Unit]
Item == [name : Volume, size : Size]

ASSUME VolumeBatchAssumption ==
  /\ Manifest \subseteq Seq(Item)
  /\ Kilo \in Nat \ {0}
  /\ MaxInt \in Nat

VARIABLES
  quota,     \* MiB of every volume that exists, by name
  pc,        \* where each batch is
  manifest,  \* what it asks for
  results,   \* what it has decided about each item
  next,      \* the item it is at
  code,      \* the HTTP status it was answered with; 0 before
  lost       \* history: the volumes deleted since a batch looked at msb

vars == <<quota, pc, manifest, results, next, code, lost>>

Status == {"created", "exists", "error"}

TypeOK ==
  /\ DOMAIN quota \subseteq Volume
  /\ \A v \in DOMAIN quota : quota[v] \in Nat
  /\ pc \in [Batch -> {"idle", "list", "items", "done"}]
  /\ manifest \in [Batch -> Seq(Item)]
  /\ results \in [Batch -> Seq(Status)]
  /\ next \in [Batch -> Nat \ {0}]
  /\ code \in [Batch -> {0, 201, 207, 400, 500}]
  /\ lost \in [Batch -> SUBSET Volume]
  /\ \A b \in Batch :
       \/ pc[b] \in {"items", "done"} /\ Len(results[b]) = Len(manifest[b])
       \/ pc[b] # "items" /\ results[b] = <<>>

Nothing == [v \in {} |-> 0]

Init ==
  /\ quota = Nothing
  /\ pc = [b \in Batch |-> "idle"]
  /\ manifest = [b \in Batch |-> <<>>]
  /\ results = [b \in Batch |-> <<>>]
  /\ next = [b \in Batch |-> 1]
  /\ code = [b \in Batch |-> 0]
  /\ lost = [b \in Batch |-> {}]

-----------------------------------------------------------------------------
(* Sizes.                                                                    *)

\* What a size means, and what msb makes of it (external): a G is so many M, a T
\* so many G.
MiB(s) ==
  IF s.unit = "G" THEN s.num * Kilo
  ELSE IF s.unit = "T" THEN s.num * Kilo * Kilo
  ELSE s.num

\* The table of size.go.
DecimalUnits == [M |-> 1, G |-> Kilo - 1, T |-> (Kilo - 1) * (Kilo - 1)]   \* mutant
unitMiB == [M |-> 1, G |-> Kilo, T |-> Kilo * Kilo]

\* Two's complement: the product of two Go ints.
Wrap(n) == ((n + MaxInt + 1) % (2 * (MaxInt + 1))) - (MaxInt + 1)

\* ParseSizeMiB: an error, or the number of MiB.
Parses(s) == s.unit \in DOMAIN unitMiB /\ s.num <= MaxInt
ParseSizeMiB(s) == Wrap(s.num * unitMiB[s.unit])

\* volumeManifest.validate.
Valid(m) == m # <<>> /\ \A i \in DOMAIN m : m[i].size.unit # "malformed"

\* planVolumeBatch, one item, given what exists.
Planned(it, have) ==
  IF ~Parses(it.size) THEN "error"
  ELSE IF it.name \notin DOMAIN have THEN "created"
  ELSE IF have[it.name] = ParseSizeMiB(it.size) THEN "exists" ELSE "error"

-----------------------------------------------------------------------------
\* msb volume create takes effect on a name it does not know and a size it
\* understands (external).
Adds(v, n) == quota' = [u \in DOMAIN quota \cup {v} |-> IF u = v THEN n ELSE quota[u]]
CanAdd(v, s) ==
  /\ v \notin DOMAIN quota
  /\ s.unit \in {"M", "G", "T"}
  /\ MiB(s) <= MaxInt

Answer(b, c) ==
  /\ pc' = [pc EXCEPT ![b] = "done"]
  /\ code' = [code EXCEPT ![b] = c]

\* The pre-flight: no msb call before every item is well-formed.
Submit(b) ==
  /\ pc[b] = "idle"
  /\ \E m \in Manifest :
       /\ manifest' = [manifest EXCEPT ![b] = m]
       /\ \/ Valid(m) /\ pc' = [pc EXCEPT ![b] = "list"] /\ UNCHANGED code
          \/ ~Valid(m) /\ Answer(b, 400)
  /\ UNCHANGED <<quota, results, next, lost>>

PlansOneItemLess(b) ==                                              \* mutant
  /\ pc[b] = "list"
  /\ results' = [results EXCEPT ![b] =
       [i \in 1 .. Len(manifest[b]) - 1 |-> Planned(manifest[b][i], quota)]]
  /\ pc' = [pc EXCEPT ![b] = "items"]
  /\ UNCHANGED <<quota, manifest, next, code, lost>>

\* msb volume ls, looked at once, and the plan made of it.
Plan(b) ==
  /\ pc[b] = "list"
  /\ \/ /\ results' = [results EXCEPT ![b] =
             [i \in 1 .. Len(manifest[b]) |-> Planned(manifest[b][i], quota)]]
        /\ pc' = [pc EXCEPT ![b] = "items"]
        /\ UNCHANGED code
     \/ Answer(b, 500) /\ UNCHANGED results
  /\ UNCHANGED <<quota, manifest, next, lost>>

AtItem(b) == pc[b] = "items" /\ next[b] <= Len(manifest[b])
Advance(b) == next' = [next EXCEPT ![b] = next[b] + 1]
ItemFails(b) ==
  results' = [results EXCEPT ![b] = [results[b] EXCEPT ![next[b]] = "error"]]

\* An item planned as exists or error needs no command.
SkipItem(b) ==
  /\ AtItem(b)
  /\ results[b][next[b]] # "created"
  /\ Advance(b)
  /\ UNCHANGED <<quota, pc, manifest, results, code, lost>>

AlreadyThereIsFine(b) ==                                            \* mutant
  /\ AtItem(b)
  /\ results[b][next[b]] = "created"
  /\ LET it == manifest[b][next[b]]
     IN \/ CanAdd(it.name, it.size) /\ Adds(it.name, MiB(it.size)) /\ UNCHANGED results
        \/ it.name \in DOMAIN quota /\ UNCHANGED <<quota, results>>
        \/ UNCHANGED quota /\ ItemFails(b)
  /\ Advance(b)
  /\ UNCHANGED <<pc, manifest, code, lost>>

FirstFailureEndsIt(b) ==                                            \* mutant
  /\ AtItem(b)
  /\ results[b][next[b]] = "created"
  /\ LET it == manifest[b][next[b]]
     IN \/ CanAdd(it.name, it.size) /\ Adds(it.name, MiB(it.size)) /\ Advance(b)
           /\ UNCHANGED results
        \/ UNCHANGED quota /\ ItemFails(b)
           /\ next' = [next EXCEPT ![b] = Len(manifest[b]) + 1]
  /\ UNCHANGED <<pc, manifest, code, lost>>

\* Client.VolumeCreate: done; failed, for instance because another request, or
\* an earlier item, has made a volume of that name since; killed too late.
CreateItem(b) ==
  /\ AtItem(b)
  /\ results[b][next[b]] = "created"
  /\ LET it == manifest[b][next[b]]
     IN \/ /\ CanAdd(it.name, it.size)
           /\ Adds(it.name, MiB(it.size))
           /\ UNCHANGED results \/ ItemFails(b)
        \/ UNCHANGED quota /\ ItemFails(b)
  /\ Advance(b)
  /\ UNCHANGED <<pc, manifest, code, lost>>

AllIsCreated(b) ==                                                  \* mutant
  /\ pc[b] = "items"
  /\ next[b] > Len(manifest[b])
  /\ Answer(b, 201)
  /\ UNCHANGED <<quota, manifest, results, next, lost>>

\* 207 when any item is an error, 201 otherwise.
Respond(b) ==
  /\ pc[b] = "items"
  /\ next[b] > Len(manifest[b])
  /\ Answer(b, IF \E i \in DOMAIN results[b] : results[b][i] = "error" THEN 207 ELSE 201)
  /\ UNCHANGED <<quota, manifest, results, next, lost>>

\* The slot is free for another request.
Forget(b) ==
  /\ pc[b] = "done"
  /\ pc' = [pc EXCEPT ![b] = "idle"]
  /\ manifest' = [manifest EXCEPT ![b] = <<>>]
  /\ results' = [results EXCEPT ![b] = <<>>]
  /\ next' = [next EXCEPT ![b] = 1]
  /\ code' = [code EXCEPT ![b] = 0]
  /\ lost' = [lost EXCEPT ![b] = {}]
  /\ UNCHANGED quota

\* Other requests: POST /volumes with a single volume, of a size some item has,
\* and DELETE /volumes/{name}.
SingleCreate(v) ==
  /\ \E m \in Manifest : \E i \in DOMAIN m :
       CanAdd(v, m[i].size) /\ Adds(v, MiB(m[i].size))
  /\ UNCHANGED <<pc, manifest, results, next, code, lost>>

Delete(v) ==
  /\ v \in DOMAIN quota
  /\ quota' = [u \in DOMAIN quota \ {v} |-> quota[u]]
  /\ lost' = [b \in Batch |-> IF results[b] = <<>> THEN {} ELSE lost[b] \cup {v}]
  /\ UNCHANGED <<pc, manifest, results, next, code>>

Step(b) ==
  Submit(b) \/ Plan(b) \/ SkipItem(b) \/ CreateItem(b) \/ Respond(b) \/ Forget(b)

Next ==
  \/ \E b \in Batch : Step(b)
  \/ \E v \in Volume : SingleCreate(v) \/ Delete(v)

Spec == Init /\ [][Next]_vars

-----------------------------------------------------------------------------
Decided(b, i) ==
  i \in DOMAIN results[b] /\ (pc[b] = "items" => i < next[b])

\* What a batch reports of an item is true of msb, though the batch looked only
\* once and other requests ran in between: a volume reported created or exists
\* is there, at the size asked for, unless somebody has deleted it since.
There(it) == it.name \in DOMAIN quota /\ quota[it.name] = MiB(it.size)
ResultsTrue ==
  \A b \in Batch : \A i \in DOMAIN results[b] :
    Decided(b, i) /\ results[b][i] # "error" =>
      There(manifest[b][i]) \/ manifest[b][i].name \in lost[b]

\* A volume is reported created at most once, by the request and the item that
\* made it, unless it was deleted in between.
CreatedOnce ==
  \A b, c \in Batch : \A i \in DOMAIN results[b], j \in DOMAIN results[c] :
    /\ Decided(b, i) /\ results[b][i] = "created"
    /\ Decided(c, j) /\ results[c][j] = "created"
    /\ manifest[b][i].name = manifest[c][j].name
    /\ manifest[b][i].name \notin lost[b] \cup lost[c]
    => b = c /\ i = j

\* Once a batch has been answered 201, applying its manifest again is a no-op,
\* whatever other requests did in between and whichever spelling of a size the
\* second manifest uses: every volume that nobody has deleted "exists"
\* (ADR-0009: "1G" and "1024M" are the same; 201 only when nothing failed).
SameVolume(it, other) == it.name = other.name /\ MiB(it.size) = MiB(other.size)
RerunIsNoOp ==
  [][\A b, c \in Batch : pc[b] = "list" /\ pc'[b] = "items" /\ code[c] = 201 =>
       \A i \in DOMAIN manifest[b], j \in DOMAIN manifest[c] :
         /\ SameVolume(manifest[b][i], manifest[c][j])
         /\ Parses(manifest[b][i].size)
         /\ manifest[c][j].name \notin lost[c]
         => results'[b][i] = "exists"]_vars

\* ADR-0009: "if any item is malformed the whole request is rejected 400 and
\* nothing is created - a typo never half-applies".
TypoNeverHalfApplies ==
  \A b \in Batch :
    (\E i \in DOMAIN manifest[b] : manifest[b][i].size.unit \in {"odd", "malformed"}) =>
      \A i \in DOMAIN results[b] : Decided(b, i) => results[b][i] # "created"
=============================================================================
