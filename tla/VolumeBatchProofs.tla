------------------------- MODULE VolumeBatchProofs --------------------------
(***************************************************************************)
(* What a batch reports is true of msb, nothing is created twice, and what    *)
(* was applied once can be applied again, for any manifests, any number of    *)
(* batches, and commands that fail as they like.                             *)
(***************************************************************************)
EXTENDS VolumeBatch, TLAPS

\* Every size ParseSizeMiB takes fits an int in MiB.
SizesFit ==
  \A m \in Manifest : \A i \in DOMAIN m :
    Parses(m[i].size) => MiB(m[i].size) <= MaxInt

\* The volume is there, at the size as Go reads it, whether that wrapped or not.
Agrees(it) ==
  /\ it.name \in DOMAIN quota
  /\ Parses(it.size)
  /\ quota[it.name] = ParseSizeMiB(it.size)

\* What a batch may report as there: it is, or was deleted since.
Excused(b, it) == Agrees(it) \/ it.name \in lost[b]

\* What a batch could report of an item, it still can after the step.
StaysExcused(b) == \A it \in Item : Excused(b, it) => Excused(b, it)'

\* A result that says the volume is there is true from when it is decided on:
\* "exists" by the plan, "created" by the command.
Reported(b) ==
  \A i \in DOMAIN results[b] :
    results[b][i] = "exists" \/ (Decided(b, i) /\ results[b][i] = "created")
      => Excused(b, manifest[b][i])

\* A batch asks for one of the manifests, and starts at its first item.
SlotInv ==
  \A b \in Batch :
    /\ manifest[b] \in Manifest \cup {<<>>}
    /\ pc[b] \in {"idle", "list"} => next[b] = 1

BatchInv ==
  /\ TypeOK
  /\ SlotInv
  /\ \A b \in Batch : Reported(b)

LEMMA WrapFits == ASSUME NEW n \in 0 .. MaxInt PROVE Wrap(n) = n
<1> DEFINE m == 2 * (MaxInt + 1)
           k == n + MaxInt + 1
<1>1. k \in 0 .. (m - 1) /\ m \in Nat \ {0}
  BY VolumeBatchAssumption
<1>2. k % m = k
  <2> HIDE DEF k, m
  <2> QED BY <1>1
<1> QED BY <1>2, VolumeBatchAssumption DEF Wrap

LEMMA SizeType == ASSUME NEW s \in Size PROVE MiB(s) \in Nat
<1>1. s.num \in Nat /\ Kilo \in Nat
  BY VolumeBatchAssumption DEF Size
<1>2. s.num * Kilo \in Nat
  BY <1>1
<1>3. s.num * Kilo * Kilo \in Nat
  BY <1>1, <1>2
<1> QED BY <1>1, <1>2, <1>3 DEF MiB

\* What Go reads is what the size means, as far as an int goes.
LEMMA ReadsMiB ==
  ASSUME NEW s \in Size, s.unit \in DOMAIN unitMiB
  PROVE  ParseSizeMiB(s) = Wrap(MiB(s))
<1>1. s.num \in Nat /\ Kilo \in Nat
  BY VolumeBatchAssumption DEF Size
<1>2. s.num * (Kilo * Kilo) = s.num * Kilo * Kilo
  BY <1>1
<1>3. s.unit \in {"M", "G", "T"}
  BY DEF unitMiB
<1>4. s.num * unitMiB[s.unit] = MiB(s)
  BY <1>1, <1>2, <1>3 DEF unitMiB, MiB
<1> QED BY <1>4 DEF ParseSizeMiB

\* A number is no larger than what it means in MiB.
LEMMA NumberFits ==
  ASSUME NEW s \in Size, s.unit \in {"M", "G", "T"}, MiB(s) <= MaxInt
  PROVE  Parses(s) /\ ParseSizeMiB(s) = MiB(s)
<1>1. s.num \in Nat /\ MaxInt \in Nat /\ Kilo \in Nat \ {0}
  BY VolumeBatchAssumption DEF Size
<1>2. \A n \in Nat, l \in Nat \ {0} : n * l >= n /\ n * l \in Nat
  OBVIOUS
<1>3. s.num * Kilo >= s.num /\ s.num * Kilo \in Nat
  BY <1>1, <1>2
<1>4. s.num * Kilo * Kilo >= s.num * Kilo
  BY <1>1, <1>2, <1>3
<1>5. s.num <= MiB(s)
  BY <1>1, <1>3, <1>4 DEF MiB
<1>6. MiB(s) \in 0 .. MaxInt
  BY SizeType, <1>1
<1>7. s.unit \in DOMAIN unitMiB
  BY DEF unitMiB
<1> QED BY <1>1, <1>5, <1>6, <1>7, WrapFits, ReadsMiB, SizeType DEF Parses

\* The plan says "exists" of volumes that are there at the size as Go reads it.
LEMMA PlanFinds ==
  ASSUME NEW it, Planned(it, quota) = "exists"
  PROVE  Agrees(it)
BY DEF Planned, Agrees

\* When the size fits an int, that is the size asked for.
LEMMA AgreesThere ==
  ASSUME SizesFit, NEW m \in Manifest, NEW i \in DOMAIN m, Agrees(m[i])
  PROVE  There(m[i])
<1>1. m \in Seq(Item) /\ m[i] \in Item
  BY VolumeBatchAssumption
<1>2. m[i].size \in Size /\ Parses(m[i].size)
  BY <1>1 DEF Item, Agrees
<1>3. MiB(m[i].size) \in 0 .. MaxInt
  BY <1>2, SizeType, VolumeBatchAssumption DEF SizesFit
<1>4. ParseSizeMiB(m[i].size) = MiB(m[i].size)
  BY <1>2, <1>3, ReadsMiB, WrapFits DEF Parses
<1> QED BY <1>4 DEF There, Agrees

\* A command that adds a volume makes it, and changes no other.
LEMMA AddsOne ==
  ASSUME TypeOK, NEW it \in Item, CanAdd(it.name, it.size), Adds(it.name, MiB(it.size))
  PROVE  /\ Agrees(it)'
         /\ \A other \in Item : Agrees(other) => Agrees(other)'
         /\ DOMAIN quota' \subseteq Volume
         /\ \A v \in DOMAIN quota' : quota'[v] \in Nat
<1>1. it.name \in Volume /\ it.size \in Size /\ MiB(it.size) \in Nat
  BY SizeType DEF Item
<1>2. Parses(it.size) /\ ParseSizeMiB(it.size) = MiB(it.size)
  BY <1>1, NumberFits DEF CanAdd
<1> QED BY <1>1, <1>2 DEF TypeOK, CanAdd, Adds, Agrees

LEMMA BatchInit == Init => BatchInv
BY DEF Init, BatchInv, SlotInv, Reported, TypeOK, Nothing, Decided

\* What a request asks for is a sequence of items.
LEMMA ManifestItems ==
  ASSUME TypeOK, NEW b \in Batch, NEW i \in DOMAIN manifest[b]
  PROVE  manifest[b][i] \in Item
BY DEF TypeOK

\* A step of one batch that leaves msb as it is.
QuietStep(b) ==
  Submit(b) \/ Plan(b) \/ SkipItem(b) \/ Respond(b) \/ Forget(b)

LEMMA TypeQuiet == ASSUME TypeOK, NEW b \in Batch, QuietStep(b) PROVE TypeOK'
<1> USE DEF TypeOK
<1>1. CASE Submit(b)
  <2>1. PICK m \in Manifest :
          /\ manifest' = [manifest EXCEPT ![b] = m]
          /\ \/ pc' = [pc EXCEPT ![b] = "list"] /\ UNCHANGED code
             \/ Answer(b, 400)
    BY <1>1 DEF Submit
  <2>2. m \in Seq(Item)
    BY VolumeBatchAssumption
  <2>3. results[b] = <<>> /\ UNCHANGED <<quota, results, next, lost>>
    BY <1>1 DEF Submit
  <2>4. manifest' \in [Batch -> Seq(Item)]
        /\ \A c \in Batch \ {b} : manifest'[c] = manifest[c]
    BY <2>1, <2>2
  <2>5. /\ pc' \in [Batch -> {"idle", "list", "items", "done"}] /\ pc'[b] # "items"
        /\ \A c \in Batch \ {b} : pc'[c] = pc[c]
        /\ code' \in [Batch -> {0, 201, 207, 400, 500}]
    <3>1. CASE pc' = [pc EXCEPT ![b] = "list"] /\ UNCHANGED code
      BY <3>1
    <3>2. CASE Answer(b, 400)
      <4>1. pc' = [pc EXCEPT ![b] = "done"] /\ code' = [code EXCEPT ![b] = 400]
        BY <3>2 DEF Answer
      <4> QED BY <4>1
    <3> QED BY <2>1, <3>1, <3>2
  <2>6. ASSUME NEW c \in Batch
        PROVE  \/ pc'[c] \in {"items", "done"} /\ Len(results'[c]) = Len(manifest'[c])
               \/ pc'[c] # "items" /\ results'[c] = <<>>
    <3>1. CASE c = b
      BY <2>3, <2>5, <3>1
    <3>2. CASE c # b
      <4>1. pc'[c] = pc[c] /\ manifest'[c] = manifest[c] /\ results'[c] = results[c]
        BY <2>3, <2>4, <2>5, <3>2
      <4> QED BY <4>1
    <3> QED BY <3>1, <3>2
  <2>7. /\ DOMAIN quota' \subseteq Volume
        /\ \A v \in DOMAIN quota' : quota'[v] \in Nat
        /\ results' \in [Batch -> Seq(Status)]
        /\ next' \in [Batch -> Nat \ {0}]
        /\ lost' \in [Batch -> SUBSET Volume]
    BY <2>3
  <2> QED BY <2>4, <2>5, <2>6, <2>7, Zenon
<1>2. CASE Plan(b)
  <2> DEFINE plan == [i \in 1 .. Len(manifest[b]) |-> Planned(manifest[b][i], quota)]
  <2>1. plan \in Seq(Status) /\ Len(plan) = Len(manifest[b])
    BY DEF Planned, Status
  <2> HIDE DEF plan
  <2>2. CASE results' = [results EXCEPT ![b] = plan] /\ pc' = [pc EXCEPT ![b] = "items"]
             /\ UNCHANGED code
    BY <1>2, <2>1, <2>2 DEF Plan
  <2>3. CASE Answer(b, 500) /\ UNCHANGED results
    BY <1>2, <2>3 DEF Plan, Answer
  <2> QED BY <1>2, <2>2, <2>3 DEF Plan, plan
<1>3. CASE SkipItem(b)
  BY <1>3 DEF SkipItem, AtItem, Advance
<1>4. CASE Respond(b)
  BY <1>4 DEF Respond, Answer
<1>5. CASE Forget(b)
  BY <1>5 DEF Forget, Status
<1> QED BY <1>1, <1>2, <1>3, <1>4, <1>5 DEF QuietStep

\* A step that runs the command of one item.
LEMMA TypeCreate ==
  ASSUME TypeOK, NEW b \in Batch, CreateItem(b),
         NEW it, it = manifest[b][next[b]]
  PROVE  /\ TypeOK'
         /\ \A other \in Item : Agrees(other) => Agrees(other)'
         /\ UNCHANGED lost
         /\ results'[b][next[b]] # "error" => Agrees(it)'
         /\ \A c \in Batch : \A i \in DOMAIN results[c] :
              /\ i \in DOMAIN results'[c]
              /\ c # b \/ i # next[b] => results'[c][i] = results[c][i]
<1> USE DEF TypeOK
<1>0. next' \in [Batch -> Nat \ {0}] /\ UNCHANGED <<pc, manifest, code, lost>>
  BY DEF CreateItem, Advance
<1>1. next[b] \in DOMAIN manifest[b] /\ next[b] \in DOMAIN results[b]
  BY DEF CreateItem, AtItem
<1>2. it \in Item
  BY <1>1, ManifestItems
<1>3. ItemFails(b) => /\ results' \in [Batch -> Seq(Status)]
                      /\ Len(results'[b]) = Len(results[b])
                      /\ results'[b][next[b]] = "error"
                      /\ \A i \in DOMAIN results[b] :
                           /\ i \in DOMAIN results'[b]
                           /\ i # next[b] => results'[b][i] = results[b][i]
                      /\ \A c \in Batch \ {b} : results'[c] = results[c]
  <2>1. [results[b] EXCEPT ![next[b]] = "error"] \in Seq(Status)
        /\ Len([results[b] EXCEPT ![next[b]] = "error"]) = Len(results[b])
    BY <1>1 DEF Status
  <2> QED BY <1>1, <2>1 DEF ItemFails
<1>4. CASE CanAdd(it.name, it.size) /\ Adds(it.name, MiB(it.size))
           /\ (UNCHANGED results \/ ItemFails(b))
  <2>1. /\ Agrees(it)'
        /\ \A other \in Item : Agrees(other) => Agrees(other)'
        /\ DOMAIN quota' \subseteq Volume
        /\ \A v \in DOMAIN quota' : quota'[v] \in Nat
    <3> HIDE DEF TypeOK
    <3> QED BY <1>2, <1>4, AddsOne
  <2>2. TypeOK'
    BY <1>0, <1>3, <1>4, <2>1
  <2> QED BY <1>0, <1>3, <1>4, <2>1, <2>2
<1>5. CASE UNCHANGED quota /\ ItemFails(b)
  <2>1. TypeOK'
    BY <1>0, <1>3, <1>5
  <2> QED BY <1>0, <1>3, <1>5, <2>1 DEF Agrees
<1> QED BY <1>4, <1>5 DEF CreateItem

LEMMA SingleCreateStep ==
  ASSUME TypeOK, NEW v \in Volume, SingleCreate(v)
  PROVE  /\ TypeOK'
         /\ \A other \in Item : Agrees(other) => Agrees(other)'
         /\ UNCHANGED <<pc, manifest, results, next, code, lost>>
<1>1. PICK m \in Manifest : \E i \in DOMAIN m :
        CanAdd(v, m[i].size) /\ Adds(v, MiB(m[i].size))
  BY DEF SingleCreate
<1>2. PICK i \in DOMAIN m : CanAdd(v, m[i].size) /\ Adds(v, MiB(m[i].size))
  BY <1>1
<1>3. m[i].size \in Size
  <2>1. m \in Seq(Item)
    BY VolumeBatchAssumption
  <2>2. m[i] \in Item
    BY <2>1
  <2> QED BY <2>2 DEF Item
<1> DEFINE it == [name |-> v, size |-> m[i].size]
<1>4. it \in Item /\ it.name = v /\ it.size = m[i].size
  BY <1>3 DEF Item
<1>5. /\ \A other \in Item : Agrees(other) => Agrees(other)'
      /\ DOMAIN quota' \subseteq Volume
      /\ \A u \in DOMAIN quota' : quota'[u] \in Nat
  <2> HIDE DEF it
  <2> QED BY <1>2, <1>4, AddsOne
<1>6. UNCHANGED <<pc, manifest, results, next, code, lost>>
  BY DEF SingleCreate
<1> QED BY <1>5, <1>6 DEF TypeOK

\* A deletion takes nothing from what a batch has reported.
LEMMA DeleteStep ==
  ASSUME TypeOK, NEW v \in Volume, Delete(v)
  PROVE  /\ TypeOK'
         /\ UNCHANGED <<pc, manifest, results, next, code>>
         /\ \A c \in Batch : results[c] # <<>> => StaysExcused(c)
<1>1. /\ UNCHANGED <<pc, manifest, results, next, code>>
      /\ DOMAIN quota' = DOMAIN quota \ {v}
      /\ \A u \in DOMAIN quota' : quota'[u] = quota[u]
      /\ lost' = [c \in Batch |-> IF results[c] = <<>> THEN {} ELSE lost[c] \cup {v}]
  BY DEF Delete
<1>2. TypeOK'
  BY <1>1 DEF TypeOK
<1>3. ASSUME NEW c \in Batch, results[c] # <<>>, NEW it \in Item, Excused(c, it)
      PROVE  Excused(c, it)'
  <2>1. lost'[c] = lost[c] \cup {v}
    BY <1>1, <1>3
  <2> QED BY <1>1, <1>3, <2>1 DEF Excused, Agrees, TypeOK
<1> QED BY <1>1, <1>2, <1>3 DEF StaysExcused

\* A batch with results has one for each of its items.
LEMMA ResultItems ==
  ASSUME TypeOK, NEW b \in Batch, NEW i \in DOMAIN results[b]
  PROVE  i \in DOMAIN manifest[b] /\ manifest[b][i] \in Item
BY ManifestItems DEF TypeOK

\* A batch that decides nothing new goes on reporting the truth.
LEMMA StillReported ==
  ASSUME TypeOK, NEW c \in Batch, Reported(c), results[c] # <<>> => StaysExcused(c),
         results'[c] = results[c], manifest'[c] = manifest[c],
         \A i \in DOMAIN results[c] :
           Decided(c, i)' => Decided(c, i) \/ results[c][i] # "created"
  PROVE  Reported(c)'
<1> SUFFICES ASSUME NEW i \in DOMAIN results'[c],
                    \/ results'[c][i] = "exists"
                    \/ Decided(c, i)' /\ results'[c][i] = "created"
             PROVE  Excused(c, manifest[c][i])'
  BY DEF Reported
<1>1. Excused(c, manifest[c][i]) /\ manifest[c][i] \in Item /\ results[c] # <<>>
  BY ResultItems DEF Reported
<1>2. PICK it : it = manifest[c][i]
  OBVIOUS
<1>3. Excused(c, it)'
  BY <1>1, <1>2 DEF StaysExcused
<1> QED BY <1>2, <1>3 DEF Excused, Agrees

\* The steps of one batch, seen from that batch.
LEMMA QuietReported ==
  ASSUME BatchInv, NEW b \in Batch, QuietStep(b)
  PROVE  Reported(b)'
<1> USE DEF BatchInv, SlotInv, TypeOK
<1>1. CASE Submit(b) \/ Forget(b)
  <2>1. results'[b] = <<>>
    BY <1>1 DEF Submit, Forget
  <2> QED BY <2>1 DEF Reported
<1>2. CASE Plan(b) /\ ~UNCHANGED results
  <2>1. /\ results'[b] = [i \in 1 .. Len(manifest[b]) |-> Planned(manifest[b][i], quota)]
        /\ UNCHANGED <<quota, manifest, next>>
        /\ pc'[b] = "items" /\ next[b] = 1
    BY <1>2 DEF Plan
  <2>2. ASSUME NEW i \in DOMAIN results'[b],
               \/ results'[b][i] = "exists"
               \/ Decided(b, i)' /\ results'[b][i] = "created"
        PROVE  Excused(b, manifest[b][i])'
    <3>1. i \in 1 .. Len(manifest[b])
      BY <2>1
    <3>2. ~Decided(b, i)'
      BY <2>1, <3>1 DEF Decided
    <3>3. Planned(manifest[b][i], quota) = "exists"
      BY <2>1, <2>2, <3>1, <3>2
    <3>4. Agrees(manifest[b][i])
      BY <3>3, PlanFinds
    <3> QED BY <2>1, <3>4 DEF Excused, Agrees
  <2> QED BY <2>2 DEF Reported
<1>3. CASE (Plan(b) /\ UNCHANGED results) \/ SkipItem(b) \/ Respond(b)
  <2>1. UNCHANGED <<quota, manifest, results, lost>>
    BY <1>3 DEF Plan, SkipItem, Respond
  <2>2. \A i \in DOMAIN results[b] :
          Decided(b, i)' => Decided(b, i) \/ results[b][i] # "created"
    <3>1. CASE Plan(b) /\ UNCHANGED results
      BY <3>1 DEF Plan, Decided
    <3>2. CASE SkipItem(b)
      BY <3>2 DEF SkipItem, AtItem, Advance, Decided
    <3>3. CASE Respond(b)
      BY <3>3 DEF Respond, Decided
    <3> QED BY <1>3, <3>1, <3>2, <3>3
  <2>3. StaysExcused(b)
    BY <2>1 DEF StaysExcused, Excused, Agrees
  <2> HIDE DEF BatchInv, SlotInv, TypeOK
  <2> QED BY <2>1, <2>2, <2>3, StillReported DEF BatchInv
<1> QED BY <1>1, <1>2, <1>3 DEF QuietStep

LEMMA CreateReported ==
  ASSUME BatchInv, NEW b \in Batch, CreateItem(b)
  PROVE  Reported(b)' /\ \A other \in Item : Agrees(other) => Agrees(other)'
<1>0. TypeOK /\ Reported(b)
  BY DEF BatchInv
<1>1. PICK it : it = manifest[b][next[b]]
  OBVIOUS
<1>2. /\ TypeOK'
      /\ \A other \in Item : Agrees(other) => Agrees(other)'
      /\ UNCHANGED lost
      /\ results'[b][next[b]] # "error" => Agrees(it)'
      /\ \A i \in DOMAIN results[b] :
           /\ i \in DOMAIN results'[b]
           /\ i # next[b] => results'[b][i] = results[b][i]
  BY <1>0, <1>1, TypeCreate
<1>3. /\ UNCHANGED <<pc, manifest>> /\ next'[b] = next[b] + 1
      /\ pc[b] = "items" /\ next[b] \in Nat
      /\ Len(results[b]) = Len(manifest[b]) /\ Len(results'[b]) = Len(manifest[b])
  BY <1>0, <1>2 DEF CreateItem, AtItem, Advance, TypeOK
<1>4. ASSUME NEW i \in DOMAIN results'[b],
             \/ results'[b][i] = "exists"
             \/ Decided(b, i)' /\ results'[b][i] = "created"
      PROVE  Excused(b, manifest[b][i])'
  <2>1. CASE i = next[b]
    BY <1>1, <1>2, <1>3, <1>4, <2>1 DEF Excused, Agrees
  <2>2. CASE i # next[b]
    <3>1. i \in DOMAIN results[b]
      BY <1>0, <1>2, <1>3 DEF TypeOK
    <3>2. results'[b][i] = results[b][i] /\ (Decided(b, i)' => Decided(b, i))
      BY <1>2, <1>3, <2>2, <3>1 DEF Decided
    <3>3. Excused(b, manifest[b][i]) /\ manifest[b][i] \in Item
      BY <1>0, <1>4, <3>1, <3>2, ResultItems DEF Reported
    <3>4. PICK other : other = manifest[b][i]
      OBVIOUS
    <3>5. Excused(b, other)'
      BY <1>2, <3>3, <3>4 DEF Excused
    <3> QED BY <1>3, <3>4, <3>5 DEF Excused, Agrees
  <2> QED BY <2>1, <2>2
<1> QED BY <1>2, <1>4 DEF Reported

\* The types are kept, whatever the sizes are.
LEMMA TypeStep == TypeOK /\ [Next]_vars => TypeOK'
<1> SUFFICES ASSUME TypeOK, [Next]_vars PROVE TypeOK'
  OBVIOUS
<1>1. ASSUME NEW b \in Batch, Step(b) PROVE TypeOK'
  <2>1. CASE QuietStep(b) BY <2>1, TypeQuiet
  <2>2. CASE CreateItem(b) BY <2>2, TypeCreate
  <2> QED BY <1>1, <2>1, <2>2 DEF Step, QuietStep
<1>2. ASSUME NEW v \in Volume, SingleCreate(v) \/ Delete(v) PROVE TypeOK'
  BY <1>2, SingleCreateStep, DeleteStep
<1>3. CASE UNCHANGED vars
  BY <1>3 DEF vars, TypeOK
<1> QED BY <1>1, <1>2, <1>3 DEF Next

\* A step of one batch is none of another.
LEMMA OthersStay ==
  ASSUME TypeOK, NEW b \in Batch, Step(b), NEW c \in Batch \ {b}
  PROVE  /\ pc'[c] = pc[c] /\ manifest'[c] = manifest[c] /\ results'[c] = results[c]
         /\ next'[c] = next[c] /\ lost'[c] = lost[c]
BY DEF Step, Submit, Plan, SkipItem, CreateItem, Respond, Forget, Answer, Advance, ItemFails,
   TypeOK

LEMMA SlotStep == TypeOK /\ SlotInv /\ [Next]_vars => SlotInv'
<1> SUFFICES ASSUME TypeOK, SlotInv, [Next]_vars PROVE SlotInv'
  OBVIOUS
<1>1. ASSUME NEW b \in Batch, Step(b) PROVE SlotInv'
  <2>1. /\ manifest'[b] \in Manifest \cup {<<>>}
        /\ pc'[b] \in {"idle", "list"} => next'[b] = 1
    <3> USE DEF SlotInv, TypeOK
    <3>1. CASE Submit(b)
      BY <3>1 DEF Submit, Answer
    <3>2. CASE Plan(b) \/ SkipItem(b) \/ CreateItem(b) \/ Respond(b)
      BY <3>2 DEF Plan, SkipItem, CreateItem, AtItem, Respond, Answer
    <3>3. CASE Forget(b)
      BY <3>3 DEF Forget
    <3> QED BY <1>1, <3>1, <3>2, <3>3 DEF Step
  <2> QED BY <1>1, <2>1, OthersStay DEF SlotInv
<1>2. ASSUME NEW v \in Volume, SingleCreate(v) \/ Delete(v) PROVE SlotInv'
  BY <1>2 DEF SingleCreate, Delete, SlotInv
<1>3. CASE UNCHANGED vars
  BY <1>3 DEF vars, SlotInv
<1> QED BY <1>1, <1>2, <1>3 DEF Next

LEMMA BatchStep == BatchInv /\ [Next]_vars => BatchInv'
<1> SUFFICES ASSUME BatchInv, [Next]_vars PROVE BatchInv'
  OBVIOUS
<1>0. TypeOK
  BY DEF BatchInv
<1>1. ASSUME NEW b \in Batch, Step(b) PROVE BatchInv'
  <2>1. QuietStep(b) \/ CreateItem(b)
    BY <1>1 DEF Step, QuietStep
  <2>2. /\ TypeOK' /\ Reported(b)'
        /\ \A other \in Item : Agrees(other) => Agrees(other)'
        /\ \A c \in Batch \ {b} : lost'[c] = lost[c]
    <3>1. CASE QuietStep(b)
      <4>1. UNCHANGED quota /\ \A c \in Batch \ {b} : lost'[c] = lost[c]
        BY <1>0, <3>1 DEF QuietStep, Submit, Plan, SkipItem, Respond, Forget, TypeOK
      <4> QED BY <1>0, <3>1, <4>1, TypeQuiet, QuietReported DEF Agrees
    <3>2. CASE CreateItem(b)
      <4>1. PICK it : it = manifest[b][next[b]]
        OBVIOUS
      <4> QED BY <1>0, <3>2, <4>1, TypeCreate, CreateReported
    <3> QED BY <2>1, <3>1, <3>2
  <2>3. \A c \in Batch \ {b} :
          /\ pc'[c] = pc[c] /\ manifest'[c] = manifest[c]
          /\ results'[c] = results[c] /\ next'[c] = next[c]
    BY <1>0, <1>1, OthersStay
  <2>4. ASSUME NEW c \in Batch \ {b} PROVE Reported(c)'
    <3>1. \A i \in DOMAIN results[c] : Decided(c, i)' => Decided(c, i)
      BY <2>3 DEF Decided
    <3>2. StaysExcused(c)
      BY <2>2 DEF StaysExcused, Excused
    <3> QED BY <1>0, <2>3, <3>1, <3>2, StillReported DEF BatchInv
  <2>5. SlotInv'
    BY <1>0, <1>1, SlotStep DEF BatchInv, Next
  <2> QED BY <2>2, <2>3, <2>4, <2>5 DEF BatchInv
<1>2. ASSUME NEW v \in Volume, SingleCreate(v) \/ Delete(v) PROVE BatchInv'
  <2>1. /\ TypeOK' /\ UNCHANGED <<pc, manifest, results, next, code>>
        /\ \A c \in Batch : results[c] # <<>> => StaysExcused(c)
    <3>1. CASE SingleCreate(v)
      BY <1>0, <3>1, SingleCreateStep DEF StaysExcused, Excused
    <3>2. CASE Delete(v)
      BY <1>0, <3>2, DeleteStep
    <3> QED BY <1>2, <3>1, <3>2
  <2>2. ASSUME NEW c \in Batch PROVE Reported(c)'
    <3>1. \A i \in DOMAIN results[c] : Decided(c, i)' => Decided(c, i)
      BY <2>1 DEF Decided
    <3> QED BY <1>0, <2>1, <3>1, StillReported DEF BatchInv
  <2> QED BY <2>1, <2>2 DEF BatchInv, SlotInv
<1>3. CASE UNCHANGED vars
  BY <1>3 DEF vars, BatchInv, SlotInv, TypeOK, Reported, Decided, Excused, Agrees
<1> QED BY <1>1, <1>2, <1>3 DEF Next

\* When every size fits an int in MiB, a volume that a batch reports created or
\* exists is there at the size asked for, unless it was deleted since, however
\* the commands of other requests fall between its look at msb and its own, and
\* whichever of its commands fail or are killed.
THEOREM ReportsAreTrue == ASSUME SizesFit PROVE Spec => []ResultsTrue
<1>1. BatchInv => ResultsTrue
  <2> SUFFICES ASSUME BatchInv, NEW b \in Batch, NEW i \in DOMAIN results[b],
                      Decided(b, i), results[b][i] # "error"
               PROVE  There(manifest[b][i]) \/ manifest[b][i].name \in lost[b]
    BY DEF ResultsTrue
  <2>1. results[b][i] \in Status
    BY DEF BatchInv, TypeOK
  <2>2. Excused(b, manifest[b][i])
    BY <2>1 DEF BatchInv, Reported, Status
  <2>3. i \in DOMAIN manifest[b] /\ manifest[b] \in Manifest
    BY ResultItems DEF BatchInv, SlotInv
  <2> QED BY <2>2, <2>3, AgreesThere DEF Excused
<1>2. BatchInv /\ [Next]_vars => BatchInv'
  BY BatchStep
<1> QED BY <1>1, <1>2, BatchInit, PTL DEF Spec

\* The state of the batches is what TypeOK says it is, whatever the sizes are.
THEOREM TypeCorrect == Spec => []TypeOK
<1>1. Init => TypeOK
  BY BatchInit DEF BatchInv
<1> QED BY <1>1, TypeStep, PTL DEF Spec

-----------------------------------------------------------------------------
(* A volume is created once.                                                 *)

CreatedAt(b, i) == i \in DOMAIN results[b] /\ Decided(b, i) /\ results[b][i] = "created"

\* What a batch has created is there, at whatever size, or was deleted since.
CreatedStands ==
  \A b \in Batch : \A i \in DOMAIN results[b] :
    CreatedAt(b, i) => manifest[b][i].name \in DOMAIN quota \cup lost[b]

OnceInv == TypeOK /\ SlotInv /\ CreatedStands /\ CreatedOnce

\* The item was created before the step, or this step creates it.
StaysCreated(b, i) ==
  /\ CreatedAt(b, i)
  /\ manifest'[b] = manifest[b]
  /\ lost[b] \subseteq lost'[b]
  /\ DOMAIN quota \subseteq DOMAIN quota' \cup lost'[b]

GetsCreated(b, i) ==
  /\ CreateItem(b)
  /\ i = next[b]
  /\ UNCHANGED <<manifest, lost>>
  /\ DOMAIN quota \subseteq DOMAIN quota'
  /\ manifest[b][i].name \in DOMAIN quota' \ DOMAIN quota

\* The command of an item is the only step that makes it one that is created,
\* and it does not succeed for a name that exists.
LEMMA CreatedBefore ==
  ASSUME TypeOK, SlotInv, [Next]_vars,
         NEW c \in Batch, NEW i, CreatedAt(c, i)'
  PROVE  StaysCreated(c, i) \/ GetsCreated(c, i)
<1>0. i \in DOMAIN results'[c] /\ Decided(c, i)' /\ results'[c][i] = "created"
  BY DEF CreatedAt
<1>1. ASSUME NEW b \in Batch, Step(b), b # c PROVE StaysCreated(c, i)
  <2>1. /\ pc'[c] = pc[c] /\ manifest'[c] = manifest[c] /\ results'[c] = results[c]
        /\ next'[c] = next[c] /\ lost'[c] = lost[c]
    BY <1>1, OthersStay
  <2>2. DOMAIN quota \subseteq DOMAIN quota'
    BY <1>1 DEF Step, Submit, Plan, SkipItem, CreateItem, Respond, Forget, Adds
  <2> QED BY <1>0, <2>1, <2>2 DEF StaysCreated, CreatedAt, Decided
<1>2. CASE Submit(c) \/ Forget(c)
  <2>1. results'[c] = <<>>
    BY <1>2 DEF Submit, Forget, TypeOK
  <2> QED BY <1>0, <2>1
<1>3. CASE Plan(c)
  <2>1. CASE UNCHANGED results
    <3>1. results[c] = <<>>
      BY <1>3 DEF Plan, TypeOK
    <3> QED BY <1>0, <2>1, <3>1
  <2>2. CASE ~UNCHANGED results
    BY <1>0, <1>3, <2>2 DEF Plan, SlotInv, Decided, TypeOK
  <2> QED BY <2>1, <2>2
<1>4. CASE SkipItem(c) \/ Respond(c)
  <2>1. UNCHANGED <<quota, manifest, results, lost>>
    BY <1>4 DEF SkipItem, Respond
  <2>2. Decided(c, i)
    <3>1. CASE SkipItem(c)
      BY <1>0, <2>1, <3>1 DEF SkipItem, AtItem, Advance, Decided, TypeOK
    <3>2. CASE Respond(c)
      BY <1>0, <2>1, <3>2 DEF Respond, Decided, TypeOK
    <3> QED BY <1>4, <3>1, <3>2
  <2> QED BY <1>0, <2>1, <2>2 DEF StaysCreated, CreatedAt
<1>5. CASE CreateItem(c)
  <2>1. PICK it : it = manifest[c][next[c]]
    OBVIOUS
  <2>2. UNCHANGED <<pc, manifest, lost>> /\ next'[c] = next[c] + 1 /\ next[c] \in Nat
    BY <1>5 DEF CreateItem, Advance, TypeOK
  <2>3. DOMAIN quota \subseteq DOMAIN quota'
    BY <1>5 DEF CreateItem, Adds
  <2>4. CASE i = next[c]
    <3>1. ~ItemFails(c)
      <4>1. next[c] \in DOMAIN results[c]
        BY <1>5 DEF CreateItem, AtItem, TypeOK
      <4> QED BY <1>0, <2>4, <4>1 DEF ItemFails, TypeOK
    <3>2. CanAdd(it.name, it.size) /\ Adds(it.name, MiB(it.size))
      BY <1>5, <2>1, <3>1 DEF CreateItem
    <3>3. it.name \in DOMAIN quota' \ DOMAIN quota
      BY <3>2 DEF CanAdd, Adds
    <3> QED BY <1>5, <2>1, <2>2, <2>3, <2>4, <3>3 DEF GetsCreated
  <2>5. CASE i # next[c]
    <3>1. /\ TypeOK'
          /\ \A j \in DOMAIN results[c] :
               j # next[c] => results'[c][j] = results[c][j]
      BY <1>5, <2>1, TypeCreate
    <3>2. i \in DOMAIN results[c]
      BY <1>0, <1>5, <2>2, <3>1 DEF CreateItem, AtItem, TypeOK
    <3>3. i \in Nat
      BY <3>2 DEF TypeOK
    <3>4. Decided(c, i) /\ results[c][i] = "created"
      BY <1>0, <2>2, <2>5, <3>1, <3>2, <3>3 DEF Decided
    <3> QED BY <2>2, <2>3, <3>2, <3>4 DEF StaysCreated, CreatedAt
  <2> QED BY <2>4, <2>5
<1>6. ASSUME NEW v \in Volume, SingleCreate(v) \/ Delete(v) PROVE StaysCreated(c, i)
  <2>1. UNCHANGED <<pc, manifest, results, next>>
    BY <1>6 DEF SingleCreate, Delete
  <2>2. CASE SingleCreate(v)
    <3>1. UNCHANGED lost /\ DOMAIN quota \subseteq DOMAIN quota'
      BY <2>2 DEF SingleCreate, Adds
    <3> QED BY <1>0, <2>1, <3>1 DEF StaysCreated, CreatedAt, Decided
  <2>3. CASE Delete(v)
    <3>1. results[c] # <<>>
      BY <1>0, <2>1
    <3>2. lost'[c] = lost[c] \cup {v} /\ DOMAIN quota' = DOMAIN quota \ {v}
      BY <2>3, <3>1 DEF Delete
    <3> QED BY <1>0, <2>1, <3>2 DEF StaysCreated, CreatedAt, Decided
  <2> QED BY <1>6, <2>2, <2>3
<1>7. CASE UNCHANGED vars
  BY <1>0, <1>7 DEF vars, StaysCreated, CreatedAt, Decided
<1> QED BY <1>1, <1>2, <1>3, <1>4, <1>5, <1>6, <1>7 DEF Next, Step

LEMMA OnceStep == OnceInv /\ [Next]_vars => OnceInv'
<1> SUFFICES ASSUME OnceInv, [Next]_vars PROVE OnceInv'
  OBVIOUS
<1>1. TypeOK /\ SlotInv /\ CreatedStands /\ CreatedOnce
  BY DEF OnceInv
<1>2. TypeOK' /\ SlotInv'
  BY <1>1, TypeStep, SlotStep
<1>3. CreatedStands'
  <2>1. SUFFICES ASSUME NEW b \in Batch, NEW i, CreatedAt(b, i)'
                 PROVE  manifest'[b][i].name \in DOMAIN quota' \cup lost'[b]
    BY DEF CreatedStands
  <2>2. CASE StaysCreated(b, i)
    <3>1. manifest[b][i].name \in DOMAIN quota \cup lost[b]
      BY <1>1, <2>2 DEF CreatedStands, StaysCreated, CreatedAt
    <3> QED BY <2>2, <3>1 DEF StaysCreated
  <2>3. CASE GetsCreated(b, i)
    BY <2>3 DEF GetsCreated
  <2> QED BY <1>1, <2>1, <2>2, <2>3, CreatedBefore
<1>4. CreatedOnce'
  <2>1. SUFFICES ASSUME NEW b \in Batch, NEW c \in Batch, NEW i, NEW j,
                        CreatedAt(b, i)', CreatedAt(c, j)',
                        manifest'[b][i].name = manifest'[c][j].name,
                        manifest'[b][i].name \notin lost'[b] \cup lost'[c]
                 PROVE  b = c /\ i = j
    BY DEF CreatedOnce, CreatedAt
  <2>2. CASE StaysCreated(b, i) /\ StaysCreated(c, j)
    BY <1>1, <2>1, <2>2 DEF CreatedOnce, StaysCreated, CreatedAt
  <2>3. ASSUME NEW d \in Batch, NEW e \in Batch, NEW k, NEW l,
               GetsCreated(d, k), StaysCreated(e, l),
               manifest'[d][k].name = manifest'[e][l].name
        PROVE  manifest'[e][l].name \in lost'[e]
    <3>1. manifest[e][l].name \in DOMAIN quota \cup lost[e]
      BY <1>1, <2>3 DEF CreatedStands, StaysCreated, CreatedAt
    <3> QED BY <2>3, <3>1 DEF GetsCreated, StaysCreated
  <2>4. CASE GetsCreated(b, i) /\ GetsCreated(c, j)
    <3>1. CreateItem(b) /\ CreateItem(c) /\ i = next[b] /\ j = next[c]
      BY <2>4 DEF GetsCreated
    <3>2. next'[b] = next[b] + 1 /\ (c # b => next'[b] = next[b]) /\ next[b] \in Nat
      BY <1>1, <3>1 DEF CreateItem, Advance, TypeOK
    <3> QED BY <3>1, <3>2
  <2> QED BY <1>1, <2>1, <2>2, <2>3, <2>4, CreatedBefore
<1> QED BY <1>2, <1>3, <1>4 DEF OnceInv

\* Client.VolumeCreate: a name is reported created by one item of one request,
\* with any number of batches at it at once, unless it was deleted in between.
THEOREM NamesCreatedOnce == Spec => []CreatedOnce
<1>1. Init => OnceInv
  BY BatchInit DEF BatchInv, OnceInv, Init, CreatedStands, CreatedAt, CreatedOnce
<1>2. OnceInv => CreatedOnce
  BY DEF OnceInv
<1> QED BY <1>1, <1>2, OnceStep, PTL DEF Spec

-----------------------------------------------------------------------------
(* What was applied once can be applied again.                               *)

\* A batch answered 201 is through with its items, and none has failed.
CodeInv ==
  \A b \in Batch : code[b] = 201 =>
    /\ pc[b] = "done"
    /\ DOMAIN results[b] = DOMAIN manifest[b]
    /\ \A i \in DOMAIN results[b] : results[b][i] # "error"

LEMMA CodeStep == TypeOK /\ CodeInv /\ [Next]_vars => CodeInv'
<1> SUFFICES ASSUME TypeOK, CodeInv, [Next]_vars PROVE CodeInv'
  OBVIOUS
<1> USE DEF CodeInv
<1>1. ASSUME NEW b \in Batch, Step(b) PROVE CodeInv'
  <2>1. \A c \in Batch \ {b} : code'[c] = code[c]
    BY <1>1 DEF Step, Submit, Plan, SkipItem, CreateItem, Respond, Forget, Answer, TypeOK
  <2>2. CASE Respond(b)
    <3>1. /\ UNCHANGED <<manifest, results>>
          /\ pc' = [pc EXCEPT ![b] = "done"]
          /\ code'[b] = 201 => \A i \in DOMAIN results[b] : results[b][i] # "error"
          /\ DOMAIN results[b] = DOMAIN manifest[b]
      BY <2>2 DEF Respond, Answer, TypeOK
    <3> QED BY <2>1, <3>1 DEF TypeOK
  <2>3. CASE ~Respond(b)
    <3>1. code'[b] # 201
      BY <1>1, <2>3 DEF Step, Submit, Plan, SkipItem, CreateItem, AtItem, Forget, Answer, TypeOK
    <3> QED BY <1>1, <2>1, <3>1, OthersStay
  <2> QED BY <2>2, <2>3
<1>2. ASSUME NEW v \in Volume, SingleCreate(v) \/ Delete(v) PROVE CodeInv'
  BY <1>2 DEF SingleCreate, Delete
<1>3. CASE UNCHANGED vars
  BY <1>3 DEF vars
<1> QED BY <1>1, <1>2, <1>3 DEF Next

\* The step in which a batch leaves the list is its plan.
LEMMA IsPlanned ==
  ASSUME TypeOK, [Next]_vars, NEW b \in Batch, pc[b] = "list", pc'[b] = "items",
         NEW i \in DOMAIN manifest[b]
  PROVE  results'[b][i] = Planned(manifest[b][i], quota)
<1>1. ASSUME NEW c \in Batch, Step(c) PROVE c = b
  BY <1>1, OthersStay
<1>2. ASSUME NEW v \in Volume, SingleCreate(v) \/ Delete(v) PROVE FALSE
  BY <1>2 DEF SingleCreate, Delete
<1>3. ~UNCHANGED vars
  BY DEF vars
<1>4. Step(b)
  BY <1>1, <1>2, <1>3 DEF Next
<1>5. Plan(b)
  BY <1>4 DEF Step, Submit, SkipItem, AtItem, CreateItem, Respond, Forget
<1>6. results' = [results EXCEPT ![b] =
        [k \in 1 .. Len(manifest[b]) |-> Planned(manifest[b][k], quota)]]
  BY <1>5 DEF Plan, Answer, TypeOK
<1>7. i \in 1 .. Len(manifest[b])
  BY DEF TypeOK
<1> QED BY <1>6, <1>7 DEF TypeOK

LEMMA RerunStep ==
  ASSUME BatchInv, CodeInv, [Next]_vars,
         NEW b \in Batch, NEW c \in Batch,
         pc[b] = "list", pc'[b] = "items", code[c] = 201,
         NEW i \in DOMAIN manifest[b], NEW j \in DOMAIN manifest[c],
         SameVolume(manifest[b][i], manifest[c][j]), Parses(manifest[b][i].size),
         manifest[c][j].name \notin lost[c]
  PROVE  results'[b][i] = "exists"
<1> DEFINE it == manifest[b][i]
           other == manifest[c][j]
<1>1. TypeOK
  BY DEF BatchInv
<1>2. it \in Item /\ other \in Item
  BY <1>1, ManifestItems
<1>3. results'[b][i] = Planned(it, quota)
  BY <1>1, IsPlanned
<1>4. Agrees(other)
  <2>1. /\ j \in DOMAIN results[c] /\ pc[c] = "done"
        /\ results[c][j] \in Status \ {"error"}
    BY <1>1 DEF CodeInv, TypeOK
  <2>2. Excused(c, other)
    BY <2>1 DEF BatchInv, Reported, Decided, Status
  <2> QED BY <2>2 DEF Excused
<1>5. ParseSizeMiB(it.size) = ParseSizeMiB(other.size)
  <2>1. /\ it.size \in Size /\ it.size.unit \in DOMAIN unitMiB
        /\ other.size \in Size /\ other.size.unit \in DOMAIN unitMiB
    BY <1>2, <1>4 DEF Item, Agrees, Parses
  <2>2. /\ ParseSizeMiB(it.size) = Wrap(MiB(it.size))
        /\ ParseSizeMiB(other.size) = Wrap(MiB(other.size))
    BY <2>1, ReadsMiB
  <2> QED BY <2>2 DEF SameVolume
<1> QED BY <1>3, <1>4, <1>5 DEF Planned, Agrees, SameVolume

\* Applying a manifest again after a 201 is a no-op for every volume nobody has
\* deleted, in whichever units it spells their sizes and whether or not they fit
\* an int, for any number of batches and requests in between (planVolumeBatch).
THEOREM RerunsAreNoOps == Spec => RerunIsNoOp
<1>1. Init => BatchInv /\ CodeInv
  BY BatchInit DEF Init, CodeInv
<1>2. BatchInv /\ CodeInv /\ [Next]_vars => (BatchInv /\ CodeInv)'
  BY BatchStep, CodeStep DEF BatchInv
<1>3. BatchInv /\ CodeInv /\ [Next]_vars =>
        [\A b, c \in Batch : pc[b] = "list" /\ pc'[b] = "items" /\ code[c] = 201 =>
           \A i \in DOMAIN manifest[b], j \in DOMAIN manifest[c] :
             /\ SameVolume(manifest[b][i], manifest[c][j])
             /\ Parses(manifest[b][i].size)
             /\ manifest[c][j].name \notin lost[c]
             => results'[b][i] = "exists"]_vars
  BY RerunStep
<1> QED BY <1>1, <1>2, <1>3, PTL DEF Spec, RerunIsNoOp
=============================================================================
