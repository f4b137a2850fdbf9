# msb-manager in TLA+

msb-manager is an HTTP control plane in front of `msb`, a command-line sandbox
runtime. It adds two things msb does not have: a claim on each named volume, so
that two running sandboxes never mount the same one, and an HTTP contract in
which a failure of msb, a timeout, a disconnecting client and a failing guest
command can be told apart. This directory specifies that behaviour in TLA+,
model-checks it with TLC on small instances, and proves the main results with
TLAPS for instances of any size.

Source paths below are relative to `src/`.

1. [The system](#the-system)
2. [Modules](#modules)
3. [Runs](#runs)
4. [Fairness](#fairness)
5. [Proofs](#proofs)
6. [Divergences](#divergences)
7. [Mutants](#mutants)
8. [What the models assume](#what-the-models-assume)
9. [What is not modelled](#what-is-not-modelled)
10. [Plan](#plan)

## The system

One process, `msb-manager`, serves HTTP requests, each in a goroutine of its
own. Everything it knows about sandboxes it asks `msb` for; what it keeps
itself is the volume lock, one mutex and one cached probe result, and all of it
is lost when the process ends.

| Component | Source | State | Operations |
| --- | --- | --- | --- |
| Volume lock | `internal/lock` | volume → sandbox that claimed it | AcquireMany, Release, ReleaseVolumes, Holder, Reconcile |
| Sandbox handlers | `internal/server/sandboxes.go` | none between requests; the volumes of a request and which it newly claimed within one | create, start, stop, delete |
| Volume handlers | `internal/server/volumes.go` | the plan of a batch, within a request | create one, create a batch, delete |
| Exec and snapshot handlers | `internal/server/exec.go`, `snapshots.go` | none | exec; create, delete |
| Probes | `internal/server/server.go` | cached result, its time, a mutex | `/readyz`, `/healthz` |
| msb adapter | `internal/msb/client.go` | the mutex over mutating commands | one method per msb command; create is up to three commands |
| Runner and classifier | `internal/msb/exec_runner.go`, `errors.go` | captured bytes, per command | run, cap, kill, classify |
| Process | `cmd/msb-manager/main.go`, `internal/config` | deadlines | start-up reconcile, serve, drain, exit |
| Validation and DTOs | `internal/spec`, `internal/msb/validate.go`, `parse.go`, `internal/api` | none | a body or parameter is accepted or refused; inspect's output is cut down to what may be shown |
| msbctl | `cmd/msbctl` | none | one invocation: flags, target, variables of a spec, one request, an exit code |
| msb | not in the repository | sandboxes, their status and volumes; volumes | `create`, `start`, `stop`, `rm`, `volume create`, `volume rm`, `ls`, ... |

**How they interact.** A handler claims volumes in the lock, calls one adapter
method, and gives claims back in the lock; lock and adapter have a mutex each
and no step holds both. The adapter runs msb as a child process under the
request's context and a timeout of its own, so a disconnecting client kills the
child, but not what the child has already done. The batch handler looks at the
volumes once and then calls the adapter for each item. Probes call the adapter's
read-only `List` under a mutex of their own. At start-up the lock is filled from
`msb ls` and `msb inspect` before the listener starts.

**What is hard about it.**

- *Claims and commands are not one step.* The lock is taken before the adapter's
  mutex and given back after it, so other requests run in between.
- *Partial failure.* A child that is killed may have done its work. A create has
  to undo itself when its second command fails, also for a client that has left.
- *Restart.* Claims are rebuilt from an msb whose guests stop on their own while
  they are being listed.
- *Liveness.* One mutex serialises all mutating commands, and msb may hang.
- *Deadlines.* Read, command, kill and write timeouts, and a wait for the mutex
  that has none, have to fit into each other.
- *Stale looks.* A start inspects, a batch lists, a volume delete asks for the
  holder, a probe reads a cache; each acts on the answer later.
- *Texts that cross grammars.* A name, a secret or an ssh key is checked by one
  program, put into an argument by a second, and read by msb or by a shell.
- *One string, many meanings.* What a command printed, how it ended, whether it
  overflowed the capture cap and which context was done decide together what the
  caller is told.

**What makes each part correct.** The lock and the handlers: no two running
sandboxes share a volume, running sandboxes are claimed, nobody takes another
sandbox's claims away, no claims leak. The adapter: commands never overlap, a
create is all or nothing, every request ends. The classifier: the status and
msbctl's exit code say what happened. The deadlines: the answer is ready before
the connection is torn down. The batch: its report is true. The probes: *ready*
is recent, msb is not asked more often than once per TTL, no failure sticks. The
command lines: msb does what was asked and nothing else, the volume claimed is
the one mounted, no secret comes back. msbctl: it sends what was meant to where
it was meant to go, or nothing, and its exit code says what became of it.

## Modules

| Module | Models | How it corresponds to the code |
| --- | --- | --- |
| `Names` | – | The sets of sandboxes and volumes, and `Nobody`. |
| `VolumeLock` | `internal/lock/volume.go` | One operator per method; a method is atomic, since it runs under the lock's own mutex. The Go map is a total function. |
| `Msb` (external) | msb | The effect of a command when it takes effect. |
| `ControlPlane` | `internal/server/sandboxes.go`, `volumes.go`, the adapter's mutex, `main.go` | A request slot is a handler's goroutine. `pc` is where it is; a step is a lock call, taking the mutex, one msb command, or an inspect. Returning from an adapter method, which unlocks, is part of the step of its last command. |
| `ControlPlaneSafety` | – | Properties of `ControlPlane` and its inductive invariant. |
| `ClaimProtocol` | – | The abstract specification: owners, uses, and a gate that opens when owners cover uses. |
| `Readiness` | `internal/server/server.go` | The probe cache. Time is ages that stop at the TTL. |
| `VolumeBatch` | `internal/server/volumes.go`, `internal/msb/size.go` | A batch, item by item, next to other batches and single requests. A size is a number and a unit: `MiB` is what it means to msb, `unitMiB` and `ParseSizeMiB` are the code's table and product, in an int that wraps. |
| `Outcome` | `internal/msb/exec_runner.go`, `errors.go`, `client.go`, `internal/server/sandboxes.go`, `exec.go`, `cmd/msbctl` | One msb invocation from the child process to msbctl's exit code. Streams are sequences of tokens. |
| `Deadlines` | `cmd/msb-manager/main.go`, `internal/config`, `internal/msb/client.go`, `cmd/msbctl/client.go` | The same requests in discrete time: who waits, for how long, what kills what, and what a create leaves behind when it fails. A client may leave at any moment. |
| `CommandLine` | `internal/spec`, `internal/msb/validate.go`, `client.go` (argument lists), `parse.go`, `types.go`, `internal/api`, the checks of the handlers | One request: body, validation, command line, what msb and sh read out of it, what inspect shows. A text is a short sequence of the characters the grammars tell apart. |
| `Msbctl` | `cmd/msbctl` | One invocation: a step is dispatch, configuration, the command up to its request, the exchange, the exit code. A document is the sequence of its scalars; a file of comments is read as `null`. |
| `MC...` | – | Values for TLC. |
| `...Proofs` | – | Theorems. |

`ControlPlane` extends `VolumeLock` and `Msb` and implements `ClaimProtocol`
under `open <- Serving`, `owner <- held`, `inUse <-` the volumes of the running
sandboxes. `Readiness`, `VolumeBatch`, `Outcome` and `Deadlines` each refine one
thing `ControlPlane` abstracts: the read-only probe, what is between two commands
of one request, what a command's success or failure is, and how long things take.
`CommandLine` is what happens before a request reaches `ControlPlane` and inside
its commands: `ControlPlane`'s `vols` are `VolumesFromSpec` of the request, and
what its reconcile and `start` read is `VolumeNames`; that the two agree is
`ClaimsAreTheMounts`. `Msbctl` produces those requests and consumes what
`Outcome` ends with.

### ControlPlane in more detail

- `phase` is the process: `down`, `listing` and `inspecting` (`reconcileVolumes`,
  with retry), `serving`, `draining` (`srv.Shutdown`). `Exit` may happen in every
  phase but `down`, and cuts every handler where it is; the lock, the mutex and
  the requests are gone, msb's state stays.
- `AcquireMany`'s result is kept in `newly`: which volumes the request did not
  already hold. A failed create or start gives back those only.
- A command has an effect or fails. What is in `Cuttable` may also do both. That
  is one nondeterministic choice, since the handler cannot tell.
- `RunStop` and `RunDelete` go on to `Release` on success and when msb says that
  there is no such sandbox; on other failures the claims stay.
- A created sandbox is `booting` until `BootEnds`, or stopped; it mounts its
  volumes, and the reconcile, which looks for `Running`, does not see it.
  `LateBoots` says whether the service may come back before a boot has ended
  (`RestartSec` usually is longer).
- `GuestExit` and `RemovedByHand` happen to a sandbox behind the manager's back.
- `OneRequestPerName` is about clients: whether they wait for the answer about a
  sandbox before they ask for something else on it.

## Runs

A run is a module with a configuration. Those that pass:

| Run | Instance | What it shows |
| --- | --- | --- |
| `Disciplined` | 2 sandboxes, 2 volumes, 2 requests; one request per sandbox at a time; stops and deletes may fail after their effect; guests exit, operators remove | `NoDoubleMount`, `RunningClaimed` and `ReleaseIsSafe` hold across crashes, restarts and mishaps; the invariant of the proofs holds; `ControlPlane` implements `ClaimProtocol`. |
| `AnyClients` | 2 sandboxes, 1 volume, 2 requests; no discipline, all operations, all commands may fail after their effect | `CommandsSerialised`, `ForeignClaimsKept`, `CreateIsAtomic`: what needs nothing of clients or of msb. |
| `Settled` | creates, starts, stops and deletes of 2 sandboxes with 1 volume, 2 requests, one per sandbox at a time; creates, starts, stops and rollbacks may fail after their effect; guests exit; restarts while a sandbox boots; fair | `NoLeakedClaims`: when no request is under way, who holds a volume is configured to mount it. `RequestsAnswered`. |
| `Probes` | 2 probes, a TTL of 2 ticks; fair | `ReadyIsRecent`, `RateBounded`, `ProbesAnswered`, `Recovers`. |
| `Batches` | 2 batches over 2 volumes from 7 manifests; a kilo is 4, an int has 6 bits | `ResultsTrue`, `CreatedOnce`, `RerunIsNoOp`: after a 201 a second batch that asks for the same volumes, in any spelling of their sizes, finds each of them to exist. |
| `Outcomes` | one call at a time of every kind, a cap of 2 tokens; fair | `AnswersAreTrue`, `ExitIsFaithful`, `HungIs504`, `GuestNeverMistaken`, `CallsEnd`. |
| `Timeouts` | 2 requests of every kind, reads included; command timeouts of 1, 2 or 3 ticks of which 3 is refused; 1 tick to read, 1 for a kill, 5 to write; clients leave at any time; fair | `InTime`, `NoOrphan`, `Served`. |
| `CommandLines` | about 8000 requests of all operations; in each, one or two texts range over all sequences of up to 2 or 3 of the characters that matter; bodies one byte around the limit | `MsbReadsTheRequest`, `TerminatorHolds`, `ClaimsAreTheMounts`, `ShownAsAsked`. |
| `Invocations` | 4696 invocations: every command with up to 3 items in every order, flags with one dash or two, joined to their value or not; every combination of flags, environment and configuration file; specs of a key and a value with up to 2 variables, no spec, a garbled or blank one, comments only; every answer | `DoesAsTold`, `RefusedForAReason`, `GoesWhereNamed`, `SpecSubstituted`, `ExitTellsOutcome`. |

Those that TLC refutes, each a disagreement between the code and what a document
or a comment says of it (see [Divergences](#divergences)):

| Run | Property | Instance |
| --- | --- | --- |
| `StopMeetsStart` | `NoDoubleMount` | starts and stops of 2 sandboxes, 2 requests, no failures |
| `VolumeDeletedLate` | `RunningVolumeExists` | one create and one volume delete |
| `BootRace` | `OneRunningPerVolume` | creates of 2 sandboxes with one volume, nothing fails but the process |

**Why the bounds are enough to be interesting.** A double mount needs two
sandboxes and one volume; a claim of several volumes that fails half-way, and a
restart that finds more than one claim, need two volumes (`Disciplined`).
`Settled` has one, since its graph is searched for fair cycles; `NoLeaks`
has `NoLeakedClaims` for any number. Two
request slots give every pair of handlers every interleaving, and a slot is used
again, so histories of any length are covered; a third would only be one more
request in between, which the theorems cover. The initial states of `Msb` are
all that have no double mount, so sandboxes that mount two volumes, which no
request to this API makes, are there for `start`. For the probes, two suffice
for one that runs msb, and one that waits behind it or comes after it. A cap of
two tokens is met exactly, within a chunk and after it. In `Timeouts` the
reading, one command and its kill fit into the write timeout and two commands do
not, as with 15s, 90s, 5s and 120s; `ClientTimeout` is
the largest command timeout, as 60s are both as shipped. A kilo of 4 has different spellings of one
size (`1G`, `4M`) and sizes that agree in their digits only (`1G`, `1T`).
For the command lines, a leading `-`, a separator and a quote each need one
character, and one more on either side shows where a text is cut; `BodyLimit`
and `MaxName` are 2, so that texts of 1, 2 and 3 lie on both sides of them. For
msbctl, two values of one option and a name between them need three items.
Counters are bounded by what the code compares them with: ages stop at the TTL
or at the write timeout, where nothing distinguishes older from oldest.

Symmetry is used only in runs without liveness properties, and no property
names a particular sandbox, volume or request. Only `Invocations` switches
off the deadlock check: an invocation ends. In the others there is always
something that can happen.

## Fairness

Safety is checked without any. For liveness:

- `ControlPlane!Fairness`: a handler that can go on does (weak). An msb command
  ends, since `Client.run` gives each a timeout. `Lock` is strongly fair for each
  request: a `sync.Mutex` hands itself to a goroutine that has waited for 1ms.
  Nothing makes clients ask, guests exit, or the process start or stop.
- `Readiness!Fairness`: time passes; `msb ls` ends; the cache's mutex starves
  nobody.
- `Outcome!Fairness`: the timeout fires and a killed child is gone, with its
  pipes closed, after the grace (`WaitDelay`). Children need not write or end.
- `Deadlines!Fairness`: time passes; the server's own steps happen, the kill at
  the end of timeout and grace among them; the mutex starves nobody. msb commands
  need not end by themselves, and clients need not leave.
  `Tick` is strongly fair, because handlers compute
  in no time and may disable it again and again.

## Proofs

The theorems hold for any sets of sandboxes, volumes, requests, probes, batches
and for any timeouts.

| Theorem | Says | Assumes |
| --- | --- | --- |
| `ControlPlaneProofs!TypeCorrect` | `[]TypeOK` | – |
| `ControlPlaneProofs!ForeignClaims` | `ForeignClaimsKept` | – |
| `ControlPlaneProofs!Serialised` | `[]CommandsSerialised` | – |
| `ControlPlaneProofs!CreateAtomic` | `CreateIsAtomic` | – |
| `ControlPlaneProofs!Invariance` | `[]IInv` | `Disciplined` |
| `ControlPlaneProofs!OneSandboxPerVolume` | `[]NoDoubleMount` | `Disciplined` |
| `ControlPlaneProofs!RunningSandboxesClaimed` | `[]RunningClaimed` | `Disciplined` |
| `ControlPlaneProofs!ReleasesAreSafe` | `[]ReleaseIsSafe` | `Disciplined` |
| `ControlPlaneProofs!Refinement` | `Spec` implements `ClaimProtocol` | `Disciplined` |
| `ControlPlaneProofs!NoLeaks` | `[]NoLeakedClaims` | `Tidy` |
| `ClaimProtocolProofs!ProtocolExcludes` | the protocol excludes double mounts | – |
| `ReadinessProofs!TypeCorrect` | `[]TypeOK` | – |
| `ReadinessProofs!ReadyRecent` | `ReadyIsRecent` | – |
| `ReadinessProofs!RateIsBounded` | `RateBounded` | – |
| `VolumeBatchProofs!TypeCorrect` | `[]TypeOK` | – |
| `VolumeBatchProofs!NamesCreatedOnce` | `[]CreatedOnce` | – |
| `VolumeBatchProofs!ReportsAreTrue` | `[]ResultsTrue` | `SizesFit` |
| `VolumeBatchProofs!RerunsAreNoOps` | `RerunIsNoOp` | – |
| `OutcomeProofs!TypeCorrect` | `[]TypeOK` | – |
| `OutcomeProofs!ExitFaithful` | `[]ExitIsFaithful` | – |
| `OutcomeProofs!HungMeans504` | `[]HungIs504` | – |
| `OutcomeProofs!GuestsNotMistaken` | `[]GuestNeverMistaken` | – |
| `OutcomeProofs!AnswersTrue` | `[]AnswersAreTrue` | `SecretsApart` |
| `DeadlinesProofs!TypeCorrect` | `[]TypeOK` | – |
| `DeadlinesProofs!NoOrphans` | `[]NoOrphan` | – |
| `DeadlinesProofs!AnswersInTime` | `[]InTime` | `RoomForOne` |
| `CommandLineProofs!RequestsAreRead` | `[]MsbReadsTheRequest` | `NumbersPrint` |
| `CommandLineProofs!NamesStayNames` | `[]TerminatorHolds` | – |
| `CommandLineProofs!ClaimedIsMounted` | `[]ClaimsAreTheMounts` | `NumbersPrint` |
| `CommandLineProofs!PublicIsAsAsked` | `[]ShownAsAsked` | `NumbersPrint` |
| `MsbctlProofs!TargetAsNamed` | `[]GoesWhereNamed` | – |
| `MsbctlProofs!ExitCodesTell` | `[]ExitTellsOutcome` | – |
| `MsbctlProofs!ToldIsDone` | `[]DoesAsTold` | – |
| `MsbctlProofs!RefusalsHaveReasons` | `[]RefusedForAReason` | – |
| `MsbctlProofs!SpecsSubstituted` | `[]SpecSubstituted` | – |

`Disciplined` is: clients wait for the answer about a sandbox before they ask
for something else on it, a create, start or rollback that fails has had no
effect, and no restart finds a sandbox booting. Without any of the three,
`NoDoubleMount` is false of the code ([Divergences](#divergences)). `Tidy` is:
clients wait, deletes that fail have had no effect, and nothing is removed by
hand; other commands may fail after their effect. `SizesFit` is: every size in a
manifest fits an int in MiB. Without it `ResultsTrue` is false of the code
([Divergences](#divergences)). `SecretsApart` is: no
secret of a create occurs in the text of one of msb's categories. Without it
`AnswersAreTrue` is false of the code. `RoomForOne` is: the write timeout is longer
than the read timeout, the largest command timeout and the kill grace together.
`NumbersPrint` is: an integer, printed, is not one of msb's flags, `-`, `--` or `:`
(`strconv.Itoa` prints digits, with a sign before them; the TLC module says nothing
of what its `ToString` returns).

**The control plane's invariant.** `NoDoubleMount` is not inductive: nothing in
it says why a start may not create a double mount. `RunningClaimed` does, since
the lock is a function from volumes to sandboxes, but it must survive every path
that changes a claim or a status. So `IInv` adds

- `GateClosed`: nothing is claimed and no request is there unless requests are
  served;
- `ReconcileCovers`: during start-up, every running sandbox is still to be
  inspected or has all its volumes in the seed, and a sandbox still to be
  inspected shares none with another, so that a later inspect overwrites nothing.
  This survives guests that stop, and is what `Serve` turns into `RunningClaimed`;
- `NamesApart`: requests at work are about different sandboxes. This is where the
  discipline of clients enters;
- `WellPlaced`: where a request is fits what it asks for;
- `ClaimsHeld`: from `AcquireMany` to its end, a create or start holds its
  volumes, its sandbox can be started with no others, and what it would give back
  is not mounted. This is where *a failed command has had no effect* enters.

Each action is shown to keep each part; the parts about requests are proved for
the request that moves and for the others separately (`OwnClaims`,
`OwnSandbox`, `HandlerKeepsOthers`). The refinement proof maps every step to a
step of `ClaimProtocol` or to a stutter, from `IInv`.

`NoLeakedClaims` has an invariant of its own, `TidyInv`, since it is about claims
that are too many where `IInv` is about claims that are missing, and it needs no
assumption on creates and starts that fail. `ClaimsJustified` gives every claim a
reason: its sandbox mounts the volume, or a request is at work that has claimed
it or will give it back. `ClaimsTraced` is what makes that reason survive: only a
create or start is between claiming and giving back, a start has claimed what its
sandbox mounts all along, and a create that installs keys or rolls back answers
for every claim of its sandbox. `SeedJustified` is the same during start-up.

What needs no discipline rests on `Basics` (types, `WellPlaced`, `GateClosed`)
and on `MutexOwned`: whoever is at a command holds the mutex.

**The others.** `Readiness`: a cached success is no younger than the `msb ls` it
comes from, and while none runs, the cache is no older than the last that was
started. `VolumeBatch`: *exists* is true from the plan on, *created* from the
command on, and only a delete can make it false. `CreatedOnce` needs
`CreatedStands`, that a volume reported created is there or was lost since: a
create finds no volume of its name, so what it creates was reported by nobody.
`RerunIsNoOp` joins a plan to an answer given long before it. `CodeInv` says that
a 201 stands for results none of which is an error, and `Excused` that each of them
is still what `ParseSizeMiB` computes (`Agrees`) or was lost since; the second plan
then finds the same number, since `ReadsMiB` shows that the code's table agrees with
what units mean, so that two spellings of one size are the same int even when it
wraps. `ReportsAreTrue` needs more, that this int is what msb means (`NumberFits`).
`Deadlines`: a request that did not have to wait is at most as old as the phases it
is through may take. `NoOrphan` follows what a create has made through its three
commands: from `keys` on it is taken back by a rollback or is in `orphaned`, and what
fails before is in `cut`.

**What becomes of a call.** No property of `Outcome` is inductive: an exit code is
about a child that ended many steps before. `OutcomeInv` carries what is known of
the child through them: `CaptureInv` (what the runner holds of a stream is all of
it unless the cap was hit), `EndedAs` (what `cmd.Run` returned says how the child
ended), `ContextInv` (only its client cancels a request), `Judged` (the status is
the verdict on what there still is) and `ExitFollows`. `CategoriesShow` is the
heart of `AnswersTrue`: redaction leaves a category's line readable if no secret
occurs in it, and of an exec's line what is classified is what msb wrote at the
start of its stderr (`CapturedIsPrefix`).

**Where msbctl goes.** While a target is used it is `ResolveTarget` of a profile
that was found (`TargetInv`); `FirstIsFirst` shows that `firstNonEmpty` finds what
`GoesWhereNamed` says without it. `ExitInv` ties each status to the routes that can
answer it.

**What msbctl reads.** `ToldIsDone`, `RefusalsHaveReasons` and `SpecsSubstituted` are
about command lines and documents of any length over any tokens.
`MsbctlAssumption` says what a user can mean by an item (`Item`): a word is not
shaped like a flag, that is what `--` is for, and what is meant as a switch is one,
or has nothing behind it. TLC checks it of the invocations it is given. How each
item is typed, `-f v`, `-f=v`, `--f v` or `--f=v`, is left open. The properties say what is meant by
position (`Given`, `Meant`, `Keys`, `MeantFor`) and parse nothing.

- *Folds*, as for `CommandLine` below: `Traced` gives the state after each argument,
  and `JoinedAt` and `JoinedPrefix` say where `FlattenSeq` puts each sequence, and
  that what is behind a place does not matter.
- *Items.* `ItemRead` says what one item does to a parse that is between two items,
  in each of its forms: it adds a positional, sets a flag, fails, or leaves a flag
  without its value, and the last only at the end of the line.
- *The invariant of the loop* is `Follows`: after `n` items either all of them are
  right and positionals, values and pairs are what is meant by the first `n`, or
  one is wrong and the parse has failed, or lacks a value at the end.
  `ItemFollows` is its step and `ParsedMeans` its result; `ExecArgs` shows that
  exec's separator is where `--` was meant.
- *The request.* `RequestInv` says that a request is the one made of what was typed
  (`ToSend`), and that what ends without one, its target known, was refused
  (`Refusal`); `ReadAsMeant` turns both into what was meant.
- *Documents.* `SpecSubstituted` is about values, and about keys without a variable:
  `KeysUntouched` says of the others what the code does not do. `SubstitutedMeans`
  places each value where its variable was, by
  `JoinedAt` for the whole text and `JoinedPrefix` for what stands before.

**What msb reads.** The theorems about `CommandLine` are about requests of any
size: `CommandLineAssumption` says only what the decoder returns (texts, numbers,
finite maps, at most one volume), and TLC checks it of the requests it is given.
They rest on three layers of lemmas.

- *Folds.* msb reads arguments and sh reads tokens with `FoldLeft`, which is defined
  over subsets by a `CHOOSE`. `RecursionExists` shows that there is something to
  choose, by `Induct`, which gets induction on naturals from `WFMin`, where the
  formula is a set. `ReadCat` is what the rest uses: to read `s \o t` is to read `s`
  and then `t`. `Flattened` and `ReadFlat` are the same of `FlattenSeq`.
- *Texts.* `CutFirst` and `CutLast` say where a text is cut; `NameShape`,
  `PairShape`, `MountShape`, `PortShape` and `SecretShape` use them to show that
  what validation lets through is not shaped like a flag and is cut where
  msb-manager joined it, at the first or the last `@`. `KeysArrive` shows that sh
  undoes `shellSingleQuote`, for any keys.
- *Parts.* `Reads(args, c, r)` says what msb has read once it is through `args`. A
  lemma for each kind of part extends it (`OptionPart`, `GivenPart`, `PairsPart`,
  `MountsPart`, ..., `NamePart` for what follows `--`), and a lemma for each
  operation strings the parts of its command line together (`CreateRead`,
  `LogsRead`, ...).

`IInv` then says that what runs is the command line of the request that was sent,
complete and valid: a body that was cut has been refused for its length.
`NamesStayNames` needs none of the validation, as `Client.Start` claims.
`ClaimedIsMounted` and `PublicIsAsAsked` follow from what a create asks for:
`FactsOf` finds the facts of one flag among the others.

**Only model-checked.** All liveness properties (`RequestsAnswered`,
`ProbesAnswered`, `Recovers`, `CallsEnd`, `Served`): TLAPS does not do ENABLED and
fairness. What the violation runs refute is of course not proved either.

## Divergences

Where the code does something else than the repository says of it.

With a run:

- **A stop takes a start's claims away** (`StopMeetsStart`,
  `internal/server/sandboxes.go:145`). `Release` runs after the adapter's mutex
  is free. A start of the same sandbox that runs in between loses its claims,
  and a second sandbox mounts its volumes. `CONTEXT.md:30` says that msb-manager
  enforces one running sandbox per volume.
- **A volume is deleted under a running sandbox** (`VolumeDeletedLate`,
  `internal/server/volumes.go:236`). The holder is asked before the wait for the
  mutex, and the delete claims nothing. `README.md:94` says that it is refused
  if a running sandbox holds the volume.
- **A sandbox that boots through a restart** (`BootRace`,
  `cmd/msb-manager/main.go:91`). `msb create` returns while the guest boots; the
  reconcile seeds claims of `Running` sandboxes only. Its volume is free for
  others once the service is back, and both end up running. `CONTEXT.md:30`
  again, and `main.go:170` gives the reason for reconciling before serving.

Without a run of its own. The models have these behaviours too, and each can be
seen by changing a run as described; the first nine have a property of their
own, which the run then checks alone:

- **A disconnecting probe poisons the cache** (`internal/server/server.go:121`).
  The child is killed, and what comes back is its exit state, not
  `context.Canceled`, so the check that should keep it out of the cache does not
  match. The comment above it says otherwise. `Probes` with `NoSpuriousUnready`.
- **A typo half-applies** (`internal/server/volumes.go:207`). `1K` or `5Q` passes
  `ValidSize` and fails `ParseSizeMiB`, after the pre-flight; the other items are
  created. ADR-0009 says that a typo never half-applies. `Batches` with
  `WithTypos` for `Manifest` and `TypoNeverHalfApplies`.
- **A late 504** (`cmd/msb-manager/main.go:42`). The write timeout also runs while
  a request waits for the mutex, so a request behind one that times out cannot
  deliver its own 504. `internal/config/config.go:50` says that it always can.
  `Timeouts` with `AlwaysSurfaces`.
- **msbctl leaves first** (`cmd/msbctl/client.go:27`). Its 60s are the default
  command timeout, and start earlier: the 504 never arrives, and the
  disconnection is what kills the command. The comment calls the timeout a
  backstop against a wedged connection, as the server bounds the command itself.
  `Timeouts` with `Heard`.
- **A size wraps** (`internal/msb/size.go:49`). The product of number and unit is a Go
  int: `17592186044417T` compares equal to an existing volume of `1T` and is reported
  as `exists`. ADR-0009 calls a different size an error. `Batches` with
  `WrappingManifests` for `Manifest` violates `ResultsTrue`; `SizesFit` excludes it.
- **tail=0** (`internal/msb/client.go:433`) is accepted and passes no `--tail`, so
  all of the log comes back. `README.md:76` maps parameters 1:1. `CommandLines`
  with `ParamsMapOneToOne`.
- **A newline in a secret** (`internal/spec/spec.go:138`) is accepted; ADR-0008
  says that `spec.Validate` rejects it. `CommandLines` with `SecretsOnOneLine`.
- **Variables in keys** (`cmd/msbctl/interpolate.go:45`). The walk visits a
  mapping's keys like its values. The comment (`interpolate.go:18-21`) says that only
  values are rewritten and that no value can introduce a key. `Invocations` with
  `KeysUntouched`.
- **A spec of comments** (`cmd/msbctl/interpolate.go:34`) is posted as `null`. Only
  bytes that are all whitespace are refused, although the comment above gives
  exactly this, an empty document that survives as `null`, as the reason.
  `Invocations` with `EmptySpecFails`.
- A create or start that is killed after its effect, at its timeout or because the
  client left, gives its claims back while the sandbox runs (`sandboxes.go:82`,
  `:120`): `Client.Create` returns without a rollback when `msb create` itself fails
  (`internal/msb/client.go:168-173`). `Disciplined` with `create` or `start` in
  `Cuttable` violates `NoDoubleMount`; so does `rollback`, a create whose rollback
  fails (`client.go:190`). `NoOrphan` keeps such creates apart, in `cut`.
- Of two creates of one name, the one that claimed first may fail after the other
  has succeeded, and takes the claims back (`sandboxes.go:82`). A stop that found
  no sandbox releases the claims of a create that has succeeded since
  (`sandboxes.go:139`; the comment there calls it strictly safe). `Disciplined`
  with `OneRequestPerName = FALSE` violates `NoDoubleMount` and `ReleaseIsSafe`.
- A probe whose child has just exited when it is killed is reported as cancelled
  and not cached, so the next one starts another `msb ls` within the TTL
  (`server.go:121`; the comment at `:97` says at most one per interval).
  `RateBounded` leaves those out, by `KilledTooLate`.
- The exec that installs ssh keys is classified by a category anywhere in what
  the guest wrote (`client.go:194`), although `errors.go:57` reserves that for
  streams that msb alone writes: the third case of `Outcome!Conceded`.
- A secret whose value occurs in a category's text hides the category, since
  secrets are redacted before stderr is classified (`client.go:173`; the comment
  there says that the mapping is unaffected). `Outcomes` with such a set in
  `Garbled` violates `AnswersAreTrue`.

## Mutants

The definitions marked `mutant` are plausible bugs of the definition after them:
a dropped guard, a missing reset, a swapped order. No specification uses them.
For every property of every passing run there is one for which the property
fails when it takes the original's place; `PROJECT.json` lists which. They show
that a property is about the code and not about the shape of the model.

## What the models assume

About msb (`Msb`, from how the adapter uses it and what `CONTEXT.md` and
`deploy/smoke-test.sh` say):

- A command takes effect at one point of its run, or not at all; nothing happens
  after the child is gone. A create may or may not leave the sandbox running.
- `create` and `start` need the volumes to exist; `rm` needs the sandbox to be
  stopped, `rm -f` does not; `volume rm` does not look at who mounts the volume.
- `ls` and `inspect` tell the truth of the moment they run in.
- There is no double mount when the system is first started.
- On its command line, what follows a flag with a value is that value unless it
  is shaped like a flag; after `--` nothing is. `NAME:MOUNT` is cut at the first
  `:`, `KEY=VALUE` at the first `=`, and `VALUE@HOST` at the first or the last
  `@`, which the repository leaves open.

About Go: `flag` stops at the first argument that is no flag and after `--`, and
takes one dash and two for the same; `yaml.v3` encodes no document as `null`; a
mutex is fair in the long run; `os/exec` starts nothing under a done
context, reports the exit state of a killed child unless that was a success, and
`net/http` cancels a request's context when its client leaves.

About the rest: requests are authenticated, and but in `CommandLine` and
`Msbctl` well-formed; what a user of msbctl can mean by an item of a command line
is `Item` (`MsbctlAssumption`); a spec names at most one volume (`volumesFromSpec`); the
service manager ends child processes with the service (`deploy/`).

## What is not modelled

- *What is in a snapshot*: msb-manager keeps no state about snapshots, and the
  repository does not say what msb does when one is removed that a sandbox was
  made from. Their endpoints are in `ControlPlane` (`plain`) and `CommandLine`.
- *Authentication*: one stateless comparison in front of every handler.
- *YAML and JSON decoding, the parsers and DTOs of listings, metrics and
  snapshots, rendering*: fields are copied one by one; no order and no choice to
  get wrong.
- *msbctl's warnings* about file modes and cleartext: they change nothing.
- *Backoff times of the reconcile*: a failed attempt starts over; how much later
  makes no difference to what is claimed.
- *`Acquire`*: no caller outside its tests.

## Plan

Done: every module and theorem above. What would come next:

1. A model of msb's boot that a real msb confirms: how long a create may leave a
   sandbox `booting`, and whether a stop or `rm` during the boot is refused.
2. Snapshots, once msb's behaviour on removing one in use is known.
