----------------------------- MODULE VolumeLock -----------------------------
(***************************************************************************)
(* The volume lock of internal/lock: which sandbox has claimed which named *)
(* volume.  The Go map  held  (volume name -> sandbox name) is a total      *)
(* function whose value is Nobody where the map has no entry.  Every method *)
(* runs under the lock's own mutex from its first to its last statement, so *)
(* each is one operator, applied by one step of the module that uses it.    *)
(* An operator marked  mutant  is a plausible bug in the one defined after   *)
(* it, and is used by no specification: README.md, "Mutants".                *)
(***************************************************************************)
EXTENDS Names

Holding == [Volume -> Sandbox \cup {Nobody}]

\* lock.New(): a fresh lock.
Unclaimed == [v \in Volume |-> Nobody]

\* The check AcquireMany makes over every volume before it claims any.
NeverBusy(h, vs, s) == FALSE                                        \* mutant
VolumeBusy(h, vs, s) == \E v \in vs : h[v] \notin {s, Nobody}

\* The claims after AcquireMany succeeded, and the volumes it newly claimed.
OnlyAcquired(h, vs, s) == [v \in vs |-> s]                          \* mutant
Acquired(h, vs, s) == [v \in Volume |-> IF v \in vs THEN s ELSE h[v]]

AllOfThem(h, vs) == vs                                              \* mutant
NewlyClaimed(h, vs) == {v \in vs : h[v] = Nobody}

\* Release(sandbox): every claim of one sandbox.
Released(h, s) == [v \in Volume |-> IF h[v] = s THEN Nobody ELSE h[v]]

\* ReleaseVolumes(volumes, sandbox): the listed claims, if still the sandbox's.
NothingReleased(h, vs, s) == h                                      \* mutant
UnguardedRelease(h, vs, s) ==                                       \* mutant
  [v \in Volume |-> IF v \in vs THEN Nobody ELSE h[v]]
ReleasedVolumes(h, vs, s) ==
  [v \in Volume |-> IF v \in vs /\ h[v] = s THEN Nobody ELSE h[v]]

\* Holder(volume): the second result, whether anybody holds it.
Held(h, v) == h[v] # Nobody
=============================================================================
