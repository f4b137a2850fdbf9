--------------------------- MODULE MCVolumeBatch ----------------------------
(* Small instances of VolumeBatch for TLC: two volumes, and sizes in which a *)
(* kilo is 4 and an int has 6 bits.                                          *)
EXTENDS VolumeBatch, TLC

CONSTANTS a, b

\* 1G is 4M.
OneG == [num |-> 1, unit |-> "G"]
FourM == [num |-> 4, unit |-> "M"]
TwoG == [num |-> 2, unit |-> "G"]
OneT == [num |-> 1, unit |-> "T"]
FiveT == [num |-> 5, unit |-> "T"]
TooManyDigits == [num |-> 32, unit |-> "M"]
Odd == [num |-> 1, unit |-> "odd"]
Malformed == [num |-> 1, unit |-> "malformed"]

Ask(v, s) == [name |-> v, size |-> s]

\* Two spellings of a size, a clash, a volume named twice, an unknown unit, and
\* the bodies the pre-flight refuses.
Manifests == {
  <<Ask(a, OneG), Ask(b, TwoG)>>,
  <<Ask(b, TwoG), Ask(a, FourM)>>,
  <<Ask(a, OneT), Ask(b, TwoG)>>,
  <<Ask(a, OneG), Ask(a, OneG)>>,
  <<Ask(a, OneG), Ask(b, Odd)>>,
  <<Ask(a, Malformed), Ask(b, TwoG)>>,
  <<>> }

\* A size whose MiB do not fit an int: 5T are 80M, and read as the 16M of 1T.
WrappingManifests == { <<Ask(a, OneT), Ask(b, TwoG)>>, <<Ask(a, FiveT)>> }

\* A number too long for an int, and a unit nobody knows.
WithTypos == { <<Ask(a, OneG), Ask(b, Odd)>>, <<Ask(b, TooManyDigits)>> }

SlotSymmetry == Permutations(Batch)
=============================================================================
