SPECIFICATION Spec
CONSTANTS
  a = a
  b = b
  Volume = {a, b}
  Batch = {x, y}
  Manifest <- Manifests
  Kilo = 4
  MaxInt = 31
SYMMETRY SlotSymmetry
INVARIANTS TypeOK ResultsTrue CreatedOnce
PROPERTY RerunIsNoOp
