SPECIFICATION Spec
CONSTANTS
  Sandbox = {s1, s2}
  Volume = {v1}
  Request = {r1, r2}
  Nobody = Nobody
  Ops = {"start", "stop"}
  Cuttable = {}
  Mishaps = {}
  LateBoots = FALSE
  OneRequestPerName = FALSE
INVARIANT NoDoubleMount
