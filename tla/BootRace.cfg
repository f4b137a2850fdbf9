\* Nothing fails and nobody disturbs anything; the service comes back while a
\* sandbox it created is still booting.
SPECIFICATION Spec
CONSTANTS
  Sandbox = {s1, s2}
  Volume = {v1}
  Request = {r1}
  Nobody = Nobody
  Ops = {"create"}
  Cuttable = {}
  Mishaps = {}
  LateBoots = TRUE
  OneRequestPerName = TRUE
SYMMETRY Symmetry
INVARIANT OneRunningPerVolume
