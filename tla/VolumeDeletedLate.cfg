SPECIFICATION Spec
CONSTANTS
  Sandbox = {s1}
  Volume = {v1}
  Request = {r1, r2}
  Nobody = Nobody
  Ops = {"create", "volume_delete"}
  Cuttable = {}
  Mishaps = {}
  LateBoots = FALSE
  OneRequestPerName = TRUE
INVARIANT RunningVolumeExists
