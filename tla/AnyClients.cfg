SPECIFICATION Spec
CONSTANTS
  Sandbox = {s1, s2}
  Volume = {v1}
  Request = {r1, r2}
  Nobody = Nobody
  Ops = {"create", "start", "stop", "delete", "volume_create", "volume_delete", "plain"}
  Cuttable = {"create", "start", "stop", "delete", "rollback"}
  Mishaps = {"guest_exit", "removed_by_hand"}
  LateBoots = TRUE
  OneRequestPerName = FALSE
SYMMETRY Symmetry
INVARIANTS CommandsSerialised
PROPERTIES ForeignClaimsKept CreateIsAtomic
