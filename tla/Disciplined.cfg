SPECIFICATION Spec
CONSTANTS
  Sandbox = {s1, s2}
  Volume = {v1, v2}
  Request = {r1, r2}
  Nobody = Nobody
  Ops = {"create", "start", "stop", "delete", "plain"}
  Cuttable = {"stop", "delete"}
  Mishaps = {"guest_exit", "removed_by_hand"}
  LateBoots = FALSE
  OneRequestPerName = TRUE
SYMMETRY Symmetry
INVARIANTS TypeOK IInv NoDoubleMount RunningClaimed ReleaseIsSafe
PROPERTY KeepsClaimProtocol
