\* Every command may be cut off after it took effect but a delete, which the
\* client then has to repeat; see RunDelete.  No symmetry, as a liveness property
\* is checked.
SPECIFICATION FairSpec
CONSTANTS
  Sandbox = {s1, s2}
  Volume = {v1}
  Request = {r1, r2}
  Nobody = Nobody
  Ops = {"create", "start", "stop", "delete"}
  Cuttable = {"create", "start", "stop", "rollback"}
  Mishaps = {"guest_exit"}
  LateBoots = TRUE
  OneRequestPerName = TRUE
INVARIANT NoLeakedClaims
PROPERTY RequestsAnswered
