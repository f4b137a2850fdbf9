\* Small timeouts, in the proportions of the real ones: a command, its kill and
\* the reading of the request fit into the write timeout, two commands do not.
\* A client's deadline is the largest command timeout, as msbctl's is the default
\* one.  A timeout of 3 is refused.  No symmetry, as a liveness property is checked.
SPECIFICATION FairSpec
CONSTANTS
  Request = {r1, r2}
  Nobody = nobody
  Kinds = {"read", "single", "start", "create"}
  Configured = {1, 2, 3}
  MaxCmdTimeout = 2
  KillGrace = 1
  ReadTimeout = 1
  WriteTimeout = 5
  ClientTimeout = 2
INVARIANTS TypeOK InTime NoOrphan
PROPERTY Served
