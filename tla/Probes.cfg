\* No symmetry, as liveness properties are checked.
SPECIFICATION FairSpec
CONSTANTS
  Probe = {p1, p2}
  NoProbe = NoProbe
  TTL = 2
INVARIANT TypeOK
PROPERTIES ReadyIsRecent RateBounded ProbesAnswered Recovers
