SPECIFICATION BaseSpec
CONSTANTS
  Producers = {p1, p2}
  Consumers = {c1, c2}
  Values = {v1, v2}
  Zero = zero
  Size = 3
INVARIANT ReturnReleasesLock
