CONSTANTS
  s1 = s1  s2 = s2  s3 = s3  w1 = w1  None = None  Empty = Empty
  Setups = {s1, s2, s3}
  Workers = {w1}
SPECIFICATION SetupSpec
INVARIANT
  NothingAdopted
