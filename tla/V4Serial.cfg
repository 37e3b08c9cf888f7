SPECIFICATION SpecV4
CONSTANTS
  Pages = {p1, p2, p3}
  BlockSize = 2
  Prompts <- ChainPrompts
  OutTokens = {"b", "x"}
  Seqs = {s1, s2, s3}
  MaxTokens = 2
  MaxEntries = 1
  MaxBatch = 1
  MaxLen = 5
SYMMETRY PageSymmetry
INVARIANT V4TypeOK OwnHistory SnapshotsIntact PagesCovered
CHECK_DEADLOCK FALSE
