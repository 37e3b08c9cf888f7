SPECIFICATION Spec
CONSTANTS
  Blocks = {b1, b2, b3}
  BlockSize = 2
  Prompts <- DivergentPrompts
  OutTokens = {8, 9}
  Seqs = {s1, s2, s3}
  MaxTokens = 1
  CancelInStep = FALSE
  MaxOverlaps = 0
  OverlapCrowd = 2
  NoNode = NoNode
SYMMETRY BlockSymmetry
INVARIANT PrefixIntact
CHECK_DEADLOCK FALSE
