SPECIFICATION Spec
CONSTANTS
  Blocks = {b1, b2, b3}
  BlockSize = 2
  Prompts <- AlignedPrompts
  OutTokens = {8, 9}
  Seqs = {s1, s2, s3}
  MaxTokens = 2
  CancelInStep = TRUE
  MaxOverlaps = 1
  OverlapCrowd = 2
  NoNode = NoNode
SYMMETRY BlockSymmetry
INVARIANT TypeOK RefCountsExact FreePagesUnheld TableFollowsLife ContentsIntact TreeClosed
CHECK_DEADLOCK FALSE
