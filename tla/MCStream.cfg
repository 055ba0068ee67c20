SPECIFICATION FairSpec
CONSTANTS
  None = None
  Plans <- MCPlans
  Offer <- MCOffer
  MaxDepth = 3
  MaxPrefix = 3
  SkipLimit = 3
  Alphabet = {}
  MaxBytes = 0
INVARIANTS
  TypeOK
  StackInv
  BufferBound
PROPERTIES
  CutsDoNotMatter
  FeedEnds
