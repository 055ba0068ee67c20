SPECIFICATION Spec
CONSTANTS
  None = None
  Plans <- MCPlans
  Offer <- MCAnyOffer
  MaxDepth = 3
  MaxPrefix = 3
  SkipLimit = 3
  Alphabet = {34, 97, 58, 44, 123, 125, 91, 93, 32, 48}
  MaxBytes = 4
INVARIANTS
  NoPanic
  ProjectsToItself
PROPERTIES
  DropsAtOnce
  KeepsContract
