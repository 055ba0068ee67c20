SPECIFICATION Spec
CONSTANTS
  MCSpecs <- MCRules
  MaxTokens = 10
  SkipLimit = 3
  MaxPrefix = 3
INVARIANTS
  Idempotent
  MatchesReference
CHECK_DEADLOCK FALSE
