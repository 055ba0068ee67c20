SPECIFICATION Spec
CONSTANTS
  Specs <- MCSpecs
  Sources <- MCSources
  ChunkSizes = {0, 1, 4}
  NestLimit = 2
  Verdict <- Judged
  SkipLimit = 2
  MaxPrefix = 3
INVARIANTS
  TypeOK
  ReturnsTheWhole
  FedInOrder
  StopsAtError
PROPERTIES
  MovesOn
