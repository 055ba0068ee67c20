SPECIFICATION Spec
CONSTANTS
  Offer <- MCOffer
  MaxPrefix = 3
  MaxText = 7
INVARIANTS
  TypeOK
  EscapeFits
  SpanIsInvisible
  ReadsTheGrammar
CHECK_DEADLOCK FALSE
