SPECIFICATION Spec
CONSTANTS
  None = none
  Questions <- MCQuestions
  Documents <- MCDocuments
  Migrate <- MCMigrate
  Asked = {"placed"}
INVARIANT SyntheticKeyStripped
