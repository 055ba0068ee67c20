SPECIFICATION Spec
CONSTANTS
  None = none
  Questions <- MCQuestions
  Documents <- MCDocuments
  Migrate <- MCMigrate
  Asked = {"placed", "aliased", "migrating", "others"}
INVARIANTS ExcludedNeverRead RetainedReadsTheSame SurvivorsAreReported AdaptersAreConsulted
