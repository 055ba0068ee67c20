SPECIFICATION FairSpec
CONSTANTS
  Heaps <- MCHeaps
  Root = "root"
  Meddled <- MCMeddled
  Everything = Everything
  NotStr = NotStr
  MaxSpecDepth = 2
  SkipLimit = 3
  MaxPrefix = 3
INVARIANTS
  TypeOK
  AcceptsTheGrammar
  MeansWhatIsWritten
  SpellsWhatIsWritten
  CanBeApplied
  OneMoment
  PlanKeepsRules
PROPERTIES
  Ends
