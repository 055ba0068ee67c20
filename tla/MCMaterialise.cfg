SPECIFICATION Spec
CONSTANTS
  KeyA = a
  KeyB = b
  Everything = all
  NotStr = nostr
  MaxSpecDepth = 2
  RecursionLimit = 6
  SkipLimit = 3
  MaxPrefix = 3
  Heaps <- MCHeaps
  Meaning <- MCMeaning
INVARIANTS
  TypeOK
  AcceptsWhatCompiles
  MeansWhatWasReturned
  CompiledTwiceAlike
