SPECIFICATION Spec
CONSTANTS
  NumUnknown = 4
  MaxLength = 5
  MaxSpecial = 1
  Plain <- MCPlain
  Batches <- MCBatches
  Counts <- MCCounts
  Indexes <- MCIndexes
INVARIANTS IntegrityKept BackwardMirrorsForward AbortsOnlyOnWide
PROPERTY ImplementsList
CHECK_DEADLOCK FALSE
