\* All operations, one instruction per side.  Those that move the batch on and
\* the draft run alone, the others overlap.
SPECIFICATION Spec
CONSTANTS
  a = a
  b = b
  Vals = {a, b}
  Seqs = {1}
  MaxDivs = 1
  MaxSnaps = 2
  Workers = {w1, w2}
  Sent <- AllOps
  Concurrent <- FreeOps
  Fragments <- OneSeqFragments
SYMMETRY Symmetry
INVARIANTS
  TypeOK
  PublishedSealed
  SummariesAgree
PROPERTIES
  LifecycleOrder
  SealedReadOnly
  ExcludedStaysExcluded
  PublishedSummaryKept
  ImplementsLifecycle
CHECK_DEADLOCK FALSE
