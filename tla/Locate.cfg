\* From the import to the located divergence, two instructions per side.  Sync,
\* scan and compare run alone, imports, checkpoints and traces overlap.
SPECIFICATION Spec
CONSTANTS
  a = a
  b = b
  Vals = {a, b}
  Seqs = {1, 2}
  MaxDivs = 2
  MaxSnaps = 0
  Workers = {w1, w2}
  Sent <- LocateOps
  Concurrent <- FreeLocateOps
  Fragments <- TwoSeqFragments
SYMMETRY Symmetry
INVARIANTS
  OneDivergencePerCheckpoint
  ConfirmedHasChain
  ConfirmedIsFirst
  ConfirmedIsLocated
  AlignedInRange
  RangeEndsAtEvents
PROPERTIES
  VerdictsStand
  ScanRepairs
CHECK_DEADLOCK FALSE
