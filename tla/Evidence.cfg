\* The requests that build a batch up and locate its divergences overlap.
SPECIFICATION Spec
CONSTANTS
  a = a
  b = b
  Vals = {a, b}
  Seqs = {1}
  MaxDivs = 2
  MaxSnaps = 0
  Workers = {w1, w2}
  Sent <- EvidenceOps
  Concurrent <- EvidenceOps
  Fragments <- OneSeqFragments
SYMMETRY Symmetry
INVARIANTS
  ConfirmedDiverges
PROPERTIES
  ImportedEventsKept
CHECK_DEADLOCK FALSE
