\* The requests that close a batch overlap, those that build it run alone.
SPECIFICATION Spec
CONSTANTS
  a = a
  b = b
  Vals = {a, b}
  Seqs = {1}
  MaxDivs = 1
  MaxSnaps = 3
  Workers = {w1, w2}
  Sent <- CloseSent
  Concurrent <- CloseOps
  Fragments <- DifferingFragments
SYMMETRY Symmetry
INVARIANTS
  AtMostOnePublished
  SupersessionEndsAtPublished
CHECK_DEADLOCK FALSE
