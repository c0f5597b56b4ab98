\* Sync aligns an event excluded after it was listed.
SPECIFICATION Spec
CONSTANTS
  a = a
  b = b
  Vals = {a, b}
  Seqs = {1}
  MaxDivs = 0
  MaxSnaps = 0
  Workers = {w1, w2}
  Sent = {"import", "sync", "exclude"}
  Concurrent = {"sync", "exclude"}
  Fragments <- DifferingFragments
PROPERTY
  ExcludedStaysExcluded
CHECK_DEADLOCK FALSE
