\* An event is excluded before Sync and still named as the divergence.
SPECIFICATION Spec
CONSTANTS
  a = a
  b = b
  Vals = {a, b}
  Seqs = {1}
  MaxDivs = 1
  MaxSnaps = 0
  Workers = {w1}
  Sent = {"import", "checkpoint", "sync", "scan", "compare", "trace", "exclude"}
  Concurrent = {}
  Fragments <- DifferingFragments
PROPERTY
  ExcludedNotBlamed
CHECK_DEADLOCK FALSE
