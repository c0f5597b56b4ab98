\* A confirmation read before the batch was sealed is written after it.
SPECIFICATION Spec
CONSTANTS
  a = a
  b = b
  Vals = {a, b}
  Seqs = {1}
  MaxDivs = 1
  MaxSnaps = 0
  Workers = {w1, w2}
  Sent = {"import", "checkpoint", "sync", "scan", "compare", "confirm", "seal"}
  Concurrent = {"confirm", "seal"}
  Fragments <- DifferingFragments
PROPERTY
  LifecycleOrder
CHECK_DEADLOCK FALSE
