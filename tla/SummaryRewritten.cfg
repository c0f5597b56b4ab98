\* Two requests publish the same draft with different summaries.
SPECIFICATION Spec
CONSTANTS
  a = a
  b = b
  Vals = {a, b}
  Seqs = {1}
  MaxDivs = 1
  MaxSnaps = 1
  Workers = {w1, w2}
  Sent = {"import", "checkpoint", "sync", "scan", "compare", "trace", "confirm", "draft", "publish"}
  Concurrent = {"trace", "confirm", "draft", "publish"}
  Fragments <- DifferingFragments
PROPERTY
  PublishedSummaryKept
CHECK_DEADLOCK FALSE
