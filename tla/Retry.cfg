\* A client that sends each request again until it is answered.
SPECIFICATION ClientSpec
CONSTANTS
  a = a
  b = b
  Vals = {a, b}
  Seqs = {1, 2}
  MaxDivs = 2
  MaxSnaps = 1
  Workers = {w1}
  Sent <- ClientOps
  MaxFaults = 3
  Concurrent = {}
  Fragments <- DifferingFragments
PROPERTY
  PublishedEventually
CHECK_DEADLOCK FALSE
