\* Two resources, three instructions per side in every combination, and two
\* trails of five.
SPECIFICATION Spec
CONSTANTS
  x = x
  y = y
  z = z
  a = a
  b = b
  Unset = unset
  MaxSeq = 5
  Registers = {x, z}
  Memory = {y}
  Vals = {a, b}
  Programs <- SmallPrograms
  Checkpoints <- SmallCheckpoints
INVARIANTS
  CandidatesAreMismatches
  PairedIsLocated
  FirstMakesStatesDiffer
  ChainIsUpstream
  ChainIsComplete
  OtherSourcesHeld
PROPERTIES
  EveryTurnIsProgress
  TraceEnds
