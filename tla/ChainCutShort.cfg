\* The same trails; an instruction that reads what it writes hides its source.
SPECIFICATION Spec
CONSTANTS
  x = x
  y = y
  z = z
  a = a
  b = b
  Unset = unset
  MaxSeq = 5
  Registers = {x, z}
  Memory = {y}
  Vals = {a, b}
  Programs <- SmallPrograms
  Checkpoints <- SmallCheckpoints
INVARIANT
  ChainHoldsSources
