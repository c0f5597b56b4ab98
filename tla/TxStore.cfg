\* Three goroutines on two rows.
SPECIFICATION Spec
CONSTANTS
  Callers = {c1, c2, c3}
  Rows = {r1, r2}
  Versions = 2
  None = None
INVARIANTS
  HeldWhileUsed
  SomeCallCanGoOn
PROPERTIES
  CallsAreAtomic
  EveryCallReturns
