SPECIFICATION Spec
CONSTANTS
  Procs = {b1, b2}
  Files = {f}
  Contents = {c1, c2}
  Budget <- MCBudget
  Torn = Torn
  None = None
INVARIANTS TypeOK AloneIsRight RepeatHits
SYMMETRY Symmetry
CHECK_DEADLOCK FALSE
