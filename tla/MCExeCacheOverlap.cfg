SPECIFICATION Spec
CONSTANTS
  Procs = {b1, b2}
  Files = {f}
  Contents = {c1, c2}
  Budget <- OverlapBudget
  Torn = Torn
  None = None
INVARIANT HitsAreCurrent
CHECK_DEADLOCK FALSE
