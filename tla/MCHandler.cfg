CONSTANTS
  Callers = {c1, c2}
  Targets = {t1}
  Sessions = {s1, s2}
  MaxCalls = 3
  None = None
SPECIFICATION Spec
SYMMETRY Symmetry
INVARIANT TypeOK
INVARIANT HeldOnce
INVARIANT NavigateNeedsBoth
INVARIANT NavigationTracked
INVARIANT NoGhostSession
PROPERTY KeepsPromise
PROPERTY NoSilentDrop
CHECK_DEADLOCK FALSE
