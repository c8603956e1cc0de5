SPECIFICATION Spec
CONSTANTS
  Matters = {m1}
  Titles = {t1}
  Files = {f1, f2}
  Reqs = {r1, r2}
  None = None
  Gone = Gone
  MaxStarts = 5
CHECK_DEADLOCK FALSE
SYMMETRY Interchangeable
 
INVARIANT FilesHaveRows
INVARIANT PreRestoreIsWhole
