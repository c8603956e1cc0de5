SPECIFICATION Spec
CONSTANTS
  Tables = {"matter", "memory", "folder", "annotation", "comment", "review", "view", "chat", "artifact", "template", "setting", "pack"}
  Values = {x, y}
  Reqs = {r1, r2}
  None = None
  MaxVersions = 3
SYMMETRY Interchangeable
\* A row whose parent is gone stays gone, and an inserted one is not inserted
\* again: nothing is left to do.
CHECK_DEADLOCK FALSE
INVARIANT LastEditStands
INVARIANT DeletedStaysDeleted
INVARIANT VersionsFollowPack
