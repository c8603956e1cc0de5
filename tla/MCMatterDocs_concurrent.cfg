SPECIFICATION Spec
CONSTANTS
  m1 = m1
  m2 = m2
  d1 = d1
  f1 = f1
  f2 = f2
  t0 = t0
  Nil = Nil
  Matters = {m1}
  Docs = {d1}
  MatterOf <- MCMatterOf
  Original <- MCOriginal
  Folders = {f1}
  FolderMatter <- MCFolderMatter
  Texts = {t0, t1}
  Conns = {c1, c2}
  Edits = {e1}
  MaxVersions = 2
  DeleteRaces = FALSE
  MayCrash = TRUE
INVARIANT LastVersionIsText
INVARIANT FactsOnRecord
INVARIANT AppliedWasWritten
PROPERTY HistoryKept
PROPERTY ImplementsHistory
SYMMETRY MCSymmetry
