SPECIFICATION Spec
CONSTANTS
  m1 = m1
  m2 = m2
  d1 = d1
  f1 = f1
  f2 = f2
  t0 = t0
  Nil = Nil
  Matters = {m1, m2}
  Docs = {d1}
  MatterOf <- MCMatterOf
  Original <- MCOriginal
  Folders = {f1, f2}
  FolderMatter <- MCFolderMatter
  Texts = {t0}
  Conns = {c1, c2}
  Edits = {e1}
  MaxVersions = 1
  DeleteRaces = TRUE
  MayCrash = TRUE
INVARIANT NoForeignFolder
INVARIANT NoOrphans
SYMMETRY MCSymmetry
