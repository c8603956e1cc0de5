SPECIFICATION SerialSpec
CONSTANTS
  m1 = m1
  m2 = m2
  d1 = d1
  f1 = f1
  f2 = f2
  t0 = t0
  Nil = Nil
  Matters = {m1, m2}
  Docs = {d1}
  MatterOf <- MCMatterOf
  Original <- MCOriginal
  Folders = {f1, f2}
  FolderMatter <- MCFolderMatter
  Texts = {t0, t1}
  Conns = {c1, c2}
  Edits = {e1, e2}
  MaxVersions = 3
  DeleteRaces = FALSE
  MayCrash = FALSE
INVARIANT FactsMatchText
INVARIANT AppliedOnce
PROPERTY ApplyCompletes
