SPECIFICATION Spec
CONSTANTS
  d1 = d1
  d2 = d2
  t1 = t1
  t2 = t2
  a1 = a1
  a2 = a2
  Atoms = {a1, a2}
  Says <- MCSays
  Docs = {d1, d2}
  Texts = {t1, t2}
  InForce = {t2}
  Published <- MCPublished
  Repeals <- MCRepeals
  Bundle <- MCBundle
  Short = {s1}
  Lasting = {m1}
  Elsewhere = Elsewhere
  None = None
INVARIANT BundleIsWhole
INVARIANT AtomsOfText
INVARIANT ReportHolds
PROPERTY LockComesFree
