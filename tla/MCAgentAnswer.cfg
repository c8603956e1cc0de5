SPECIFICATION AgentSpec
CONSTANTS
  d1 = d1
  d2 = d2
  d3 = d3
  i1 = i1
  i2 = i2
  t1 = t1
  t2 = t2
  name = name
  odd = odd
  NoIssue = NoIssue
  Docs = {d1, d2, d3}
  Issues = {i1, i2}
  Texts = {t1, t2, name, odd}
  Strays = {odd}
  Drafts <- MCDrafts
  Contexts <- MCContexts
  HasMatter = TRUE
INVARIANT CitationsResolve
INVARIANT GroundedIsWhole
INVARIANT ClaimsStand
INVARIANT OnlyLawIsCited
INVARIANT PassedOnIsFinished
PROPERTY ContractRefusalStands
PROPERTY EveryQuestionAnswered
CHECK_DEADLOCK FALSE
