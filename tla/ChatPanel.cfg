SPECIFICATION Spec
CONSTANTS
  Questions = {q1, q2}
  Clicks = {k1}
  Chats = {c1, c2}
  None = None
  MaxTurns = 1
  AtOnce = 2
  MaxClicks = 2
  MaxFailures = 1
  MaxEvents = 2
INVARIANT PanelIsChat
INVARIANT TurnsAreOfChat
INVARIANT FiledTogether
INVARIANT AnswersHaveQuestions
INVARIANT DeletedIsGone
PROPERTY SendComesBack
CHECK_DEADLOCK FALSE
