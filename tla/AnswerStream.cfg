SPECIFICATION Spec
CONSTANT MaxSteps = 3
INVARIANT AnswerAfterItsSteps
PROPERTY ImplementsEventStream
PROPERTY StreamEnds
CHECK_DEADLOCK FALSE
