SPECIFICATION Spec
CONSTANTS
  MaxStarts = 2
  Layouts = 3
INVARIANTS TypeOK AnswerWasTrue RunningIsExcused
