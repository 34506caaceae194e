SPECIFICATION MCSpec
CONSTANTS
  a = a
  b = b
  Tasks <- TwoTasks
  Capacity = 1
  Revisions = 2
  Transit = 1
  NoTask = NoTask
  NoAnswer = NoAnswer
CONSTRAINT AnswersFirst
CHECK_DEADLOCK FALSE
INVARIANTS
  NoGap
  HistoryIsQuiet
PROPERTIES
  StreamsEnd
