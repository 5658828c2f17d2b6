SPECIFICATION Spec
CONSTANTS
  Files <- MCFiles
  Endings <- MCEndings
  Reads = {1, 9, 300}
INVARIANTS
  TypeOK
  AnswersAreFinal
  EventsCarryTheirMessage
PROPERTIES
  ImplementsItchStream
CHECK_DEADLOCK FALSE
