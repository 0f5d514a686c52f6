SPECIFICATION ImportSpec
CONSTANTS
  j1 = j1
  w1 = w1
  w2 = w2
  NoJob = NoJob
  Jobs = {j1}
  Workers = {w1, w2}
  MaxRedeliveries = 1
CHECK_DEADLOCK FALSE
PROPERTIES
  TerminalIsFinal
