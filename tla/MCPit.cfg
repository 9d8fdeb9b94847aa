SPECIFICATION Spec
CONSTANTS
  Base = 3
  Few = 2
  Late = 1
INVARIANTS ReadsOneCount InterruptsOnTime
