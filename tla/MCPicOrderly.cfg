CONSTANTS
  N = 3
  TIMER = 0
  CRTV = 1
  SLAVE = 2
  ResetMask <- MasksAtReset
  Masks <- MasksWritten
  Irqs <- TimerAndTwo
  Commands = {}
SPECIFICATION FairSpec
INVARIANTS ServiceMatches InnermostIsHighest
PROPERTY Served
