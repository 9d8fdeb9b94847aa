CONSTANTS
  N = 3
  TIMER = 0
  CRTV = 1
  SLAVE = 2
  ResetMask <- MasksAtReset
  Masks <- MasksWritten
  Irqs <- OneDevice
  Commands = {"OCW2", "OCW3", "ICW1"}
SPECIFICATION FreeSpec
INVARIANTS TypeOK VsyncKept
PROPERTIES PriorityRespected Prompt
