SPECIFICATION Spec
CONSTANTS
  Slots = 3
  Pages = 5
  MaxFrame = 3
  MaxPacket = 6
  MaxOpens = 1
  MaxSend = 4
  MaxArrive = 3
INVARIANTS InOrder UnreadKept
CHECK_DEADLOCK FALSE
