CONSTANTS
  h1 = h1
  h2 = h2
  h3 = h3
  a = a
  b = b
  c = c
  NC = NC
  LED = LED
  Hosts <- ThreeHosts
  KeyOf <- SharedKeyOf
  Codes <- TwoCodes
  Repeating = {a, b}
  Shifts = {}
  Locks = {}
  KB_BUF = 2
  KB_CTR = 3
  RepeatMax = 1
  Settings = {TRUE, FALSE}
  Commands = {"9c"}
  Controls <- Both
SPECIFICATION CarefulSpec
INVARIANTS TypeOK FullInterrupts KeysAgree NoStall NoStuckKey
