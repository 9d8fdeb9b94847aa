CONSTANTS
  h1 = h1
  h2 = h2
  h3 = h3
  a = a
  b = b
  c = c
  NC = NC
  LED = LED
  Hosts <- TwoHosts
  KeyOf <- OwnKeyOf
  Codes <- TwoCodes
  Repeating = {a, b}
  Shifts = {}
  Locks = {}
  KB_BUF = 3
  KB_CTR = 3
  RepeatMax = 1
  Settings = {TRUE, FALSE}
  Commands = {}
  Controls <- ResetOnly
SPECIFICATION Spec
PROPERTY RepeatsHeldKey
