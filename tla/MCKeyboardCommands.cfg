CONSTANTS
  h1 = h1
  h2 = h2
  h3 = h3
  a = a
  b = b
  c = c
  NC = NC
  LED = LED
  Hosts <- LockHosts
  KeyOf <- LockKeyOf
  Codes <- LockCodes
  Repeating = {}
  Shifts = {c}
  Locks = {c}
  KB_BUF = 2
  KB_CTR = 3
  RepeatMax = 1
  Settings = {TRUE, FALSE}
  Commands = {"9c", "9d", "9f", "other"}
  Controls <- Both
SPECIFICATION FairSpec
INVARIANTS AnswerIsLast LampsAgree
PROPERTIES ImplementsKeyLine Drains
