CONSTANTS
  Devices = {d1, d2}
  Flames = fl
  Delays = {2}
  DispClock = 3
  VsyncClock = 2
  MaxClock = 4
  StepClocks = {1, 2}
  EntryClocks = {1}
  Multiples = {2}
  Steps = {2}
  ClockCap = 4
  ShadowCap = 2
  EntryCap = 1
SPECIFICATION FairSpec
INVARIANTS TypeOK LevelOrdered NeverSleepsPastEvent EffectiveOnce FrameEventKept
PROPERTIES ImplementsAlarmClock FrameEnds
