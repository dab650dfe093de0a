\* One PAUSE and three faults anywhere.
SPECIFICATION FairSpec
CONSTANTS
  pause = pause
  none = none
  Commands = {pause}
  HazardTasks = {}
  StopCommands = {pause}
  Lagging = {}
  MaxFaults = 3
  NoCommand = none
  ResetOnStartup = FALSE
PROPERTIES
  UnknownIsSettled
  PendingDrains
