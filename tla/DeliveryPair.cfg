\* Two hazard tasks of one device and one fault anywhere.
SPECIFICATION Spec
CONSTANTS
  recheck = recheck
  relocate = relocate
  none = none
  Commands = {recheck, relocate}
  HazardTasks = {recheck, relocate}
  StopCommands = {}
  Lagging = {}
  MaxFaults = 1
  NoCommand = none
  ResetOnStartup = FALSE
SYMMETRY Symmetry
INVARIANTS
  TypeOK
  AtMostOnce
  NoForgottenRun
  BackendAgrees
  KeptUntilStored
  OneHazardTask
PROPERTY OutcomeSpec
