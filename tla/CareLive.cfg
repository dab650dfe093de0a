\* One kind, every command, one at a time.
SPECIFICATION LiveSpec
CONSTANTS
  coin = coin
  dice = dice
  c1 = c1
  c2 = c2
  NoInstance = none
  Labels = {coin}
  Instances = {}
  KindOf <- NoKind
  Ids = {i1}
  Asked = {"POWER_ON", "POWER_OFF", "PAUSE", "RESUME", "RECHECK_HAZARD", "RELOCATE", "RECOVER_COMMAND"}
  Removal = 1
  Clear = 2
  DropVerify = 1
PROPERTIES EveryCommandEnds
