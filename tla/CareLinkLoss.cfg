\* A removal check and the loss of a link.
SPECIFICATION Spec
CONSTANTS
  coin = coin
  dice = dice
  c1 = c1
  c2 = c2
  NoInstance = none
  Labels = {coin}
  Instances = {}
  KindOf <- NoKind
  Ids = {i1}
  Asked = {"POWER_ON", "RESUME", "RECHECK_HAZARD"}
  Removal = 1
  Clear = 2
  DropVerify = 1
INVARIANTS NoSelfRestart
