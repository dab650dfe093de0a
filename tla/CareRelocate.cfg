\* Two kinds without identities: a second hazard in the way of a relocation.
SPECIFICATION Spec
CONSTANTS
  coin = coin
  dice = dice
  c1 = c1
  c2 = c2
  NoInstance = none
  Labels = {coin, dice}
  Instances = {}
  KindOf <- NoKind
  Ids = {i1}
  Asked = {"POWER_ON", "RELOCATE"}
  Removal = 1
  Clear = 2
  DropVerify = 1
INVARIANTS TaskHasAction MotionIsLicensed
