\* Two tracked objects of one kind and an unidentified one; a PAUSE meets the check in hand.
SPECIFICATION Spec
CONSTANTS
  coin = coin
  dice = dice
  c1 = c1
  c2 = c2
  NoInstance = none
  Labels = {coin}
  Instances = {c1, c2}
  KindOf <- TwoOfAKind
  Ids = {i1, i2}
  Asked = {"POWER_ON", "PAUSE", "RESUME", "RECHECK_HAZARD"}
  Removal = 1
  Clear = 2
  DropVerify = 1
SYMMETRY AnyName
INVARIANTS TypeOK MotionIsLicensed InstanceBlocks ConfirmedPauseHolds
PROPERTIES RecheckSucceedsUnseen ResultFinal
