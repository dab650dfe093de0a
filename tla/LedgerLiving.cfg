\* A wire in sight of a robot that reports live detection.
SPECIFICATION Spec
CONSTANTS
  coin = coin
  wire = wire
  i1 = i1
  w1 = w1
  Devices = {d1}
  Children = {c1}
  SwallowKinds = {coin}
  LivingKinds = {wire}
  Instances = {i1, w1}
  KindOf <- CoinAndWire
  NoInstance = none
  Photos = {p1}
  Treatments = {t1}
  None = None
  NoHazard = NoHazard
  MaxTime = 2
  Absent = 1
  Grace = 2
  Gap = 1
  StartupResets = {TRUE, FALSE}
INVARIANT SeenIsKept
