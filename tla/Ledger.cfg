\* A coin and a wire, two photographs, one treatment, two children.
SPECIFICATION Spec
CONSTANTS
  coin = coin
  wire = wire
  i1 = i1
  w1 = w1
  Devices = {d1}
  Children = {c1, c2}
  SwallowKinds = {coin}
  LivingKinds = {wire}
  Instances = {i1, w1}
  KindOf <- CoinAndWire
  NoInstance = none
  Photos = {p1, p2}
  Treatments = {t1}
  None = None
  NoHazard = NoHazard
  MaxTime = 2
  Absent = 1
  Grace = 2
  Gap = 1
  StartupResets = {TRUE, FALSE}
SYMMETRY AnyEventAnyChild
INVARIANTS TypeOK OneHazardPerObject UnseenIsRetired SwallowRetiredUnseen
PROPERTIES TreatedStaysTreated FreshPhotoShows TreatmentHolds
