SPECIFICATION Spec
CONSTANTS
  Tracks = {1, 2}
  MaxRaw = 2
  Labels = {"coin"}
  Places = {"left", "right"}
  Window = 2
  Votes = 2
  Cooldown = 1
  Forget = 2
INVARIANT DistinctInstances
