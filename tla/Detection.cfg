SPECIFICATION Spec
CONSTANTS
  Tracks = {1}
  MaxRaw = 0
  Labels = {"coin"}
  Places = {"here"}
  Window = 2
  Votes = 2
  Cooldown = 1
  Forget = 2
  MaxMode = 3
INVARIANTS ShownIsSelected SuppressedStaysQuiet FreshVotes
PROPERTY SwitchIsShown
