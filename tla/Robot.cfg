SPECIFICATION Spec
CONSTANTS
  Moves = {"F"}
  AckWait = 2
  LeaseTime = 1
  Pulse = 1
  MaxSession = 2
  FaultAfter = 4
INVARIANTS TypeOK ArmedSeesSession MotionNeedsControl StopHolds FaultDisarms AckIsObeyed
PROPERTY ShutdownStops
