------------------------------ MODULE DeviceLink ------------------------------
(***************************************************************************)
(* The one WebSocket between the backend and the robot process.            *)
(*                                                                         *)
(* channel    DeviceChannel holds an open session of the device            *)
(* socket     the robot process holds an open socket (bridge.py session)   *)
(* toDevice   frames the backend has sent and the robot has not handled    *)
(* toBackend  frames the robot has sent and the backend has not handled    *)
(* faults     how many faults the environment has injected so far          *)
(*                                                                         *)
(* Either end may learn of a broken connection before the other: in        *)
(* between, what it sends is lost.  Frames of one connection are delivered *)
(* in order, but the robot handles every COMMAND and COMMAND_STATUS in a   *)
(* task and a thread of its own; the sets let any pending frame be handled *)
(* next, which is more than the socket allows and loses no behaviour.      *)
(***************************************************************************)
EXTENDS Naturals, FiniteSets

CONSTANTS
  Commands,    \* the commands a parent issues (rows of operation_requests)
  HazardTasks, \* those that carry a hazard: RECHECK_HAZARD and RELOCATE
  Lagging,     \* those handled while the robot's clock runs behind the backend's
  MaxFaults    \* bound on drops, crashes, restarts and raising handlers together

ASSUME CommandsAssumption ==
  /\ HazardTasks \subseteq Commands
  /\ Lagging \subseteq Commands
  /\ MaxFaults \in Nat

VARIABLES channel, socket, toDevice, toBackend, faults

linkVars == <<channel, socket, toDevice, toBackend, faults>>

Verdict == {"SUCCEEDED", "FAILED"}

DeviceFrames == [type : {"COMMAND", "COMMAND_STATUS", "RECEIPT"}, cmd : Commands]
BackendFrames == [type : {"COMMAND_ACK"}, cmd : Commands]
            \cup [type : {"COMMAND_RESULT"}, cmd : Commands, status : Verdict]

Command(c) == [type |-> "COMMAND", cmd |-> c]
StatusQuery(c) == [type |-> "COMMAND_STATUS", cmd |-> c]
Receipt(c) == [type |-> "RECEIPT", cmd |-> c]
Ack(c) == [type |-> "COMMAND_ACK", cmd |-> c]
Result(c, status) == [type |-> "COMMAND_RESULT", cmd |-> c, status |-> status]

LinkTypeOK ==
  /\ channel \in BOOLEAN
  /\ socket \in BOOLEAN
  /\ toDevice \subseteq DeviceFrames
  /\ toBackend \subseteq BackendFrames
  /\ faults \in 0..MaxFaults

LinkInit ==
  /\ channel = FALSE
  /\ socket = FALSE
  /\ toDevice = {}
  /\ toBackend = {}
  /\ faults = 0

Fault ==
  /\ faults < MaxFaults
  /\ faults' = faults + 1

\* What is on its way once frames are sent by an end whose peer may be gone.
WithDeviceFrames(frames) == IF socket THEN toDevice \cup frames ELSE toDevice
WithBackendFrames(frames) == IF channel THEN toBackend \cup frames ELSE toBackend

\* register is putIfAbsent: while an old session is still open the new one is closed.
Connect ==
  /\ ~socket /\ ~channel
  /\ socket' = TRUE
  /\ channel' = TRUE
  /\ toDevice' = {}
  /\ toBackend' = {}
  /\ UNCHANGED faults

\* The robot's end closes: by a fault, or because the backend's end is gone already.
SocketLost ==
  /\ socket
  /\ socket' = FALSE
  /\ toDevice' = {}
  /\ IF channel THEN Fault ELSE UNCHANGED faults
  /\ UNCHANGED <<channel, toBackend>>

\* The backend's end closes (afterConnectionClosed), likewise.
SessionLost ==
  /\ channel
  /\ channel' = FALSE
  /\ toBackend' = {}
  /\ IF socket THEN Fault ELSE UNCHANGED faults
  /\ UNCHANGED <<socket, toDevice>>
=============================================================================
