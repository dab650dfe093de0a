--------------------------- MODULE BackendCommands ---------------------------
(***************************************************************************)
(* The backend's side of a remote command: OperationService accepts it,    *)
(* DeviceCommandDispatcher delivers it, DeviceMessageService closes it.    *)
(*                                                                         *)
(* row      device_command_delivery.status, "ABSENT" before the request    *)
(* sent     device_command_delivery.sent_at IS NOT NULL                    *)
(* age      0 before the command's expiresAt, 1 after it, 2 after the      *)
(*          180 s a hazard task is given once it is sent                   *)
(* sending  the command the dispatcher thread is between marking SENT and  *)
(*          handing to the channel, NoCommand otherwise                    *)
(***************************************************************************)
EXTENDS DeviceLink

CONSTANTS
  NoCommand,     \* no command
  ResetOnStartup \* deni.demo.reset-on-startup

ASSUME BackendAssumption ==
  /\ NoCommand \notin Commands
  /\ ResetOnStartup \in BOOLEAN

VARIABLES row, sent, age, sending

backendVars == <<row, sent, age, sending>>

AwaitingResult == {"SENT", "DELIVERED", "UNKNOWN"}
Outstanding == {"QUEUED"} \cup AwaitingResult
RowStatus == {"ABSENT", "EXPIRED"} \cup Outstanding \cup Verdict

BackendTypeOK ==
  /\ row \in [Commands -> RowStatus]
  /\ sent \subseteq Commands
  /\ age \in [Commands -> 0..2]
  /\ sending \in Commands \cup {NoCommand}

BackendInit ==
  /\ row = [c \in Commands |-> "ABSENT"]
  /\ sent = {}
  /\ age = [c \in Commands |-> 0]
  /\ sending = NoCommand

\* Mutant: the busy test of queueAction forgets rows whose outcome is unknown.
RequestCommandForgetsUnknown(c) ==
  /\ row[c] = "ABSENT"
  /\ channel
  /\ c \in HazardTasks => \A d \in HazardTasks : row[d] \notin {"QUEUED", "SENT", "DELIVERED"}
  /\ row' = [row EXCEPT ![c] = "QUEUED"]
  /\ UNCHANGED <<sent, age, sending, linkVars>>

\* requestCommand; requestRemovalCheck and requestRelocation also pass queueAction.
RequestCommand(c) ==
  /\ row[c] = "ABSENT"
  /\ channel
  /\ c \in HazardTasks => \A d \in HazardTasks : row[d] \notin Outstanding
  /\ row' = [row EXCEPT ![c] = "QUEUED"]
  /\ UNCHANGED <<sent, age, sending, linkVars>>

\* The row's expires_at: sending a hazard task pushes it 180 s ahead.
Overdue(c) == age[c] >= IF row[c] = "QUEUED" \/ c \notin HazardTasks THEN 1 ELSE 2

TimePasses(c) ==
  /\ row[c] \in Outstanding
  /\ ~Overdue(c)
  /\ age' = [age EXCEPT ![c] = @ + 1]
  /\ UNCHANGED <<row, sent, sending, linkVars>>

\* One UPDATE at the head of every dispatcher pass.
ExpireOverdue ==
  /\ sending = NoCommand
  /\ \E c \in Commands : row[c] \in {"QUEUED", "SENT", "DELIVERED"} /\ Overdue(c)
  /\ row' = [c \in Commands |->
               IF row[c] \in {"QUEUED", "SENT", "DELIVERED"} /\ Overdue(c)
               THEN IF row[c] = "QUEUED" THEN "EXPIRED" ELSE "UNKNOWN"
               ELSE row[c]]
  /\ UNCHANGED <<sent, age, sending, linkVars>>

\* UPDATE ... SET status='SENT' WHERE status='QUEUED' AND expires_at>now, committed
\* before the frame is handed to the channel.
MarkSent(c) ==
  /\ sending = NoCommand
  /\ channel
  /\ row[c] = "QUEUED" /\ ~Overdue(c)
  /\ row' = [row EXCEPT ![c] = "SENT"]
  /\ sent' = sent \cup {c}
  /\ sending' = c
  /\ UNCHANGED <<age, linkVars>>

SendCommand(c) ==
  /\ sending = c
  /\ channel
  /\ sending' = NoCommand
  /\ toDevice' = WithDeviceFrames({Command(c)})
  /\ UNCHANGED <<row, sent, age, channel, socket, toBackend, faults>>

\* The session is gone, or sendMessage throws with the frame delivered or not; an
\* answer that is already in keeps its status.
SendFails(c) ==
  /\ sending = c
  /\ sending' = NoCommand
  /\ row' = [row EXCEPT ![c] = IF @ = "SENT" THEN "UNKNOWN" ELSE @]
  /\ \/ ~channel /\ UNCHANGED linkVars
     \/ /\ channel /\ Fault
        /\ \E frames \in {{}, {Command(c)}} : toDevice' = WithDeviceFrames(frames)
        /\ UNCHANGED <<channel, socket, toBackend>>
  /\ UNCHANGED <<sent, age>>

\* A status query is not an executable COMMAND; COMMAND itself is never sent again.
RecoverUnknown(c) ==
  /\ sending = NoCommand
  /\ channel
  /\ row[c] = "UNKNOWN" /\ c \in sent
  /\ toDevice' = WithDeviceFrames({StatusQuery(c)})
  /\ UNCHANGED <<backendVars, channel, socket, toBackend, faults>>

\* Mutant: the UPDATE of COMMAND_ACK has no condition on the status.
ReceiveAckOfAnyRow(c) ==
  /\ channel
  /\ Ack(c) \in toBackend
  /\ toBackend' = toBackend \ {Ack(c)}
  /\ row' = [row EXCEPT ![c] = "DELIVERED"]
  /\ UNCHANGED <<sent, age, sending, channel, socket, toDevice, faults>>

ReceiveAck(c) ==
  /\ channel
  /\ Ack(c) \in toBackend
  /\ toBackend' = toBackend \ {Ack(c)}
  /\ row' = [row EXCEPT ![c] = IF @ \in {"SENT", "DELIVERED"} THEN "DELIVERED" ELSE @]
  /\ UNCHANGED <<sent, age, sending, channel, socket, toDevice, faults>>

\* A result closes a row that awaits one, unless its completedAt precedes sent_at;
\* the same result again is only receipted; anything else is answered with ERROR.
ClosesRow(c) == row[c] \in AwaitingResult /\ c \notin Lagging

\* Mutant: a result that was stored before is refused instead of receipted again.
ReceiveResultOnce(c, status) ==
  /\ channel
  /\ Result(c, status) \in toBackend
  /\ toBackend' = toBackend \ {Result(c, status)}
  /\ row' = [row EXCEPT ![c] = IF ClosesRow(c) THEN status ELSE @]
  /\ toDevice' = IF ClosesRow(c) THEN WithDeviceFrames({Receipt(c)}) ELSE toDevice
  /\ UNCHANGED <<sent, age, sending, channel, socket, faults>>

ReceiveResult(c, status) ==
  /\ channel
  /\ Result(c, status) \in toBackend
  /\ toBackend' = toBackend \ {Result(c, status)}
  /\ row' = [row EXCEPT ![c] = IF ClosesRow(c) THEN status ELSE @]
  /\ toDevice' = IF ClosesRow(c) \/ row[c] = status
                 THEN WithDeviceFrames({Receipt(c)})
                 ELSE toDevice
  /\ UNCHANGED <<sent, age, sending, channel, socket, faults>>

\* The backend process restarts; DemoSessionReset runs first when it is configured.
BackendRestart ==
  /\ Fault
  /\ channel' = FALSE
  /\ toBackend' = {}
  /\ sending' = NoCommand
  /\ row' = [c \in Commands |->
               IF ResetOnStartup /\ row[c] \in Outstanding THEN "EXPIRED" ELSE row[c]]
  /\ UNCHANGED <<sent, age, socket, toDevice>>

BackendNext ==
  \/ \E c \in Commands :
       \/ RequestCommand(c)
       \/ TimePasses(c)
       \/ MarkSent(c)
       \/ SendCommand(c)
       \/ SendFails(c)
       \/ RecoverUnknown(c)
       \/ ReceiveAck(c)
       \/ \E status \in Verdict : ReceiveResult(c, status)
  \/ ExpireOverdue
  \/ BackendRestart
=============================================================================
