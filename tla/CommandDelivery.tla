--------------------------- MODULE CommandDelivery ---------------------------
(***************************************************************************)
(* The life of remote commands end to end: the backend's rows, the socket  *)
(* and the robot's journal together, under dropped connections, crashes of *)
(* the robot process, restarts of the backend and raising handlers.        *)
(***************************************************************************)
EXTENDS BackendCommands, BridgeJournal

vars == <<linkVars, backendVars, bridgeVars>>

Init == LinkInit /\ BackendInit /\ BridgeInit

\* The robot judges expiresAt by its own clock.
InTime(c) == age[c] = 0 \/ c \in Lagging

Link ==
  \/ up /\ Connect /\ UNCHANGED <<backendVars, bridgeVars>>
  \/ SessionLost /\ UNCHANGED <<backendVars, bridgeVars>>
  \/ BridgeSocketLost /\ UNCHANGED backendVars

Backend == BackendNext /\ UNCHANGED bridgeVars

Bridge ==
  /\ \/ \E c \in Commands :
          \/ ReceiveCommand(c, InTime(c))
          \/ ReceiveStatusQuery(c)
          \/ ReceiveReceipt(c)
          \/ AckRaises(c)
          \/ JournalStart(c)
          \/ Execute(c)
          \/ \E status \in Verdict : RobotSettles(c, status)
          \/ HandlerReturns(c)
          \/ HandlerFaults(c)
          \/ HandlerRaises(c)
          \/ RecoverReturns(c)
          \/ ReportResult(c)
          \/ Resend(c)
     \/ RobotStops
     \/ RobotMoves
     \/ ProcessCrash
     \/ ProcessStart
  /\ UNCHANGED backendVars

Next == Link \/ Backend \/ Bridge

Spec == Init /\ [][Next]_vars

TypeOK == LinkTypeOK /\ BackendTypeOK /\ BridgeTypeOK

-----------------------------------------------------------------------------
(* Safety *)

\* A physical task is begun at most once, however often its command, its status query
\* or the process comes back (bridge.py handle, recover_result, __init__).
AtMostOnce == \A c \in Commands : runs[c] <= 1

\* A task that was begun is never forgotten: the journal holds it as started until it
\* holds its verdict, across every crash point between the three writes of handle.
NoForgottenRun == \A c \in Commands : runs[c] > 0 => c \in started \/ result[c] # "NONE"

\* What the backend tells the parent is what the robot's journal says, for good.
BackendAgrees == \A c \in Commands : row[c] \in Verdict => result[c] = row[c]

\* The robot stops repeating a verdict only once the backend has it: no receipt for a
\* frame lost with its connection may clear pending_results.
KeptUntilStored ==
  \A c \in Commands : result[c] # "NONE" /\ c \notin pending => row[c] = result[c]

\* A device never has two unsettled hazard tasks (queueAction counts UNKNOWN as busy).
OneHazardTask ==
  \A c, d \in HazardTasks : row[c] \in Outstanding /\ row[d] \in Outstanding => c = d

\* EXPIRED tells the parent that the command was closed before it was sent, so the
\* robot has not begun it and never will (a sent command can only become UNKNOWN).
ExpiredNeverRan == \A c \in Commands : row[c] = "EXPIRED" => runs[c] = 0

-----------------------------------------------------------------------------
(* The promise to the parent, as an abstract specification *)

told(c) == IF row[c] \in {"QUEUED", "SENT", "DELIVERED"} THEN "REQUESTED" ELSE row[c]

life == [c \in Commands |-> [runs |-> runs[c], verdict |-> result[c], told |-> told(c)]]

Outcome == INSTANCE CommandOutcome WITH Commands <- Commands, life <- life

\* Every step of the system is a step of CommandOutcome or leaves it unchanged.
OutcomeSpec == Outcome!Spec

-----------------------------------------------------------------------------
(* Liveness *)

(***************************************************************************)
(* The dispatcher is scheduled every 500 ms; a broken connection is        *)
(* noticed by ping timeouts and reopened with a bounded back-off; asyncio  *)
(* and the socket handler run every task and frame they have; and the      *)
(* controller has a timeout for every action and control command.          *)
(* Parents, faults and the operator who starts a dead process again are    *)
(* not fair: the properties assume a process that stays up where they      *)
(* need one.                                                               *)
(***************************************************************************)
Fairness ==
  /\ WF_vars(up /\ Connect /\ UNCHANGED <<backendVars, bridgeVars>>)
  /\ WF_vars(~socket /\ SessionLost /\ UNCHANGED <<backendVars, bridgeVars>>)
  /\ WF_vars(~channel /\ BridgeSocketLost /\ UNCHANGED backendVars)
  /\ WF_vars(ExpireOverdue /\ UNCHANGED bridgeVars)
  /\ \A c \in Commands :
       /\ WF_vars(TimePasses(c) /\ UNCHANGED bridgeVars)
       /\ WF_vars((SendCommand(c) \/ SendFails(c)) /\ UNCHANGED bridgeVars)
       /\ WF_vars(RecoverUnknown(c) /\ UNCHANGED bridgeVars)
       /\ \A status \in Verdict : WF_vars(ReceiveResult(c, status) /\ UNCHANGED bridgeVars)
       /\ WF_vars(ReceiveStatusQuery(c) /\ UNCHANGED backendVars)
       /\ WF_vars(ReceiveReceipt(c) /\ UNCHANGED backendVars)
       /\ WF_vars((AckRaises(c) \/ JournalStart(c) \/ Execute(c) \/ HandlerReturns(c)
                     \/ RecoverReturns(c) \/ ReportResult(c)) /\ UNCHANGED backendVars)
       /\ WF_vars((\E status \in Verdict : RobotSettles(c, status)) /\ UNCHANGED backendVars)
       /\ WF_vars(Resend(c) /\ UNCHANGED backendVars)

FairSpec == Spec /\ Fairness

\* Once the robot is up for good and comes to rest, every UNKNOWN row gets its verdict.
UnknownIsSettled ==
  <>[](up /\ still) => \A c \in Commands : row[c] = "UNKNOWN" ~> row[c] \in Verdict

\* Every verdict the robot still repeats is receipted in the end, if it stays up.
PendingDrains == (<>[]up) => \A c \in Commands : c \in pending ~> c \notin pending
=============================================================================
