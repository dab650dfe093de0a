------------------------ MODULE CommandDeliveryProofs ------------------------
(***************************************************************************)
(* The safety of remote commands, for every set of commands and any number *)
(* of faults.  The inductive invariant IInv adds to the properties what    *)
(* the journal, the task stages and the frames on their way have to do     *)
(* with each other.                                                        *)
(***************************************************************************)
EXTENDS CommandDelivery, TLAPS

\* What the stage of a task says about the journal; only what has a verdict is
\* repeated; and what has run is in the journal.
JournalOf(c) ==
  /\ task[c] = "acking" => c \notin started /\ result[c] = "NONE" /\ runs[c] = 0
  /\ task[c] = "starting" => c \in started /\ result[c] = "NONE" /\ runs[c] = 0
  /\ task[c] = "executing" => c \in started /\ result[c] = "NONE"
  /\ task[c] = "recovering" => result[c] = "NONE"
  /\ task[c] = "reporting" => result[c] # "NONE"
  /\ ~up => task[c] = "none"
  /\ c \in pending => result[c] # "NONE"
  /\ runs[c] <= 1
  /\ runs[c] > 0 => c \in started \/ result[c] # "NONE"

\* A result frame says what the journal says, a receipt means that the backend has
\* stored a verdict, and what it has stored is the journal's.
AgreeOf(c) ==
  /\ \A status \in Verdict : Result(c, status) \in toBackend => result[c] = status
  /\ Receipt(c) \in toDevice => row[c] \in Verdict
  /\ row[c] \in Verdict => result[c] = row[c]
  /\ result[c] # "NONE" /\ c \notin pending => row[c] = result[c]

\* The robot knows nothing of a command that was never sent.
SentOf(c) ==
  /\ c \notin sent => /\ Command(c) \notin toDevice
                      /\ StatusQuery(c) \notin toDevice
                      /\ task[c] = "none"
                      /\ c \notin started
                      /\ result[c] = "NONE"
                      /\ runs[c] = 0
  /\ sending = c => c \in sent
  /\ row[c] \in {"ABSENT", "QUEUED"} => c \notin sent
  /\ ~ResetOnStartup /\ row[c] = "EXPIRED" => c \notin sent

JournalInv == \A c \in Commands : JournalOf(c)
AgreeInv == \A c \in Commands : AgreeOf(c)
SentInv == \A c \in Commands : SentOf(c)

\* The controller succeeds, or is busy, only with what it has begun.
RobotInv == \A c \in Commands : robot[c] \in {"busy", "SUCCEEDED"} => runs[c] > 0

IInv == TypeOK /\ JournalInv /\ AgreeInv /\ SentInv /\ RobotInv /\ OneHazardTask

USE DEF Verdict

-----------------------------------------------------------------------------
(* What one step does to each piece of state *)

\* Frames of different kinds or of different commands are different.
LEMMA FramesDiffer ==
  ASSUME NEW c \in Commands, NEW d \in Commands, NEW s, NEW t
  PROVE  /\ Command(c) # StatusQuery(d)
         /\ Command(c) # Receipt(d)
         /\ StatusQuery(c) # Receipt(d)
         /\ Ack(c) # Result(d, t)
         /\ Command(c) = Command(d) => c = d
         /\ StatusQuery(c) = StatusQuery(d) => c = d
         /\ Receipt(c) = Receipt(d) => c = d
         /\ Result(c, s) = Result(d, t) => c = d /\ s = t
BY DEF Command, StatusQuery, Receipt, Ack, Result

\* Every frame the two ends send is of the kinds the other end handles.
LEMMA FramesTyped ==
  ASSUME NEW c \in Commands
  PROVE  /\ Command(c) \in DeviceFrames
         /\ StatusQuery(c) \in DeviceFrames
         /\ Receipt(c) \in DeviceFrames
         /\ Ack(c) \in BackendFrames
         /\ \A s \in Verdict : Result(c, s) \in BackendFrames
BY DEF Command, StatusQuery, Receipt, Ack, Result, DeviceFrames, BackendFrames

LEMMA InitIInv == Init => IInv
<1> SUFFICES ASSUME Init PROVE IInv
  OBVIOUS
<1> USE DEF Init, LinkInit, BackendInit, BridgeInit
<1>1. TypeOK
  <2>1. LinkTypeOK
    <3>1. faults \in 0..MaxFaults
      BY CommandsAssumption DEF CommandsAssumption
    <3>2. QED
      BY <3>1 DEF LinkTypeOK
  <2>2. BackendTypeOK
    BY DEF BackendTypeOK, RowStatus
  <2>3. BridgeTypeOK
    BY DEF BridgeTypeOK, Stage
  <2>4. QED
    BY <2>1, <2>2, <2>3 DEF TypeOK
<1>2. JournalInv
  BY DEF JournalInv, JournalOf
<1>3. AgreeInv /\ RobotInv
  BY DEF AgreeInv, AgreeOf, RobotInv
<1>4. SentInv /\ OneHazardTask
  BY CommandsAssumption, BackendAssumption
  DEF CommandsAssumption, BackendAssumption, SentInv, SentOf, OneHazardTask, Outstanding,
      AwaitingResult
<1>5. QED
  BY <1>1, <1>2, <1>3, <1>4 DEF IInv

\* What a bridge sends can only be a frame the backend knows.
LEMMA BackendFramesKept ==
  ASSUME LinkTypeOK, NEW frames \in SUBSET BackendFrames
  PROVE  WithBackendFrames(frames) \subseteq BackendFrames
BY DEF LinkTypeOK, WithBackendFrames

LEMMA DeviceFramesKept ==
  ASSUME LinkTypeOK, NEW frames \in SUBSET DeviceFrames
  PROVE  WithDeviceFrames(frames) \subseteq DeviceFrames
BY DEF LinkTypeOK, WithDeviceFrames

LEMMA FaultTyped ==
  ASSUME LinkTypeOK, Fault
  PROVE  faults' \in 0..MaxFaults
BY CommandsAssumption DEF CommandsAssumption, LinkTypeOK, Fault

\* A link step keeps the types.
LEMMA LinkStepTyped == TypeOK /\ Link => TypeOK'
<1> SUFFICES ASSUME TypeOK, Link PROVE TypeOK'
  OBVIOUS
<1> USE DEF TypeOK
<1>1. CASE up /\ Connect /\ UNCHANGED <<backendVars, bridgeVars>>
  <2>1. LinkTypeOK'
    BY <1>1 DEF LinkTypeOK, Connect
  <2>2. BackendTypeOK' /\ BridgeTypeOK'
    BY <1>1 DEF BackendTypeOK, BridgeTypeOK, backendVars, bridgeVars, journalVars
  <2>3. QED
    BY <2>1, <2>2
<1>2. CASE SessionLost /\ UNCHANGED <<backendVars, bridgeVars>>
  <2>1. LinkTypeOK'
    BY <1>2, FaultTyped DEF LinkTypeOK, SessionLost
  <2>2. BackendTypeOK' /\ BridgeTypeOK'
    BY <1>2 DEF BackendTypeOK, BridgeTypeOK, backendVars, bridgeVars, journalVars
  <2>3. QED
    BY <2>1, <2>2
<1>3. CASE BridgeSocketLost /\ UNCHANGED backendVars
  <2>1. LinkTypeOK'
    BY <1>3, FaultTyped DEF LinkTypeOK, BridgeSocketLost, SocketLost
  <2>2. BackendTypeOK' /\ BridgeTypeOK'
    BY <1>3
    DEF BackendTypeOK, BridgeTypeOK, BridgeSocketLost, inflight, backendVars, journalVars
  <2>3. QED
    BY <2>1, <2>2
<1>4. QED
  BY <1>1, <1>2, <1>3 DEF Link

\* A backend step keeps the types.
LEMMA BackendStepTyped == TypeOK /\ Backend => TypeOK'
<1> SUFFICES ASSUME TypeOK, BackendNext, UNCHANGED bridgeVars PROVE TypeOK'
  BY DEF Backend
<1>1. BridgeTypeOK'
  BY DEF TypeOK, BridgeTypeOK, bridgeVars, journalVars
<1> SUFFICES ASSUME LinkTypeOK, BackendTypeOK PROVE LinkTypeOK' /\ BackendTypeOK'
  BY <1>1 DEF TypeOK
<1> USE DEF BackendTypeOK, RowStatus, Outstanding, AwaitingResult
<1>2. ASSUME NEW c \in Commands, RequestCommand(c) PROVE LinkTypeOK' /\ BackendTypeOK'
  BY <1>2 DEF RequestCommand, LinkTypeOK, linkVars
<1>3. ASSUME NEW c \in Commands, TimePasses(c) PROVE LinkTypeOK' /\ BackendTypeOK'
  <2>1. age[c] + 1 \in 0..2
    BY <1>3 DEF TimePasses, Overdue
  <2>2. QED
    BY <1>3, <2>1 DEF TimePasses, LinkTypeOK, linkVars
<1>4. ASSUME NEW c \in Commands, MarkSent(c) PROVE LinkTypeOK' /\ BackendTypeOK'
  BY <1>4 DEF MarkSent, LinkTypeOK, linkVars
<1>5. ASSUME NEW c \in Commands, SendCommand(c) PROVE LinkTypeOK' /\ BackendTypeOK'
  BY <1>5, FramesTyped, DeviceFramesKept DEF SendCommand, LinkTypeOK
<1>6. ASSUME NEW c \in Commands, SendFails(c) PROVE LinkTypeOK' /\ BackendTypeOK'
  <2>1. BackendTypeOK'
    BY <1>6 DEF SendFails
  <2>2. LinkTypeOK'
    BY <1>6, FaultTyped, FramesTyped, DeviceFramesKept DEF SendFails, LinkTypeOK, linkVars
  <2>3. QED
    BY <2>1, <2>2
<1>7. ASSUME NEW c \in Commands, RecoverUnknown(c) PROVE LinkTypeOK' /\ BackendTypeOK'
  BY <1>7, FramesTyped, DeviceFramesKept DEF RecoverUnknown, LinkTypeOK, backendVars
<1>8. ASSUME NEW c \in Commands, ReceiveAck(c) PROVE LinkTypeOK' /\ BackendTypeOK'
  BY <1>8 DEF ReceiveAck, LinkTypeOK
<1>9. ASSUME NEW c \in Commands, NEW status \in Verdict, ReceiveResult(c, status)
      PROVE  LinkTypeOK' /\ BackendTypeOK'
  BY <1>9, FramesTyped, DeviceFramesKept DEF ReceiveResult, LinkTypeOK
<1>10. CASE ExpireOverdue
  BY <1>10 DEF ExpireOverdue, LinkTypeOK, linkVars
<1>11. CASE BackendRestart
  BY <1>11, FaultTyped DEF BackendRestart, LinkTypeOK
<1>12. QED
  BY <1>2, <1>3, <1>4, <1>5, <1>6, <1>7, <1>8, <1>9, <1>10, <1>11 DEF BackendNext

\* Where a verdict is journalled or reported there is one.
LEMMA JournalTyped ==
  ASSUME BridgeTypeOK, NEW c \in Commands, NEW status \in Verdict, Journal(c, status)
  PROVE  /\ result' \in [Commands -> Verdict \cup {"NONE"}]
         /\ pending' \subseteq Commands
         /\ started' \subseteq Commands
BY DEF BridgeTypeOK, Journal

LEMMA TaskTyped ==
  ASSUME BridgeTypeOK, NEW c \in Commands
  PROVE  /\ \A stage \in Stage :
              Begin(c, stage) => task' \in [Commands -> Stage] /\ orphan' \subseteq Commands
         /\ Finish(c) => task' \in [Commands -> Stage] /\ orphan' \subseteq Commands
BY DEF BridgeTypeOK, Begin, Finish, Stage

\* A bridge step keeps the types; what it reports is a verdict.
LEMMA BridgeStepTyped == TypeOK /\ JournalInv /\ Bridge => TypeOK'
<1> SUFFICES ASSUME TypeOK, JournalInv, Bridge PROVE TypeOK'
  OBVIOUS
<1>1. BackendTypeOK'
  BY DEF TypeOK, BackendTypeOK, Bridge, backendVars
<1> SUFFICES ASSUME LinkTypeOK, BridgeTypeOK PROVE LinkTypeOK' /\ BridgeTypeOK'
  BY <1>1 DEF TypeOK
<1>2. ASSUME NEW c \in Commands, ReceiveCommand(c, InTime(c)) PROVE LinkTypeOK' /\ BridgeTypeOK'
  <2>1. LinkTypeOK'
    BY <1>2, FramesTyped, BackendFramesKept
    DEF ReceiveCommand, Incoming, LinkTypeOK, BridgeTypeOK
  <2>2. BridgeTypeOK'
    BY <1>2, TaskTyped DEF ReceiveCommand, BridgeTypeOK, journalVars, Stage
  <2>3. QED
    BY <2>1, <2>2
<1>3. ASSUME NEW c \in Commands, ReceiveStatusQuery(c) PROVE LinkTypeOK' /\ BridgeTypeOK'
  <2>1. LinkTypeOK'
    BY <1>3, FramesTyped, BackendFramesKept
    DEF ReceiveStatusQuery, Incoming, LinkTypeOK, BridgeTypeOK
  <2>2. BridgeTypeOK'
    BY <1>3, TaskTyped DEF ReceiveStatusQuery, BridgeTypeOK, journalVars, Stage
  <2>3. QED
    BY <2>1, <2>2
<1>4. ASSUME NEW c \in Commands, ReceiveReceipt(c) PROVE LinkTypeOK' /\ BridgeTypeOK'
  BY <1>4 DEF ReceiveReceipt, Incoming, LinkTypeOK, BridgeTypeOK
<1>5. ASSUME NEW c \in Commands, AckRaises(c) PROVE LinkTypeOK' /\ BridgeTypeOK'
  BY <1>5, TaskTyped DEF AckRaises, LinkTypeOK, BridgeTypeOK, linkVars, journalVars
<1>6. ASSUME NEW c \in Commands, JournalStart(c) PROVE LinkTypeOK' /\ BridgeTypeOK'
  BY <1>6 DEF JournalStart, LinkTypeOK, BridgeTypeOK, linkVars, Stage
<1>7. ASSUME NEW c \in Commands, Execute(c) PROVE LinkTypeOK' /\ BridgeTypeOK'
  <2>1. runs' \in [Commands -> Nat] /\ robot' \in [Commands -> {"idle", "busy"} \cup Verdict]
    BY <1>7 DEF Execute, BridgeTypeOK
  <2>2. QED
    BY <1>7, <2>1 DEF Execute, LinkTypeOK, BridgeTypeOK, linkVars, journalVars, Stage
<1>8. ASSUME NEW c \in Commands, NEW status \in Verdict, RobotSettles(c, status)
      PROVE  LinkTypeOK' /\ BridgeTypeOK'
  BY <1>8 DEF RobotSettles, LinkTypeOK, BridgeTypeOK, linkVars, journalVars
<1>9. ASSUME NEW c \in Commands, HandlerReturns(c) PROVE LinkTypeOK' /\ BridgeTypeOK'
  BY <1>9, JournalTyped DEF HandlerReturns, LinkTypeOK, BridgeTypeOK, linkVars, Stage
<1>10. ASSUME NEW c \in Commands, HandlerFaults(c) PROVE LinkTypeOK' /\ BridgeTypeOK'
  BY <1>10, JournalTyped, FaultTyped DEF HandlerFaults, LinkTypeOK, BridgeTypeOK, Stage
<1>11. ASSUME NEW c \in Commands, HandlerRaises(c) PROVE LinkTypeOK' /\ BridgeTypeOK'
  BY <1>11, TaskTyped, FaultTyped DEF HandlerRaises, LinkTypeOK, BridgeTypeOK, journalVars
<1>12. ASSUME NEW c \in Commands, RecoverReturns(c) PROVE LinkTypeOK' /\ BridgeTypeOK'
  <2>1. robot' \in [Commands -> {"idle", "busy"} \cup Verdict]
    BY <1>12 DEF RecoverReturns, BridgeTypeOK
  <2>2. CASE Finish(c) /\ UNCHANGED journalVars
    BY <1>12, <2>1, <2>2, TaskTyped
    DEF RecoverReturns, LinkTypeOK, BridgeTypeOK, linkVars, journalVars
  <2>3. CASE /\ \E status \in Verdict : Journal(c, status)
             /\ task' = [task EXCEPT ![c] = "reporting"]
             /\ UNCHANGED orphan
    BY <1>12, <2>1, <2>3, JournalTyped
    DEF RecoverReturns, LinkTypeOK, BridgeTypeOK, linkVars, Stage
  <2>4. QED
    BY <1>12, <2>2, <2>3 DEF RecoverReturns, BridgeTypeOK
<1>13. ASSUME NEW c \in Commands, ReportResult(c) PROVE LinkTypeOK' /\ BridgeTypeOK'
  <2>1. result[c] \in Verdict
    BY <1>13 DEF ReportResult, JournalInv, JournalOf, BridgeTypeOK
  <2>2. QED
    BY <1>13, <2>1, TaskTyped, FramesTyped, BackendFramesKept
    DEF ReportResult, LinkTypeOK, BridgeTypeOK, journalVars
<1>14. ASSUME NEW c \in Commands, Resend(c) PROVE LinkTypeOK' /\ BridgeTypeOK'
  <2>1. result[c] \in Verdict
    BY <1>14 DEF Resend, JournalInv, JournalOf, BridgeTypeOK
  <2>2. QED
    BY <1>14, <2>1, FramesTyped, BackendFramesKept
    DEF Resend, LinkTypeOK, BridgeTypeOK, bridgeVars, journalVars
<1>15. CASE RobotStops \/ RobotMoves
  BY <1>15 DEF RobotStops, RobotMoves, LinkTypeOK, BridgeTypeOK, linkVars, journalVars
<1>16. CASE ProcessCrash
  BY <1>16, FaultTyped DEF ProcessCrash, LinkTypeOK, BridgeTypeOK, journalVars, Stage
<1>17. CASE ProcessStart
  BY <1>17 DEF ProcessStart, LinkTypeOK, BridgeTypeOK, linkVars
<1>18. QED
  BY <1>2, <1>3, <1>4, <1>5, <1>6, <1>7, <1>8, <1>9, <1>10, <1>11, <1>12, <1>13, <1>14,
     <1>15, <1>16, <1>17 DEF Bridge

-----------------------------------------------------------------------------
(* The robot's journal *)

\* No step of the robot process breaks its journal, and no verdict is ever revised.
LEMMA BridgeJournals ==
  ASSUME TypeOK, JournalInv, Bridge, NEW d \in Commands
  PROVE  JournalOf(d)' /\ (result[d] # "NONE" => result'[d] = result[d])
<1>1. JournalOf(d)
  BY DEF JournalInv
<1> USE <1>1 DEF JournalOf, TypeOK, BridgeTypeOK, Stage
<1> DEFINE Goal == JournalOf(d)' /\ (result[d] # "NONE" => result'[d] = result[d])
<1>2. ASSUME NEW c \in Commands, ReceiveCommand(c, InTime(c)) PROVE Goal
  BY <1>2 DEF ReceiveCommand, Incoming, Begin, inflight, journalVars
<1>3. ASSUME NEW c \in Commands, ReceiveStatusQuery(c) PROVE Goal
  BY <1>3 DEF ReceiveStatusQuery, Incoming, Begin, inflight, journalVars
<1>4. ASSUME NEW c \in Commands, ReceiveReceipt(c) PROVE Goal
  BY <1>4 DEF ReceiveReceipt
<1>5. ASSUME NEW c \in Commands, AckRaises(c) PROVE Goal
  BY <1>5 DEF AckRaises, Finish, journalVars
<1>6. ASSUME NEW c \in Commands, JournalStart(c) PROVE Goal
  BY <1>6 DEF JournalStart
<1>7. ASSUME NEW c \in Commands, Execute(c) PROVE Goal
  BY <1>7 DEF Execute, journalVars
<1>8. ASSUME NEW c \in Commands, NEW status \in Verdict, RobotSettles(c, status) PROVE Goal
  BY <1>8 DEF RobotSettles, journalVars
<1>9. ASSUME NEW c \in Commands, HandlerReturns(c) PROVE Goal
  BY <1>9 DEF HandlerReturns, Journal
<1>10. ASSUME NEW c \in Commands, HandlerFaults(c) PROVE Goal
  BY <1>10 DEF HandlerFaults, Journal
<1>11. ASSUME NEW c \in Commands, HandlerRaises(c) PROVE Goal
  BY <1>11 DEF HandlerRaises, Finish, journalVars
<1>12. ASSUME NEW c \in Commands, RecoverReturns(c) PROVE Goal
  BY <1>12 DEF RecoverReturns, Journal, Finish, journalVars
<1>13. ASSUME NEW c \in Commands, ReportResult(c) PROVE Goal
  BY <1>13 DEF ReportResult, Finish, journalVars
<1>14. ASSUME NEW c \in Commands, Resend(c) PROVE Goal
  BY <1>14 DEF Resend, bridgeVars, journalVars
<1>15. CASE RobotStops \/ RobotMoves
  BY <1>15 DEF RobotStops, RobotMoves, journalVars
<1>16. CASE ProcessCrash
  BY <1>16 DEF ProcessCrash, journalVars
<1>17. CASE ProcessStart
  BY <1>17 DEF ProcessStart
<1>18. QED
  BY <1>2, <1>3, <1>4, <1>5, <1>6, <1>7, <1>8, <1>9, <1>10, <1>11, <1>12, <1>13, <1>14,
     <1>15, <1>16, <1>17
  DEF Bridge

\* A step that is not the robot's leaves its journal as it is.
LEMMA JournalUntouched ==
  ASSUME Link \/ Backend \/ UNCHANGED vars
  PROVE  /\ UNCHANGED <<up, started, result, pending, task, runs>>
BY DEF Link, Backend, vars, bridgeVars, journalVars, BridgeSocketLost

LEMMA JournalStep ==
  ASSUME TypeOK, JournalInv, [Next]_vars
  PROVE  JournalInv' /\ \A c \in Commands : result[c] # "NONE" => result'[c] = result[c]
<1>1. CASE Bridge
  BY <1>1, BridgeJournals DEF JournalInv
<1>2. CASE Link \/ Backend \/ UNCHANGED vars
  BY <1>2, JournalUntouched DEF JournalInv, JournalOf
<1>3. QED
  BY <1>1, <1>2 DEF Next

-----------------------------------------------------------------------------
(* What the two ends tell each other *)

\* Links only lose frames.
LEMMA LinkAgrees ==
  ASSUME Link, NEW d \in Commands, AgreeOf(d)
  PROVE  AgreeOf(d)'
<1>1. /\ \A frame \in toBackend' : frame \in toBackend
      /\ \A frame \in toDevice' : frame \in toDevice
      /\ UNCHANGED <<row, result, pending>>
  BY DEF Link, Connect, SessionLost, BridgeSocketLost, SocketLost, backendVars, bridgeVars,
      journalVars
<1>2. QED
  BY <1>1 DEF AgreeOf

\* The backend stores, and receipts, only what a result frame said.
LEMMA BackendStepAgrees ==
  ASSUME TypeOK, Backend, NEW d \in Commands, AgreeOf(d)
  PROVE  AgreeOf(d)'
<1>1. UNCHANGED <<result, pending>>
  BY DEF Backend, bridgeVars, journalVars
<1>2. BackendNext
  BY DEF Backend
<1> DEFINE Quiet == /\ \A frame \in toBackend' : frame \in toBackend
                    /\ Receipt(d) \in toDevice' => Receipt(d) \in toDevice
                    /\ row[d] \in Verdict => row'[d] = row[d]
                    /\ row'[d] \in Verdict => row[d] \in Verdict
           Goal == AgreeOf(d)'
<1>3. Quiet => Goal
  BY <1>1 DEF AgreeOf, TypeOK, BridgeTypeOK
<1> USE DEF TypeOK, BackendTypeOK, Outstanding, AwaitingResult
<1>4. ASSUME NEW c \in Commands, RequestCommand(c) PROVE Goal
  BY <1>3, <1>4 DEF RequestCommand, linkVars
<1>5. ASSUME NEW c \in Commands, TimePasses(c) PROVE Goal
  BY <1>3, <1>5 DEF TimePasses, linkVars
<1>6. ASSUME NEW c \in Commands, MarkSent(c) PROVE Goal
  BY <1>3, <1>6 DEF MarkSent, linkVars
<1>7. ASSUME NEW c \in Commands, SendCommand(c) PROVE Goal
  BY <1>3, <1>7, FramesDiffer DEF SendCommand, WithDeviceFrames
<1>8. ASSUME NEW c \in Commands, SendFails(c) PROVE Goal
  BY <1>3, <1>8, FramesDiffer DEF SendFails, WithDeviceFrames, linkVars
<1>9. ASSUME NEW c \in Commands, RecoverUnknown(c) PROVE Goal
  BY <1>3, <1>9, FramesDiffer DEF RecoverUnknown, WithDeviceFrames, backendVars
<1>10. ASSUME NEW c \in Commands, ReceiveAck(c) PROVE Goal
  BY <1>3, <1>10 DEF ReceiveAck
<1>11. ASSUME NEW c \in Commands, NEW status \in Verdict, ReceiveResult(c, status) PROVE Goal
  <2>1. CASE c = d
    <3>1. result[d] = status
      BY <1>11, <2>1 DEF ReceiveResult, AgreeOf
    <3>2. Receipt(d) \in toDevice' => row'[d] = status
      BY <1>11, <2>1, <3>1 DEF ReceiveResult, AgreeOf, ClosesRow, WithDeviceFrames
    <3>3. QED
      BY <1>1, <1>11, <2>1, <3>1, <3>2 DEF ReceiveResult, AgreeOf, ClosesRow
  <2>2. CASE c # d
    BY <1>3, <1>11, <2>2, FramesDiffer DEF ReceiveResult, WithDeviceFrames
  <2>3. QED
    BY <2>1, <2>2
<1>12. CASE ExpireOverdue
  BY <1>3, <1>12 DEF ExpireOverdue, linkVars
<1>13. CASE BackendRestart
  BY <1>3, <1>13 DEF BackendRestart
<1>14. QED
  BY <1>2, <1>4, <1>5, <1>6, <1>7, <1>8, <1>9, <1>10, <1>11, <1>12, <1>13 DEF BackendNext

\* A verdict the robot reaches is new, and is kept to be repeated.
Reaches(c) == \E status \in Verdict : Journal(c, status)

\* Every result frame the robot sends is its verdict, and it forgets a verdict only
\* for a receipt.
LEMMA BridgeAgrees ==
  ASSUME TypeOK, JournalInv, Bridge, NEW d \in Commands, AgreeOf(d)
  PROVE  AgreeOf(d)'
<1>1. row' = row
  BY DEF Bridge, backendVars
<1>2. JournalOf(d)
  BY DEF JournalInv
<1> DEFINE Sends == \A status \in Verdict :
                      Result(d, status) \in toBackend' =>
                        Result(d, status) \in toBackend \/ result[d] = status
           Keeps == d \in pending => d \in pending'
           Quiet == /\ Sends /\ Keeps
                    /\ \A frame \in toDevice' : frame \in toDevice
                    /\ result'[d] = result[d]
           Goal == AgreeOf(d)'
<1>3. Quiet => Goal
  BY <1>1 DEF AgreeOf
<1>4. \/ row[d] \in Verdict
      \/ \E s \in Verdict : Result(d, s) \in toBackend
      \/ Receipt(d) \in toDevice
      => result[d] # "NONE"
  BY DEF AgreeOf, TypeOK, BridgeTypeOK
<1>5. ASSUME result[d] = "NONE", result'[d] # "NONE", d \in pending',
             toBackend' \subseteq toBackend, toDevice' \subseteq toDevice
      PROVE  Goal
  BY <1>1, <1>4, <1>5 DEF AgreeOf
<1>6. ASSUME NEW c \in Commands, result[c] = "NONE", Reaches(c),
             toBackend' \subseteq toBackend, toDevice' \subseteq toDevice
      PROVE  Goal
  <2>1. CASE c = d
    <3>1. result'[d] # "NONE" /\ d \in pending'
      BY <1>6, <2>1 DEF Reaches, Journal, TypeOK, BridgeTypeOK
    <3>2. QED
      BY <1>5, <1>6, <2>1, <3>1
  <2>2. CASE c # d
    BY <1>3, <1>6, <2>2 DEF Reaches, Journal, TypeOK, BridgeTypeOK
  <2>3. QED
    BY <2>1, <2>2
<1>7. ASSUME NEW c \in Commands PROVE JournalOf(c)
  BY DEF JournalInv
<1>8. ASSUME NEW c \in Commands, ReceiveCommand(c, InTime(c)) PROVE Goal
  BY <1>3, <1>8, FramesDiffer DEF ReceiveCommand, Incoming, WithBackendFrames, journalVars
<1>9. ASSUME NEW c \in Commands, ReceiveStatusQuery(c) PROVE Goal
  BY <1>3, <1>9, FramesDiffer DEF ReceiveStatusQuery, Incoming, WithBackendFrames, journalVars
<1>10. ASSUME NEW c \in Commands, ReceiveReceipt(c) PROVE Goal
  <2>1. UNCHANGED <<toBackend, result>> /\ toDevice' \subseteq toDevice /\ pending' = pending \ {c}
    BY <1>10 DEF ReceiveReceipt, Incoming
  <2>2. CASE c = d
    BY <1>1, <1>10, <2>1, <2>2 DEF ReceiveReceipt, Incoming, AgreeOf
  <2>3. CASE c # d
    BY <1>3, <2>1, <2>3
  <2>4. QED
    BY <2>2, <2>3
<1>11. ASSUME NEW c \in Commands, AckRaises(c) PROVE Goal
  BY <1>3, <1>11 DEF AckRaises, linkVars, journalVars
<1>12. ASSUME NEW c \in Commands, JournalStart(c) PROVE Goal
  BY <1>3, <1>12 DEF JournalStart, linkVars
<1>13. ASSUME NEW c \in Commands, Execute(c) PROVE Goal
  BY <1>3, <1>13 DEF Execute, linkVars, journalVars
<1>14. ASSUME NEW c \in Commands, NEW status \in Verdict, RobotSettles(c, status) PROVE Goal
  BY <1>3, <1>14 DEF RobotSettles, linkVars, journalVars
<1>15. ASSUME NEW c \in Commands, HandlerReturns(c) PROVE Goal
  BY <1>6, <1>7, <1>15 DEF HandlerReturns, Reaches, JournalOf, linkVars
<1>16. ASSUME NEW c \in Commands, HandlerFaults(c) PROVE Goal
  BY <1>6, <1>7, <1>16 DEF HandlerFaults, Reaches, JournalOf, linkVars
<1>17. ASSUME NEW c \in Commands, HandlerRaises(c) PROVE Goal
  BY <1>3, <1>17 DEF HandlerRaises, journalVars
<1>18. ASSUME NEW c \in Commands, RecoverReturns(c) PROVE Goal
  <2>1. CASE UNCHANGED journalVars
    BY <1>3, <1>18, <2>1 DEF RecoverReturns, linkVars, journalVars
  <2>2. CASE Reaches(c)
    BY <1>6, <1>7, <1>18, <2>2 DEF RecoverReturns, JournalOf, linkVars
  <2>3. QED
    BY <1>18, <2>1, <2>2 DEF RecoverReturns, Reaches, TypeOK, BridgeTypeOK
<1>19. ASSUME NEW c \in Commands, ReportResult(c) PROVE Goal
  BY <1>3, <1>19, FramesDiffer DEF ReportResult, WithBackendFrames, journalVars
<1>20. ASSUME NEW c \in Commands, Resend(c) PROVE Goal
  BY <1>3, <1>20, FramesDiffer DEF Resend, WithBackendFrames, bridgeVars, journalVars
<1>21. CASE RobotStops \/ RobotMoves
  BY <1>3, <1>21 DEF RobotStops, RobotMoves, linkVars, journalVars
<1>22. CASE ProcessCrash
  BY <1>3, <1>22 DEF ProcessCrash, journalVars
<1>23. CASE ProcessStart
  <2>1. CASE d \in started /\ result[d] = "NONE"
    BY <1>5, <1>23, <2>1 DEF ProcessStart, linkVars
  <2>2. CASE ~(d \in started /\ result[d] = "NONE")
    BY <1>3, <1>23, <2>2 DEF ProcessStart, linkVars, TypeOK, BridgeTypeOK
  <2>3. QED
    BY <2>1, <2>2
<1>24. QED
  BY <1>8, <1>9, <1>10, <1>11, <1>12, <1>13, <1>14, <1>15, <1>16, <1>17, <1>18, <1>19,
     <1>20, <1>21, <1>22, <1>23
  DEF Bridge

LEMMA AgreeStep ==
  ASSUME TypeOK, JournalInv, AgreeInv, [Next]_vars
  PROVE  AgreeInv'
<1>1. ASSUME NEW d \in Commands PROVE AgreeOf(d)'
  <2>1. AgreeOf(d)
    BY DEF AgreeInv
  <2>2. CASE UNCHANGED vars
    BY <2>1, <2>2 DEF AgreeOf, vars, linkVars, backendVars, bridgeVars, journalVars
  <2>3. QED
    BY <2>1, <2>2, LinkAgrees, BackendStepAgrees, BridgeAgrees DEF Next
<1>2. QED
  BY <1>1 DEF AgreeInv

-----------------------------------------------------------------------------
(* What the backend has sent, and what it waits for *)

LEMMA LinkSent ==
  ASSUME Link, NEW d \in Commands, SentOf(d)
  PROVE  SentOf(d)'
<1>1. /\ \A frame \in toDevice' : frame \in toDevice
      /\ UNCHANGED <<row, sent, sending, task, started, result, runs>>
  BY DEF Link, Connect, SessionLost, BridgeSocketLost, SocketLost, backendVars, bridgeVars,
      journalVars
<1>2. QED
  BY <1>1 DEF SentOf

\* A frame for the robot presupposes sent_at, which only MarkSent sets.
LEMMA BackendSent ==
  ASSUME TypeOK, Backend, NEW d \in Commands, SentOf(d)
  PROVE  SentOf(d)'
<1>1. UNCHANGED <<task, started, result, runs>>
  BY DEF Backend, bridgeVars, journalVars
<1>2. BackendNext
  BY DEF Backend
<1>3. NoCommand # d
  BY BackendAssumption DEF BackendAssumption
<1> DEFINE Goal == SentOf(d)'
<1> USE <1>1, <1>3 DEF SentOf, TypeOK, BackendTypeOK, Outstanding, AwaitingResult
<1>4. ASSUME NEW c \in Commands, RequestCommand(c) PROVE Goal
  BY <1>4 DEF RequestCommand, linkVars
<1>5. ASSUME NEW c \in Commands, TimePasses(c) PROVE Goal
  BY <1>5 DEF TimePasses, linkVars
<1>6. ASSUME NEW c \in Commands, MarkSent(c) PROVE Goal
  BY <1>6 DEF MarkSent, linkVars
<1>7. ASSUME NEW c \in Commands, SendCommand(c) PROVE Goal
  BY <1>7, FramesDiffer DEF SendCommand, WithDeviceFrames
<1>8. ASSUME NEW c \in Commands, SendFails(c) PROVE Goal
  BY <1>8, FramesDiffer DEF SendFails, WithDeviceFrames, linkVars
<1>9. ASSUME NEW c \in Commands, RecoverUnknown(c) PROVE Goal
  BY <1>9, FramesDiffer DEF RecoverUnknown, WithDeviceFrames, backendVars
<1>10. ASSUME NEW c \in Commands, ReceiveAck(c) PROVE Goal
  BY <1>10 DEF ReceiveAck
<1>11. ASSUME NEW c \in Commands, NEW status \in Verdict, ReceiveResult(c, status) PROVE Goal
  BY <1>11, FramesDiffer DEF ReceiveResult, WithDeviceFrames, ClosesRow
<1>12. CASE ExpireOverdue
  BY <1>12 DEF ExpireOverdue, linkVars
<1>13. CASE BackendRestart
  BY <1>13 DEF BackendRestart
<1>14. QED
  BY <1>2, <1>4, <1>5, <1>6, <1>7, <1>8, <1>9, <1>10, <1>11, <1>12, <1>13 DEF BackendNext

\* The robot takes up only what a frame asked for.
LEMMA BridgeSent ==
  ASSUME TypeOK, Bridge, NEW d \in Commands, SentOf(d)
  PROVE  SentOf(d)'
<1>1. UNCHANGED backendVars
  BY DEF Bridge
<1> DEFINE Goal == SentOf(d)'
<1> USE <1>1 DEF SentOf, backendVars, TypeOK, BridgeTypeOK
<1>2. ASSUME NEW c \in Commands, ReceiveCommand(c, InTime(c)) PROVE Goal
  BY <1>2 DEF ReceiveCommand, Incoming, Begin, inflight, journalVars
<1>3. ASSUME NEW c \in Commands, ReceiveStatusQuery(c) PROVE Goal
  BY <1>3 DEF ReceiveStatusQuery, Incoming, Begin, inflight, journalVars
<1>4. ASSUME NEW c \in Commands, ReceiveReceipt(c) PROVE Goal
  BY <1>4 DEF ReceiveReceipt, Incoming
<1>5. ASSUME NEW c \in Commands, AckRaises(c) PROVE Goal
  BY <1>5 DEF AckRaises, Finish, linkVars, journalVars
<1>6. ASSUME NEW c \in Commands, JournalStart(c) PROVE Goal
  BY <1>6 DEF JournalStart, linkVars
<1>7. ASSUME NEW c \in Commands, Execute(c) PROVE Goal
  BY <1>7 DEF Execute, linkVars, journalVars
<1>8. ASSUME NEW c \in Commands, NEW status \in Verdict, RobotSettles(c, status) PROVE Goal
  BY <1>8 DEF RobotSettles, linkVars, journalVars
<1>9. ASSUME NEW c \in Commands, HandlerReturns(c) PROVE Goal
  BY <1>9 DEF HandlerReturns, Journal, linkVars
<1>10. ASSUME NEW c \in Commands, HandlerFaults(c) PROVE Goal
  BY <1>10 DEF HandlerFaults, Journal
<1>11. ASSUME NEW c \in Commands, HandlerRaises(c) PROVE Goal
  BY <1>11 DEF HandlerRaises, Finish, journalVars
<1>12. ASSUME NEW c \in Commands, RecoverReturns(c) PROVE Goal
  BY <1>12 DEF RecoverReturns, Journal, Finish, linkVars, journalVars
<1>13. ASSUME NEW c \in Commands, ReportResult(c) PROVE Goal
  BY <1>13 DEF ReportResult, Finish, journalVars
<1>14. ASSUME NEW c \in Commands, Resend(c) PROVE Goal
  BY <1>14 DEF Resend, bridgeVars, journalVars
<1>15. CASE RobotStops \/ RobotMoves
  BY <1>15 DEF RobotStops, RobotMoves, linkVars, journalVars
<1>16. CASE ProcessCrash
  BY <1>16 DEF ProcessCrash, journalVars
<1>17. CASE ProcessStart
  BY <1>17 DEF ProcessStart, linkVars
<1>18. QED
  BY <1>2, <1>3, <1>4, <1>5, <1>6, <1>7, <1>8, <1>9, <1>10, <1>11, <1>12, <1>13, <1>14,
     <1>15, <1>16, <1>17
  DEF Bridge

LEMMA SentStep ==
  ASSUME TypeOK, SentInv, [Next]_vars
  PROVE  SentInv'
<1>1. ASSUME NEW d \in Commands PROVE SentOf(d)'
  <2>1. SentOf(d)
    BY DEF SentInv
  <2>2. CASE UNCHANGED vars
    BY <2>1, <2>2 DEF SentOf, vars, linkVars, backendVars, bridgeVars, journalVars
  <2>3. QED
    BY <2>1, <2>2, LinkSent, BackendSent, BridgeSent DEF Next
<1>2. QED
  BY <1>1 DEF SentInv

\* Only Execute makes the controller busy, and it counts the run.
LEMMA RobotStep ==
  ASSUME TypeOK, RobotInv, [Next]_vars
  PROVE  RobotInv'
<1> SUFFICES ASSUME NEW d \in Commands, robot'[d] \in {"busy", "SUCCEEDED"} PROVE runs'[d] > 0
  BY DEF RobotInv
<1>1. robot[d] \in {"busy", "SUCCEEDED"} => runs[d] > 0
  BY DEF RobotInv
<1> DEFINE Quiet == runs' = runs /\ robot'[d] \in {robot[d], "idle", "FAILED"}
           Goal == runs'[d] > 0
<1>2. Quiet => Goal
  BY <1>1
<1>3. CASE Link \/ Backend \/ UNCHANGED vars
  BY <1>2, <1>3 DEF Link, Backend, vars, bridgeVars, BridgeSocketLost
<1> USE DEF TypeOK, BridgeTypeOK
<1>4. ASSUME NEW c \in Commands, ReceiveCommand(c, InTime(c)) PROVE Goal
  BY <1>2, <1>4 DEF ReceiveCommand
<1>5. ASSUME NEW c \in Commands, ReceiveStatusQuery(c) PROVE Goal
  BY <1>2, <1>5 DEF ReceiveStatusQuery
<1>6. ASSUME NEW c \in Commands, ReceiveReceipt(c) PROVE Goal
  BY <1>2, <1>6 DEF ReceiveReceipt
<1>7. ASSUME NEW c \in Commands, AckRaises(c) PROVE Goal
  BY <1>2, <1>7 DEF AckRaises
<1>8. ASSUME NEW c \in Commands, JournalStart(c) PROVE Goal
  BY <1>2, <1>8 DEF JournalStart
<1>9. ASSUME NEW c \in Commands, Execute(c) PROVE Goal
  BY <1>1, <1>9 DEF Execute
<1>10. ASSUME NEW c \in Commands, NEW status \in Verdict, RobotSettles(c, status) PROVE Goal
  BY <1>1, <1>10 DEF RobotSettles
<1>11. ASSUME NEW c \in Commands, HandlerReturns(c) PROVE Goal
  BY <1>2, <1>11 DEF HandlerReturns
<1>12. ASSUME NEW c \in Commands, HandlerFaults(c) PROVE Goal
  BY <1>2, <1>12 DEF HandlerFaults
<1>13. ASSUME NEW c \in Commands, HandlerRaises(c) PROVE Goal
  BY <1>2, <1>13 DEF HandlerRaises
<1>14. ASSUME NEW c \in Commands, RecoverReturns(c) PROVE Goal
  BY <1>2, <1>14 DEF RecoverReturns
<1>15. ASSUME NEW c \in Commands, ReportResult(c) PROVE Goal
  BY <1>2, <1>15 DEF ReportResult
<1>16. ASSUME NEW c \in Commands, Resend(c) PROVE Goal
  BY <1>2, <1>16 DEF Resend, bridgeVars
<1>17. CASE RobotStops \/ RobotMoves \/ ProcessCrash \/ ProcessStart
  BY <1>2, <1>17 DEF RobotStops, RobotMoves, ProcessCrash, ProcessStart
<1>18. QED
  BY <1>3, <1>4, <1>5, <1>6, <1>7, <1>8, <1>9, <1>10, <1>11, <1>12, <1>13, <1>14, <1>15,
     <1>16, <1>17
  DEF Next, Bridge

\* Only RequestCommand opens a row, and for a hazard task only when none is open.
LEMMA HazardTaskStep ==
  ASSUME TypeOK, OneHazardTask, [Next]_vars
  PROVE  OneHazardTask'
<1> DEFINE Opens(c) == row'[c] \in Outstanding /\ row[c] \notin Outstanding
<1>1. ASSUME \A c \in HazardTasks : ~Opens(c) PROVE OneHazardTask'
  BY <1>1 DEF OneHazardTask
<1>2. CASE \E c \in Commands : RequestCommand(c)
  <2>1. PICK c \in Commands : RequestCommand(c)
    BY <1>2
  <2>2. \A d \in Commands : d # c => ~Opens(d)
    BY <2>1 DEF RequestCommand, TypeOK, BackendTypeOK
  <2>3. c \in HazardTasks => \A d \in HazardTasks : row[d] \notin Outstanding
    BY <2>1 DEF RequestCommand
  <2>4. CASE c \in HazardTasks
    BY <2>2, <2>3, <2>4, CommandsAssumption DEF OneHazardTask, CommandsAssumption
  <2>5. CASE c \notin HazardTasks
    BY <1>1, <2>2, <2>5, CommandsAssumption DEF CommandsAssumption
  <2>6. QED
    BY <2>4, <2>5
<1>3. CASE Backend /\ ~\E c \in Commands : RequestCommand(c)
  <2>1. \A c \in Commands : ~Opens(c)
    BY <1>3
    DEF Backend, BackendNext, TimePasses, MarkSent, SendCommand, SendFails, RecoverUnknown,
       ReceiveAck, ReceiveResult, ExpireOverdue, BackendRestart, TypeOK, BackendTypeOK, backendVars,
       Outstanding, AwaitingResult
  <2>2. QED
    BY <1>1, <2>1, CommandsAssumption DEF CommandsAssumption
<1>4. CASE Link \/ Bridge \/ UNCHANGED vars
  <2>1. row' = row
    BY <1>4 DEF Link, Bridge, vars, backendVars
  <2>2. QED
    BY <1>1, <2>1
<1>5. QED
  BY <1>2, <1>3, <1>4 DEF Next

-----------------------------------------------------------------------------
(* The theorems *)

LEMMA StepIInv == IInv /\ [Next]_vars => IInv'
<1> SUFFICES ASSUME IInv, [Next]_vars PROVE IInv'
  OBVIOUS
<1>1. TypeOK /\ JournalInv /\ AgreeInv /\ SentInv /\ RobotInv /\ OneHazardTask
  BY DEF IInv
<1>2. TypeOK'
  <2>1. CASE UNCHANGED vars
    BY <1>1, <2>1 DEF TypeOK, LinkTypeOK, BackendTypeOK, BridgeTypeOK,
       vars, linkVars, backendVars, bridgeVars, journalVars
  <2>2. QED
    BY <1>1, <2>1, LinkStepTyped, BackendStepTyped, BridgeStepTyped DEF Next
<1>3. JournalInv' /\ AgreeInv' /\ SentInv' /\ RobotInv' /\ OneHazardTask'
  BY <1>1, <1>2, JournalStep, AgreeStep, SentStep, RobotStep, HazardTaskStep
<1>4. QED
  BY <1>2, <1>3 DEF IInv

\* The strengthening all the theorems below rest on.
THEOREM SpecIInv == Spec => []IInv
BY InitIInv, StepIInv, PTL DEF Spec

\* Every variable keeps its type, for any set of commands and any number of faults.
THEOREM TypeCorrect == Spec => []TypeOK
<1>1. IInv => TypeOK
  BY DEF IInv
<1>2. QED
  BY SpecIInv, <1>1, PTL

\* A physical task is begun at most once (bridge.py handle and __init__).
THEOREM RunsAtMostOnce == Spec => []AtMostOnce
<1>1. IInv => AtMostOnce
  BY DEF IInv, JournalInv, JournalOf, AtMostOnce
<1>2. QED
  BY SpecIInv, <1>1, PTL

\* No crash between the writes of handle loses a task that was begun.
THEOREM RunsAreJournalled == Spec => []NoForgottenRun
<1>1. IInv => NoForgottenRun
  BY DEF IInv, JournalInv, JournalOf, NoForgottenRun
<1>2. QED
  BY SpecIInv, <1>1, PTL

\* The verdict the backend stores is the one in the robot's journal.
THEOREM BackendToldTruth == Spec => []BackendAgrees
<1>1. IInv => BackendAgrees
  BY DEF IInv, AgreeInv, AgreeOf, BackendAgrees
<1>2. QED
  BY SpecIInv, <1>1, PTL

\* A verdict is repeated until the backend has stored it (pending_results).
THEOREM VerdictsKept == Spec => []KeptUntilStored
<1>1. IInv => KeptUntilStored
  BY DEF IInv, AgreeInv, AgreeOf, KeptUntilStored
<1>2. QED
  BY SpecIInv, <1>1, PTL

\* A device never has two unsettled hazard tasks (queueAction).
THEOREM HazardTasksExclusive == Spec => []OneHazardTask
<1>1. IInv => OneHazardTask
  BY DEF IInv
<1>2. QED
  BY SpecIInv, <1>1, PTL

\* Without the reset at start-up, EXPIRED means that nothing has happened.
THEOREM ExpiredIsSafe ==
  ASSUME ~ResetOnStartup
  PROVE  Spec => []ExpiredNeverRan
<1>1. IInv => ExpiredNeverRan
  BY DEF IInv, SentInv, SentOf, ExpiredNeverRan
<1>2. QED
  BY SpecIInv, <1>1, PTL

-----------------------------------------------------------------------------
(* CommandDelivery implements CommandOutcome *)

\* How one step of the backend may move a row.
RowMoves(c) ==
  \/ row'[c] = row[c]
  \/ row[c] = "ABSENT" /\ row'[c] = "QUEUED"
  \/ row[c] = "QUEUED" /\ row'[c] \in {"SENT", "EXPIRED"}
  \/ row[c] \in {"SENT", "DELIVERED"} /\ row'[c] \in {"DELIVERED", "UNKNOWN"}
  \/ row[c] \in AwaitingResult /\ row'[c] \in Verdict

LEMMA BackendMovesRows ==
  ASSUME ~ResetOnStartup, TypeOK, Backend, NEW d \in Commands
  PROVE  RowMoves(d)
<1>1. BackendNext
  BY DEF Backend
<1> USE DEF RowMoves, TypeOK, BackendTypeOK
<1>2. ASSUME NEW c \in Commands, NEW status \in Verdict, ReceiveResult(c, status)
      PROVE  RowMoves(d)
  BY <1>2 DEF ReceiveResult, ClosesRow
<1>3. CASE ExpireOverdue
  BY <1>3 DEF ExpireOverdue
<1>4. CASE BackendRestart
  BY <1>4 DEF BackendRestart
<1>5. ASSUME NEW c \in Commands,
             RequestCommand(c) \/ TimePasses(c) \/ MarkSent(c) \/ SendCommand(c) \/ SendFails(c)
               \/ RecoverUnknown(c) \/ ReceiveAck(c)
      PROVE  RowMoves(d)
  BY <1>5 DEF RequestCommand, TimePasses, MarkSent, SendCommand, SendFails, RecoverUnknown,
     ReceiveAck, backendVars
<1>6. QED
  BY <1>1, <1>2, <1>3, <1>4, <1>5 DEF BackendNext

\* How one step of the robot process may move a command: it begins, or it is judged.
Begins(c) == task[c] = "starting" /\ runs'[c] = runs[c] + 1 /\ result'[c] = result[c]
Judged(c) ==
  /\ result[c] = "NONE" /\ result'[c] \in Verdict
  /\ result'[c] = "SUCCEEDED" => runs[c] > 0
  /\ c \in sent
  /\ runs'[c] = runs[c]
BridgeMoves(c) == Begins(c) \/ Judged(c) \/ (runs'[c] = runs[c] /\ result'[c] = result[c])

LEMMA BridgeMovesCommands ==
  ASSUME IInv, Bridge, NEW d \in Commands
  PROVE  BridgeMoves(d)
<1>1. TypeOK /\ RobotInv /\ JournalInv /\ SentInv
  BY DEF IInv
<1>2. ASSUME NEW c \in Commands
      PROVE  /\ JournalOf(c) /\ SentOf(c)
             /\ robot[c] = "SUCCEEDED" => runs[c] > 0
  BY <1>1 DEF JournalInv, SentInv, RobotInv
<1> DEFINE Goal == BridgeMoves(d)
<1> USE <1>1 DEF BridgeMoves, TypeOK, BridgeTypeOK
<1>3. ASSUME NEW c \in Commands, HandlerReturns(c) \/ HandlerFaults(c) PROVE Goal
  BY <1>2, <1>3 DEF HandlerReturns, HandlerFaults, Journal, Judged, JournalOf, SentOf
<1>4. ASSUME NEW c \in Commands, RecoverReturns(c) PROVE Goal
  BY <1>2, <1>4 DEF RecoverReturns, Journal, Judged, JournalOf, SentOf, journalVars
<1>5. ASSUME NEW c \in Commands, Execute(c) PROVE Goal
  BY <1>5 DEF Execute, Begins, journalVars
<1>6. CASE ProcessStart
  BY <1>2, <1>6 DEF ProcessStart, Judged, SentOf
<1>7. ASSUME NEW c \in Commands,
             \/ ReceiveCommand(c, InTime(c)) \/ ReceiveStatusQuery(c) \/ ReceiveReceipt(c)
             \/ AckRaises(c) \/ JournalStart(c) \/ HandlerRaises(c) \/ ReportResult(c) \/ Resend(c)
             \/ \E status \in Verdict : RobotSettles(c, status)
      PROVE  Goal
  BY <1>7 DEF ReceiveCommand, ReceiveStatusQuery, ReceiveReceipt, AckRaises, JournalStart,
     HandlerRaises, ReportResult, Resend, RobotSettles, bridgeVars, journalVars
<1>8. CASE RobotStops \/ RobotMoves \/ ProcessCrash
  BY <1>8 DEF RobotStops, RobotMoves, ProcessCrash, journalVars
<1>9. QED
  BY <1>3, <1>4, <1>5, <1>6, <1>7, <1>8 DEF Bridge

LEMMA LifeTyped == TypeOK' /\ AtMostOnce' => life' \in [Commands -> Outcome!Lives]
BY DEF TypeOK, BackendTypeOK, BridgeTypeOK, AtMostOnce, RowStatus, Outstanding, AwaitingResult,
   life, told, Outcome!Lives, Outcome!Open, Outcome!Verdicts

\* Each command steps as CommandOutcome allows, or not at all.
LEMMA LifeSteps ==
  ASSUME ~ResetOnStartup, IInv, IInv', [Next]_vars, NEW d \in Commands
  PROVE  life'[d] = life[d] \/ Outcome!Step(life[d], life'[d])
<1> DEFINE Goal == life'[d] = life[d] \/ Outcome!Step(life[d], life'[d])
<1>1. /\ life[d] = [runs |-> runs[d], verdict |-> result[d], told |-> told(d)]
      /\ life'[d] = [runs |-> runs'[d], verdict |-> result'[d], told |-> told(d)']
  BY DEF life
<1>2. /\ TypeOK /\ TypeOK'
      /\ JournalOf(d) /\ SentOf(d) /\ AgreeOf(d) /\ AgreeOf(d)'
  BY DEF IInv, JournalInv, SentInv, AgreeInv
<1> USE DEF Outcome!Open, Outcome!Verdicts
<1>3. CASE Backend
  <2>1. RowMoves(d) /\ runs'[d] = runs[d] /\ result'[d] = result[d]
    BY <1>2, <1>3, BackendMovesRows DEF Backend, bridgeVars, journalVars
  <2>2. CASE row[d] = "ABSENT" /\ row'[d] = "QUEUED"
    BY <1>1, <2>1, <2>2 DEF told, Outcome!Step, Outcome!Ask
  <2>3. CASE row[d] = "QUEUED" /\ row'[d] = "EXPIRED"
    <3>1. runs[d] = 0 /\ result[d] = "NONE"
      BY <1>2, <2>3 DEF SentOf
    <3>2. QED
      BY <1>1, <2>1, <2>3, <3>1 DEF told, Outcome!Step, Outcome!Expire
  <2>4. CASE row[d] \in {"SENT", "DELIVERED"} /\ row'[d] = "UNKNOWN"
    BY <1>1, <2>1, <2>4 DEF told, Outcome!Step, Outcome!LoseTrack
  <2>5. CASE row[d] \in AwaitingResult /\ row'[d] \in Verdict
    <3>1. result[d] = row'[d]
      BY <1>2, <2>1, <2>5 DEF AgreeOf
    <3>2. QED
      BY <1>1, <2>1, <2>5, <3>1 DEF told, AwaitingResult, Outcome!Step, Outcome!Tell
  <2>6. CASE \/ row'[d] = row[d]
             \/ row[d] \in {"QUEUED", "SENT", "DELIVERED"} /\ row'[d] \in {"SENT", "DELIVERED"}
    BY <1>1, <2>1, <2>6 DEF told
  <2>7. QED
    BY <2>1, <2>2, <2>3, <2>4, <2>5, <2>6 DEF RowMoves
<1>4. CASE Bridge
  <2>1. BridgeMoves(d) /\ told(d)' = told(d)
    BY <1>4, BridgeMovesCommands DEF Bridge, backendVars, told
  <2>2. ASSUME d \in sent, result[d] = "NONE" PROVE told(d) \in Outcome!Open
    BY <1>2, <2>2
    DEF SentOf, AgreeOf, TypeOK, BackendTypeOK, RowStatus, Outstanding, AwaitingResult, told
  <2>3. CASE Begins(d)
    <3>1. d \in sent /\ result[d] = "NONE" /\ runs[d] = 0 /\ runs'[d] = 1
      BY <1>2, <2>3 DEF Begins, JournalOf, SentOf
    <3>2. QED
      BY <1>1, <2>1, <2>2, <2>3, <3>1 DEF Begins, Outcome!Step, Outcome!Run
  <2>4. CASE Judged(d)
    <3>1. runs[d] > 0 => runs[d] = 1
      BY <1>2 DEF JournalOf, TypeOK, BridgeTypeOK
    <3>2. d \in sent /\ result[d] = "NONE"
      BY <2>4 DEF Judged
    <3>3. QED
      BY <1>1, <2>1, <2>2, <2>4, <3>1, <3>2 DEF Judged, Outcome!Step, Outcome!Judge
  <2>5. CASE runs'[d] = runs[d] /\ result'[d] = result[d]
    BY <1>1, <2>1, <2>5
  <2>6. QED
    BY <2>1, <2>3, <2>4, <2>5 DEF BridgeMoves
<1>5. CASE Link \/ UNCHANGED vars
  <2>1. UNCHANGED <<row, runs, result>>
    BY <1>5 DEF Link, BridgeSocketLost, vars, backendVars, bridgeVars, journalVars
  <2>2. QED
    BY <1>1, <2>1 DEF told
<1>6. QED
  BY <1>3, <1>4, <1>5 DEF Next

\* The backend, the socket and the robot process together keep the promise to the parent.
THEOREM ImplementsOutcome ==
  ASSUME ~ResetOnStartup
  PROVE  Spec => OutcomeSpec
<1>1. Init => Outcome!Init
  <2> SUFFICES ASSUME Init PROVE Outcome!Init
    OBVIOUS
  <2>1. \A c \in Commands : runs[c] = 0 /\ result[c] = "NONE" /\ told(c) = "ABSENT"
    BY DEF Init, BackendInit, BridgeInit, told
  <2>2. QED
    BY <2>1 DEF life, Outcome!Init
<1>2. IInv /\ IInv' /\ [Next]_vars => [Outcome!Next]_life
  <2> SUFFICES ASSUME IInv, IInv', [Next]_vars PROVE Outcome!Next
    OBVIOUS
  <2>1. life' \in [Commands -> Outcome!Lives]
    BY LifeTyped DEF IInv, JournalInv, JournalOf, AtMostOnce
  <2>2. QED
    BY <2>1, LifeSteps DEF Outcome!Next
<1>3. QED
  BY <1>1, <1>2, SpecIInv, PTL DEF Spec, OutcomeSpec, Outcome!Spec
=============================================================================
