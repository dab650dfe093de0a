---------------------------- MODULE BridgeJournal ----------------------------
(***************************************************************************)
(* The robot process's side of a remote command: bridge.py journals it,    *)
(* runs it through Runtime.command and reports what came of it.            *)
(*                                                                         *)
(* up        the robot process runs                                        *)
(* started   SQLite started_commands   \                                   *)
(* result    SQLite commands            > survive a crash of the process   *)
(* pending   SQLite pending_results    /                                   *)
(* task      the stage of the asyncio task that has the command inflight:  *)
(*             acking      ACK handed to the socket                        *)
(*             starting    journalled in started_commands                  *)
(*             executing   the handler thread waits for the controller     *)
(*             reporting   the verdict is journalled and not yet sent      *)
(*             recovering  RECOVER_COMMAND asks the controller             *)
(* orphan    tasks whose socket has been replaced or closed                *)
(* robot     the controller's share: busy with the command, or a result in *)
(*           CareController.results nobody has popped yet                  *)
(* still     the motor acknowledged S and the phase allows a recovery      *)
(* runs      how often the task was physically begun                       *)
(***************************************************************************)
EXTENDS DeviceLink

CONSTANT StopCommands \* PAUSE and POWER_OFF

ASSUME StopAssumption == StopCommands \subseteq Commands \ HazardTasks

VARIABLES up, started, result, pending, task, orphan, robot, still, runs

journalVars == <<started, result, pending>>
bridgeVars == <<up, journalVars, task, orphan, robot, still, runs>>

Stage == {"none", "acking", "starting", "executing", "reporting", "recovering"}

BridgeTypeOK ==
  /\ up \in BOOLEAN
  /\ started \subseteq Commands
  /\ result \in [Commands -> Verdict \cup {"NONE"}]
  /\ pending \subseteq Commands
  /\ task \in [Commands -> Stage]
  /\ orphan \subseteq Commands
  /\ robot \in [Commands -> {"idle", "busy"} \cup Verdict]
  /\ still \in BOOLEAN
  /\ runs \in [Commands -> Nat]

BridgeInit ==
  /\ up = TRUE
  /\ started = {}
  /\ result = [c \in Commands |-> "NONE"]
  /\ pending = {}
  /\ task = [c \in Commands |-> "none"]
  /\ orphan = {}
  /\ robot = [c \in Commands |-> "idle"]
  /\ still = FALSE
  /\ runs = [c \in Commands |-> 0]

inflight == {c \in Commands : task[c] # "none"}

\* A new task works on the socket its frame came from.
Begin(c, stage) ==
  /\ task' = [task EXCEPT ![c] = stage]
  /\ orphan' = orphan \ {c}

\* inflight.discard, which every task reaches in its finally.
Finish(c) ==
  /\ task' = [task EXCEPT ![c] = "none"]
  /\ orphan' = orphan \ {c}

\* The one transaction that turns a started command into a verdict to report.
Journal(c, status) ==
  /\ result' = [result EXCEPT ![c] = status]
  /\ pending' = pending \cup {c}
  /\ started' = started \ {c}

Incoming(frame) ==
  /\ up /\ socket
  /\ frame \in toDevice
  /\ toDevice' = toDevice \ {frame}
  /\ UNCHANGED <<channel, socket, faults>>

\* Mutant: the journal of finished commands is not consulted.
ReceiveCommandUncached(c, inTime) ==
  LET fresh == c \notin inflight /\ c \notin started /\ inTime
  IN /\ Incoming(Command(c))
     /\ IF fresh THEN Begin(c, "acking") ELSE UNCHANGED <<task, orphan>>
     /\ toBackend' = IF fresh THEN WithBackendFrames({Ack(c)}) ELSE toBackend
     /\ UNCHANGED <<up, journalVars, robot, still, runs>>

\* A command already known is answered from the journal, or left to the task that has
\* it inflight; an expired one is dropped unanswered.  inTime is the robot's own clock.
ReceiveCommand(c, inTime) ==
  LET known == c \in inflight \/ result[c] # "NONE"
      fresh == ~known /\ c \notin started /\ inTime
  IN /\ Incoming(Command(c))
     /\ IF fresh THEN Begin(c, "acking")
        ELSE IF ~known /\ c \in started THEN Begin(c, "recovering")
        ELSE UNCHANGED <<task, orphan>>
     /\ toBackend' = IF fresh THEN WithBackendFrames({Ack(c)})
                     ELSE IF c \notin inflight /\ result[c] # "NONE"
                          THEN WithBackendFrames({Result(c, result[c])})
                          ELSE toBackend
     /\ UNCHANGED <<up, journalVars, robot, still, runs>>

\* Mutant: only commands in started_commands are reconciled.
ReceiveStatusQueryOfStarted(c) ==
  LET unknown == c \notin inflight /\ result[c] = "NONE" /\ c \in started
  IN /\ Incoming(StatusQuery(c))
     /\ IF unknown THEN Begin(c, "recovering") ELSE UNCHANGED <<task, orphan>>
     /\ toBackend' = IF c \notin inflight /\ result[c] # "NONE"
                     THEN WithBackendFrames({Result(c, result[c])})
                     ELSE toBackend
     /\ UNCHANGED <<up, journalVars, robot, still, runs>>

\* recover_result up to the await: inflight commands are left alone, a cached result
\* is sent again, and otherwise the identity is reserved.
ReceiveStatusQuery(c) ==
  LET unknown == c \notin inflight /\ result[c] = "NONE"
  IN /\ Incoming(StatusQuery(c))
     /\ IF unknown THEN Begin(c, "recovering") ELSE UNCHANGED <<task, orphan>>
     /\ toBackend' = IF c \notin inflight /\ result[c] # "NONE"
                     THEN WithBackendFrames({Result(c, result[c])})
                     ELSE toBackend
     /\ UNCHANGED <<up, journalVars, robot, still, runs>>

ReceiveReceipt(c) ==
  /\ Incoming(Receipt(c))
  /\ pending' = pending \ {c}
  /\ UNCHANGED <<toBackend, up, started, result, task, orphan, robot, still, runs>>

\* The ACK could not be written: the task ends and nothing was journalled.
AckRaises(c) ==
  /\ task[c] = "acking" /\ c \in orphan
  /\ Finish(c)
  /\ UNCHANGED <<up, journalVars, robot, still, runs, linkVars>>

\* Mutant: the handler is started without a row in started_commands.
JournalStartSkipped(c) ==
  /\ task[c] = "acking"
  /\ task' = [task EXCEPT ![c] = "starting"]
  /\ UNCHANGED <<up, started, result, pending, orphan, robot, still, runs, linkVars>>

JournalStart(c) ==
  /\ task[c] = "acking"
  /\ started' = started \cup {c}
  /\ task' = [task EXCEPT ![c] = "starting"]
  /\ UNCHANGED <<up, result, pending, orphan, robot, still, runs, linkVars>>

\* CareController.request: a stop interrupts whatever runs, anything else is refused
\* while an action or a control command is unfinished, or for a reason of its own.
Execute(c) ==
  /\ task[c] = "starting"
  /\ task' = [task EXCEPT ![c] = "executing"]
  /\ \/ /\ c \in StopCommands \/ \A d \in Commands : robot[d] # "busy"
        /\ robot' = [d \in Commands |-> IF d = c THEN "busy"
                                        ELSE IF robot[d] = "busy" THEN "FAILED"
                                        ELSE robot[d]]
        /\ runs' = [runs EXCEPT ![c] = @ + 1]
     \/ /\ c \notin StopCommands
        /\ robot' = [robot EXCEPT ![c] = "FAILED"]
        /\ UNCHANGED runs
  /\ UNCHANGED <<up, journalVars, orphan, still, linkVars>>

\* The controller finishes or times out what it is busy with.
RobotSettles(c, status) ==
  /\ robot[c] = "busy"
  /\ robot' = [robot EXCEPT ![c] = status]
  /\ UNCHANGED <<up, journalVars, task, orphan, still, runs, linkVars>>

\* The robot stops, or moves again, for reasons that are not this command's.
RobotStops ==
  /\ up /\ ~still /\ still' = TRUE
  /\ UNCHANGED <<up, journalVars, task, orphan, robot, runs, linkVars>>

RobotMoves ==
  /\ up /\ still /\ still' = FALSE
  /\ UNCHANGED <<up, journalVars, task, orphan, robot, runs, linkVars>>

\* Mutant: the handler returns before the controller has a result.
HandlerReturnsEarly(c) ==
  /\ task[c] = "executing"
  /\ Journal(c, robot[c])
  /\ robot' = [robot EXCEPT ![c] = "idle"]
  /\ task' = [task EXCEPT ![c] = "reporting"]
  /\ UNCHANGED <<up, orphan, still, runs, linkVars>>

HandlerReturns(c) ==
  /\ task[c] = "executing"
  /\ robot[c] \in Verdict
  /\ Journal(c, robot[c])
  /\ robot' = [robot EXCEPT ![c] = "idle"]
  /\ task' = [task EXCEPT ![c] = "reporting"]
  /\ UNCHANGED <<up, orphan, still, runs, linkVars>>

\* A latched control fault or a lock timeout: the handler reports FAILED on its own.
HandlerFaults(c) ==
  /\ task[c] = "executing"
  /\ Fault
  /\ Journal(c, "FAILED")
  /\ robot' = [robot EXCEPT ![c] = "idle"]
  /\ task' = [task EXCEPT ![c] = "reporting"]
  /\ UNCHANGED <<up, orphan, still, runs, channel, socket, toDevice, toBackend>>

\* The handler or the validation of its outcome raises, the outcome popped or not; a
\* recovery that cannot have the controller's lock ends the same way.
HandlerRaises(c) ==
  /\ task[c] \in {"executing", "recovering"}
  /\ Fault
  /\ Finish(c)
  /\ \/ UNCHANGED robot
     \/ robot[c] \in Verdict /\ robot' = [robot EXCEPT ![c] = "idle"]
  /\ UNCHANGED <<up, journalVars, still, runs, channel, socket, toDevice, toBackend>>

\* recover_command: a finished result is taken, another command's work is not
\* disturbed, the command's own work is ended without an answer yet, and otherwise
\* only a robot that stands still closes the request as FAILED.
RecoverReturns(c) ==
  LET others == \E d \in Commands \ {c} : robot[d] = "busy"
      verdict == IF robot[c] \in Verdict THEN robot[c]
                 ELSE IF others \/ robot[c] = "busy" \/ ~still THEN "NONE"
                 ELSE "FAILED"
  IN /\ task[c] = "recovering"
     /\ robot' = [robot EXCEPT ![c] = "idle"]
     /\ IF verdict = "NONE"
        THEN Finish(c) /\ UNCHANGED journalVars
        ELSE /\ Journal(c, verdict)
             /\ task' = [task EXCEPT ![c] = "reporting"]
             /\ UNCHANGED orphan
     /\ UNCHANGED <<up, still, runs, linkVars>>

\* Mutant: a verdict counts as delivered once it is written to the socket.
ReportResultForgets(c) ==
  /\ task[c] = "reporting"
  /\ Finish(c)
  /\ toBackend' = IF c \in orphan THEN toBackend
                  ELSE WithBackendFrames({Result(c, result[c])})
  /\ pending' = IF c \in orphan THEN pending ELSE pending \ {c}
  /\ UNCHANGED <<up, started, result, robot, still, runs, channel, socket, toDevice, faults>>

\* The first report of a verdict goes out on the socket the task was started from; a
\* closed one raises, and the verdict stays pending.
ReportResult(c) ==
  /\ task[c] = "reporting"
  /\ Finish(c)
  /\ toBackend' = IF c \in orphan THEN toBackend
                  ELSE WithBackendFrames({Result(c, result[c])})
  /\ UNCHANGED <<up, journalVars, robot, still, runs, channel, socket, toDevice, faults>>

\* Every session repeats what is pending until the backend has receipted it.
Resend(c) ==
  /\ up /\ socket
  /\ c \in pending
  /\ toBackend' = WithBackendFrames({Result(c, result[c])})
  /\ UNCHANGED <<bridgeVars, channel, socket, toDevice, faults>>

\* The socket closes under the tasks that use it.
BridgeSocketLost ==
  /\ SocketLost
  /\ orphan' = orphan \cup inflight
  /\ UNCHANGED <<up, journalVars, task, robot, still, runs>>

\* The process dies: only SQLite survives.
ProcessCrash ==
  /\ up
  /\ Fault
  /\ up' = FALSE
  /\ socket' = FALSE
  /\ toDevice' = {}
  /\ task' = [c \in Commands |-> "none"]
  /\ orphan' = {}
  /\ robot' = [c \in Commands |-> "idle"]
  /\ still' = FALSE
  /\ UNCHANGED <<channel, toBackend, journalVars, runs>>

\* Mutant: a restart takes unfinished commands up again.
ProcessStartReruns ==
  /\ ~up
  /\ up' = TRUE
  /\ task' = [c \in Commands |-> IF c \in started THEN "starting" ELSE "none"]
  /\ UNCHANGED <<journalVars, orphan, robot, still, runs, linkVars>>

\* Bridge.__init__: an unfinished physical task is never repeated, only failed.
ProcessStart ==
  /\ ~up
  /\ up' = TRUE
  /\ result' = [c \in Commands |->
                  IF c \in started /\ result[c] = "NONE" THEN "FAILED" ELSE result[c]]
  /\ pending' = pending \cup started
  /\ started' = {}
  /\ UNCHANGED <<task, orphan, robot, still, runs, linkVars>>
=============================================================================
