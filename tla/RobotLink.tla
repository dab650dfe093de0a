------------------------------- MODULE RobotLink -------------------------------
(***************************************************************************)
(* pc_client.py and protocol.py: the TCP session over which a PC program   *)
(* drives the robot, one command at a time, each acknowledged before the   *)
(* next is sent.  The receiver on the robot is not in this repository; it  *)
(* is modelled from what the client relies on: it obeys and acknowledges   *)
(* each command, and stops the robot when no command has come for          *)
(* LEASE_SECONDS or when the session ends.  A command reaches it within    *)
(* the time that drive waits for the acknowledgement, or not at all: this  *)
(* is assumed of the network, also for a caller that stalls meanwhile.     *)
(*                                                                         *)
(* line   wire    closed, idle, sent (a command is on its way) or applied  *)
(*                (the robot obeys it, its acknowledgement is on its way)  *)
(*        cmd     the command of the exchange, "S" when there is none      *)
(*        waited  ticks since it was sent, up to AckWait + 1               *)
(*        robot   what the motors do                                       *)
(*        lease   ticks until the receiver stops them                      *)
(***************************************************************************)
EXTENDS Naturals

CONSTANTS
  Moves,     \* commands that move the robot
  AckWait,   \* how long drive waits for the acknowledgement
  LeaseTime  \* LEASE_SECONDS of the receiver

Commands == Moves \cup {"S"}

ASSUME LinkAssumption ==
  /\ "S" \notin Moves /\ "none" \notin Moves
  /\ AckWait \in Nat \ {0}
  /\ LeaseTime \in Nat \ {0}

VARIABLE line

Wires == {"closed", "idle", "sent", "applied"}
Lines == [wire : Wires, cmd : Commands, waited : 0..AckWait + 1, robot : Commands,
          lease : 0..LeaseTime]

LinkInit == line = [wire |-> "closed", cmd |-> "S", waited |-> 0, robot |-> "S", lease |-> 0]

InFlight == line.wire \in {"sent", "applied"}

\* __init__ (hello, token, ready) and the first command.
Open(command) ==
  /\ line.wire = "closed"
  /\ line' = [line EXCEPT !.wire = "sent", !.cmd = command]

\* The first half of drive.
Send(command) ==
  /\ line.wire = "idle"
  /\ line' = [line EXCEPT !.wire = "sent", !.cmd = command]

Arrives == line.wire = "sent" /\ line.waited <= AckWait

\* The receiver obeys.
Obey ==
  /\ Arrives
  /\ line' = [line EXCEPT !.wire = "applied", !.robot = line.cmd, !.lease = LeaseTime]

\* drive returns: the acknowledgement names the command and its sequence number.
Acknowledged ==
  /\ line.wire = "applied"
  /\ line' = [line EXCEPT !.wire = "idle", !.cmd = "S", !.waited = 0]

\* drive raises: no acknowledgement in time, another one, or the peer is gone.  The socket
\* is closed, and a command already sent may still have reached the robot.
Break ==
  /\ InFlight
  /\ LET over == [line EXCEPT !.wire = "closed", !.cmd = "S", !.waited = 0]
     IN \/ line' = over
        \/ /\ Arrives
           /\ line' = [over EXCEPT !.robot = line.cmd, !.lease = LeaseTime]

\* The receiver notices that the session has ended.
Abandon ==
  /\ line.wire = "closed" /\ line.robot # "S"
  /\ line' = [line EXCEPT !.robot = "S", !.lease = 0]

\* Mutant: nothing ends the wait.
LinkTickForever ==
  line' = [line EXCEPT
             !.waited = IF InFlight THEN @ + 1 ELSE @,
             !.robot = IF line.lease <= 1 THEN "S" ELSE @,
             !.lease = IF @ = 0 THEN 0 ELSE @ - 1]

\* One tick.  The receiver does not wait longer than LeaseTime.
LinkTick ==
  line' = [line EXCEPT
             !.waited = IF InFlight /\ @ <= AckWait THEN @ + 1 ELSE @,
             !.robot = IF line.lease <= 1 THEN "S" ELSE @,
             !.lease = IF @ = 0 THEN 0 ELSE @ - 1]
=============================================================================
