------------------------------ MODULE MotorOutput ------------------------------
(***************************************************************************)
(* motor_output.py: the one thread that owns the link to the robot.  It    *)
(* sends the command under lease every 25 ms, connects again when the link *)
(* fails, and shows the others what was acknowledged last.                 *)
(*                                                                         *)
(* motor   ready, generation, ack as in the code ("none" is None);         *)
(*         command and left, the ticks until its lease (until) runs out;   *)
(* thread  where run is: connecting, greeting (the drive('S') of a new     *)
(*         session), waiting (between two turns), reading (about to take   *)
(*         the command), holding (the command is read, the lock released,  *)
(*         nothing sent), driving, failed (the exception is caught,        *)
(*         finally is still to come), leaving and closing (the drive('S')  *)
(*         of close is to come, and under way) or over.  It may stall      *)
(*         between any two of these for any time.                          *)
(* taken   the command the thread has read, "S" when it has none           *)
(* stop    the stop event                                                  *)
(***************************************************************************)
EXTENDS RobotLink

CONSTANTS
  Pulse,      \* the lease of a command: until - now when it is submitted
  MaxSession  \* bound: sessions with the robot

ASSUME MotorAssumption == Pulse \in Nat \ {0} /\ MaxSession \in Nat

VARIABLES motor, thread, taken, stop

motorVars == <<line, motor, thread, taken, stop>>

Motors == [ready : BOOLEAN, generation : 0..MaxSession, ack : Commands \cup {"none"},
           command : Commands, left : 0..Pulse]

Threads == {"connecting", "greeting", "waiting", "reading", "holding", "driving", "failed",
            "leaving", "closing", "over"}

MotorInit ==
  /\ LinkInit
  /\ motor = [ready |-> FALSE, generation |-> 0, ack |-> "none", command |-> "S", left |-> 0]
  /\ thread = "connecting" /\ taken = "S" /\ stop = FALSE

\* generation is None; a session that is up counts from 1.
AnySession == 0

\* Mutant: a command of an earlier session arms this one.
SubmittedAnyway(m, command, session) ==
  IF m.ready THEN [m EXCEPT !.command = command, !.left = IF command = "S" THEN 0 ELSE Pulse] ELSE m

\* submit: what is produced while disconnected, or for another session, arms nothing.
Submitted(m, command, session) ==
  IF m.ready /\ session \in {AnySession, m.generation}
  THEN [m EXCEPT !.command = command, !.left = IF command = "S" THEN 0 ELSE Pulse]
  ELSE m

\* Mutant: the lease is not looked at.
UnleasedCommand(m) == m.command

\* leased_command.  Nobody submits a lease longer than the 0.25 s that a command may be old.
LeasedCommand(m) == IF m.left > 0 THEN m.command ELSE "S"

Disarmed(m) == [m EXCEPT !.ready = FALSE, !.ack = "none", !.command = "S", !.left = 0]

-----------------------------------------------------------------------------

\* RobotClient, and its first drive('S').
Connect ==
  /\ thread = "connecting" /\ ~stop
  /\ motor.generation < MaxSession
  /\ Open("S")
  /\ thread' = "greeting"
  /\ UNCHANGED <<motor, taken, stop>>

\* The stop is acknowledged: a new session, with nothing armed.
Greeted ==
  /\ thread = "greeting" /\ Acknowledged
  /\ motor' = [motor EXCEPT !.command = "S", !.left = 0, !.generation = @ + 1, !.ready = TRUE,
                            !.ack = "S"]
  /\ thread' = "waiting"
  /\ UNCHANGED <<taken, stop>>

\* Mutant: the stop event is looked at between sessions only.
TurnOn ==
  /\ thread = "waiting"
  /\ thread' = "reading"
  /\ UNCHANGED <<line, motor, taken, stop>>

Turn ==
  /\ thread = "waiting" /\ ~stop
  /\ thread' = "reading"
  /\ UNCHANGED <<line, motor, taken, stop>>

\* The command is read under the lock; what others submit from here on waits for the next turn.
Take ==
  /\ thread = "reading"
  /\ taken' = LeasedCommand(motor)
  /\ thread' = "holding"
  /\ UNCHANGED <<line, motor, stop>>

\* It is sent without the lock, and without another look at the lease.
Drive ==
  /\ thread = "holding"
  /\ Send(taken)
  /\ thread' = "driving"
  /\ UNCHANGED <<motor, taken, stop>>

\* Mutant: what is under lease now is recorded as acknowledged.
DrivenRereads ==
  /\ thread = "driving" /\ Acknowledged
  /\ motor' = [motor EXCEPT !.ack = LeasedCommand(motor)]
  /\ thread' = "waiting" /\ taken' = "S"
  /\ UNCHANGED stop

Driven ==
  /\ thread = "driving" /\ Acknowledged
  /\ motor' = [motor EXCEPT !.ack = taken]
  /\ thread' = "waiting" /\ taken' = "S"
  /\ UNCHANGED stop

\* The exception is caught, and logged, before finally takes ready back.
Lose ==
  /\ thread \in {"greeting", "driving"} /\ Break
  /\ thread' = "failed" /\ taken' = "S"
  /\ UNCHANGED <<motor, stop>>

Cleanup ==
  /\ thread = "failed"
  /\ motor' = Disarmed(motor)
  /\ thread' = IF stop THEN "over" ELSE "connecting"
  /\ UNCHANGED <<line, taken, stop>>

\* The loop ends: finally, with a client that has not failed, and its close.
Leave ==
  /\ thread = "waiting" /\ stop
  /\ motor' = Disarmed(motor)
  /\ thread' = "leaving"
  /\ UNCHANGED <<line, taken, stop>>

Close ==
  /\ thread = "leaving"
  /\ Send("S")
  /\ thread' = "closing"
  /\ UNCHANGED <<motor, taken, stop>>

Closed ==
  /\ thread = "closing"
  /\ \/ line.wire = "applied" /\ line' = [line EXCEPT !.wire = "closed", !.waited = 0]
     \/ Break
  /\ thread' = "over"
  /\ UNCHANGED <<motor, taken, stop>>

NeverConnects ==
  /\ thread = "connecting" /\ stop
  /\ thread' = "over"
  /\ UNCHANGED <<line, motor, taken, stop>>

\* close: submit('S', 0) and the stop event.
Shutdown ==
  /\ ~stop /\ stop' = TRUE
  /\ motor' = Submitted(motor, "S", AnySession)
  /\ UNCHANGED <<line, thread, taken>>

MotorThread ==
  \/ Connect \/ Greeted \/ Turn \/ Take \/ Drive \/ Driven \/ Lose \/ Cleanup
  \/ Leave \/ Close \/ Closed \/ NeverConnects

Receiver == (Obey \/ Abandon) /\ UNCHANGED <<motor, thread, taken, stop>>

MotorTick ==
  /\ LinkTick
  /\ motor' = [motor EXCEPT !.left = IF @ = 0 THEN 0 ELSE @ - 1]
  /\ UNCHANGED <<thread, taken, stop>>
=============================================================================
