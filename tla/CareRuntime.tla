------------------------------ MODULE CareRuntime ------------------------------
(***************************************************************************)
(* care_runtime.Runtime: the control loop, the command threads and the     *)
(* supervisor around one controller and one MotorOutput.  Of the           *)
(* controller (see CareController) only what these threads race over is    *)
(* kept: whether it drives, and the session it has met.  Which requests it *)
(* accepts, and when it stops by itself, is left open.                     *)
(*                                                                         *)
(* ctl      driving, and generation (0: None)                              *)
(* loop     at    wait, observed (the observations are taken), stepped     *)
(*                (the command is decided, Runtime.lock is held), crashed  *)
(*                or done                                                  *)
(*          ready, generation  of motor.observation(), for this iteration  *)
(*          out   its command                                              *)
(* age      ticks since control_tick, up to FaultAfter + 1                 *)
(* fault    control_fault                                                  *)
(* failing  where each caller of fail_control is: idle, latched (the fault *)
(*          is set) or withdrawn (the lease has been taken back)           *)
(* turned, still                                                           *)
(*          history: ticks since the last iteration, and since the         *)
(*          controller was last driving, up to Leases.  Neither counts     *)
(*          the time that the motor thread stands with a moving command in *)
(*          its hand (Held).                                               *)
(***************************************************************************)
EXTENDS MotorOutput

CONSTANT FaultAfter  \* control_fault_after

\* The leases of a command, one after the other: 0.15 s, 0.5 s and 0.6 s.
Leases == Pulse + AckWait + LeaseTime

ASSUME RuntimeAssumption == FaultAfter \in Nat /\ Leases <= FaultAfter

VARIABLES ctl, loop, age, fault, failing, turned, still

runtimeVars == <<ctl, loop, age, fault, failing, turned, still>>
vars == <<motorVars, runtimeVars>>

Failers == {"loop", "supervisor"}
Places == {"wait", "observed", "stepped", "crashed", "done"}
Loops == [at : Places, ready : BOOLEAN, generation : 0..MaxSession, out : Commands]
Controllers == [driving : BOOLEAN, generation : 0..MaxSession]

\* The types of link, motor thread, controller and runtime.
TypeOK ==
  /\ line \in Lines /\ motor \in Motors /\ thread \in Threads /\ taken \in Commands
  /\ stop \in BOOLEAN
  /\ ctl \in Controllers /\ loop \in Loops
  /\ age \in 0..FaultAfter + 1
  /\ fault \in BOOLEAN
  /\ failing \in [Failers -> {"idle", "latched", "withdrawn"}]
  /\ turned \in 0..Leases /\ still \in 0..Leases

Begins == [at |-> "wait", ready |-> FALSE, generation |-> 0, out |-> "S"]
Ends(how) == [Begins EXCEPT !.at = how]

Init ==
  /\ MotorInit
  /\ ctl = [driving |-> FALSE, generation |-> 0]
  /\ loop = Begins
  /\ age = 0 /\ fault = FALSE /\ turned = 0 /\ still = Leases
  /\ failing = [f \in Failers |-> "idle"]

LockFree == loop.at # "stepped"

-----------------------------------------------------------------------------
(* _run_loop *)

Observe ==
  /\ loop.at = "wait" /\ ~stop
  /\ loop' = IF fault THEN Ends("done")
             ELSE [loop EXCEPT !.at = "observed", !.ready = motor.ready,
                               !.generation = motor.generation]
  /\ UNCHANGED <<motorVars, ctl, age, fault, failing, turned, still>>

\* step: a session that is new, and not the first, stops a driving robot, unless it is
\* finishing a removal check (_stop_after_link_loss).
MeetSession(c, finishing) ==
  IF ~loop.ready \/ loop.generation = c.generation THEN c
  ELSE [driving |-> c.driving /\ (c.generation = 0 \/ finishing), generation |-> loop.generation]

\* The loop takes the lock.  A driving robot moves, or stands because of what it sees; it may
\* also stop driving (a hazard, a deadline, the backend).
Step ==
  /\ loop.at = "observed"
  /\ \E goesOn, finishing \in BOOLEAN, out \in Commands :
       LET c == [MeetSession(ctl, finishing) EXCEPT !.driving = @ /\ goesOn]
       IN /\ out # "S" => loop.ready /\ c.driving
          /\ ctl' = c
          /\ loop' = [loop EXCEPT !.at = "stepped", !.ready = FALSE, !.out = out]
          /\ still' = IF ctl.driving /\ ~c.driving THEN 0 ELSE still
  /\ UNCHANGED <<motorVars, age, fault, failing, turned>>

\* Mutant: the fault is not looked at again before the command is submitted.
PublishUnchecked ==
  /\ loop.at = "stepped"
  /\ loop' = Begins
  /\ motor' = Submitted(motor, loop.out, loop.generation)
  /\ age' = 0 /\ turned' = 0
  /\ UNCHANGED <<line, thread, taken, stop, ctl, fault, failing, still>>

\* Under health_lock: a latched fault is never followed by a command.
Publish ==
  /\ loop.at = "stepped"
  /\ IF fault
     THEN /\ loop' = Ends("done")
          /\ UNCHANGED <<motor, age, turned>>
     ELSE /\ loop' = Begins
          /\ motor' = Submitted(motor, loop.out, loop.generation)
          /\ age' = 0 /\ turned' = 0
  /\ UNCHANGED <<line, thread, taken, stop, ctl, fault, failing, still>>

\* An exception anywhere in an iteration; with releases the lock.
Crash ==
  /\ loop.at \in {"observed", "stepped"}
  /\ loop' = Ends("crashed")
  /\ UNCHANGED <<motorVars, ctl, age, fault, failing, turned, still>>

-----------------------------------------------------------------------------
(* fail_control, by the supervisor (check_stall) or by the loop's own handler *)

Latch(f) ==
  /\ failing[f] = "idle"
  /\ IF f = "loop" THEN loop.at = "crashed" ELSE age > FaultAfter /\ ~stop
  /\ fault' = TRUE
  /\ failing' = [failing EXCEPT ![f] = "latched"]
  /\ UNCHANGED <<motorVars, ctl, loop, age, turned, still>>

\* The lease goes first: no waiting for the controller's lock.
Withdraw(f) ==
  /\ failing[f] = "latched"
  /\ motor' = Submitted(motor, "S", AnySession)
  /\ failing' = [failing EXCEPT ![f] = "withdrawn"]
  /\ UNCHANGED <<line, thread, taken, stop, ctl, loop, age, fault, turned, still>>

\* The controller is left as it is when its lock is taken.
Conclude(f) ==
  /\ failing[f] = "withdrawn"
  /\ failing' = [failing EXCEPT ![f] = "idle"]
  /\ loop' = IF f = "loop" THEN Ends("done") ELSE loop
  /\ IF LockFree THEN ctl' = [ctl EXCEPT !.driving = FALSE] ELSE UNCHANGED ctl
  /\ still' = IF ctl.driving /\ ~ctl'.driving THEN 0 ELSE still
  /\ UNCHANGED <<motorVars, age, fault, turned>>

-----------------------------------------------------------------------------
(* command *)

\* Mutant: the request does not wait for the iteration that is under way.
AskUnlocked(drives) ==
  /\ ~fault /\ ~stop
  /\ ctl' = [ctl EXCEPT !.driving = drives]
  /\ still' = IF drives THEN Leases ELSE IF ctl.driving THEN 0 ELSE still
  /\ UNCHANGED <<motorVars, loop, age, fault, failing, turned>>

\* A request that the controller accepts: PAUSE, POWER_OFF, or one that drives.
Ask(drives) ==
  /\ ~fault /\ ~stop /\ LockFree
  /\ ctl' = [ctl EXCEPT !.driving = drives]
  /\ still' = IF drives THEN Leases ELSE IF ctl.driving THEN 0 ELSE still
  /\ UNCHANGED <<motorVars, loop, age, fault, failing, turned>>

-----------------------------------------------------------------------------

Motor == (MotorThread \/ Receiver \/ Shutdown) /\ UNCHANGED runtimeVars

\* A command that moves the robot has been read under lease, and is not sent yet.
Held == thread = "holding" /\ taken # "S"

Counted(clock) == IF Held \/ clock = Leases THEN clock ELSE clock + 1

Tick ==
  /\ MotorTick
  /\ age' = IF age <= FaultAfter THEN age + 1 ELSE age
  /\ turned' = Counted(turned)
  /\ still' = IF ctl.driving THEN still ELSE Counted(still)
  /\ UNCHANGED <<ctl, loop, fault, failing>>

Next ==
  \/ Motor \/ Tick
  \/ Observe \/ Step \/ Publish \/ Crash
  \/ \E f \in Failers : Latch(f) \/ Withdraw(f) \/ Conclude(f)
  \/ \E drives \in BOOLEAN : Ask(drives)

\* The motor thread runs, the receiver obeys and notices a lost session, time passes.
\* Nothing is assumed of the loop, which may stall, nor of the supervisor.
Spec ==
  /\ Init /\ [][Next]_vars
  /\ WF_vars(MotorThread /\ UNCHANGED runtimeVars)
  /\ WF_vars(Receiver /\ UNCHANGED runtimeVars)
  /\ WF_vars(Tick)

-----------------------------------------------------------------------------

\* A command under lease was decided for the session that is up, after the controller had
\* met it: what was computed before a reconnect never moves the robot after it.
ArmedSeesSession == motor.left > 0 => ctl.generation = motor.generation

\* The three leases of motor_output.py, pc_client.py and protocol.py together: the robot stands
\* when they have run out since the loop last turned.  A motor thread that stalls between
\* reading a command under lease and sending it moves the robot later by as long as it stalls
\* there, and by no more; a stall anywhere else, of any thread, moves nothing.
MotionNeedsControl == line.robot # "S" => turned < Leases

\* A controller that stops driving (PAUSE, a hazard, a lost session) has the robot standing
\* within the leases, although the motor thread may still read, and drive, a command from
\* before.  Only its stall with such a command in its hand, read and not sent, comes on top.
StopHolds == ~ctl.driving /\ still = Leases => line.robot = "S"

\* Once a fault is latched and its lease withdrawn, nothing is under lease again.
FaultDisarms == fault /\ (\A f \in Failers : failing[f] # "latched") => motor.left = 0

\* What observation() shows as acknowledged is what the robot does between two exchanges,
\* unless the receiver has stopped it, whatever was submitted during the round trip.
AckIsObeyed ==
  thread \in {"waiting", "reading", "holding"} => line.robot \in {motor.ack, "S"}

\* close: the motor thread ends and leaves the robot standing.
ShutdownStops == stop ~> [](thread = "over" /\ line.robot = "S")
=============================================================================
