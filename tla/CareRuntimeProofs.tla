--------------------------- MODULE CareRuntimeProofs ---------------------------
(***************************************************************************)
(* Proofs of the safety properties of CareRuntime, for all commands, all   *)
(* lengths of the leases and of the round trip, and any number of sessions.*)
(***************************************************************************)
EXTENDS CareRuntime, TLAPS

\* Where the motor thread is tells the state of the link, and what it carries.
ThreadInv ==
  /\ thread \in {"connecting", "failed", "over"} => line.wire = "closed"
  /\ thread \in {"waiting", "reading", "holding", "leaving"} => line.wire = "idle"
  /\ thread \in {"greeting", "driving", "closing"} => line.wire \in {"sent", "applied"}
  /\ thread \in {"greeting", "closing"} => line.cmd = "S"
  /\ thread = "driving" => line.cmd = taken
  /\ line.wire \in {"closed", "idle"} => line.cmd = "S" /\ line.waited = 0

\* What the robot does after an exchange is what the thread records.
AckInv ==
  /\ line.wire = "applied" => line.robot \in {line.cmd, "S"}
  /\ AckIsObeyed

\* Sessions: those that are up have a number, the loop has seen it before it arms one, and
\* the next one is within the bound.
SessionInv ==
  /\ thread = "greeting" => motor.generation < MaxSession
  /\ motor.ready => motor.generation > 0
  /\ ~motor.ready => motor.left = 0
  /\ loop.at = "observed" /\ loop.ready => loop.generation > 0
  /\ loop.at = "observed" /\ loop.ready /\ motor.left > 0 => loop.generation = motor.generation
  /\ loop.at = "stepped" /\ loop.out # "S" =>
       ctl.driving /\ loop.generation > 0 /\ loop.generation = ctl.generation
  /\ ArmedSeesSession

\* The leases one after the other, on a clock that stands while the thread holds a command that
\* moves the robot.  First the lease of submit, then the round trip, then the lease of the
\* receiver.
LeasesOf(clock) ==
  /\ motor.left > 0 => clock + motor.left <= Pulse
  /\ Held => clock < Pulse
  /\ Arrives /\ line.cmd # "S" => clock < Pulse + line.waited
  /\ line.robot # "S" => clock + line.lease < Leases

MotionInv ==
  /\ line.robot # "S" => line.lease > 0
  /\ LeasesOf(turned)
  /\ ~ctl.driving => LeasesOf(still)

IInv == TypeOK /\ ThreadInv /\ AckInv /\ SessionInv /\ MotionInv /\ FaultDisarms

\* The operations of the link keep its type.
LEMMA LinkTyped ==
  ASSUME line \in Lines
  PROVE  /\ \A c \in Commands : Open(c) \/ Send(c) => line' \in Lines
         /\ Obey \/ Acknowledged \/ Break \/ Abandon \/ LinkTick => line' \in Lines
<1>1. Wires = {"closed", "idle", "sent", "applied"} BY DEF Wires
<1>2. "S" \in Commands BY DEF Commands
<1>3. 0 \in 0..AckWait + 1 /\ 0 \in 0..LeaseTime /\ LeaseTime \in 0..LeaseTime
  BY LinkAssumption DEF LinkAssumption
<1>4. line.cmd \in Commands BY DEF Lines
<1>5. ASSUME NEW c \in Commands, Open(c) \/ Send(c) PROVE line' \in Lines
  BY <1>1, <1>5 DEF Lines, Open, Send
<1>6. CASE Obey BY <1>1, <1>3, <1>4, <1>6 DEF Lines, Obey
<1>7. CASE Acknowledged BY <1>1, <1>2, <1>3, <1>7 DEF Lines, Acknowledged
<1>8. CASE Break
  <2> DEFINE over == [line EXCEPT !.wire = "closed", !.cmd = "S", !.waited = 0]
  <2>1. over \in Lines BY <1>1, <1>2, <1>3 DEF Lines
  <2>2. [over EXCEPT !.robot = line.cmd, !.lease = LeaseTime] \in Lines
    <3> HIDE DEF over
    <3> QED BY <1>3, <1>4, <2>1 DEF Lines
  <2> QED BY <1>8, <2>1, <2>2 DEF Break
<1>9. CASE Abandon BY <1>2, <1>3, <1>9 DEF Lines, Abandon
<1>10. CASE LinkTick
  <2> DEFINE waited == IF InFlight /\ line.waited <= AckWait THEN line.waited + 1
                       ELSE line.waited
             robot == IF line.lease <= 1 THEN "S" ELSE line.robot
             lease == IF line.lease = 0 THEN 0 ELSE line.lease - 1
  <2>1. waited \in 0..AckWait + 1 BY <1>10, LinkAssumption DEF LinkTick, Lines, LinkAssumption
  <2>2. robot \in Commands BY <1>2 DEF Lines
  <2>3. lease \in 0..LeaseTime BY LinkAssumption DEF Lines, LinkAssumption
  <2>4. line' = [line EXCEPT !.waited = waited, !.robot = robot, !.lease = lease]
    BY <1>10 DEF LinkTick
  <2> HIDE DEF waited, robot, lease
  <2> QED BY <2>1, <2>2, <2>3, <2>4 DEF Lines
<1> QED BY <1>5, <1>6, <1>7, <1>8, <1>9, <1>10

LEMMA SubmittedTyped ==
  ASSUME motor \in Motors, NEW command \in Commands, NEW session
  PROVE  Submitted(motor, command, session) \in Motors
<1>1. (IF command = "S" THEN 0 ELSE Pulse) \in 0..Pulse
  BY MotorAssumption DEF MotorAssumption
<1>2. [motor EXCEPT !.command = command, !.left = IF command = "S" THEN 0 ELSE Pulse] \in Motors
  BY <1>1 DEF Motors
<1> QED BY <1>2 DEF Submitted

LEMMA DisarmedTyped ==
  ASSUME motor \in Motors
  PROVE  Disarmed(motor) \in Motors /\ LeasedCommand(motor) \in Commands
<1>1. 0 \in 0..Pulse BY MotorAssumption DEF MotorAssumption
<1>2. "S" \in Commands BY DEF Commands
<1>3. "none" \in Commands \cup {"none"} OBVIOUS
<1>4. Disarmed(motor) \in Motors BY <1>1, <1>2, <1>3 DEF Motors, Disarmed
<1>5. LeasedCommand(motor) \in Commands BY <1>2 DEF Motors, LeasedCommand
<1> QED BY <1>4, <1>5

LEMMA EndsTyped ==
  Begins \in Loops /\ (\A how \in Places : Ends(how) \in Loops)
<1>1. "wait" \in Places /\ FALSE \in BOOLEAN BY DEF Places
<1>2. "S" \in Commands BY DEF Commands
<1>3. 0 \in 0..MaxSession BY MotorAssumption DEF MotorAssumption
<1>4. Begins \in Loops BY <1>1, <1>2, <1>3 DEF Begins, Loops
<1>5. ASSUME NEW how \in Places PROVE Ends(how) \in Loops
  BY <1>4, <1>5 DEF Ends, Loops
<1> QED BY <1>4, <1>5

LEMMA TypeInit == Init => TypeOK
<1> SUFFICES ASSUME Init PROVE TypeOK OBVIOUS
<1>1. "S" \in Commands /\ "none" \in Commands \cup {"none"} BY DEF Commands
<1>2. /\ 0 \in 0..AckWait + 1 /\ 0 \in 0..LeaseTime /\ 0 \in 0..Pulse /\ 0 \in 0..MaxSession
      /\ 0 \in 0..FaultAfter + 1 /\ 0 \in 0..Leases /\ Leases \in 0..Leases
  BY LinkAssumption, MotorAssumption, RuntimeAssumption
  DEF LinkAssumption, MotorAssumption, RuntimeAssumption, Leases
<1>3. line \in Lines BY <1>1, <1>2 DEF Init, MotorInit, LinkInit, Lines, Wires
<1>4. motor \in Motors BY <1>1, <1>2 DEF Init, MotorInit, Motors
<1>5. thread \in Threads /\ taken \in Commands /\ stop \in BOOLEAN
  BY <1>1 DEF Init, MotorInit, Threads
<1>6. ctl \in Controllers BY <1>2 DEF Init, Controllers
<1>7. failing \in [Failers -> {"idle", "latched", "withdrawn"}] BY DEF Init
<1>8. loop \in Loops BY EndsTyped DEF Init
<1> QED BY <1>2, <1>3, <1>4, <1>5, <1>6, <1>7, <1>8 DEF Init, TypeOK

\* The motor thread; the bound on the sessions is kept by SessionInv.
LEMMA MotorTyped ==
  ASSUME TypeOK, SessionInv, MotorThread \/ Receiver \/ Shutdown
  PROVE  /\ line' \in Lines /\ motor' \in Motors /\ thread' \in Threads /\ taken' \in Commands
         /\ stop' \in BOOLEAN
<1> USE LinkTyped, DisarmedTyped DEF TypeOK
<1>1. "S" \in Commands /\ "S" \in Commands \cup {"none"} BY DEF Commands
<1>2. 0 \in 0..Pulse BY MotorAssumption DEF MotorAssumption
<1>3. CASE Connect BY <1>1, <1>3 DEF Connect, Threads
<1>4. CASE Greeted
  <2>1. motor.generation + 1 \in 0..MaxSession
    BY <1>4, MotorAssumption DEF Greeted, SessionInv, Motors, MotorAssumption
  <2>2. motor' \in Motors BY <1>1, <1>2, <1>4, <2>1 DEF Greeted, Motors
  <2> QED BY <1>4, <2>2 DEF Greeted, Threads
<1>5. CASE Turn \/ Take BY <1>5 DEF Turn, Take, Threads
<1>14. CASE Drive BY <1>14 DEF Drive, Threads
<1>6. CASE Driven
  <2>1. motor' \in Motors BY <1>6 DEF Driven, Motors
  <2> QED BY <1>1, <1>6, <2>1 DEF Driven, Threads
<1>7. CASE Lose BY <1>1, <1>7 DEF Lose, Threads
<1>8. CASE Cleanup BY <1>8 DEF Cleanup, Threads
<1>9. CASE Leave BY <1>9 DEF Leave, Threads
<1>15. CASE Close BY <1>1, <1>15 DEF Close, Threads
<1>10. CASE Closed
  <2>1. 0 \in 0..AckWait + 1 BY LinkAssumption DEF LinkAssumption
  <2>2. [line EXCEPT !.wire = "closed", !.waited = 0] \in Lines BY <2>1 DEF Lines, Wires
  <2> QED BY <1>10, <2>2 DEF Closed, Threads
<1>11. CASE NeverConnects BY <1>11 DEF NeverConnects, Threads
<1>12. CASE Receiver BY <1>12 DEF Receiver
<1>13. CASE Shutdown BY <1>1, <1>13, SubmittedTyped DEF Shutdown
<1> QED
  BY <1>3, <1>4, <1>5, <1>6, <1>7, <1>8, <1>9, <1>10, <1>11, <1>12, <1>13, <1>14, <1>15
  DEF MotorThread

LEMMA TypeStep ==
  ASSUME TypeOK, SessionInv, [Next]_vars
  PROVE  TypeOK'
<1> USE DEF TypeOK
<1>1. "S" \in Commands BY DEF Commands
<1>2. 0 \in 0..FaultAfter + 1 /\ 0 \in 0..Leases /\ Leases \in 0..Leases
  BY LinkAssumption, MotorAssumption, RuntimeAssumption
  DEF LinkAssumption, MotorAssumption, RuntimeAssumption, Leases
<1>3. CASE Motor BY <1>3, MotorTyped DEF Motor, runtimeVars
<1>4. CASE Tick
  <2> DEFINE left == IF motor.left = 0 THEN 0 ELSE motor.left - 1
  <2>1. left \in 0..Pulse BY MotorAssumption DEF Motors, MotorAssumption
  <2>2. motor' = [motor EXCEPT !.left = left] BY <1>4 DEF Tick, MotorTick
  <2>3. motor' \in Motors
    <3> HIDE DEF left
    <3> QED BY <2>1, <2>2 DEF Motors
  <2>4. line' \in Lines BY <1>4, LinkTyped DEF Tick, MotorTick
  <2>5. age' \in 0..FaultAfter + 1
    BY <1>4, RuntimeAssumption DEF Tick, RuntimeAssumption
  <2>6. turned' \in 0..Leases /\ still' \in 0..Leases
    BY <1>4, LinkAssumption, MotorAssumption
    DEF Tick, Counted, LinkAssumption, MotorAssumption, Leases
  <2> QED BY <1>4, <2>3, <2>4, <2>5, <2>6 DEF Tick, MotorTick
<1>5. CASE Observe
  <2>1. loop' \in Loops BY <1>5, EndsTyped DEF Observe, Loops, Motors, Places
  <2> QED BY <1>5, <2>1 DEF Observe, motorVars
<1>6. CASE Step
  <2>1. ctl' \in Controllers BY <1>6 DEF Step, MeetSession, Controllers, Loops
  <2>2. loop' \in Loops BY <1>6 DEF Step, Loops, Places
  <2> QED BY <1>2, <1>6, <2>1, <2>2 DEF Step, motorVars
<1>7. CASE Publish
  <2>1. motor' \in Motors BY <1>7, SubmittedTyped DEF Publish, Loops
  <2>2. loop' \in Loops BY <1>7, EndsTyped DEF Publish, Places
  <2> QED BY <1>2, <1>7, <2>1, <2>2 DEF Publish
<1>8. CASE Crash BY <1>8, EndsTyped DEF Crash, Places, motorVars
<1>9. ASSUME NEW f \in Failers, Latch(f) PROVE TypeOK'
  BY <1>9 DEF Latch, motorVars
<1>10. ASSUME NEW f \in Failers, Withdraw(f) PROVE TypeOK'
  BY <1>1, <1>10, SubmittedTyped DEF Withdraw
<1>11. ASSUME NEW f \in Failers, Conclude(f) PROVE TypeOK'
  <2>1. ctl' \in Controllers BY <1>11 DEF Conclude, Controllers
  <2>2. loop' \in Loops BY <1>11, EndsTyped DEF Conclude, Places
  <2> QED BY <1>2, <1>11, <2>1, <2>2 DEF Conclude, motorVars
<1>12. ASSUME NEW drives \in BOOLEAN, Ask(drives) PROVE TypeOK'
  <2>1. ctl' \in Controllers BY <1>12 DEF Ask, Controllers
  <2> QED BY <1>2, <1>12, <2>1 DEF Ask, motorVars
<1>13. CASE UNCHANGED vars BY <1>13 DEF vars, motorVars, runtimeVars
<1> QED BY <1>3, <1>4, <1>5, <1>6, <1>7, <1>8, <1>9, <1>10, <1>11, <1>12, <1>13 DEF Next

-----------------------------------------------------------------------------
(* What the operations do, field by field *)

\* A broken link is closed; a command that was under way may still have arrived.
LEMMA Broken ==
  ASSUME line \in Lines, Break
  PROVE  /\ line.wire \in {"sent", "applied"}
         /\ line'.wire = "closed" /\ line'.cmd = "S" /\ line'.waited = 0
         /\ \/ line'.robot = line.robot /\ line'.lease = line.lease
            \/ Arrives /\ line'.robot = line.cmd /\ line'.lease = LeaseTime
BY DEF Break, InFlight, Lines

\* submit arms the session that is up, or does nothing.
LEMMA Submits ==
  ASSUME motor \in Motors, NEW command \in Commands, NEW session,
         motor' = Submitted(motor, command, session)
  PROVE  /\ motor'.ready = motor.ready /\ motor'.generation = motor.generation
         /\ motor'.ack = motor.ack
         /\ \/ motor' = motor /\ ~(motor.ready /\ session \in {AnySession, motor.generation})
            \/ /\ motor.ready /\ session \in {AnySession, motor.generation}
               /\ motor'.left = IF command = "S" THEN 0 ELSE Pulse
BY DEF Motors, Submitted

LEMMA Disarms ==
  ASSUME motor \in Motors, motor' = Disarmed(motor)
  PROVE  ~motor'.ready /\ motor'.left = 0 /\ motor'.generation = motor.generation
BY DEF Motors, Disarmed

\* What is submitted as "S" leaves nothing under lease.
LEMMA Withdrawn ==
  ASSUME motor \in Motors, SessionInv, motor' = Submitted(motor, "S", AnySession)
  PROVE  motor'.left = 0 /\ motor'.ready = motor.ready /\ motor'.generation = motor.generation
         /\ motor'.ack = motor.ack
<1>1. "S" \in Commands BY DEF Commands
<1> QED BY <1>1, Submits DEF SessionInv

-----------------------------------------------------------------------------

\* Steps that leave the link and the motor thread alone.
Elsewhere == UNCHANGED <<line, thread, taken>>

LEMMA Elsewheres ==
  ASSUME [Next]_vars
  PROVE  \/ (MotorThread \/ Receiver) /\ UNCHANGED runtimeVars
         \/ Tick
         \/ Elsewhere /\ (motor' = motor \/ (Shutdown /\ UNCHANGED runtimeVars) \/ Publish
                            \/ \E f \in Failers : Withdraw(f))
BY DEF Next, Motor, Observe, Step, Publish, Crash, Latch, Withdraw, Conclude, Ask, Shutdown,
       Elsewhere, vars, motorVars, runtimeVars

LEMMA ThreadStep ==
  ASSUME TypeOK, ThreadInv, [Next]_vars
  PROVE  ThreadInv'
<1> USE DEF ThreadInv, TypeOK
<1>1. CASE Connect BY <1>1 DEF Connect, Open, Lines
<1>2. CASE Greeted BY <1>2 DEF Greeted, Acknowledged, Lines
<1>3. CASE Turn \/ Take BY <1>3 DEF Turn, Take
<1>13. CASE Drive BY <1>13 DEF Drive, Send, Lines
<1>4. CASE Driven BY <1>4 DEF Driven, Acknowledged, Lines
<1>5. CASE Lose BY <1>5, Broken DEF Lose
<1>6. CASE Cleanup BY <1>6 DEF Cleanup
<1>7. CASE Leave BY <1>7 DEF Leave
<1>14. CASE Close BY <1>14 DEF Close, Send, Lines
<1>8. CASE Closed
  <2>1. line'.wire = "closed" /\ line'.cmd = "S" /\ line'.waited = 0
    BY <1>8, Broken DEF Closed, Lines
  <2> QED BY <1>8, <2>1 DEF Closed
<1>9. CASE NeverConnects BY <1>9 DEF NeverConnects
<1>10. CASE Receiver
  <2>1. UNCHANGED <<motor, thread, taken, stop>> BY <1>10 DEF Receiver
  <2>2. CASE Obey
    <3>1. /\ line.wire = "sent" /\ line'.wire = "applied"
          /\ line'.cmd = line.cmd /\ line'.waited = line.waited
      BY <2>2 DEF Obey, Arrives, Lines
    <3> QED BY <2>1, <3>1
  <2>3. CASE Abandon
    <3>1. line'.wire = line.wire /\ line'.cmd = line.cmd /\ line'.waited = line.waited
      BY <2>3 DEF Abandon, Lines
    <3> QED BY <2>1, <3>1
  <2> QED BY <1>10, <2>2, <2>3 DEF Receiver
<1>11. CASE Tick BY <1>11 DEF Tick, MotorTick, LinkTick, InFlight, Lines
<1>12. CASE Elsewhere BY <1>12 DEF Elsewhere
<1> QED
  BY Elsewheres, <1>1, <1>2, <1>3, <1>4, <1>5, <1>6, <1>7, <1>8, <1>9, <1>10, <1>11, <1>12,
     <1>13, <1>14
  DEF MotorThread

LEMMA AckStep ==
  ASSUME TypeOK, ThreadInv, AckInv, SessionInv, [Next]_vars
  PROVE  AckInv'
<1> USE DEF AckInv, AckIsObeyed, TypeOK
<1>1. CASE Connect BY <1>1 DEF Connect, Open, Lines
<1>2. CASE Greeted BY <1>2 DEF Greeted, Acknowledged, Lines, Motors, ThreadInv
<1>3. CASE Turn \/ Take BY <1>3 DEF Turn, Take
<1>16. CASE Drive BY <1>16 DEF Drive, Send, Lines
<1>4. CASE Driven BY <1>4 DEF Driven, Acknowledged, Lines, Motors, ThreadInv
<1>5. CASE Lose BY <1>5, Broken DEF Lose
<1>6. CASE Cleanup BY <1>6 DEF Cleanup
<1>7. CASE Leave BY <1>7 DEF Leave
<1>17. CASE Close BY <1>17 DEF Close, Send, Lines
<1>8. CASE Closed BY <1>8, Broken DEF Closed, Lines
<1>9. CASE NeverConnects BY <1>9 DEF NeverConnects
<1>10. CASE Receiver
  <2>1. UNCHANGED <<motor, thread, taken, stop>> BY <1>10 DEF Receiver
  <2>2. CASE Obey
    <3>1. /\ line.wire = "sent" /\ line'.wire = "applied"
          /\ line'.robot = line.cmd /\ line'.cmd = line.cmd
      BY <2>2 DEF Obey, Arrives, Lines
    <3>2. thread \notin {"waiting", "reading", "holding"} BY <3>1 DEF ThreadInv
    <3> QED BY <2>1, <3>1, <3>2
  <2>3. CASE Abandon
    <3>1. line.wire = "closed" /\ line'.wire = "closed" /\ line'.robot = "S"
      BY <2>3 DEF Abandon, Lines
    <3> QED BY <2>1, <3>1
  <2> QED BY <1>10, <2>2, <2>3 DEF Receiver
<1>11. CASE Tick BY <1>11 DEF Tick, MotorTick, LinkTick, Lines, Motors
<1>12. CASE Elsewhere /\ motor'.ack = motor.ack BY <1>12 DEF Elsewhere
<1>13. CASE Shutdown BY <1>13, Withdrawn DEF Shutdown
<1>14. CASE Publish
  <2>1. motor'.ack = motor.ack BY <1>14, Submits DEF Publish, Loops
  <2> QED BY <1>14, <2>1 DEF Publish
<1>15. CASE \E f \in Failers : Withdraw(f) BY <1>15, Withdrawn DEF Withdraw
<1> QED
  BY Elsewheres, <1>1, <1>2, <1>3, <1>4, <1>5, <1>6, <1>7, <1>8, <1>9, <1>10, <1>11, <1>12,
     <1>13, <1>14, <1>15, <1>16, <1>17
  DEF MotorThread

LEMMA SessionStep ==
  ASSUME TypeOK, SessionInv, [Next]_vars
  PROVE  SessionInv'
<1> USE DEF SessionInv, ArmedSeesSession, TypeOK
<1>1. CASE /\ \/ Connect \/ Turn \/ Take \/ Drive \/ Driven \/ Lose \/ Close \/ NeverConnects
              \/ Receiver
           /\ UNCHANGED runtimeVars
  BY <1>1
  DEF Connect, Turn, Take, Drive, Driven, Lose, Close, NeverConnects, Receiver, runtimeVars,
      Motors
<1>2. CASE Greeted /\ UNCHANGED runtimeVars
  BY <1>2, MotorAssumption DEF Greeted, runtimeVars, Motors, MotorAssumption
<1>3. CASE (Cleanup \/ Leave) /\ UNCHANGED runtimeVars
  BY <1>3, Disarms DEF Cleanup, Leave, runtimeVars
<1>4. CASE Closed /\ UNCHANGED runtimeVars BY <1>4 DEF Closed, runtimeVars
<1>5. CASE Shutdown /\ UNCHANGED runtimeVars BY <1>5, Withdrawn DEF Shutdown, runtimeVars
<1>6. CASE Tick BY <1>6, MotorAssumption DEF Tick, MotorTick, Motors, MotorAssumption
<1>7. CASE Observe BY <1>7 DEF Observe, Ends, Begins, motorVars, Motors, Loops
<1>8. CASE Step BY <1>8 DEF Step, MeetSession, motorVars, Loops, Controllers, Motors
<1>9. CASE Publish
  <2>1. /\ motor'.ready = motor.ready /\ motor'.generation = motor.generation
        /\ \/ motor' = motor
           \/ /\ motor.ready /\ loop.generation \in {AnySession, motor.generation}
              /\ motor'.left = IF loop.out = "S" THEN 0 ELSE Pulse
    BY <1>9, Submits DEF Publish, Loops
  <2> QED BY <1>9, <2>1 DEF Publish, Ends, Begins, AnySession, Loops
<1>10. CASE Crash BY <1>10 DEF Crash, Ends, Begins, motorVars
<1>11. ASSUME NEW f \in Failers, Latch(f) PROVE SessionInv'
  BY <1>11 DEF Latch, motorVars
<1>12. ASSUME NEW f \in Failers, Withdraw(f) PROVE SessionInv'
  BY <1>12, Withdrawn DEF Withdraw
<1>13. ASSUME NEW f \in Failers, Conclude(f) PROVE SessionInv'
  BY <1>13 DEF Conclude, LockFree, Ends, Begins, motorVars, Controllers
<1>14. ASSUME NEW drives \in BOOLEAN, Ask(drives) PROVE SessionInv'
  BY <1>14 DEF Ask, LockFree, motorVars, Controllers
<1>15. CASE UNCHANGED vars BY <1>15 DEF vars, motorVars, runtimeVars
<1> QED
  BY <1>1, <1>2, <1>3, <1>4, <1>5, <1>6, <1>7, <1>8, <1>9, <1>10, <1>11, <1>12, <1>13, <1>14,
     <1>15
  DEF Next, Motor, MotorThread

\* The leases that a step of the motor thread or of the receiver hands on, for any clock that
\* stands meanwhile.
LEMMA LeasesHandedOn ==
  ASSUME TypeOK, ThreadInv, NEW clock \in Nat, LeasesOf(clock),
         MotorThread \/ Receiver \/ Shutdown, SessionInv
  PROVE  LeasesOf(clock)'
<1> USE LinkAssumption, MotorAssumption
    DEF LinkAssumption, MotorAssumption, LeasesOf, Held, Arrives, Leases, TypeOK
<1>1. CASE Connect BY <1>1 DEF Connect, Open, Lines
<1>2. CASE Greeted BY <1>2 DEF Greeted, Acknowledged, Lines, Motors
<1>3. CASE Turn BY <1>3 DEF Turn
<1>12. CASE Take BY <1>12 DEF Take, LeasedCommand, Lines, Motors
<1>13. CASE Drive BY <1>13 DEF Drive, Send, Lines, Motors, ThreadInv
<1>4. CASE Driven BY <1>4 DEF Driven, Acknowledged, Lines, Motors
<1>5. CASE Lose BY <1>5, Broken DEF Lose, Lines
<1>6. CASE Cleanup BY <1>6 DEF Cleanup, Disarmed, Motors
<1>7. CASE Leave BY <1>7 DEF Leave, Disarmed, Motors
<1>14. CASE Close BY <1>14 DEF Close, Send, Lines
<1>8. CASE Closed
  <2>1. CASE line' = [line EXCEPT !.wire = "closed", !.waited = 0]
    BY <1>8, <2>1 DEF Closed, Lines
  <2>2. CASE Break BY <1>8, <2>2, Broken DEF Closed, ThreadInv
  <2> QED BY <1>8, <2>1, <2>2 DEF Closed
<1>9. CASE NeverConnects BY <1>9 DEF NeverConnects
<1>10. CASE Receiver
  <2>1. CASE Obey
    <3>1. line.waited <= AckWait BY <2>1 DEF Obey
    <3> QED BY <1>10, <2>1, <3>1 DEF Receiver, Obey, Lines
  <2>2. CASE Abandon BY <1>10, <2>2 DEF Receiver, Abandon, Lines
  <2> QED BY <1>10, <2>1, <2>2 DEF Receiver
<1>11. CASE Shutdown BY <1>11, Withdrawn DEF Shutdown
<1> QED
  BY <1>1, <1>2, <1>3, <1>4, <1>5, <1>6, <1>7, <1>8, <1>9, <1>10, <1>11, <1>12, <1>13, <1>14
  DEF MotorThread

\* A tick takes from one what it adds to the other, and the clock stands while a command is held.
LEMMA LeasesAge ==
  ASSUME TypeOK, ThreadInv, NEW clock \in 0..Leases, LeasesOf(clock), MotorTick
  PROVE  /\ motor'.left > 0 => Counted(clock) + motor'.left <= Pulse
         /\ Held' => Counted(clock) < Pulse
         /\ Arrives' /\ line'.cmd # "S" => Counted(clock) < Pulse + line'.waited
         /\ line'.robot # "S" => Counted(clock) + line'.lease < Leases /\ line'.lease > 0
<1> USE LinkAssumption, MotorAssumption
    DEF LinkAssumption, MotorAssumption, LeasesOf, Leases, TypeOK
<1>1. /\ Counted(clock) \in Nat /\ Counted(clock) <= clock + 1
      /\ Held => Counted(clock) = clock
  BY DEF Counted
<1>2. motor'.left > 0 => Counted(clock) + motor'.left <= Pulse BY <1>1 DEF MotorTick, Motors
<1>3. Held' => Counted(clock) < Pulse BY <1>1 DEF MotorTick, Held
<1>4. Arrives' /\ line'.cmd # "S" => Counted(clock) < Pulse + line'.waited
  BY <1>1 DEF MotorTick, LinkTick, InFlight, Arrives, Lines
<1>5. line'.robot # "S" => Counted(clock) + line'.lease < Leases /\ line'.lease > 0
  BY <1>1 DEF MotorTick, LinkTick, Lines
<1> QED BY <1>2, <1>3, <1>4, <1>5

\* Whatever moves the robot has a lease of the receiver.
LEMMA LeaseHeld ==
  ASSUME line \in Lines, line.robot # "S" => line.lease > 0, MotorThread \/ Receiver \/ Shutdown
  PROVE  line'.robot # "S" => line'.lease > 0
<1>1. CASE Connect \/ Drive \/ Close BY <1>1 DEF Connect, Drive, Close, Open, Send, Lines
<1>2. CASE Acknowledged BY <1>2 DEF Acknowledged, Lines
<1>3. CASE Break BY <1>3, Broken, LinkAssumption DEF LinkAssumption
<1>4. CASE Closed /\ ~Break BY <1>4 DEF Closed, Lines
<1>5. CASE Receiver
  <2>1. CASE Obey BY <2>1, LinkAssumption DEF Obey, Lines, LinkAssumption
  <2>2. CASE Abandon BY <2>2 DEF Abandon, Lines
  <2> QED BY <1>5, <2>1, <2>2 DEF Receiver
<1>6. CASE Turn \/ Take \/ Cleanup \/ Leave \/ NeverConnects \/ Shutdown
  BY <1>6 DEF Turn, Take, Cleanup, Leave, NeverConnects, Shutdown
<1> QED BY <1>1, <1>2, <1>3, <1>4, <1>5, <1>6 DEF MotorThread, Greeted, Driven, Lose, Closed

LEMMA MotionStep ==
  ASSUME TypeOK, ThreadInv, SessionInv, MotionInv, [Next]_vars
  PROVE  MotionInv'
<1> USE LinkAssumption, MotorAssumption, RuntimeAssumption
    DEF LinkAssumption, MotorAssumption, RuntimeAssumption, MotionInv, LeasesOf, Held, Arrives,
        Elsewhere, Leases, TypeOK
<1>1. CASE (MotorThread \/ Receiver \/ Shutdown) /\ UNCHANGED runtimeVars
  <2>1. /\ LeasesOf(turned) /\ turned \in Nat /\ still \in Nat
        /\ turned' = turned /\ still' = still /\ ctl' = ctl
    BY <1>1 DEF runtimeVars
  <2>2. LeasesOf(turned)' BY <1>1, <2>1, LeasesHandedOn
  <2>3. ~ctl.driving => LeasesOf(still)' BY <1>1, <2>1, LeasesHandedOn
  <2>4. line'.robot # "S" => line'.lease > 0 BY <1>1, LeaseHeld
  <2> QED BY <2>1, <2>2, <2>3, <2>4
<1>2. CASE Tick
  <2>1. /\ MotorTick /\ ctl' = ctl /\ turned' = Counted(turned)
        /\ ~ctl.driving => still' = Counted(still)
    BY <1>2 DEF Tick
  <2>2. /\ motor'.left > 0 => turned' + motor'.left <= Pulse
        /\ Held' => turned' < Pulse
        /\ Arrives' /\ line'.cmd # "S" => turned' < Pulse + line'.waited
        /\ line'.robot # "S" => turned' + line'.lease < Leases /\ line'.lease > 0
    BY <2>1, LeasesAge
  <2>3. ASSUME ~ctl.driving
        PROVE  /\ motor'.left > 0 => still' + motor'.left <= Pulse
               /\ Held' => still' < Pulse
               /\ Arrives' /\ line'.cmd # "S" => still' < Pulse + line'.waited
               /\ line'.robot # "S" => still' + line'.lease < Leases
    BY <2>1, <2>3, LeasesAge
  <2> QED BY <2>1, <2>2, <2>3
<1>3. CASE Observe BY <1>3 DEF Observe, motorVars
<1>4. ASSUME Elsewhere, motor' = motor, turned' = turned,
             \/ ctl'.driving /\ ctl.driving
             \/ ctl'.driving /\ ~ctl.driving
             \/ ~ctl'.driving /\ ctl.driving /\ still' = 0
             \/ ~ctl'.driving /\ ~ctl.driving /\ still' = still
      PROVE  MotionInv'
  <2>1. ~ctl'.driving /\ ctl.driving => LeasesOf(still)' BY <1>4 DEF Motors, Lines
  <2> QED BY <1>4, <2>1
<1>5. CASE Step
  <2>1. ctl'.driving => ctl.driving BY <1>5 DEF Step, MeetSession, Controllers
  <2>2. Elsewhere /\ motor' = motor /\ turned' = turned BY <1>5 DEF Step, motorVars
  <2>3. still' = IF ctl.driving /\ ~ctl'.driving THEN 0 ELSE still BY <1>5 DEF Step
  <2>4. ctl' \in Controllers BY <1>5, TypeStep DEF Next
  <2> QED BY <1>4, <2>1, <2>2, <2>3, <2>4 DEF Controllers
<1>6. CASE Publish
  <2>1. CASE fault BY <1>6, <2>1 DEF Publish
  <2>2. CASE ~fault
    <3>1. \/ motor' = motor
          \/ /\ motor'.left = IF loop.out = "S" THEN 0 ELSE Pulse
             /\ loop.out # "S" => ctl.driving
      BY <1>6, <2>2, Submits DEF Publish, SessionInv, Loops
    <3>2. Elsewhere /\ UNCHANGED <<ctl, still>> /\ turned' = 0 BY <1>6, <2>2 DEF Publish
    <3> QED BY <3>1, <3>2 DEF Motors, Lines
  <2> QED BY <2>1, <2>2
<1>7. CASE Crash BY <1>7 DEF Crash, motorVars
<1>8. ASSUME NEW f \in Failers, Latch(f) PROVE MotionInv' BY <1>8 DEF Latch, motorVars
<1>9. ASSUME NEW f \in Failers, Withdraw(f) PROVE MotionInv'
  BY <1>9, Withdrawn DEF Withdraw
<1>10. ASSUME NEW f \in Failers, Conclude(f) PROVE MotionInv'
  <2>1. /\ ctl' = [ctl EXCEPT !.driving = FALSE] \/ ctl' = ctl
        /\ Elsewhere /\ motor' = motor /\ turned' = turned
        /\ still' = IF ctl.driving /\ ~ctl'.driving THEN 0 ELSE still
    BY <1>10 DEF Conclude, motorVars
  <2> QED BY <1>4, <2>1 DEF Controllers
<1>11. ASSUME NEW drives \in BOOLEAN, Ask(drives) PROVE MotionInv'
  <2>1. /\ ctl'.driving = drives
        /\ Elsewhere /\ motor' = motor /\ turned' = turned
        /\ still' = IF drives THEN Leases ELSE IF ctl.driving THEN 0 ELSE still
    BY <1>11 DEF Ask, motorVars, Controllers
  <2> QED BY <1>4, <2>1 DEF Controllers
<1>12. CASE UNCHANGED vars BY <1>12 DEF vars, motorVars, runtimeVars
<1> QED
  BY <1>1, <1>2, <1>3, <1>5, <1>6, <1>7, <1>8, <1>9, <1>10, <1>11, <1>12
  DEF Next, Motor

LEMMA FaultStep ==
  ASSUME TypeOK, SessionInv, FaultDisarms, [Next]_vars
  PROVE  FaultDisarms'
<1> USE DEF FaultDisarms, TypeOK
<1>1. CASE MotorThread /\ UNCHANGED runtimeVars
  BY <1>1, Disarms
  DEF MotorThread, Connect, Greeted, Turn, Take, Drive, Driven, Lose, Cleanup, Leave, Close,
      Closed, NeverConnects, runtimeVars, Motors
<1>2. CASE Receiver /\ UNCHANGED runtimeVars BY <1>2 DEF Receiver, runtimeVars
<1>3. CASE Shutdown /\ UNCHANGED runtimeVars BY <1>3, Withdrawn DEF Shutdown, runtimeVars
<1>4. CASE Tick BY <1>4 DEF Tick, MotorTick, Motors
<1>5. CASE Observe \/ Step \/ Crash BY <1>5 DEF Observe, Step, Crash, motorVars
<1>6. CASE Publish BY <1>6 DEF Publish
<1>7. ASSUME NEW f \in Failers, Latch(f) PROVE FaultDisarms' BY <1>7 DEF Latch
<1>8. ASSUME NEW f \in Failers, Withdraw(f) PROVE FaultDisarms'
  BY <1>8, Withdrawn DEF Withdraw
<1>9. ASSUME NEW f \in Failers, Conclude(f) PROVE FaultDisarms'
  BY <1>9 DEF Conclude, motorVars
<1>10. ASSUME NEW drives \in BOOLEAN, Ask(drives) PROVE FaultDisarms'
  BY <1>10 DEF Ask, motorVars
<1>11. CASE UNCHANGED vars BY <1>11 DEF vars, motorVars, runtimeVars
<1> QED BY <1>1, <1>2, <1>3, <1>4, <1>5, <1>6, <1>7, <1>8, <1>9, <1>10, <1>11 DEF Next, Motor

-----------------------------------------------------------------------------
(* The theorems *)

\* Init satisfies the invariant.
LEMMA InitIInv == Init => IInv
<1> SUFFICES ASSUME Init PROVE IInv OBVIOUS
<1> USE DEF Init, MotorInit, LinkInit, Begins
<1>1. TypeOK BY TypeInit
<1>2. ThreadInv /\ AckInv BY DEF ThreadInv, AckInv, AckIsObeyed
<1>3. SessionInv BY DEF SessionInv, ArmedSeesSession
<1>4. MotionInv
  BY LinkAssumption, MotorAssumption
  DEF MotionInv, LeasesOf, Held, Arrives, LinkAssumption, MotorAssumption
<1>5. FaultDisarms BY DEF FaultDisarms
<1> QED BY <1>1, <1>2, <1>3, <1>4, <1>5 DEF IInv

\* The inductive invariant: where the motor thread is, which session the parts have seen, and
\* how much of the leases is left to a command (care_runtime.py, motor_output.py).
THEOREM RuntimeIInv == Spec => []IInv
<1>1. Init => IInv BY InitIInv
<1>2. IInv /\ [Next]_vars => IInv'
  BY TypeStep, ThreadStep, AckStep, SessionStep, MotionStep, FaultStep DEF IInv
<1> QED BY <1>1, <1>2, PTL DEF Spec

\* Every variable of runtime, motor thread and link keeps its type.
THEOREM RuntimeTyped == Spec => []TypeOK
<1>1. IInv => TypeOK BY DEF IInv
<1> QED BY <1>1, RuntimeIInv, PTL

\* What was computed before a reconnect is never under lease after it (submit with the
\* generation of observation()).
THEOREM SessionsSeen == Spec => []ArmedSeesSession
<1>1. IInv => ArmedSeesSession BY DEF IInv, SessionInv
<1> QED BY <1>1, RuntimeIInv, PTL

\* The leases of submit, of the round trip and of the receiver stop the robot before a loop
\* that does not turn is called stalled; what the motor thread stalls with a command in its
\* hand (motor_output.py, between reading it and drive) comes on top.
THEOREM LeasesStop == Spec => []MotionNeedsControl
<1>1. IInv => MotionNeedsControl
  BY LinkAssumption, MotorAssumption
  DEF IInv, TypeOK, MotionInv, LeasesOf, MotionNeedsControl, Lines, Leases, LinkAssumption,
      MotorAssumption
<1> QED BY <1>1, RuntimeIInv, PTL

\* PAUSE and whatever else stops driving holds for the robot, too, when the leases are over, not
\* counting what the motor thread stalls with a command in its hand.
THEOREM StopsHold == Spec => []StopHolds
<1>1. IInv => StopHolds
  BY LinkAssumption, MotorAssumption
  DEF IInv, TypeOK, MotionInv, LeasesOf, StopHolds, Lines, Leases, LinkAssumption, MotorAssumption
<1> QED BY <1>1, RuntimeIInv, PTL

\* A latched fault leaves nothing under lease (fail_control).
THEOREM FaultsDisarm == Spec => []FaultDisarms
<1>1. IInv => FaultDisarms BY DEF IInv
<1> QED BY <1>1, RuntimeIInv, PTL

\* The acknowledgement that observation() shows is of what the robot does.
THEOREM AcksObeyed == Spec => []AckIsObeyed
<1>1. IInv => AckIsObeyed BY DEF IInv, AckInv
<1> QED BY <1>1, RuntimeIInv, PTL

\* close: when the motor thread has ended and the robot stands, no thread of the runtime, and
\* no command still on its way, sets it in motion again.
THEOREM EndIsFinal ==
  Spec => [][thread = "over" /\ line.robot = "S" => thread' = "over" /\ line'.robot = "S"]_vars
<1>1. ASSUME IInv, [Next]_vars, thread = "over", line.robot = "S"
      PROVE  thread' = "over" /\ line'.robot = "S"
  <2>1. line.wire = "closed" /\ line \in Lines BY <1>1 DEF IInv, TypeOK, ThreadInv
  <2>2. CASE Motor
    <3>1. ~MotorThread
      BY <1>1 DEF MotorThread, Connect, Greeted, Turn, Take, Drive, Driven, Lose, Cleanup, Leave,
                  Close, Closed, NeverConnects
    <3>2. ~Receiver BY <1>1, <2>1 DEF Receiver, Obey, Arrives, Abandon
    <3> QED BY <1>1, <2>2, <3>1, <3>2 DEF Motor, Shutdown
  <2>3. CASE Tick BY <1>1, <2>1, <2>3 DEF Tick, MotorTick, LinkTick, Lines
  <2>4. CASE Observe \/ Step \/ Publish \/ Crash
    BY <1>1, <2>4 DEF Observe, Step, Publish, Crash, motorVars
  <2>5. CASE \E f \in Failers : Latch(f) \/ Withdraw(f) \/ Conclude(f)
    BY <1>1, <2>5 DEF Latch, Withdraw, Conclude, motorVars
  <2>6. CASE \E drives \in BOOLEAN : Ask(drives) BY <1>1, <2>6 DEF Ask, motorVars
  <2>7. CASE UNCHANGED vars BY <1>1, <2>7 DEF vars, motorVars
  <2> QED BY <1>1, <2>2, <2>3, <2>4, <2>5, <2>6, <2>7 DEF Next
<1>2. IInv /\ [Next]_vars
        => [thread = "over" /\ line.robot = "S" => thread' = "over" /\ line'.robot = "S"]_vars
  BY <1>1
<1> QED BY <1>2, RuntimeIInv, PTL DEF Spec
=============================================================================
