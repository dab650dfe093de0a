-------------------------- MODULE CareControllerProofs --------------------------
(***************************************************************************)
(* Proofs of the safety properties of CareController, for any kinds, any   *)
(* tracked objects, any commands and any lengths of the windows.           *)
(***************************************************************************)
EXTENDS CareController, FiniteSetTheorems, TLAPS

\* One command is in hand, it has no answer yet, and a deadline is the deadline of a command.
JobInv(c) ==
  /\ c.action = {} \/ c.control = {}
  /\ \A a, b \in c.action : a = b
  /\ \A k, m \in c.control : k = m
  /\ \A job \in c.action \cup c.control : c.results[job.id] = "none"
  /\ c.overdue => c.action # {} \/ c.control # {}

\* The phase and the treatment in hand belong together; the absence window is open.
TaskInv(c) ==
  /\ c.phase \in RelocationPhases => ~c.finishing /\ \E a \in c.action : a.cmd = "RELOCATE"
  /\ c.phase = "RECHECKING" => ~c.finishing /\ \E a \in c.action : a.cmd = "RECHECK_HAZARD"
  /\ c.finishing => c.action # {} /\ c.phase \in {"RUNNING", "HAZARD_PAUSED"}
  /\ c.action # {} /\ ~c.finishing => c.phase \in RelocationPhases \cup {"RECHECKING"}
  /\ c.phase = "RECHECKING" => c.absent <= Removal

BlockInv(c) == \A i \in c.tracked : KindOf[i] \in c.blocked

\* A stop that waits for its confirmation is in the phase of a stop; one that has it leaves
\* nothing in hand.
StopInv(c) ==
  /\ (\E k \in c.control : k.cmd \in {"PAUSE", "POWER_OFF"}) => c.phase \in {"PAUSED", "OFF"}
  /\ c.hold = "user" => c.action = {} /\ c.control = {}

\* It is then still in the phase of a stop, from which nothing leads on but a request.
PauseInv(c) == StopInv(c) /\ (c.hold = "user" => c.phase \in {"PAUSED", "OFF"})

\* What holds of the controller before, between and after the helpers of a step.
Core(c) == c \in Controllers /\ JobInv(c) /\ TaskInv(c) /\ BlockInv(c) /\ PauseInv(c)

\* A latched fault may leave a controller that was paused in the phase of a hazard.
IInv ==
  /\ TypeOK
  /\ JobInv(care) /\ TaskInv(care) /\ BlockInv(care) /\ StopInv(care)
  /\ fault \/ PauseInv(care)
  /\ MotionIsLicensed
  /\ ConfirmedPauseHolds

\* What becomes of the commands: answers are final, a treatment that is dropped failed, and
\* no other command is dropped without an answer.
Follows(c, d) ==
  /\ d.action \subseteq c.action /\ d.control \subseteq c.control
  /\ \A i \in Ids : c.results[i] # "none" => d.results[i] = c.results[i]
  /\ \A a \in c.action : a \in d.action \/ d.results[a.id] = "FAILED"
  /\ \A k \in c.control : k \in d.control \/ d.results[k.id] # "none"

-----------------------------------------------------------------------------
(* The objects in a frame *)

LEMMA ObjectTyped ==
  ASSUME NEW o \in Objects
  PROVE  /\ o[1] \in Labels /\ o[2] \in Instances \cup {NoInstance}
         /\ o[2] # NoInstance => o[1] = KindOf[o[2]]
BY SettingsAssumption DEF Objects, SettingsAssumption

LEMMA KindsTyped ==
  ASSUME NEW objects \in SUBSET Objects
  PROVE  Kinds(objects) \subseteq Labels
BY ObjectTyped DEF Kinds

LEMMA NothingTyped == Nothing \in Frames
BY DEF Nothing, Frames

LEMMA VisibleTyped ==
  ASSUME NEW frame
  PROVE  Visible(frame) \subseteq Objects
BY DEF Visible

LEMMA LengthsTyped ==
  /\ Longest \in Nat /\ 0 \in 0..Longest /\ 1 \in 0..Longest
  /\ \A n \in 0..Removal : n + 1 \in 0..Longest
  /\ \A n \in 0..DropVerify : n \in 0..Longest
  /\ Removal \in Nat /\ Clear \in Nat /\ DropVerify \in Nat /\ 1 <= Removal
BY SettingsAssumption DEF SettingsAssumption, Longest, Max2

LEMMA NamesTyped ==
  /\ "S" \in Outputs /\ "F" \in Outputs /\ "B" \in Outputs /\ "T" \in Outputs
  /\ RelocationPhases \subseteq Phases
  /\ {"OFF", "PAUSED", "HAZARD_PAUSED", "RUNNING", "RECHECKING"} \subseteq Phases
  /\ {"OFF", "PAUSED", "HAZARD_PAUSED", "RUNNING", "RECHECKING"} \cap RelocationPhases = {}
BY DEF Outputs, Phases, RelocationPhases

LEMMA FieldsTyped ==
  ASSUME NEW c \in Controllers
  PROVE  /\ \A a \in c.action : a.id \in Ids /\ a.label \in Labels
                                /\ a.cmd \in Treatments /\ a.inst \in Instances \cup {NoInstance}
         /\ \A k \in c.control : k.id \in Ids /\ k.cmd \in Controls
         /\ Targets(c) \subseteq Labels
         /\ c.seen \in Frames
BY DEF Controllers, Actions, Targets

LEMMA FollowsItself ==
  ASSUME NEW c
  PROVE  Follows(c, c)
BY DEF Follows

LEMMA FollowsOn ==
  ASSUME NEW c \in Controllers, NEW d, NEW e, Follows(c, d), Follows(d, e)
  PROVE  Follows(c, e)
<1>1. \A a \in c.action : a.id \in Ids BY FieldsTyped
<1>2. \A k \in c.control : k.id \in Ids BY FieldsTyped
<1>3. \A a \in c.action : a \in e.action \/ e.results[a.id] = "FAILED"
  BY <1>1 DEF Follows
<1>4. \A k \in c.control : k \in e.control \/ e.results[k.id] # "none"
  BY <1>2 DEF Follows
<1> QED BY <1>3, <1>4 DEF Follows

-----------------------------------------------------------------------------
(* The helpers that end a command *)

LEMMA AnswersTyped ==
  ASSUME NEW c \in Controllers, NEW jobs, NEW status \in {"SUCCEEDED", "FAILED"}
  PROVE  Answers(c, jobs, status) \in [Ids -> {"none", "SUCCEEDED", "FAILED"}]
BY DEF Answers, Controllers

LEMMA Completes ==
  ASSUME NEW c, Core(c), NEW status \in {"SUCCEEDED", "FAILED"}
  PROVE  LET d == CompleteAction(c, status)
         IN /\ d \in Controllers /\ JobInv(d) /\ BlockInv(d)
            /\ d.action = {} /\ ~d.finishing /\ d.control = c.control
            /\ \A i \in Ids : c.results[i] # "none" => d.results[i] = c.results[i]
            /\ \A a \in c.action : d.results[a.id] = status
<1> DEFINE d == CompleteAction(c, status)
<1>1. d \in Controllers
  BY AnswersTyped, LengthsTyped, ZenonT(40) DEF Core, CompleteAction, Controllers
<1>2. JobInv(d)
  BY FieldsTyped DEF Core, JobInv, CompleteAction, Answers, Controllers
<1>3. BlockInv(d) /\ d.action = {} /\ ~d.finishing /\ d.control = c.control
  BY DEF Core, BlockInv, CompleteAction, Controllers
<1>4. \A i \in Ids : c.results[i] # "none" => d.results[i] = c.results[i]
  BY FieldsTyped DEF Core, JobInv, CompleteAction, Answers, Controllers
<1>5. \A a \in c.action : d.results[a.id] = status
  BY FieldsTyped DEF Core, CompleteAction, Answers, Controllers
<1> QED BY <1>1, <1>2, <1>3, <1>4, <1>5

LEMMA Fails ==
  ASSUME NEW c, Core(c), c.action # {}
  PROVE  Core(FailAction(c)) /\ Follows(c, FailAction(c))
<1> DEFINE d == CompleteAction(c, "FAILED")
           e == FailAction(c)
<1>1. /\ d \in Controllers /\ JobInv(d) /\ BlockInv(d)
      /\ d.action = {} /\ ~d.finishing /\ d.control = c.control
      /\ \A i \in Ids : c.results[i] # "none" => d.results[i] = c.results[i]
      /\ \A a \in c.action : d.results[a.id] = "FAILED"
  BY Completes
<1>2. d.hold = c.hold BY DEF CompleteAction, Core, Controllers
<1>3. e = [d EXCEPT !.phase = "HAZARD_PAUSED"] BY DEF FailAction
<1>4. c.control = {} BY DEF Core, JobInv
<1> HIDE DEF d, e
<1>5. e \in Controllers BY <1>1, <1>3, NamesTyped DEF Controllers
<1>6. JobInv(e) BY <1>1, <1>3 DEF JobInv, Controllers
<1>7. TaskInv(e) BY <1>1, <1>3, NamesTyped DEF TaskInv, Controllers
<1>8. BlockInv(e) BY <1>1, <1>3 DEF BlockInv, Controllers
<1>9. PauseInv(e) BY <1>1, <1>2, <1>3, <1>4 DEF PauseInv, StopInv, Core, Controllers
<1>10. Follows(c, e) BY <1>1, <1>3 DEF Follows, Controllers
<1> QED BY <1>5, <1>6, <1>7, <1>8, <1>9, <1>10 DEF Core, e

LEMMA Abandons ==
  ASSUME NEW c, Core(c), c.action # {}
  PROVE  Core(AbandonAction(c)) /\ Follows(c, AbandonAction(c))
<1> DEFINE d == FailAction(c)
           e == AbandonAction(c)
<1>1. Core(d) /\ Follows(c, d) BY Fails
<1>2. e = [d EXCEPT !.blocked = @ \cup Targets(c)] BY DEF AbandonAction
<1>3. Targets(c) \subseteq Labels BY FieldsTyped DEF Core
<1> HIDE DEF d, e
<1>4. e \in Controllers BY <1>1, <1>2, <1>3 DEF Core, Controllers
<1>5. JobInv(e) BY <1>1, <1>2 DEF Core, JobInv, Controllers
<1>6. TaskInv(e) BY <1>1, <1>2 DEF Core, TaskInv, Controllers
<1>7. BlockInv(e) BY <1>1, <1>2 DEF Core, BlockInv, Controllers
<1>8. PauseInv(e) BY <1>1, <1>2 DEF Core, PauseInv, StopInv, Controllers
<1>9. Follows(c, e) BY <1>1, <1>2 DEF Core, Follows, Controllers
<1> QED BY <1>4, <1>5, <1>6, <1>7, <1>8, <1>9 DEF Core, e

LEMMA Drops ==
  ASSUME NEW c, Core(c), NEW jobs \in SUBSET c.control, NEW status \in {"SUCCEEDED", "FAILED"},
         jobs # {}
  PROVE  /\ Core(DropControl(c, jobs, status)) /\ Follows(c, DropControl(c, jobs, status))
         /\ DropControl(c, jobs, status).control = {} /\ c.action = {}
<1> DEFINE d == DropControl(c, jobs, status)
<1>1. \A k \in jobs : k.id \in Ids BY FieldsTyped DEF Core
<1>2. d \in Controllers BY AnswersTyped DEF Core, DropControl, Controllers
<1>3. d.control = {} /\ c.action = {} /\ d.action = {}
  BY DEF Core, JobInv, DropControl, Controllers
<1>4. ~d.overdue BY DEF Core, DropControl, Controllers
<1>5. JobInv(d) BY <1>3, <1>4 DEF JobInv
<1>6. TaskInv(d) BY DEF Core, TaskInv, DropControl, Controllers
<1>7. BlockInv(d) BY DEF Core, BlockInv, DropControl, Controllers
<1>8. PauseInv(d) BY <1>3 DEF Core, PauseInv, StopInv, DropControl, Controllers
<1>9. \A i \in Ids : c.results[i] # "none" => d.results[i] = c.results[i]
  BY <1>1 DEF Core, JobInv, DropControl, Answers, Controllers
<1>10. \A k \in c.control : d.results[k.id] # "none"
  BY <1>1 DEF Core, JobInv, DropControl, Answers, Controllers
<1>11. Follows(c, d) BY <1>3, <1>9, <1>10 DEF Follows
<1> QED BY <1>2, <1>3, <1>5, <1>6, <1>7, <1>8, <1>11 DEF Core

\* Fields that no part of the invariant speaks of.
LEMMA OtherFieldsKeep ==
  ASSUME NEW c, Core(c), NEW d \in Controllers,
         d.action = c.action, d.control = c.control, d.results = c.results,
         d.overdue = c.overdue, d.phase = c.phase, d.finishing = c.finishing,
         d.absent = c.absent, d.tracked = c.tracked, d.blocked = c.blocked, d.hold = c.hold
  PROVE  Core(d) /\ Follows(c, d)
BY DEF Core, JobInv, TaskInv, BlockInv, PauseInv, StopInv, Follows

LEMMA Awaits ==
  ASSUME NEW c, Core(c)
  PROVE  Core(AwaitFrame(c)) /\ Follows(c, AwaitFrame(c))
<1> DEFINE d == AwaitFrame(c)
<1>1. d \in Controllers BY NothingTyped DEF Core, AwaitFrame, Controllers
<1>2. /\ d.action = c.action /\ d.control = c.control /\ d.results = c.results
      /\ d.overdue = c.overdue /\ d.phase = c.phase /\ d.finishing = c.finishing
      /\ d.absent = c.absent /\ d.tracked = c.tracked /\ d.blocked = c.blocked /\ d.hold = c.hold
  BY DEF Core, AwaitFrame, Controllers
<1> HIDE DEF d
<1> QED BY <1>1, <1>2, OtherFieldsKeep DEF d

LEMMA Halts ==
  ASSUME NEW c, Core(c)
  PROVE  /\ Core(Halt(c)) /\ Follows(c, Halt(c)) /\ Halt(c).output = "S"
         /\ Halt(c).powered = c.powered
<1> DEFINE d == Halt(c)
<1>1. d \in Controllers BY NamesTyped, LengthsTyped DEF Core, Halt, Controllers
<1>2. 0 <= Removal BY LengthsTyped
<1>3. JobInv(d) /\ TaskInv(d) /\ BlockInv(d) /\ PauseInv(d)
  BY <1>2 DEF Core, JobInv, TaskInv, BlockInv, PauseInv, StopInv, Halt, Controllers
<1>4. Follows(c, d) BY DEF Core, Follows, Halt, Controllers
<1>5. d.output = "S" /\ d.powered = c.powered BY DEF Core, Halt, Controllers
<1> QED BY <1>1, <1>3, <1>4, <1>5 DEF Core

LEMMA OutputKeeps ==
  ASSUME NEW c, Core(c), NEW command \in Outputs
  PROVE  LET d == [c EXCEPT !.output = command] IN Core(d) /\ Follows(c, d)
<1> DEFINE d == [c EXCEPT !.output = command]
<1>1. d \in Controllers BY DEF Core, Controllers
<1>2. /\ d.action = c.action /\ d.control = c.control /\ d.results = c.results
      /\ d.overdue = c.overdue /\ d.phase = c.phase /\ d.finishing = c.finishing
      /\ d.absent = c.absent /\ d.tracked = c.tracked /\ d.blocked = c.blocked /\ d.hold = c.hold
  BY DEF Core, Controllers
<1> HIDE DEF d
<1> QED BY <1>1, <1>2, OtherFieldsKeep DEF d

-----------------------------------------------------------------------------
(* What step does before it looks at the backend and the camera *)

LEMMA DeadlinesKeep ==
  ASSUME NEW c, Core(c)
  PROVE  Core(Deadlines(c)) /\ Follows(c, Deadlines(c))
<1>1. CASE ~c.overdue BY <1>1, FollowsItself DEF Deadlines
<1>2. CASE c.overdue /\ c.action # {}
  <2>1. Core(AbandonAction(c)) /\ Follows(c, AbandonAction(c)) BY <1>2, Abandons
  <2>2. LET d == [AbandonAction(c) EXCEPT !.output = "S"]
        IN Core(d) /\ Follows(AbandonAction(c), d)
    BY <2>1, OutputKeeps, NamesTyped
  <2> QED BY <1>2, <2>1, <2>2, FollowsOn DEF Deadlines, Core
<1>3. CASE c.overdue /\ c.action = {}
  <2> DEFINE d == DropControl(c, c.control, "FAILED")
             e == Deadlines(c)
             phase == IF c.blocked # {} THEN "HAZARD_PAUSED"
                      ELSE IF c.powered THEN "PAUSED" ELSE "OFF"
  <2>1. c.control # {} BY <1>3 DEF Core, JobInv
  <2>2. Core(d) /\ Follows(c, d) /\ d.control = {} BY <2>1, Drops
  <2>3. e = [d EXCEPT !.phase = phase, !.output = "S"] BY <1>3 DEF Deadlines
  <2>4. d.action = {} BY <1>3, <2>2 DEF Follows
  <2>5. d.hold # "user" BY <2>1 DEF Core, PauseInv, StopInv, DropControl, Controllers
  <2>6. phase \in {"HAZARD_PAUSED", "PAUSED", "OFF"} OBVIOUS
  <2>7. phase \in Phases /\ phase \notin RelocationPhases BY <2>6, NamesTyped
  <2> HIDE DEF d, e, phase
  <2>8. e \in Controllers BY <2>2, <2>3, <2>7, NamesTyped DEF Core, Controllers
  <2>9. JobInv(e) /\ BlockInv(e) BY <2>2, <2>3 DEF Core, JobInv, BlockInv, Controllers
  <2>10. TaskInv(e) BY <2>2, <2>3, <2>4, <2>6, <2>7 DEF Core, TaskInv, Controllers
  <2>11. PauseInv(e) BY <2>2, <2>3, <2>5 DEF PauseInv, StopInv, Core, Controllers
  <2>12. Follows(c, e) BY <2>2, <2>3 DEF Follows, Core, Controllers
  <2> QED BY <2>8, <2>9, <2>10, <2>11, <2>12 DEF Core, e
<1> QED BY <1>1, <1>2, <1>3

LEMMA LinkLossKeeps ==
  ASSUME NEW c, Core(c), NEW keep \in BOOLEAN
  PROVE  Core(LinkLoss(c, keep)) /\ Follows(c, LinkLoss(c, keep))
<1> DEFINE kept == keep /\ \A a \in c.action : a.cmd = "RECHECK_HAZARD"
           d == IF c.action # {} /\ ~kept THEN [AbandonAction(c) EXCEPT !.hold = "link"]
                ELSE IF c.phase = "RUNNING" /\ ~c.finishing
                     THEN [c EXCEPT !.phase = "PAUSED", !.hold = "link"]
                     ELSE c
           resume == {k \in d.control : k.cmd = "RESUME"}
<1>1. Core(d) /\ Follows(c, d)
  <2>1. CASE c.action # {} /\ ~kept
    <3> DEFINE a == AbandonAction(c)
    <3>1. Core(a) /\ Follows(c, a) BY <2>1, Abandons
    <3>2. d = [a EXCEPT !.hold = "link"] BY <2>1
    <3> HIDE DEF a, d
    <3>3. d \in Controllers BY <3>1, <3>2 DEF Core, Controllers
    <3>4. JobInv(d) /\ TaskInv(d) /\ BlockInv(d) /\ PauseInv(d)
      BY <3>1, <3>2 DEF Core, JobInv, TaskInv, BlockInv, PauseInv, StopInv, Controllers
    <3>5. Follows(c, d) BY <3>1, <3>2 DEF Core, Follows, Controllers
    <3> QED BY <3>3, <3>4, <3>5 DEF Core
  <2>2. CASE ~(c.action # {} /\ ~kept) /\ c.phase = "RUNNING" /\ ~c.finishing
    <3>1. d = [c EXCEPT !.phase = "PAUSED", !.hold = "link"] BY <2>2
    <3>2. c.action = {} BY <2>2, NamesTyped DEF Core, TaskInv
    <3> HIDE DEF d
    <3>3. d \in Controllers BY <3>1, NamesTyped DEF Core, Controllers
    <3>4. JobInv(d) /\ BlockInv(d) /\ PauseInv(d)
      BY <3>1 DEF Core, JobInv, BlockInv, PauseInv, StopInv, Controllers
    <3>5. TaskInv(d) BY <3>1, <3>2, NamesTyped DEF Core, TaskInv, Controllers
    <3>6. Follows(c, d) BY <3>1 DEF Core, Follows, Controllers
    <3> QED BY <3>3, <3>4, <3>5, <3>6 DEF Core
  <2>3. CASE ~(c.action # {} /\ ~kept) /\ ~(c.phase = "RUNNING" /\ ~c.finishing)
    BY <2>3, FollowsItself
  <2> QED BY <2>1, <2>2, <2>3
<1>2. LinkLoss(c, keep) = IF resume = {} THEN d ELSE DropControl(d, resume, "FAILED")
  BY DEF LinkLoss
<1> HIDE DEF d
<1>3. resume # {} => /\ Core(DropControl(d, resume, "FAILED"))
                     /\ Follows(d, DropControl(d, resume, "FAILED"))
  BY <1>1, Drops
<1> QED BY <1>1, <1>2, <1>3, FollowsOn DEF Core

LEMMA NewSessionKeeps ==
  ASSUME NEW c, Core(c)
  PROVE  Core(NewSession(c)) /\ Follows(c, NewSession(c))
<1> DEFINE a == AwaitFrame(c)
           d == [a EXCEPT !.absent = 0, !.present = 0, !.output = "S", !.met = TRUE]
<1>1. Core(a) /\ Follows(c, a) BY Awaits
<1>2. Core(d) /\ Follows(c, d)
  <2> HIDE DEF a
  <2>1. d \in Controllers BY <1>1, NamesTyped, LengthsTyped DEF Core, Controllers
  <2>2. 0 <= Removal BY LengthsTyped
  <2>3. JobInv(d) /\ TaskInv(d) /\ BlockInv(d) /\ PauseInv(d)
    BY <1>1, <2>2 DEF Core, JobInv, TaskInv, BlockInv, PauseInv, StopInv, Controllers
  <2>4. Follows(c, d) BY <1>1 DEF Core, Follows, Controllers
  <2> QED BY <2>1, <2>3, <2>4 DEF Core
<1>3. NewSession(c) = IF ~newSession THEN c ELSE IF c.met THEN LinkLoss(d, TRUE) ELSE d
  BY DEF NewSession
<1> HIDE DEF d
<1>4. Core(LinkLoss(d, TRUE)) /\ Follows(d, LinkLoss(d, TRUE)) BY <1>2, LinkLossKeeps
<1>5. Follows(c, LinkLoss(d, TRUE)) BY <1>2, <1>4, FollowsOn DEF Core
<1> QED BY <1>2, <1>3, <1>4, <1>5, FollowsItself

LEMMA ConfirmControlKeeps ==
  ASSUME NEW c, Core(c)
  PROVE  Core(ConfirmControl(c)) /\ Follows(c, ConfirmControl(c))
<1> DEFINE done == {k \in c.control : Confirms(c, k)}
           stops == \E k \in done : k.cmd \in {"PAUSE", "POWER_OFF"}
           d == DropControl(c, done, "SUCCEEDED")
           e == [d EXCEPT !.hold = IF stops THEN "user" ELSE @]
<1>1. ConfirmControl(c) = IF done = {} THEN c ELSE e BY DEF ConfirmControl
<1>2. CASE done # {}
  <2>1. Core(d) /\ Follows(c, d) /\ d.control = {} /\ c.action = {} BY <1>2, Drops
  <2>2. d.phase = c.phase /\ d.action = c.action BY DEF Core, DropControl, Controllers
  <2>3. stops => c.phase \in {"PAUSED", "OFF"} BY DEF Core, PauseInv, StopInv
  <2> HIDE DEF d, stops
  <2>4. e \in Controllers BY <2>1 DEF Core, Controllers
  <2>5. JobInv(e) /\ TaskInv(e) /\ BlockInv(e)
    BY <2>1 DEF Core, JobInv, TaskInv, BlockInv, Controllers
  <2>6. PauseInv(e) BY <2>1, <2>2, <2>3 DEF Core, PauseInv, StopInv, Controllers
  <2>7. Follows(c, e) BY <2>1 DEF Core, Follows, Controllers
  <2> QED BY <1>1, <1>2, <2>4, <2>5, <2>6, <2>7 DEF Core
<1> QED BY <1>1, <1>2, FollowsItself

LEMMA CheckedKeeps ==
  ASSUME Core(care)
  PROVE  Core(Checked) /\ Follows(care, Checked)
<1> DEFINE d == Deadlines(care)
           e == NewSession(d)
<1>1. Core(d) /\ Follows(care, d) BY DeadlinesKeep
<1> HIDE DEF d
<1>2. Core(e) /\ Follows(d, e) BY <1>1, NewSessionKeeps
<1>3. Follows(care, e) BY <1>1, <1>2, FollowsOn DEF Core
<1> HIDE DEF e
<1>4. Core(ConfirmControl(e)) /\ Follows(e, ConfirmControl(e)) BY <1>2, ConfirmControlKeeps
<1>5. Follows(care, ConfirmControl(e)) BY <1>3, <1>4, FollowsOn DEF Core
<1> QED BY <1>4, <1>5 DEF Checked, e, d

-----------------------------------------------------------------------------
(* What a valid frame changes before the phase decides *)

\* A frame was judged with the backend in reach, and nothing blocked lets the robot drive.
SeesWell(c) == c.backendOk /\ (c.phase = "RUNNING" => c.blocked = {})

LEMMA ObserveKeeps ==
  ASSUME NEW c, Core(c), NEW frame \in Frames, NEW safe
  PROVE  LET d == Observe(c, frame, safe)
         IN Core(d) /\ Follows(c, d) /\ d.backendOk
<1> DEFINE d == Observe(c, frame, safe)
           seen == [o \in Objects |-> IF o[1] \in safe THEN "absent" ELSE frame[o]]
           relocated == c.relocated \ (Kinds(Visible(frame)) \ safe)
<1>1. seen \in Frames BY DEF Frames
<1>2. relocated \in SUBSET Labels BY DEF Core, Controllers
<1>3. d = [c EXCEPT !.backendOk = TRUE, !.waitFrame = FALSE, !.relocated = relocated, !.seen = seen]
  BY DEF Observe, Core, Controllers
<1> HIDE DEF d, seen, relocated
<1>4. d \in Controllers BY <1>1, <1>2, <1>3, ZenonT(40) DEF Core, Controllers
<1>5. JobInv(d) /\ TaskInv(d) /\ BlockInv(d) /\ PauseInv(d)
  BY <1>3 DEF Core, JobInv, TaskInv, BlockInv, PauseInv, StopInv, Controllers
<1>6. Follows(c, d) /\ d.backendOk BY <1>3 DEF Core, Follows, Controllers
<1> QED BY <1>4, <1>5, <1>6 DEF Core, d

LEMMA LatchKeeps ==
  ASSUME NEW c, Core(c), c.backendOk
  PROVE  Core(Latch(c)) /\ Follows(c, Latch(c)) /\ SeesWell(Latch(c))
<1> DEFINE d == Latch(c)
           confirmed == {o \in Objects : c.seen[o] = "stable"}
           blocked == c.blocked \cup Kinds(confirmed)
           found == {o[2] : o \in confirmed} \ {NoInstance}
           phase == IF c.phase = "RUNNING" /\ blocked # {} THEN "HAZARD_PAUSED" ELSE c.phase
<1>1. blocked \subseteq Labels BY KindsTyped DEF Core, Controllers
<1>2. found \subseteq Instances BY ObjectTyped
<1>3. \A i \in found : KindOf[i] \in blocked BY ObjectTyped DEF Kinds
<1>4. d = [c EXCEPT !.blocked = blocked, !.tracked = @ \cup found, !.phase = phase]
  BY DEF Latch, Core, Controllers
<1>5. phase \in Phases BY NamesTyped DEF Core, Controllers
<1>6. \/ phase = c.phase
      \/ c.phase = "RUNNING" /\ phase = "HAZARD_PAUSED"
  OBVIOUS
<1>7. phase = "RUNNING" => blocked = {} OBVIOUS
<1> HIDE DEF d, blocked, found, phase
<1>8. d \in Controllers BY <1>1, <1>2, <1>4, <1>5 DEF Core, Controllers
<1>9. JobInv(d) BY <1>4 DEF Core, JobInv, Controllers
<1>10. TaskInv(d) BY <1>4, <1>6, NamesTyped DEF Core, TaskInv, Controllers
<1>11. BlockInv(d)
  <2>1. c.blocked \subseteq blocked BY DEF blocked
  <2> QED BY <1>3, <1>4, <2>1 DEF Core, BlockInv, Controllers
<1>12. PauseInv(d) BY <1>4, <1>6 DEF Core, PauseInv, StopInv, Controllers
<1>13. Follows(c, d) BY <1>4 DEF Core, Follows, Controllers
<1>14. SeesWell(d) BY <1>4, <1>7 DEF SeesWell, Core, Controllers
<1> QED BY <1>8, <1>9, <1>10, <1>11, <1>12, <1>13, <1>14 DEF Core, d

LEMMA CountTyped ==
  ASSUME NEW count \in 0..Clear + 1, NEW sighted, NEW judged, NEW gap
  PROVE  CountUnseen(count, sighted, judged, gap) \in 0..Clear + 1
BY LengthsTyped DEF CountUnseen

\* Only kinds of which nothing is tracked any more are taken from the blocked ones.
LEMMA ClearAbsentKeeps ==
  ASSUME NEW c, Core(c), SeesWell(c), NEW gap \in BOOLEAN
  PROVE  LET d == ClearAbsent(c, gap)
         IN Core(d) /\ Follows(c, d) /\ SeesWell(d) /\ d.seen = c.seen
<1> DEFINE objects == Visible(c.seen)
           busy == Targets(c)
           instance == [i \in Instances |->
                          CountUnseen(c.unseen[i], \E o \in objects : o[2] = i,
                                      i \in c.tracked /\ KindOf[i] \notin busy, gap)]
           tracked == {i \in c.tracked : KindOf[i] \in busy \/ instance[i] <= Clear}
           open == {l \in c.blocked : l \notin busy /\ \A i \in tracked : KindOf[i] # l}
           kind == [l \in Labels |->
                      CountUnseen(c.unseen[l], l \in Kinds(objects), l \in open, gap)]
           blocked == {l \in c.blocked : l \in open => kind[l] <= Clear}
           unseen == [k \in Keys |-> IF k \in tracked THEN instance[k]
                                     ELSE IF k \in blocked THEN kind[k] ELSE 0]
           d == ClearAbsent(c, gap)
<1>1. d = [c EXCEPT !.tracked = tracked, !.blocked = blocked, !.unseen = unseen]
  BY DEF ClearAbsent
<1>2. \A k \in Keys : c.unseen[k] \in 0..Clear + 1 BY DEF Core, Controllers
<1>3. \A i \in Instances : instance[i] \in 0..Clear + 1
  BY <1>2, CountTyped DEF Keys
<1>4. \A l \in Labels : kind[l] \in 0..Clear + 1
  BY <1>2, CountTyped DEF Keys
<1>5. tracked \subseteq c.tracked /\ blocked \subseteq c.blocked OBVIOUS
<1>6. c.tracked \subseteq Instances /\ c.blocked \subseteq Labels BY DEF Core, Controllers
<1>7. unseen \in [Keys -> 0..Clear + 1]
  <2> HIDE DEF instance, kind, tracked, blocked
  <2>1. 0 \in 0..Clear + 1 BY LengthsTyped
  <2> QED BY <1>3, <1>4, <1>5, <1>6, <2>1
<1>8. \A i \in tracked : KindOf[i] \in blocked
  <2>1. \A i \in tracked : KindOf[i] \in c.blocked BY <1>5 DEF Core, BlockInv
  <2> QED BY <2>1
<1> HIDE DEF d, tracked, blocked, unseen
<1>9. d \in Controllers BY <1>1, <1>5, <1>6, <1>7 DEF Core, Controllers
<1>10. JobInv(d) /\ TaskInv(d) /\ PauseInv(d)
  BY <1>1 DEF Core, JobInv, TaskInv, PauseInv, StopInv, Controllers
<1>11. BlockInv(d) BY <1>1, <1>8 DEF Core, BlockInv, Controllers
<1>12. Follows(c, d) /\ d.seen = c.seen BY <1>1 DEF Core, Follows, Controllers
<1>13. SeesWell(d) BY <1>1, <1>5 DEF SeesWell, Core, Controllers
<1> QED BY <1>9, <1>10, <1>11, <1>12, <1>13 DEF Core, d

LEMMA ResumeKeeps ==
  ASSUME NEW c, Core(c), SeesWell(c)
  PROVE  LET d == Resume(c)
         IN Core(d) /\ Follows(c, d) /\ SeesWell(d) /\ d.seen = c.seen
<1> DEFINE d == [c EXCEPT !.phase = "RUNNING"]
<1>1. CASE c.phase = "HAZARD_PAUSED" /\ MayResume(c)
  <2>1. d \in Controllers BY NamesTyped DEF Core, Controllers
  <2>2. JobInv(d) /\ BlockInv(d) BY DEF Core, JobInv, BlockInv, Controllers
  <2>3. TaskInv(d) BY <1>1, NamesTyped DEF Core, TaskInv, MayResume, Controllers
  <2>4. PauseInv(d) BY <1>1 DEF Core, PauseInv, StopInv, Controllers
  <2>5. Follows(c, d) /\ d.seen = c.seen BY DEF Core, Follows, Controllers
  <2>6. SeesWell(d) BY <1>1 DEF SeesWell, MayResume, Core, Controllers
  <2> QED BY <1>1, <2>1, <2>2, <2>3, <2>4, <2>5, <2>6 DEF Core, Resume
<1>2. CASE ~(c.phase = "HAZARD_PAUSED" /\ MayResume(c))
  BY <1>2, FollowsItself DEF Resume
<1> QED BY <1>1, <1>2

\* After Redetect a check that is about to succeed does not see its target.
LEMMA RedetectKeeps ==
  ASSUME NEW c, Core(c), SeesWell(c)
  PROVE  LET d == Redetect(c)
         IN /\ Core(d) /\ Follows(c, d) /\ SeesWell(d)
            /\ d.finishing /\ (\E a \in d.action : a.cmd = "RECHECK_HAZARD") => ~TargetVisible(d)
<1> DEFINE d == [c EXCEPT !.finishing = FALSE, !.phase = "RECHECKING", !.absent = 0]
           comesBack == /\ c.finishing /\ (\E a \in c.action : a.cmd = "RECHECK_HAZARD")
                        /\ TargetVisible(c)
<1>1. CASE comesBack
  <2>1. d \in Controllers BY NamesTyped, LengthsTyped DEF Core, Controllers
  <2>2. JobInv(d) /\ BlockInv(d) BY DEF Core, JobInv, BlockInv, Controllers
  <2>3. TaskInv(d)
    <3>1. d.phase = "RECHECKING" /\ ~d.finishing /\ d.absent = 0 /\ d.action = c.action
      BY DEF Core, Controllers
    <3>2. 0 <= Removal /\ "RECHECKING" \notin RelocationPhases BY LengthsTyped, NamesTyped
    <3> QED BY <1>1, <3>1, <3>2 DEF TaskInv
  <2>4. PauseInv(d) BY <1>1 DEF Core, PauseInv, StopInv, JobInv, Controllers
  <2>5. Follows(c, d) BY DEF Core, Follows, Controllers
  <2>6. SeesWell(d) /\ ~d.finishing BY DEF SeesWell, Core, Controllers
  <2> QED BY <1>1, <2>1, <2>2, <2>3, <2>4, <2>5, <2>6 DEF Core, Redetect
<1>2. CASE ~comesBack
  BY <1>2, FollowsItself DEF Redetect
<1> QED BY <1>1, <1>2

\* The target of a treatment is not in the frame.
Unseen(a, frame) ==
  \A o \in Visible(frame) : o[1] = a.label => a.inst # NoInstance /\ o[2] \notin {a.inst, NoInstance}

\* Every treatment goes on, has failed, or has succeeded over a frame without its target.
Judges(c, d) ==
  /\ \A i \in Ids : c.results[i] # "none" => d.results[i] = c.results[i]
  /\ \A a \in c.action :
       \/ a \in d.action
       \/ d.results[a.id] = "FAILED"
       \/ /\ d.results[a.id] = "SUCCEEDED" /\ d.phase \in {"RUNNING", "HAZARD_PAUSED"}
          /\ a.cmd = "RECHECK_HAZARD" => Unseen(a, d.seen)
  /\ \A k \in c.control : k \in d.control \/ d.results[k.id] # "none"

LEMMA FollowsJudges ==
  ASSUME NEW c \in Controllers, NEW d, NEW e, Follows(c, d), Judges(d, e)
  PROVE  Judges(c, e)
<1>1. \A job \in c.action \cup c.control : job.id \in Ids BY FieldsTyped
<1>2. \A k \in c.control : k \in e.control \/ e.results[k.id] # "none"
  BY <1>1 DEF Follows, Judges
<1> QED BY <1>1, <1>2 DEF Follows, Judges

LEMMA SettleKeeps ==
  ASSUME NEW c, Core(c), SeesWell(c),
         c.finishing /\ (\E a \in c.action : a.cmd = "RECHECK_HAZARD") => ~TargetVisible(c)
  PROVE  LET d == Settle(c)
         IN Core(d) /\ SeesWell(d) /\ Judges(c, d)
<1> DEFINE d == CompleteAction(c, "SUCCEEDED")
           due == /\ c.finishing /\ acked
                  /\ \/ c.phase = "RUNNING" /\ c.output = "F" /\ ack = "F"
                     \/ c.phase = "HAZARD_PAUSED" /\ ack = "S"
<1>1. CASE due
  <2>1. /\ d \in Controllers /\ JobInv(d) /\ BlockInv(d)
        /\ d.action = {} /\ ~d.finishing /\ d.control = c.control
        /\ \A i \in Ids : c.results[i] # "none" => d.results[i] = c.results[i]
        /\ \A a \in c.action : d.results[a.id] = "SUCCEEDED"
    BY Completes
  <2>2. d.phase = c.phase /\ d.seen = c.seen /\ d.hold = c.hold /\ d.blocked = c.blocked
        /\ d.backendOk = c.backendOk
    BY DEF Core, CompleteAction, Controllers
  <2> HIDE DEF d
  <2>3. TaskInv(d) BY <1>1, <2>1, <2>2, NamesTyped DEF TaskInv
  <2>4. PauseInv(d) BY <2>1, <2>2 DEF Core, PauseInv, StopInv
  <2>5. SeesWell(d) BY <2>2 DEF SeesWell
  <2>6. \A a \in c.action : a.cmd = "RECHECK_HAZARD" => Unseen(a, d.seen)
    BY <1>1, <2>2, ObjectTyped, VisibleTyped DEF TargetVisible, Unseen
  <2>7. Judges(c, d) BY <1>1, <2>1, <2>2, <2>6 DEF Judges
  <2> QED BY <1>1, <2>1, <2>3, <2>4, <2>5, <2>7 DEF Core, Settle, d
<1>2. CASE ~due
  <2>1. Settle(c) = c BY <1>2 DEF Settle
  <2>2. Judges(c, c) BY DEF Judges
  <2> QED BY <2>1, <2>2
<1> QED BY <1>1, <1>2

LEMMA SeeingKeeps ==
  ASSUME Core(care), NEW frame \in Frames, NEW isNew \in BOOLEAN, NEW gap \in BOOLEAN, NEW safe
  PROVE  LET d == Seeing(frame, isNew, gap, safe)
         IN Core(d) /\ SeesWell(d) /\ Judges(care, d)
<1> DEFINE observed == Observe(Checked, frame, safe)
           latched == Latch(observed)
           cleared == IF isNew THEN Resume(ClearAbsent(latched, gap)) ELSE latched
           checked == Redetect(cleared)
<1>1. Core(Checked) /\ Follows(care, Checked) BY CheckedKeeps
<1>2. Core(observed) /\ Follows(care, observed) /\ observed.backendOk
  <2>1. Core(observed) /\ Follows(Checked, observed) /\ observed.backendOk
    BY <1>1, ObserveKeeps
  <2> QED BY <1>1, <2>1, FollowsOn DEF Core
<1> HIDE DEF observed
<1>3. Core(latched) /\ Follows(care, latched) /\ SeesWell(latched)
  <2>1. Core(latched) /\ Follows(observed, latched) /\ SeesWell(latched)
    BY <1>2, LatchKeeps
  <2> QED BY <1>2, <2>1, FollowsOn DEF Core
<1> HIDE DEF latched
<1>4. Core(cleared) /\ Follows(care, cleared) /\ SeesWell(cleared)
  <2> DEFINE absent == ClearAbsent(latched, gap)
  <2>1. Core(absent) /\ Follows(latched, absent) /\ SeesWell(absent)
    BY <1>3, ClearAbsentKeeps
  <2>2. Follows(care, absent) BY <1>3, <2>1, FollowsOn DEF Core
  <2> HIDE DEF absent
  <2>3. Core(Resume(absent)) /\ Follows(absent, Resume(absent)) /\ SeesWell(Resume(absent))
    BY <2>1, ResumeKeeps
  <2>4. Follows(care, Resume(absent)) BY <2>2, <2>3, FollowsOn DEF Core
  <2> QED BY <1>3, <2>3, <2>4 DEF absent
<1> HIDE DEF cleared
<1>5. /\ Core(checked) /\ Follows(cleared, checked) /\ SeesWell(checked)
      /\ checked.finishing /\ (\E a \in checked.action : a.cmd = "RECHECK_HAZARD")
           => ~TargetVisible(checked)
  BY <1>4, RedetectKeeps
<1>6. Follows(care, checked) BY <1>4, <1>5, FollowsOn DEF Core
<1> HIDE DEF checked
<1>7. Core(Settle(checked)) /\ SeesWell(Settle(checked)) /\ Judges(checked, Settle(checked))
  BY <1>5, SettleKeeps
<1>8. Judges(care, Settle(checked)) BY <1>6, <1>7, FollowsJudges DEF Core
<1>9. Seeing(frame, isNew, gap, safe) = Settle(checked)
  BY DEF Seeing, checked, cleared, latched, observed
<1> QED BY <1>7, <1>8, <1>9

-----------------------------------------------------------------------------
(* What each phase makes of the frame *)

Licensed(c) == c.powered /\ c.backendOk /\ c.phase \in RelocationPhases

\* What a phase leaves behind of the controller c.
Leaves(c) == Core(care') /\ MotionIsLicensed' /\ Follows(c, care')

LEMMA OutputLeaves ==
  ASSUME NEW c, Core(c), NEW command \in Outputs, Output(c, command),
         command = "S" \/ Licensed(c)
  PROVE  Leaves(c)
<1>1. care' = [c EXCEPT !.output = command] BY DEF Output
<1>2. Core(care') /\ Follows(c, care') BY <1>1, OutputKeeps
<1>3. MotionIsLicensed' BY <1>1 DEF MotionIsLicensed, Licensed, Core, Controllers
<1> QED BY <1>2, <1>3 DEF Leaves

LEMMA LeavesOn ==
  ASSUME NEW c \in Controllers, NEW d, Follows(c, d), Leaves(d)
  PROVE  Leaves(c)
BY FollowsOn DEF Leaves

\* The fields by which a relocation knows how far it is.
LEMMA NotesKeep ==
  ASSUME NEW c, Core(c),
         NEW moved \in BOOLEAN, NEW dropSeen \in BOOLEAN, NEW searching \in BOOLEAN,
         NEW present \in 0..Longest
  PROVE  LET d == [c EXCEPT !.moved = moved, !.dropSeen = dropSeen, !.searching = searching,
                            !.present = present]
         IN Core(d) /\ Follows(c, d) /\ d.phase = c.phase /\ (Licensed(c) => Licensed(d))
<1> DEFINE d == [c EXCEPT !.moved = moved, !.dropSeen = dropSeen, !.searching = searching,
                          !.present = present]
<1>1. d \in Controllers BY DEF Core, Controllers
<1>2. /\ d.action = c.action /\ d.control = c.control /\ d.results = c.results
      /\ d.overdue = c.overdue /\ d.phase = c.phase /\ d.finishing = c.finishing
      /\ d.absent = c.absent /\ d.tracked = c.tracked /\ d.blocked = c.blocked /\ d.hold = c.hold
      /\ d.powered = c.powered /\ d.backendOk = c.backendOk
  BY DEF Core, Controllers
<1> HIDE DEF d
<1>3. Core(d) /\ Follows(c, d) BY <1>1, <1>2, OtherFieldsKeep
<1> QED BY <1>2, <1>3 DEF Licensed, d

LEMMA StartPhaseKeeps ==
  ASSUME NEW c, Core(c), c.phase \in RelocationPhases, NEW phase \in RelocationPhases
  PROVE  LET d == StartPhase(c, phase)
         IN Core(d) /\ Follows(c, d) /\ d.phase = phase /\ (Licensed(c) => Licensed(d))
<1> DEFINE d == StartPhase(c, phase)
<1>1. d \in Controllers BY NamesTyped DEF Core, StartPhase, Controllers
<1>2. JobInv(d) /\ BlockInv(d) BY DEF Core, JobInv, BlockInv, StartPhase, Controllers
<1>3. TaskInv(d) BY NamesTyped DEF Core, TaskInv, StartPhase, Controllers
<1>4. PauseInv(d)
  BY NamesTyped DEF Core, TaskInv, JobInv, PauseInv, StopInv, StartPhase, Controllers
<1>5. Follows(c, d) BY DEF Core, Follows, StartPhase, Controllers
<1>6. d.phase = phase /\ (Licensed(c) => Licensed(d))
  BY DEF Core, Licensed, StartPhase, Controllers
<1> QED BY <1>1, <1>2, <1>3, <1>4, <1>5, <1>6 DEF Core

\* The window of a check is over by then, so TaskInv is not asked for.
LEMMA FinishMotionKeeps ==
  ASSUME NEW c \in Controllers, JobInv(c), BlockInv(c), PauseInv(c), c.action # {}
  PROVE  LET d == FinishMotion(c)
         IN /\ Core(d) /\ Follows(c, d) /\ d.finishing
            /\ d.action = c.action /\ d.control = {} /\ d.hold # "user"
<1> DEFINE d == FinishMotion(c)
           a == CHOOSE a \in c.action : TRUE
           relocated == IF a.cmd = "RELOCATE" THEN c.relocated \cup {a.label} ELSE c.relocated
           tracked == {i \in c.tracked : IF a.inst = NoInstance THEN KindOf[i] # a.label
                                         ELSE i # a.inst}
           blocked == (c.blocked \ {a.label}) \cup {KindOf[i] : i \in tracked}
           phase == IF blocked # {} THEN "HAZARD_PAUSED" ELSE "RUNNING"
<1>1. a \in c.action OBVIOUS
<1>2. a.label \in Labels BY <1>1, FieldsTyped
<1>3. tracked \subseteq c.tracked /\ c.tracked \subseteq Instances BY DEF Controllers
<1>4. relocated \subseteq Labels /\ blocked \subseteq Labels
  <2> HIDE DEF a, tracked
  <2>1. relocated \subseteq Labels BY <1>2 DEF Controllers
  <2>2. blocked \subseteq Labels
    BY <1>3, SettingsAssumption DEF SettingsAssumption, Controllers
  <2> QED BY <2>1, <2>2
<1>5. phase \in {"RUNNING", "HAZARD_PAUSED"} OBVIOUS
<1>6. d = [AwaitFrame(c) EXCEPT !.relocated = relocated, !.tracked = tracked,
             !.blocked = blocked, !.finishing = TRUE, !.phase = phase]
  BY DEF FinishMotion, AwaitFrame, Controllers
<1>7. \A i \in tracked : KindOf[i] \in blocked OBVIOUS
<1> HIDE DEF d, relocated, tracked, blocked, phase, a
<1>8. d \in Controllers
  <2>1. AwaitFrame(c) \in Controllers BY NothingTyped DEF AwaitFrame, Controllers
  <2>2. phase \in Phases BY <1>5, NamesTyped
  <2> QED BY <1>3, <1>4, <1>6, <2>1, <2>2 DEF Controllers
<1>9. /\ d.action = c.action /\ d.control = c.control /\ d.results = c.results
      /\ d.overdue = c.overdue /\ d.phase = phase /\ d.finishing
      /\ d.tracked = tracked /\ d.blocked = blocked /\ d.hold = c.hold
  BY <1>6 DEF AwaitFrame, Controllers
<1>10. c.control = {} /\ c.hold # "user" BY DEF JobInv, PauseInv, StopInv
<1>11. JobInv(d) BY <1>9 DEF JobInv
<1>12. TaskInv(d) BY <1>5, <1>9, NamesTyped DEF TaskInv
<1>13. BlockInv(d) BY <1>7, <1>9 DEF BlockInv
<1>14. PauseInv(d) BY <1>9, <1>10 DEF PauseInv, StopInv
<1>15. Follows(c, d) BY <1>9 DEF Follows
<1> QED BY <1>8, <1>9, <1>10, <1>11, <1>12, <1>13, <1>14, <1>15 DEF Core, d

LEMMA StandStillLeaves ==
  ASSUME NEW c, Core(c), StandStill(c)
  PROVE  Leaves(c) /\ care'.seen = c.seen
<1>1. Output(c, "S") BY DEF StandStill
<1>2. care'.seen = c.seen BY <1>1 DEF Output, Core, Controllers
<1> QED BY <1>1, <1>2, OutputLeaves, NamesTyped

LEMMA DriveLeaves ==
  ASSUME NEW c, Core(c), SeesWell(c), c.powered, Drive(c)
  PROVE  Leaves(c) /\ care'.seen = c.seen
<1> DEFINE command == IF Visible(c.seen) = {} THEN "F" ELSE "S"
<1>1. c.phase = "RUNNING" /\ care' = [c EXCEPT !.output = command] BY DEF Drive, Output
<1>2. command \in Outputs /\ (command # "S" => command = "F" /\ Visible(c.seen) = {})
  BY NamesTyped
<1> HIDE DEF command
<1>3. Core(care') /\ Follows(c, care') BY <1>1, <1>2, OutputKeeps
<1>4. /\ care'.output = command /\ care'.powered = c.powered /\ care'.phase = c.phase
      /\ care'.seen = c.seen /\ care'.blocked = c.blocked /\ care'.backendOk = c.backendOk
  BY <1>1 DEF Core, Controllers
<1>5. MotionIsLicensed' BY <1>1, <1>2, <1>4 DEF MotionIsLicensed, SeesWell
<1> QED BY <1>3, <1>4, <1>5 DEF Leaves

LEMMA RecheckLeaves ==
  ASSUME NEW c, Core(c), NEW isNew, NEW gap \in BOOLEAN, Recheck(c, isNew, gap)
  PROVE  Leaves(c)
<1> DEFINE present == IF gap THEN 1 ELSE c.present + 1
           absent == IF gap THEN 1 ELSE c.absent + 1
           over == [c EXCEPT !.present = 0, !.absent = absent]
           done == FinishMotion(over)
           left == Kinds(Visible(c.seen))
           sighted == [c EXCEPT !.absent = 0, !.present = present]
<1>1. c.phase = "RECHECKING" /\ c.action # {} /\ c.absent <= Removal
  BY DEF Core, TaskInv, Recheck
<1>2. absent \in 0..Longest /\ absent \in Nat
  BY <1>1, LengthsTyped DEF Core, Controllers
<1>3. CASE Output(c, "S") BY <1>3, OutputLeaves, NamesTyped
<1>4. CASE TargetVisible(c) /\ Output(IF present > Removal THEN FailAction(c) ELSE sighted, "S")
  <2>1. CASE present > Removal
    <3>1. Core(FailAction(c)) /\ Follows(c, FailAction(c)) BY <1>1, Fails
    <3>2. Leaves(FailAction(c)) BY <1>4, <2>1, <3>1, OutputLeaves, NamesTyped
    <3> QED BY <3>1, <3>2, LeavesOn DEF Core
  <2>2. CASE ~(present > Removal)
    <3>1. present \in 0..Longest
      BY <2>2, LengthsTyped DEF Core, Controllers
    <3>2. sighted \in Controllers BY <3>1, LengthsTyped DEF Core, Controllers
    <3>3. 0 <= Removal BY LengthsTyped
    <3> HIDE DEF present
    <3>4. JobInv(sighted) /\ TaskInv(sighted) /\ BlockInv(sighted) /\ PauseInv(sighted)
      BY <3>3 DEF Core, JobInv, TaskInv, BlockInv, PauseInv, StopInv, Controllers
    <3>5. Follows(c, sighted) BY DEF Core, Follows, Controllers
    <3> HIDE DEF sighted
    <3>6. Leaves(sighted) BY <1>4, <2>2, <3>2, <3>4, OutputLeaves, NamesTyped DEF Core, present
    <3> QED BY <3>5, <3>6, LeavesOn DEF Core
  <2> QED BY <2>1, <2>2
<1>5. CASE Output(IF absent <= Removal THEN over
                  ELSE IF left = {} THEN done
                  ELSE [done EXCEPT !.blocked = @ \cup left, !.phase = "HAZARD_PAUSED"], "S")
  <2>1. over \in Controllers BY <1>2, LengthsTyped DEF Core, Controllers
  <2>2. JobInv(over) /\ BlockInv(over) /\ PauseInv(over) /\ over.action = c.action
    BY DEF Core, JobInv, BlockInv, PauseInv, StopInv, Controllers
  <2>3. Follows(c, over) BY DEF Core, Follows, Controllers
  <2>4. absent <= Removal => TaskInv(over)
    BY DEF Core, TaskInv, Controllers
  <2> HIDE DEF over
  <2>5. /\ Core(done) /\ Follows(over, done) /\ done.finishing
        /\ done.action = over.action /\ done.control = {} /\ done.hold # "user"
    BY <1>1, <2>1, <2>2, FinishMotionKeeps
  <2>6. Follows(c, done) BY <2>3, <2>5, FollowsOn DEF Core
  <2>7. CASE absent <= Removal
    <3>1. Leaves(over) BY <1>5, <2>1, <2>2, <2>4, <2>7, OutputLeaves, NamesTyped DEF Core
    <3> QED BY <2>3, <3>1, LeavesOn DEF Core
  <2>8. CASE ~(absent <= Removal) /\ left = {}
    <3>1. Leaves(done) BY <1>5, <2>5, <2>8, OutputLeaves, NamesTyped
    <3> QED BY <2>6, <3>1, LeavesOn DEF Core
  <2>9. CASE ~(absent <= Removal) /\ left # {}
    <3> DEFINE stays == [done EXCEPT !.blocked = @ \cup left, !.phase = "HAZARD_PAUSED"]
    <3>1. left \subseteq Labels BY KindsTyped, VisibleTyped
    <3> HIDE DEF done, left
    <3>2. stays \in Controllers BY <2>5, <3>1, NamesTyped DEF Core, Controllers
    <3>3. JobInv(stays) /\ BlockInv(stays) BY <2>5 DEF Core, JobInv, BlockInv, Controllers
    <3>4. TaskInv(stays) BY <2>5, NamesTyped DEF Core, TaskInv, Controllers
    <3>5. PauseInv(stays) BY <2>5 DEF Core, PauseInv, StopInv, Controllers
    <3>6. Follows(c, stays) BY <2>5, <2>6 DEF Core, Follows, Controllers
    <3>7. Output(stays, "S") BY <1>5, <2>9
    <3> HIDE DEF stays
    <3>8. Leaves(stays) BY <3>2, <3>3, <3>4, <3>5, <3>7, OutputLeaves, NamesTyped DEF Core
    <3> QED BY <3>6, <3>8, LeavesOn DEF Core
  <2> QED BY <2>7, <2>8, <2>9
<1> QED BY <1>3, <1>4, <1>5 DEF Recheck

\* The three ways in which a phase is left.
LEMMA LicensedLeaves ==
  ASSUME NEW c, Core(c), Licensed(c)
  PROVE  /\ c.action # {}
         /\ \A phase \in RelocationPhases, command \in Outputs :
              Output(StartPhase(c, phase), command) => Leaves(c)
         /\ Output(FailAction(c), "S") => Leaves(c)
         /\ Output(FinishMotion(c), "S") => Leaves(c)
<1>1. c.action # {} /\ c.phase \in RelocationPhases BY DEF Licensed, Core, TaskInv
<1>2. ASSUME NEW phase \in RelocationPhases, NEW command \in Outputs,
             Output(StartPhase(c, phase), command)
      PROVE  Leaves(c)
  <2> DEFINE d == StartPhase(c, phase)
  <2>1. Core(d) /\ Follows(c, d) /\ Licensed(d) BY <1>1, StartPhaseKeeps
  <2>2. Leaves(d) BY <1>2, <2>1, OutputLeaves
  <2> QED BY <2>1, <2>2, LeavesOn DEF Core
<1>3. ASSUME Output(FailAction(c), "S") PROVE Leaves(c)
  <2>1. Core(FailAction(c)) /\ Follows(c, FailAction(c)) BY <1>1, Fails
  <2>2. Leaves(FailAction(c)) BY <1>3, <2>1, OutputLeaves, NamesTyped
  <2> QED BY <2>1, <2>2, LeavesOn DEF Core
<1>4. ASSUME Output(FinishMotion(c), "S") PROVE Leaves(c)
  <2>1. Core(FinishMotion(c)) /\ Follows(c, FinishMotion(c))
    BY <1>1, FinishMotionKeeps DEF Core
  <2>2. Leaves(FinishMotion(c)) BY <1>4, <2>1, OutputLeaves, NamesTyped
  <2> QED BY <2>1, <2>2, LeavesOn DEF Core
<1> QED BY <1>1, <1>2, <1>3, <1>4

LEMMA AlignLeaves ==
  ASSUME NEW c, Core(c), c.powered, c.backendOk, Align(c)
  PROVE  Leaves(c)
<1>1. Licensed(c) BY DEF Align, Licensed, RelocationPhases
<1>2. "CAPTURING" \in RelocationPhases BY DEF RelocationPhases
<1> QED BY <1>1, <1>2, LicensedLeaves, OutputLeaves, NamesTyped DEF Align

LEMMA CaptureLeaves ==
  ASSUME NEW c, Core(c), c.powered, c.backendOk, Capture(c)
  PROVE  Leaves(c)
<1>1. Licensed(c) BY DEF Capture, Licensed, RelocationPhases
<1>2. "SEEKING_MARKER" \in RelocationPhases BY DEF RelocationPhases
<1> QED BY <1>1, <1>2, LicensedLeaves, OutputLeaves, NamesTyped DEF Capture

LEMMA TurnAroundLeaves ==
  ASSUME NEW c, Core(c), c.powered, c.backendOk, TurnAround(c)
  PROVE  Leaves(c)
<1>1. Licensed(c) BY DEF TurnAround, Licensed, RelocationPhases
<1> QED BY <1>1, LicensedLeaves, OutputLeaves, NamesTyped DEF TurnAround

LEMMA SearchMarkerLeaves ==
  ASSUME NEW c, Core(c), c.powered, c.backendOk, SearchMarker(c)
  PROVE  Leaves(c)
<1> DEFINE d == StartPhase(c, "SEEKING_MARKER")
           e == [d EXCEPT !.searching = TRUE]
<1>1. Licensed(c) BY DEF SearchMarker, Licensed, RelocationPhases
<1>2. CASE Output(e, "S")
  <2>1. "SEEKING_MARKER" \in RelocationPhases BY DEF RelocationPhases
  <2>2. Core(d) /\ Follows(c, d) BY <1>1, <2>1, StartPhaseKeeps DEF Licensed
  <2> HIDE DEF d
  <2>3. d \in Controllers BY <2>2 DEF Core
  <2>4. e = [d EXCEPT !.moved = d.moved, !.dropSeen = d.dropSeen, !.searching = TRUE,
                      !.present = d.present]
    BY <2>3 DEF Controllers
  <2>5. d.moved \in BOOLEAN /\ d.dropSeen \in BOOLEAN /\ d.present \in 0..Longest
    BY <2>3 DEF Controllers
  <2> HIDE DEF e
  <2>6. Core(e) /\ Follows(d, e) BY <2>2, <2>4, <2>5, NotesKeep
  <2>7. Leaves(e) BY <1>2, <2>6, OutputLeaves, NamesTyped
  <2> QED BY <2>2, <2>6, <2>7, LeavesOn DEF Core
<1>3. CASE \E command \in {"S", "T"} : Output(c, command)
  BY <1>1, <1>3, OutputLeaves, NamesTyped
<1>4. CASE Output(FailAction(c), "S") BY <1>1, <1>4, LicensedLeaves
<1> QED BY <1>2, <1>3, <1>4 DEF SearchMarker

LEMMA FollowMarkerLeaves ==
  ASSUME NEW c, Core(c), c.powered, c.backendOk, FollowMarker(c)
  PROVE  Leaves(c)
<1> DEFINE d == [c EXCEPT !.searching = FALSE]
           e == [d EXCEPT !.dropSeen = FALSE]
<1>1. Licensed(c) BY DEF FollowMarker, Licensed, RelocationPhases
<1>2. c \in Controllers BY DEF Core
<1>3. c.moved \in BOOLEAN /\ c.dropSeen \in BOOLEAN /\ c.present \in 0..Longest
  BY <1>2 DEF Controllers
<1>4. /\ d = [c EXCEPT !.moved = c.moved, !.dropSeen = c.dropSeen, !.searching = FALSE,
                       !.present = c.present]
      /\ e = [c EXCEPT !.moved = c.moved, !.dropSeen = FALSE, !.searching = FALSE,
                       !.present = c.present]
  BY <1>2 DEF Controllers
<1>5. \/ \E command \in {"S", "T"} : Output(d, command)
      \/ Output(StartPhase(e, "BACKING"), "S")
      \/ Output(StartPhase(d, "PUSHING_TO_MARKER"), "F")
      \/ Output(d, "F")
  BY DEF FollowMarker
<1> HIDE DEF d, e
<1>6. Core(d) /\ Follows(c, d) /\ Licensed(d) BY <1>1, <1>3, <1>4, NotesKeep
<1>7. Core(e) /\ Follows(c, e) /\ Licensed(e) BY <1>1, <1>3, <1>4, NotesKeep
<1>8. CASE \E command \in {"S", "T", "F"} : Output(d, command)
  BY <1>2, <1>6, <1>8, OutputLeaves, LeavesOn, NamesTyped
<1>9. CASE Output(StartPhase(e, "BACKING"), "S")
  <2>1. "BACKING" \in RelocationPhases BY DEF RelocationPhases
  <2> QED BY <1>2, <1>7, <1>9, <2>1, LicensedLeaves, LeavesOn, NamesTyped
<1>10. CASE Output(StartPhase(d, "PUSHING_TO_MARKER"), "F")
  <2>1. "PUSHING_TO_MARKER" \in RelocationPhases BY DEF RelocationPhases
  <2> QED BY <1>2, <1>6, <1>10, <2>1, LicensedLeaves, LeavesOn, NamesTyped
<1> QED BY <1>5, <1>8, <1>9, <1>10

LEMMA BackAwayLeaves ==
  ASSUME NEW c, Core(c), c.powered, c.backendOk, NEW isNew, BackAway(c, isNew)
  PROVE  Leaves(c)
<1> DEFINE moved == c.moved \/ Counted(c, "B")
<1>1. Licensed(c) /\ c \in Controllers BY DEF BackAway, Licensed, RelocationPhases, Core
<1>2. PICK dropSeen \in BOOLEAN :
        LET d == [c EXCEPT !.moved = moved, !.dropSeen = dropSeen]
        IN \/ Output(d, "B")
           \/ Output(StartPhase(d, "TURNING_AROUND"), "S")
           \/ Output([AwaitFrame(StartPhase(d, "VERIFYING_DROP")) EXCEPT !.present = 0], "S")
  BY <1>1 DEF BackAway, Controllers
<1>3. moved \in BOOLEAN BY <1>1 DEF Counted, Controllers
<1> HIDE DEF moved
<1> DEFINE d == [c EXCEPT !.moved = moved, !.dropSeen = dropSeen]
<1>4. c.searching \in BOOLEAN /\ c.present \in 0..Longest BY <1>1 DEF Controllers
<1>5. d = [c EXCEPT !.moved = moved, !.dropSeen = dropSeen,
                              !.searching = c.searching, !.present = c.present]
  BY <1>1 DEF Controllers
<1> HIDE DEF d
<1>6. Core(d) /\ Follows(c, d) /\ Licensed(d)
  BY <1>1, <1>3, <1>4, <1>5, NotesKeep
<1>7. CASE Output(d, "B")
  BY <1>1, <1>6, <1>7, OutputLeaves, LeavesOn, NamesTyped
<1>8. CASE Output(StartPhase(d, "TURNING_AROUND"), "S")
  <2>1. "TURNING_AROUND" \in RelocationPhases BY DEF RelocationPhases
  <2> QED BY <1>1, <1>6, <1>8, <2>1, LicensedLeaves, LeavesOn, NamesTyped
<1>9. CASE Output([AwaitFrame(StartPhase(d, "VERIFYING_DROP")) EXCEPT !.present = 0], "S")
  <2> DEFINE f == StartPhase(d, "VERIFYING_DROP")
             g == AwaitFrame(f)
             h == [g EXCEPT !.present = 0]
  <2>1. "VERIFYING_DROP" \in RelocationPhases BY DEF RelocationPhases
  <2>2. Core(f) /\ Follows(c, f)
    <3>1. Core(f) /\ Follows(d, f)
      BY <1>6, <2>1, StartPhaseKeeps DEF Licensed
    <3> QED BY <1>1, <1>6, <3>1, FollowsOn
  <2>3. Output(h, "S") BY <1>9
  <2> HIDE DEF f
  <2>4. Core(g) /\ Follows(c, g)
    <3>1. Core(g) /\ Follows(f, g) BY <2>2, Awaits
    <3> QED BY <1>1, <2>2, <3>1, FollowsOn
  <2> HIDE DEF g
  <2>5. g \in Controllers BY <2>4 DEF Core
  <2>6. h = [g EXCEPT !.moved = g.moved, !.dropSeen = g.dropSeen, !.searching = g.searching,
                      !.present = 0]
    BY <2>5 DEF Controllers
  <2>7. g.moved \in BOOLEAN /\ g.dropSeen \in BOOLEAN /\ g.searching \in BOOLEAN
    BY <2>5 DEF Controllers
  <2> HIDE DEF h
  <2>8. Core(h) /\ Follows(g, h) BY <2>4, <2>6, <2>7, NotesKeep, LengthsTyped
  <2>9. Leaves(h) BY <2>3, <2>8, OutputLeaves, NamesTyped
  <2>10. Leaves(g) BY <2>5, <2>8, <2>9, LeavesOn
  <2> QED BY <1>1, <2>4, <2>10, LeavesOn
<1> QED BY <1>2, <1>7, <1>8, <1>9 DEF d

LEMMA VerifyDropLeaves ==
  ASSUME NEW c, Core(c), c.powered, c.backendOk, NEW isNew, NEW gap \in BOOLEAN,
         VerifyDrop(c, isNew, gap)
  PROVE  Leaves(c)
<1> DEFINE present == IF gap THEN 1 ELSE c.present + 1
           counted == IF TargetKindVisible(c) THEN present ELSE 0
           d == [c EXCEPT !.present = counted]
<1>1. Licensed(c) /\ c \in Controllers BY DEF VerifyDrop, Licensed, RelocationPhases, Core
<1>2. CASE Output(c, "S") BY <1>2, OutputLeaves, NamesTyped
<1>3. CASE Output(StartPhase(c, "TURNING_AROUND"), "S")
  <2>1. "TURNING_AROUND" \in RelocationPhases BY DEF RelocationPhases
  <2> QED BY <1>1, <1>3, <2>1, LicensedLeaves, NamesTyped
<1>4. CASE (TargetKindVisible(c) => present <= DropVerify) /\ Output(d, "S")
  <2>1. counted \in 0..Longest
    <3>1. c.present \in 0..Longest BY <1>1 DEF Controllers
    <3> HIDE DEF d
    <3> QED BY <1>4, <3>1, LengthsTyped
  <2> HIDE DEF counted
  <2>2. d = [c EXCEPT !.moved = c.moved, !.dropSeen = c.dropSeen, !.searching = c.searching,
                      !.present = counted]
    BY <1>1 DEF Controllers
  <2>3. c.moved \in BOOLEAN /\ c.dropSeen \in BOOLEAN /\ c.searching \in BOOLEAN
    BY <1>1 DEF Controllers
  <2> HIDE DEF d
  <2>4. Core(d) /\ Follows(c, d) BY <2>1, <2>2, <2>3, NotesKeep
  <2>5. Leaves(d) BY <1>4, <2>4, OutputLeaves, NamesTyped
  <2> QED BY <1>1, <2>4, <2>5, LeavesOn
<1>5. CASE Output(FailAction(c), "S") BY <1>1, <1>5, LicensedLeaves
<1> QED BY <1>2, <1>3, <1>4, <1>5 DEF VerifyDrop

-----------------------------------------------------------------------------
(* step *)

LEMMA JudgesOn ==
  ASSUME NEW b \in Controllers, NEW c, NEW d, Judges(b, c), Follows(c, d),
         c.phase \in {"RUNNING", "HAZARD_PAUSED"} => d.seen = c.seen /\ d.phase = c.phase
  PROVE  Judges(b, d)
<1>1. \A job \in b.action \cup b.control : job.id \in Ids BY FieldsTyped
<1>2. \A k \in b.control : k \in d.control \/ d.results[k.id] # "none"
  BY <1>1 DEF Judges, Follows
<1> QED BY <1>1, <1>2 DEF Judges, Follows

LEMMA FollowsIsJudged ==
  ASSUME NEW c, NEW d, Follows(c, d)
  PROVE  Judges(c, d)
BY DEF Follows, Judges

LEMMA BackendKeeps ==
  ASSUME NEW c, Core(c), NEW ok \in BOOLEAN
  PROVE  LET d == [c EXCEPT !.backendOk = ok]
         IN Core(d) /\ Follows(c, d) /\ d.output = c.output
<1> DEFINE d == [c EXCEPT !.backendOk = ok]
<1>1. d \in Controllers BY DEF Core, Controllers
<1>2. /\ d.action = c.action /\ d.control = c.control /\ d.results = c.results
      /\ d.overdue = c.overdue /\ d.phase = c.phase /\ d.finishing = c.finishing
      /\ d.absent = c.absent /\ d.tracked = c.tracked /\ d.blocked = c.blocked /\ d.hold = c.hold
      /\ d.output = c.output
  BY DEF Core, Controllers
<1> HIDE DEF d
<1> QED BY <1>1, <1>2, OtherFieldsKeep DEF d

\* What a step leaves behind.
Stepped == Core(care') /\ MotionIsLicensed' /\ Judges(care, care')

LEMMA StoppedSteps ==
  ASSUME Core(care), Core(care'), Follows(care, care'), care'.output = "S"
  PROVE  Stepped
BY FollowsIsJudged DEF Stepped, MotionIsLicensed

LEMMA SeesSteps ==
  ASSUME Core(care), NEW frame \in Frames, NEW isNew \in BOOLEAN, NEW gap \in BOOLEAN, NEW safe,
         StepSees(frame, isNew, gap, safe)
  PROVE  Stepped
<1> DEFINE c == Seeing(frame, isNew, gap, safe)
<1>1. Core(c) /\ SeesWell(c) /\ Judges(care, c) BY SeeingKeeps
<1>2. /\ c.powered
      /\ \/ StandStill(c)
         \/ Drive(c)
         \/ Recheck(c, isNew, gap)
         \/ Align(c)
         \/ Capture(c)
         \/ SearchMarker(c)
         \/ FollowMarker(c)
         \/ BackAway(c, isNew)
         \/ TurnAround(c)
         \/ VerifyDrop(c, isNew, gap)
  BY DEF StepSees, Step
<1> HIDE DEF c
<1>3. c.backendOk BY <1>1 DEF SeesWell
<1>4. CASE StandStill(c) \/ Drive(c)
  <2>1. Leaves(c) /\ care'.seen = c.seen BY <1>1, <1>2, <1>4, StandStillLeaves, DriveLeaves
  <2>2. care'.phase = c.phase
    BY <1>1, <1>4 DEF StandStill, Drive, Output, Core, Controllers
  <2> QED BY <1>1, <2>1, <2>2, JudgesOn DEF Leaves, Stepped, Core
<1>5. CASE ~(StandStill(c) \/ Drive(c))
  <2>1. Leaves(c)
    BY <1>1, <1>2, <1>3, <1>5, RecheckLeaves, AlignLeaves, CaptureLeaves, SearchMarkerLeaves,
       FollowMarkerLeaves, BackAwayLeaves, TurnAroundLeaves, VerifyDropLeaves
  <2>2. c.phase \notin {"RUNNING", "HAZARD_PAUSED"}
    BY <1>2, <1>5 DEF Recheck, Align, Capture, SearchMarker, FollowMarker, BackAway, TurnAround,
                      VerifyDrop
  <2> QED BY <1>1, <2>1, <2>2, JudgesOn DEF Leaves, Stepped, Core
<1> QED BY <1>4, <1>5

LEMMA ControlLoopSteps ==
  ASSUME Core(care), ControlLoop
  PROVE  Stepped
<1>1. Core(Checked) /\ Follows(care, Checked) BY CheckedKeeps
<1>2. CASE StepDisconnected
  <2> DEFINE d == Deadlines(care)
             h == Halt(d)
  <2>1. Core(d) /\ Follows(care, d) BY DeadlinesKeep
  <2> HIDE DEF d
  <2>2. Core(h) /\ Follows(care, h) /\ h.output = "S"
    <3>1. Core(h) /\ Follows(d, h) /\ h.output = "S" BY <2>1, Halts
    <3> QED BY <2>1, <3>1, FollowsOn DEF Core
  <2> HIDE DEF h
  <2>3. Core(AwaitFrame(h)) /\ Follows(h, AwaitFrame(h)) BY <2>2, Awaits
  <2>4. AwaitFrame(h).output = "S" BY <2>2 DEF AwaitFrame, Core, Controllers
  <2>5. Follows(care, AwaitFrame(h)) BY <2>2, <2>3, FollowsOn DEF Core
  <2>6. care' = AwaitFrame(h) BY <1>2 DEF StepDisconnected, Step, h, d
  <2> QED BY <2>3, <2>4, <2>5, <2>6, StoppedSteps
<1>3. CASE StepWithoutBackend
  <2> DEFINE d == IF care.backendOk THEN LinkLoss(Checked, FALSE) ELSE Checked
             h == Halt(d)
             e == [h EXCEPT !.backendOk = FALSE]
  <2>1. Core(d) /\ Follows(care, d)
    <3>1. Core(LinkLoss(Checked, FALSE)) /\ Follows(Checked, LinkLoss(Checked, FALSE))
      BY <1>1, LinkLossKeeps
    <3> QED BY <1>1, <3>1, FollowsOn DEF Core
  <2> HIDE DEF d
  <2>2. Core(h) /\ Follows(care, h) /\ h.output = "S"
    <3>1. Core(h) /\ Follows(d, h) /\ h.output = "S" BY <2>1, Halts
    <3> QED BY <2>1, <3>1, FollowsOn DEF Core
  <2> HIDE DEF h
  <2>3. Core(e) /\ Follows(h, e) /\ e.output = "S" BY <2>2, BackendKeeps
  <2>4. Follows(care, e) BY <2>2, <2>3, FollowsOn DEF Core
  <2>5. care' = e BY <1>3 DEF StepWithoutBackend, Step, h, d
  <2> QED BY <2>3, <2>4, <2>5, StoppedSteps
<1>4. CASE StepOff \/ StepBlind
  <2> DEFINE d == IF StepOff THEN [Checked EXCEPT !.output = "S"] ELSE Halt(Checked)
             e == [d EXCEPT !.backendOk = TRUE]
  <2>1. Core(d) /\ Follows(care, d) /\ d.output = "S"
    <3> DEFINE off == [Checked EXCEPT !.output = "S"]
    <3>1. Core(off) /\ Follows(Checked, off) BY <1>1, OutputKeeps, NamesTyped
    <3>2. off.output = "S" BY <1>1 DEF Core, Controllers
    <3>3. Core(Halt(Checked)) /\ Follows(Checked, Halt(Checked)) /\ Halt(Checked).output = "S"
      BY <1>1, Halts
    <3> HIDE DEF off
    <3>4. Follows(care, off) /\ Follows(care, Halt(Checked))
      BY <1>1, <3>1, <3>3, FollowsOn DEF Core
    <3> QED BY <3>1, <3>2, <3>3, <3>4 DEF off
  <2>2. care' = e
    BY <1>4 DEF StepOff, StepBlind, Step
  <2> HIDE DEF d
  <2>3. Core(e) /\ Follows(d, e) /\ e.output = "S" BY <2>1, BackendKeeps
  <2>4. Follows(care, e) BY <2>1, <2>3, FollowsOn DEF Core
  <2> QED BY <2>2, <2>3, <2>4, StoppedSteps
<1>5. CASE StepNewFrame BY <1>5, SeesSteps DEF StepNewFrame
<1>6. CASE StepSameFrame
  <2>1. care.seen \in Frames BY FieldsTyped DEF Core
  <2> QED BY <1>6, <2>1, SeesSteps DEF StepSameFrame
<1> QED BY <1>2, <1>3, <1>4, <1>5, <1>6 DEF ControlLoop

-----------------------------------------------------------------------------
(* request, and what else the runtime does to the controller *)

\* The answers of a step: what is answered stays so until it is taken out, and no check
\* succeeds over a frame with its target.
Ends(c, d) ==
  /\ \A i \in Ids : c.results[i] # "none" => d.results[i] \in {"none", c.results[i]}
  /\ \A a \in c.action : a.cmd = "RECHECK_HAZARD" /\ d.results[a.id] = "SUCCEEDED"
                           => Unseen(a, d.seen)
  /\ \A job \in c.action \cup c.control :
       job \in d.action \cup d.control \/ d.results[job.id] # "none" \/ Recover(job.id)

Kept ==
  /\ care' \in Controllers
  /\ JobInv(care') /\ TaskInv(care') /\ BlockInv(care') /\ StopInv(care')
  /\ fault' \/ PauseInv(care')
  /\ MotionIsLicensed' /\ ConfirmedPauseHolds'
  /\ Ends(care, care')

LEMMA CoreOf ==
  ASSUME IInv, ~fault \/ care.hold # "user"
  PROVE  Core(care)
BY DEF IInv, Core, TypeOK, PauseInv

LEMMA StopKept ==
  ASSUME IInv, NEW id \in Ids, NEW cmd \in {"PAUSE", "POWER_OFF"}, RequestStop(id, cmd)
  PROVE  Kept
<1> DEFINE c == CompleteAction(care, "FAILED")
           d == DropControl(c, c.control, "FAILED")
           powered == cmd # "POWER_OFF" /\ care.powered
           phase == IF powered THEN "PAUSED" ELSE "OFF"
           hold == IF care.hold = "user" THEN "none" ELSE care.hold
<1>1. Core(care) /\ Fresh(id) BY CoreOf DEF RequestStop, Fresh
<1>2. /\ c \in Controllers /\ JobInv(c) /\ BlockInv(c)
      /\ c.action = {} /\ ~c.finishing /\ c.control = care.control
      /\ \A i \in Ids : care.results[i] # "none" => c.results[i] = care.results[i]
      /\ \A a \in care.action : c.results[a.id] = "FAILED"
  BY <1>1, Completes
<1>3. c.results[id] = "none" /\ c.hold = care.hold
  BY <1>1 DEF Fresh, CompleteAction, Answers, Core, Controllers
<1> HIDE DEF c
<1>4. d \in Controllers BY <1>2, AnswersTyped DEF DropControl, Controllers
<1>5. d.action = {} /\ d.control = {} /\ ~d.finishing /\ BlockInv(d) /\ d.hold = care.hold
  BY <1>2, <1>3 DEF DropControl, BlockInv, Controllers
<1>6. d.results[id] = "none" BY <1>1, <1>2, <1>3 DEF Fresh, DropControl, Answers, Controllers
<1>7. /\ \A i \in Ids : care.results[i] # "none" => d.results[i] = care.results[i]
      /\ \A a \in care.action : d.results[a.id] = "FAILED"
  BY <1>1, <1>2, FieldsTyped DEF Core, JobInv, DropControl, Answers, Controllers
<1>8. \A k \in care.control : d.results[k.id] = "FAILED"
  BY <1>1, <1>2, FieldsTyped DEF Core, DropControl, Answers, Controllers
<1>9. care' = [[d EXCEPT !.powered = powered, !.phase = phase,
                         !.control = {[cmd |-> cmd, id |-> id]}, !.output = "S", !.hold = hold]
                 EXCEPT !.overdue = FALSE]
  BY <1>4, <1>5 DEF RequestStop, Requested, c, Controllers
<1>10. /\ powered \in BOOLEAN /\ phase \in {"PAUSED", "OFF"}
       /\ hold \in {"none", "link", "user"} /\ hold # "user"
  BY <1>1 DEF Core, Controllers
<1>11. {[cmd |-> cmd, id |-> id]} \subseteq [cmd : Controls, id : Ids] BY DEF Controls
<1> HIDE DEF d, powered, phase, hold
<1>12. care' \in Controllers
  <2> DEFINE asked == {[cmd |-> cmd, id |-> id]}
  <2>1. phase \in Phases /\ "S" \in Outputs BY <1>10, NamesTyped
  <2>2. asked \subseteq [cmd : Controls, id : Ids] BY <1>11
  <2> DEFINE e == [d EXCEPT !.powered = powered, !.phase = phase, !.control = asked,
                            !.output = "S", !.hold = hold]
  <2>3. care' = [e EXCEPT !.overdue = FALSE] BY <1>9
  <2> HIDE DEF asked
  <2>4. e \in Controllers BY <1>4, <1>10, <2>1, <2>2 DEF Controllers
  <2> HIDE DEF e
  <2> QED BY <2>3, <2>4, ZenonT(40) DEF Controllers
<1>13. /\ care'.action = {} /\ care'.control = {[cmd |-> cmd, id |-> id]} /\ ~care'.finishing
       /\ care'.phase = phase /\ care'.hold = hold /\ care'.output = "S" /\ ~care'.overdue
       /\ care'.results = d.results /\ care'.tracked = d.tracked /\ care'.blocked = d.blocked
  BY <1>4, <1>5, <1>9 DEF Controllers
<1>14. JobInv(care') BY <1>6, <1>13 DEF JobInv
<1>15. TaskInv(care') BY <1>10, <1>13, NamesTyped DEF TaskInv
<1>16. BlockInv(care') BY <1>5, <1>13 DEF BlockInv
<1>17. PauseInv(care') /\ StopInv(care') BY <1>10, <1>13 DEF PauseInv, StopInv
<1>18. MotionIsLicensed' /\ ConfirmedPauseHolds' BY <1>13 DEF MotionIsLicensed, ConfirmedPauseHolds
<1>19. Ends(care, care') BY <1>7, <1>8, <1>13 DEF Ends
<1> QED BY <1>12, <1>14, <1>15, <1>16, <1>17, <1>18, <1>19 DEF Kept

LEMMA AwaitsFrame ==
  ASSUME care \in Controllers
  PROVE  LET d == AwaitFrame(care)
         IN /\ d \in Controllers /\ Visible(d.seen) = {}
            /\ d.action = care.action /\ d.control = care.control /\ d.results = care.results
            /\ d.phase = care.phase /\ d.finishing = care.finishing /\ d.output = care.output
            /\ d.tracked = care.tracked /\ d.blocked = care.blocked
            /\ d.powered = care.powered /\ d.backendOk = care.backendOk
<1> DEFINE d == AwaitFrame(care)
<1>1. d \in Controllers BY NothingTyped DEF AwaitFrame, Controllers
<1>2. d.seen = Nothing BY DEF AwaitFrame, Controllers
<1>3. Visible(Nothing) = {} BY DEF Visible, Nothing
<1>4. /\ d.action = care.action /\ d.control = care.control /\ d.results = care.results
      /\ d.phase = care.phase /\ d.finishing = care.finishing /\ d.output = care.output
      /\ d.tracked = care.tracked /\ d.blocked = care.blocked
      /\ d.powered = care.powered /\ d.backendOk = care.backendOk
  BY DEF AwaitFrame, Controllers
<1> QED BY <1>1, <1>2, <1>3, <1>4

LEMMA DriveKept ==
  ASSUME IInv, NEW id \in Ids, NEW cmd \in {"POWER_ON", "RESUME"}, RequestDrive(id, cmd)
  PROVE  Kept
<1> DEFINE d == AwaitFrame(care)
           phase == IF care.blocked # {} THEN "HAZARD_PAUSED" ELSE "RUNNING"
<1>1. Core(care) /\ Fresh(id) BY CoreOf DEF RequestDrive, Fresh
<1>2. care.action = {} /\ care.control = {} BY DEF RequestDrive, Accepted, Idle
<1>3. /\ d \in Controllers /\ Visible(d.seen) = {}
      /\ d.action = care.action /\ d.control = care.control /\ d.results = care.results
      /\ d.phase = care.phase /\ d.finishing = care.finishing /\ d.output = care.output
      /\ d.tracked = care.tracked /\ d.blocked = care.blocked
      /\ d.powered = care.powered /\ d.backendOk = care.backendOk
  BY <1>1, AwaitsFrame DEF Core
<1>4. ~care.finishing /\ care.phase \notin RelocationPhases BY <1>1, <1>2 DEF Core, TaskInv
<1>5. care' = [[d EXCEPT !.powered = TRUE, !.phase = phase,
                         !.control = {[cmd |-> cmd, id |-> id]}, !.hold = "none"]
                 EXCEPT !.overdue = FALSE]
  BY DEF RequestDrive, Requested
<1>6. phase \in {"HAZARD_PAUSED", "RUNNING"} /\ (care.blocked = {} => phase = "RUNNING") OBVIOUS
<1>7. {[cmd |-> cmd, id |-> id]} \subseteq [cmd : Controls, id : Ids] BY DEF Controls
<1> HIDE DEF d, phase
<1>8. care' \in Controllers
  <2> DEFINE asked == {[cmd |-> cmd, id |-> id]}
  <2>1. phase \in Phases BY <1>6, NamesTyped
  <2>2. asked \subseteq [cmd : Controls, id : Ids] BY <1>7
  <2> DEFINE e == [d EXCEPT !.powered = TRUE, !.phase = phase, !.control = asked, !.hold = "none"]
  <2>3. care' = [e EXCEPT !.overdue = FALSE] BY <1>5
  <2> HIDE DEF asked
  <2>4. e \in Controllers BY <1>3, <2>1, <2>2 DEF Controllers
  <2> HIDE DEF e
  <2> QED BY <2>3, <2>4, ZenonT(40) DEF Controllers
<1>9. /\ care'.action = {} /\ care'.control = {[cmd |-> cmd, id |-> id]} /\ ~care'.finishing
      /\ care'.phase = phase /\ care'.hold = "none" /\ care'.output = care.output
      /\ ~care'.overdue /\ care'.powered /\ care'.backendOk = care.backendOk
      /\ care'.seen = d.seen
      /\ care'.results = care.results /\ care'.tracked = care.tracked
      /\ care'.blocked = care.blocked
  BY <1>2, <1>3, <1>4, <1>5 DEF Controllers
<1>10. JobInv(care') BY <1>1, <1>9 DEF JobInv, Fresh
<1>11. TaskInv(care') BY <1>6, <1>9, NamesTyped DEF TaskInv
<1>12. BlockInv(care') BY <1>1, <1>9 DEF Core, BlockInv
<1>13. PauseInv(care') /\ StopInv(care') BY <1>9 DEF PauseInv, StopInv
<1>14. MotionIsLicensed' BY <1>3, <1>4, <1>6, <1>9 DEF IInv, MotionIsLicensed
<1>15. ConfirmedPauseHolds' BY <1>9 DEF ConfirmedPauseHolds
<1>16. Ends(care, care') BY <1>2, <1>9 DEF Ends
<1> QED BY <1>8, <1>10, <1>11, <1>12, <1>13, <1>14, <1>15, <1>16 DEF Kept

LEMMA TreatmentKept ==
  ASSUME IInv, NEW id \in Ids, NEW cmd \in Treatments, NEW label \in Labels,
         NEW inst \in Instances \cup {NoInstance}, inst # NoInstance => label = KindOf[inst],
         RequestTreatment(id, cmd, label, inst)
  PROVE  Kept
<1> DEFINE d == AwaitFrame(care)
           job == [cmd |-> cmd, id |-> id, label |-> label, inst |-> inst]
           phase == IF cmd = "RELOCATE" THEN "ALIGNING_TARGET" ELSE "RECHECKING"
           tracked == care.tracked \cup ({inst} \ {NoInstance})
<1>1. Core(care) /\ Fresh(id) BY CoreOf DEF RequestTreatment, Fresh
<1>2. care.action = {} /\ care.control = {} /\ care.phase \in {"HAZARD_PAUSED", "PAUSED"}
  BY DEF RequestTreatment, Accepted, Idle
<1>3. /\ d \in Controllers /\ Visible(d.seen) = {}
      /\ d.action = care.action /\ d.control = care.control /\ d.results = care.results
      /\ d.phase = care.phase /\ d.finishing = care.finishing /\ d.output = care.output
      /\ d.tracked = care.tracked /\ d.blocked = care.blocked
      /\ d.powered = care.powered /\ d.backendOk = care.backendOk
  BY <1>1, AwaitsFrame DEF Core
<1>4. ~care.finishing BY <1>1, <1>2 DEF Core, TaskInv
<1>5. care.output = "S" BY <1>2, NamesTyped DEF IInv, MotionIsLicensed
<1>6. care' = [[d EXCEPT !.blocked = @ \cup {label}, !.tracked = tracked,
                         !.relocated = @ \ {label}, !.searching = FALSE, !.action = {job},
                         !.phase = phase, !.absent = 0, !.present = 0, !.hold = "none"]
                 EXCEPT !.overdue = FALSE]
  BY <1>3 DEF RequestTreatment, Requested, AwaitFrame, Controllers
<1>7. job \in Actions BY DEF Actions
<1>8. tracked \subseteq Instances BY <1>1 DEF Core, Controllers
<1>9. /\ cmd = "RELOCATE" => phase \in RelocationPhases
      /\ cmd # "RELOCATE" => cmd = "RECHECK_HAZARD" /\ phase = "RECHECKING"
  BY DEF Treatments, RelocationPhases
<1>10. job.id = id /\ job.cmd = cmd OBVIOUS
<1>11. \A i \in tracked : KindOf[i] \in care.blocked \cup {label}
  BY <1>1 DEF Core, BlockInv
<1> HIDE DEF d, job, phase, tracked
<1>12. care' \in Controllers
  <2>1. phase \in Phases BY <1>9, NamesTyped
  <2>2. 0 \in 0..Longest BY LengthsTyped
  <2> DEFINE e == [d EXCEPT !.blocked = @ \cup {label}, !.tracked = tracked,
                            !.relocated = @ \ {label}, !.searching = FALSE, !.action = {job},
                            !.phase = phase, !.absent = 0, !.present = 0, !.hold = "none"]
  <2>3. care' = [e EXCEPT !.overdue = FALSE] BY <1>6
  <2>4. {job} \subseteq Actions BY <1>7
  <2>5. e \in Controllers BY <1>3, <1>8, <2>1, <2>2, <2>4, ZenonT(40) DEF Controllers
  <2> HIDE DEF e
  <2> QED BY <2>3, <2>5, ZenonT(40) DEF Controllers
<1>13. /\ care'.action = {job} /\ care'.control = {} /\ ~care'.finishing
       /\ care'.phase = phase /\ care'.hold = "none" /\ care'.output = "S"
       /\ ~care'.overdue /\ care'.absent = 0 /\ care'.results = care.results
       /\ care'.tracked = tracked /\ care'.blocked = care.blocked \cup {label}
  BY <1>2, <1>3, <1>4, <1>5, <1>6 DEF Controllers
<1>14. JobInv(care') BY <1>1, <1>10, <1>13 DEF JobInv, Fresh
<1>15. TaskInv(care')
  <2>1. 0 <= Removal BY LengthsTyped
  <2> QED BY <1>9, <1>10, <1>13, <2>1, NamesTyped DEF TaskInv
<1>16. BlockInv(care') BY <1>11, <1>13 DEF BlockInv
<1>17. PauseInv(care') /\ StopInv(care') BY <1>13 DEF PauseInv, StopInv
<1>18. MotionIsLicensed' /\ ConfirmedPauseHolds'
  BY <1>13 DEF MotionIsLicensed, ConfirmedPauseHolds
<1>19. Ends(care, care') BY <1>2, <1>13 DEF Ends
<1> QED BY <1>12, <1>14, <1>15, <1>16, <1>17, <1>18, <1>19 DEF Kept

\* Only an answer changes, of an id that is not in hand.
LEMMA AnswerKept ==
  ASSUME IInv, NEW id \in Ids, NEW answer \in {"none", "FAILED"},
         care' = [care EXCEPT !.results[id] = answer], fault' = fault,
         \A job \in care.action \cup care.control : job.id # id,
         answer = "FAILED" => care.results[id] = "none"
  PROVE  Kept
<1>1. care \in Controllers BY DEF IInv, TypeOK
<1>2. care' \in Controllers BY <1>1 DEF Controllers
<1>3. /\ care'.action = care.action /\ care'.control = care.control
      /\ care'.overdue = care.overdue /\ care'.phase = care.phase
      /\ care'.finishing = care.finishing /\ care'.absent = care.absent
      /\ care'.tracked = care.tracked /\ care'.blocked = care.blocked /\ care'.hold = care.hold
      /\ care'.output = care.output /\ care'.powered = care.powered
      /\ care'.backendOk = care.backendOk /\ care'.seen = care.seen
      /\ \A i \in Ids : care'.results[i] = IF i = id THEN answer ELSE care.results[i]
  BY <1>1 DEF Controllers
<1>4. \A job \in care.action \cup care.control :
        job.id \in Ids /\ care'.results[job.id] = care.results[job.id]
  BY <1>1, <1>3, FieldsTyped
<1>5. JobInv(care') BY <1>3, <1>4 DEF IInv, JobInv
<1>6. TaskInv(care') /\ BlockInv(care') /\ StopInv(care')
  BY <1>3 DEF IInv, TaskInv, BlockInv, StopInv
<1>7. fault' \/ PauseInv(care') BY <1>3, <1>6 DEF IInv, PauseInv
<1>8. MotionIsLicensed' /\ ConfirmedPauseHolds'
  BY <1>3 DEF IInv, MotionIsLicensed, ConfirmedPauseHolds
<1>9. Ends(care, care') BY <1>3, <1>4 DEF Ends, IInv, JobInv
<1> QED BY <1>2, <1>5, <1>6, <1>7, <1>8, <1>9 DEF Kept

\* The end of the work in hand, with the robot stopped: recover_command and fail_control.
LEMMA WorkEnds ==
  ASSUME NEW c, Core(c), c.action = {}, NEW phase \in {"HAZARD_PAUSED", "PAUSED"}
  PROVE  LET d == [DropControl(c, c.control, "FAILED") EXCEPT !.phase = phase, !.output = "S"]
         IN /\ d \in Controllers /\ JobInv(d) /\ TaskInv(d) /\ BlockInv(d) /\ StopInv(d)
            /\ Follows(c, d) /\ d.output = "S" /\ d.action = {} /\ d.control = {}
            /\ d.phase = phase /\ d.hold = c.hold
<1> DEFINE e == DropControl(c, c.control, "FAILED")
           d == [e EXCEPT !.phase = phase, !.output = "S"]
<1>1. e \in Controllers BY AnswersTyped DEF Core, DropControl, Controllers
<1>2. /\ e.action = {} /\ e.control = {} /\ ~e.overdue /\ e.finishing = c.finishing
      /\ e.tracked = c.tracked /\ e.blocked = c.blocked /\ e.hold = c.hold
  BY DEF Core, DropControl, Controllers
<1>3. \A i \in Ids : c.results[i] # "none" => e.results[i] = c.results[i]
  BY DEF Core, JobInv, DropControl, Answers, Controllers
<1>4. \A k \in c.control : e.results[k.id] # "none"
  BY FieldsTyped DEF Core, DropControl, Answers, Controllers
<1> HIDE DEF e
<1>5. d \in Controllers BY <1>1, NamesTyped, ZenonT(40) DEF Controllers
<1>6. /\ d.action = {} /\ d.control = {} /\ ~d.overdue /\ d.finishing = c.finishing
      /\ d.tracked = c.tracked /\ d.blocked = c.blocked /\ d.hold = c.hold
      /\ d.phase = phase /\ d.output = "S" /\ d.results = e.results
  BY <1>1, <1>2 DEF Controllers
<1> HIDE DEF d
<1>7. JobInv(d) BY <1>6 DEF JobInv
<1>8. ~c.finishing BY DEF Core, TaskInv
<1>9. TaskInv(d) BY <1>6, <1>8, NamesTyped DEF TaskInv
<1>10. BlockInv(d) BY <1>6 DEF Core, BlockInv
<1>11. StopInv(d) BY <1>6 DEF StopInv
<1>12. Follows(c, d) BY <1>3, <1>6, <1>4 DEF Follows
<1> QED BY <1>5, <1>6, <1>7, <1>9, <1>10, <1>11, <1>12 DEF d, e

LEMMA JudgesEnds ==
  ASSUME NEW c \in Controllers, NEW d, Judges(c, d), JobInv(d)
  PROVE  Ends(c, d)
<1>1. \A a \in c.action : a \in d.action => d.results[a.id] = "none" BY DEF JobInv
<1> QED BY <1>1 DEF Judges, Ends

LEMMA AbandonEnds ==
  ASSUME NEW c, Core(c)
  PROVE  AbandonAction(c).action = {} /\ AbandonAction(c).hold = c.hold
BY DEF AbandonAction, FailAction, CompleteAction, Core, Controllers

\* With nothing in hand and the robot stopped; the result that recover_command takes out.
LEMMA RecoverKept ==
  ASSUME IInv, NEW id \in Ids, Recover(id)
  PROVE  Kept
<1> DEFINE own == {job \in care.action \cup care.control : job.id = id}
           phase == IF care.blocked # {} THEN "HAZARD_PAUSED" ELSE "PAUSED"
           c == IF care.action # {} THEN AbandonAction(care)
                ELSE [DropControl(care, own, "FAILED") EXCEPT !.phase = phase]
           d == [c EXCEPT !.output = "S"]
<1>1. own # {} /\ care' = [c EXCEPT !.results[id] = "none", !.output = "S"] /\ fault' = fault
  BY DEF Recover
<1>2. care.hold # "user" BY <1>1 DEF IInv, StopInv
<1>3. Core(care) BY <1>2, CoreOf
<1>4. /\ d \in Controllers /\ JobInv(d) /\ TaskInv(d) /\ BlockInv(d) /\ StopInv(d)
      /\ Follows(care, d) /\ d.action = {} /\ d.control = {} /\ d.hold = care.hold
  <2>1. CASE care.action # {}
    <3> DEFINE e == AbandonAction(care)
    <3>1. Core(e) /\ Follows(care, e) /\ e.action = {} /\ e.hold = care.hold
      BY <1>3, <2>1, Abandons, AbandonEnds
    <3>2. d = [e EXCEPT !.output = "S"] BY <2>1
    <3>3. e.control = {} BY <1>3, <2>1, <3>1 DEF Core, JobInv, Follows
    <3> HIDE DEF e, d
    <3>4. Core(d) /\ Follows(e, d) BY <3>1, <3>2, OutputKeeps, NamesTyped
    <3>5. d.action = {} /\ d.control = {} /\ d.hold = care.hold
      BY <3>1, <3>2, <3>3 DEF Core, Controllers
    <3> QED BY <1>3, <3>1, <3>4, <3>5, FollowsOn DEF Core, PauseInv
  <2>2. CASE care.action = {}
    <3>1. own = care.control BY <1>1, <1>3, <2>2 DEF Core, JobInv
    <3>2. phase \in {"HAZARD_PAUSED", "PAUSED"} OBVIOUS
    <3>3. d = [DropControl(care, care.control, "FAILED") EXCEPT !.phase = phase, !.output = "S"]
      BY <2>2, <3>1
    <3> HIDE DEF d, phase
    <3> QED BY <1>3, <2>2, <3>2, <3>3, WorkEnds
  <2> QED BY <2>1, <2>2
<1>5. c \in Controllers
  <2>1. CASE care.action # {} BY <1>3, <2>1, Abandons DEF Core
  <2>2. CASE care.action = {}
    <3> DEFINE e == DropControl(care, own, "FAILED")
    <3>1. phase \in Phases BY NamesTyped
    <3>2. e \in Controllers BY <1>3, AnswersTyped DEF DropControl, Core, Controllers
    <3>3. c = [e EXCEPT !.phase = phase] BY <2>2
    <3> HIDE DEF phase, e, c
    <3> QED BY <3>1, <3>2, <3>3 DEF Controllers
  <2> QED BY <2>1, <2>2
<1> HIDE DEF c, own
<1>6. /\ care' \in Controllers
      /\ care'.action = d.action /\ care'.control = d.control /\ care'.overdue = d.overdue
      /\ care'.phase = d.phase /\ care'.finishing = d.finishing /\ care'.absent = d.absent
      /\ care'.tracked = d.tracked /\ care'.blocked = d.blocked /\ care'.hold = d.hold
      /\ care'.output = "S"
      /\ \A i \in Ids : care'.results[i] = IF i = id THEN "none" ELSE d.results[i]
  BY <1>1, <1>5, NamesTyped DEF Controllers
<1> HIDE DEF d
<1>7. JobInv(care') BY <1>4, <1>6 DEF JobInv
<1>8. TaskInv(care') /\ BlockInv(care') /\ StopInv(care')
  BY <1>4, <1>6 DEF TaskInv, BlockInv, StopInv
<1>9. PauseInv(care') BY <1>2, <1>4, <1>6, <1>8 DEF PauseInv
<1>10. MotionIsLicensed' /\ ConfirmedPauseHolds' BY <1>6 DEF MotionIsLicensed, ConfirmedPauseHolds
<1>11. Ends(care, care')
  <2>1. Ends(care, d) BY <1>3, <1>4, FollowsIsJudged, JudgesEnds DEF Core
  <2>2. \A a \in care.action : a.id \in Ids BY <1>3, FieldsTyped DEF Core
  <2>3. \A a \in care.action : care'.results[a.id] # "SUCCEEDED"
    BY <1>4, <1>6, <2>2 DEF Follows
  <2>4. \A job \in care.action \cup care.control : job.id = id
    BY <1>1, <1>3 DEF own, Core, JobInv
  <2>5. \A job \in care.action \cup care.control : Recover(job.id) BY <2>4
  <2> QED BY <1>6, <2>1, <2>3, <2>5 DEF Ends
<1> QED BY <1>6, <1>7, <1>8, <1>9, <1>10, <1>11 DEF Kept

LEMMA FailControlKept ==
  ASSUME IInv, FailControl
  PROVE  Kept
<1> DEFINE c == IF care.action # {} THEN AbandonAction(care) ELSE care
           phase == IF c.blocked # {} THEN "HAZARD_PAUSED" ELSE "PAUSED"
           d == [DropControl(c, c.control, "FAILED") EXCEPT !.phase = phase, !.output = "S"]
<1>1. fault' /\ (care' = d \/ care' = care) BY DEF FailControl
<1>2. Core(care) BY CoreOf DEF FailControl
<1>3. CASE care' = d
  <2>1. Core(c) /\ Follows(care, c) /\ c.action = {}
    BY <1>2, Abandons, AbandonEnds, FollowsItself
  <2>2. phase \in {"HAZARD_PAUSED", "PAUSED"} OBVIOUS
  <2> HIDE DEF c, phase
  <2>3. /\ d \in Controllers /\ JobInv(d) /\ TaskInv(d) /\ BlockInv(d) /\ StopInv(d)
        /\ Follows(c, d) /\ d.output = "S"
    BY <2>1, <2>2, WorkEnds
  <2>4. Follows(care, d) BY <1>2, <2>1, <2>3, FollowsOn DEF Core
  <2> HIDE DEF d
  <2>5. Ends(care, d) BY <1>2, <2>3, <2>4, FollowsIsJudged, JudgesEnds DEF Core
  <2>6. MotionIsLicensed' /\ ConfirmedPauseHolds'
    BY <1>3, <2>3 DEF MotionIsLicensed, ConfirmedPauseHolds
  <2> QED BY <1>1, <1>3, <2>3, <2>5, <2>6 DEF Kept
<1>4. CASE care' = care
  <2>1. Ends(care, care)
    BY <1>2, FollowsItself, FollowsIsJudged, JudgesEnds DEF Core
  <2>2. MotionIsLicensed' /\ ConfirmedPauseHolds'
    BY <1>4 DEF IInv, MotionIsLicensed, ConfirmedPauseHolds
  <2> QED BY <1>1, <1>2, <1>4, <2>1, <2>2 DEF Kept, IInv, TypeOK
<1> QED BY <1>1, <1>3, <1>4

LEMMA TimeUpKept ==
  ASSUME IInv, TimeUp
  PROVE  Kept
<1>1. /\ care \in Controllers /\ care' = [care EXCEPT !.overdue = TRUE] /\ fault' = fault
      /\ care.action # {} \/ care.control # {}
  BY DEF TimeUp, IInv, TypeOK, Idle
<1>2. care' \in Controllers BY <1>1 DEF Controllers
<1>3. /\ care'.action = care.action /\ care'.control = care.control
      /\ care'.results = care.results /\ care'.phase = care.phase
      /\ care'.finishing = care.finishing /\ care'.absent = care.absent
      /\ care'.tracked = care.tracked /\ care'.blocked = care.blocked /\ care'.hold = care.hold
      /\ care'.output = care.output /\ care'.powered = care.powered
      /\ care'.backendOk = care.backendOk /\ care'.seen = care.seen
  BY <1>1 DEF Controllers
<1>4. JobInv(care') BY <1>1, <1>3 DEF IInv, JobInv
<1>5. TaskInv(care') /\ BlockInv(care') /\ StopInv(care')
  BY <1>3 DEF IInv, TaskInv, BlockInv, StopInv
<1>6. fault' \/ PauseInv(care') BY <1>1, <1>3, <1>5 DEF IInv, PauseInv
<1>7. MotionIsLicensed' /\ ConfirmedPauseHolds'
  BY <1>3 DEF IInv, MotionIsLicensed, ConfirmedPauseHolds
<1>8. Ends(care, care')
  BY <1>1, <1>3, <1>4, FieldsTyped, JudgesEnds, FollowsIsJudged DEF Follows
<1> QED BY <1>2, <1>4, <1>5, <1>6, <1>7, <1>8 DEF Kept

LEMMA UnchangedKept ==
  ASSUME IInv, UNCHANGED <<care, fault>>
  PROVE  Kept
<1>1. care \in Controllers /\ JobInv(care) BY DEF IInv, TypeOK
<1>2. Ends(care, care) BY <1>1, FollowsItself, FollowsIsJudged, JudgesEnds
<1>3. MotionIsLicensed' /\ ConfirmedPauseHolds'
  BY DEF IInv, MotionIsLicensed, ConfirmedPauseHolds
<1> QED BY <1>1, <1>2, <1>3 DEF Kept, IInv

LEMMA ControlLoopKept ==
  ASSUME IInv, ControlLoop
  PROVE  Kept
<1>1. ~fault /\ fault' = fault
  BY DEF ControlLoop, StepDisconnected, StepWithoutBackend, StepOff, StepBlind, StepNewFrame,
         StepSameFrame, StepSees, Step
<1>2. Core(care) BY <1>1, CoreOf
<1>3. Stepped BY <1>2, ControlLoopSteps
<1>4. care' \in Controllers /\ JobInv(care') /\ TaskInv(care') /\ BlockInv(care') /\ PauseInv(care')
  BY <1>3 DEF Stepped, Core
<1>5. ConfirmedPauseHolds'
  BY <1>3, <1>4, NamesTyped DEF Stepped, PauseInv, MotionIsLicensed, ConfirmedPauseHolds
<1>6. Ends(care, care') BY <1>2, <1>3, <1>4, JudgesEnds DEF Stepped, Core
<1> QED BY <1>3, <1>4, <1>5, <1>6 DEF Kept, Stepped, PauseInv

LEMMA RequestKept ==
  ASSUME IInv, Request
  PROVE  Kept
<1> PICK id \in Ids :
      \/ \E cmd \in {"PAUSE", "POWER_OFF"} \cap Asked : RequestStop(id, cmd)
      \/ \E cmd \in {"POWER_ON", "RESUME"} \cap Asked : RequestDrive(id, cmd)
      \/ \E cmd \in Treatments \cap Asked, label \in Labels :
           RequestTreatment(id, cmd, label, NoInstance)
      \/ \E cmd \in Treatments \cap Asked, inst \in Instances :
           RequestTreatment(id, cmd, KindOf[inst], inst)
      \/ \E cmd \in Asked \ {"PAUSE", "POWER_OFF", "RECOVER_COMMAND"} : RequestRefused(id, cmd)
      \/ Collect(id)
      \/ "RECOVER_COMMAND" \in Asked /\ Recover(id)
  BY DEF Request
<1>1. CASE \E cmd \in {"PAUSE", "POWER_OFF"} \cap Asked : RequestStop(id, cmd)
  BY <1>1, StopKept
<1>2. CASE \E cmd \in {"POWER_ON", "RESUME"} \cap Asked : RequestDrive(id, cmd)
  BY <1>2, DriveKept
<1>3. CASE \E cmd \in Treatments \cap Asked, label \in Labels :
             RequestTreatment(id, cmd, label, NoInstance)
  BY <1>3, TreatmentKept
<1>4. CASE \E cmd \in Treatments \cap Asked, inst \in Instances :
             RequestTreatment(id, cmd, KindOf[inst], inst)
  <2>1. \A inst \in Instances : KindOf[inst] \in Labels
    BY SettingsAssumption DEF SettingsAssumption
  <2> QED BY <1>4, <2>1, TreatmentKept
<1>5. CASE \E cmd \in Asked \ {"PAUSE", "POWER_OFF", "RECOVER_COMMAND"} : RequestRefused(id, cmd)
  <2>1. /\ care' = [care EXCEPT !.results[id] = "FAILED"] /\ fault' = fault
        /\ \A job \in care.action \cup care.control : job.id # id
        /\ care.results[id] = "none"
    BY <1>5 DEF RequestRefused, Fresh
  <2> QED BY <2>1, AnswerKept
<1>6. CASE Collect(id)
  <2>1. /\ care' = [care EXCEPT !.results[id] = "none"] /\ fault' = fault
        /\ care.results[id] # "none"
    BY <1>6 DEF Collect
  <2>2. \A job \in care.action \cup care.control : job.id # id BY <2>1 DEF IInv, JobInv
  <2> QED BY <2>1, <2>2, AnswerKept
<1>7. CASE Recover(id) BY <1>7, RecoverKept
<1> QED BY <1>1, <1>2, <1>3, <1>4, <1>5, <1>6, <1>7

-----------------------------------------------------------------------------
(* The motor link, and the whole *)

LEMMA MotorTyped ==
  ASSUME TypeOK, care' \in Controllers, [Next]_vars
  PROVE  /\ link' \in BOOLEAN /\ newSession' \in BOOLEAN /\ acked' \in BOOLEAN /\ fault' \in BOOLEAN
         /\ ack' \in Outputs /\ submitted' \in Outputs
<1> USE NamesTyped DEF TypeOK
<1>1. CASE ControlLoop
  <2>1. /\ submitted' = (IF link THEN care'.output ELSE submitted)
        /\ newSession' = (newSession /\ ~link)
        /\ acked' = (acked /\ (care'.finishing => care.finishing))
        /\ UNCHANGED <<link, ack, fault>>
    BY <1>1 DEF ControlLoop, StepDisconnected, StepWithoutBackend, StepOff, StepBlind,
                StepNewFrame, StepSameFrame, StepSees, Step
  <2>2. care'.output \in Outputs BY DEF Controllers
  <2> QED BY <2>1, <2>2
<1>2. CASE Request
  BY <1>2 DEF Request, RequestStop, RequestDrive, RequestTreatment, RequestRefused, Requested,
              Collect, Recover, motorVars
<1>3. CASE FailControl BY <1>3 DEF FailControl
<1>4. CASE TimeUp BY <1>4 DEF TimeUp, motorVars
<1>5. CASE MotorAck BY <1>5 DEF MotorAck
<1>6. CASE LinkDown BY <1>6 DEF LinkDown
<1>7. CASE LinkUp BY <1>7 DEF LinkUp
<1>8. CASE UNCHANGED vars BY <1>8 DEF vars, motorVars
<1> QED BY <1>1, <1>2, <1>3, <1>4, <1>5, <1>6, <1>7, <1>8 DEF Next

LEMMA NextKept ==
  ASSUME IInv, [Next]_vars
  PROVE  Kept
<1>1. MotorAck \/ LinkDown \/ LinkUp \/ UNCHANGED vars => UNCHANGED <<care, fault>>
  BY DEF MotorAck, LinkDown, LinkUp, vars
<1> QED BY <1>1, ControlLoopKept, RequestKept, FailControlKept, TimeUpKept, UnchangedKept DEF Next

\* A set in which everything is the same has at most one element.
LEMMA OneJobOnly ==
  ASSUME NEW c, JobInv(c)
  PROVE  Cardinality(c.action) + Cardinality(c.control) <= 1
<1>1. ASSUME NEW S, \A a, b \in S : a = b
      PROVE  Cardinality(S) \in {0, 1} /\ (S = {} => Cardinality(S) = 0)
  <2>1. CASE S = {} BY <2>1, FS_EmptySet
  <2>2. CASE S # {}
    <3> PICK x : x \in S BY <2>2
    <3>1. S = {x} BY <1>1
    <3>2. Cardinality({x}) = 1 BY FS_Singleton
    <3> QED BY <2>2, <3>1, <3>2
  <2> QED BY <2>1, <2>2
<1> QED BY <1>1 DEF JobInv

LEMMA SpecIInv == Spec => []IInv
<1>1. Init => IInv
  <2> SUFFICES ASSUME Init PROVE IInv OBVIOUS
  <2>1. care \in Controllers
    <3>1. 0 \in 0..Clear + 1 BY LengthsTyped
    <3> QED BY <3>1, NothingTyped, LengthsTyped, NamesTyped DEF Init, Controllers
  <2>2. JobInv(care) /\ TaskInv(care) /\ BlockInv(care) /\ StopInv(care) /\ PauseInv(care)
    BY NamesTyped DEF Init, JobInv, TaskInv, BlockInv, StopInv, PauseInv
  <2>3. TypeOK BY <2>1, <2>2, OneJobOnly, NamesTyped DEF Init, TypeOK
  <2> QED BY <2>2, <2>3 DEF Init, IInv, MotionIsLicensed, ConfirmedPauseHolds
<1>2. IInv /\ [Next]_vars => IInv'
  <2> SUFFICES ASSUME IInv, [Next]_vars PROVE IInv' OBVIOUS
  <2>1. Kept BY NextKept
  <2>2. TypeOK'
    <3>1. Cardinality(care'.action) + Cardinality(care'.control) <= 1
      BY <2>1, OneJobOnly DEF Kept
    <3> QED BY <2>1, <3>1, MotorTyped DEF Kept, IInv, TypeOK
  <2> QED BY <2>1, <2>2 DEF Kept, IInv
<1> QED BY <1>1, <1>2, PTL DEF Spec

-----------------------------------------------------------------------------
(* The properties of the controller *)

\* The fields of the controller keep their ranges, and there is one command in hand at most.
THEOREM TypeCorrect == Spec => []TypeOK
<1>1. IInv => TypeOK BY DEF IInv
<1> QED BY <1>1, SpecIInv, PTL

\* A phase of a treatment always has its treatment, and a treatment its phase or its end.
THEOREM TasksHaveActions == Spec => []TaskHasAction
<1>1. IInv => TaskHasAction BY DEF IInv, TaskInv, TaskHasAction
<1> QED BY <1>1, SpecIInv, PTL

\* The robot is told to move only on a task, or driving with nothing blocked or in sight.
THEOREM MotionLicensed == Spec => []MotionIsLicensed
<1>1. IInv => MotionIsLicensed BY DEF IInv
<1> QED BY <1>1, SpecIInv, PTL

\* As long as one of its objects is tracked as blocked, a kind is blocked.
THEOREM InstancesBlock == Spec => []InstanceBlocks
<1>1. IInv => InstanceBlocks BY DEF IInv, BlockInv, InstanceBlocks
<1> QED BY <1>1, SpecIInv, PTL

\* After a stop that was reported as done the robot stands until the user asks for something.
THEOREM PauseHolds == Spec => []ConfirmedPauseHolds
<1>1. IInv => ConfirmedPauseHolds BY DEF IInv
<1> QED BY <1>1, SpecIInv, PTL

\* No command loses its answer, and none is answered twice.
THEOREM AnswersFinal == Spec => ResultFinal
<1>1. IInv /\ [Next]_vars
        => [/\ \A id \in Ids :
                 care.results[id] # "none" => care'.results[id] \in {"none", care.results[id]}
            /\ \A job \in care.action \cup care.control :
                 \/ job \in care'.action \cup care'.control
                 \/ care'.results[job.id] # "none"
                 \/ Recover(job.id)]_vars
  <2> SUFFICES ASSUME IInv, [Next]_vars
               PROVE  /\ \A id \in Ids : care.results[id] # "none" =>
                                           care'.results[id] \in {"none", care.results[id]}
                      /\ \A job \in care.action \cup care.control :
                           \/ job \in care'.action \cup care'.control
                           \/ care'.results[job.id] # "none"
                           \/ Recover(job.id)
    OBVIOUS
  <2>1. Ends(care, care') BY NextKept DEF Kept
  <2> QED BY <2>1 DEF Ends
<1> QED BY <1>1, SpecIInv, PTL DEF Spec, ResultFinal

\* A removal check never succeeds over a frame in which its target is seen.
THEOREM ChecksSucceedUnseen == Spec => RecheckSucceedsUnseen
<1>1. IInv /\ [Next]_vars
        => [\A a \in care.action :
              a.cmd = "RECHECK_HAZARD" /\ care'.results[a.id] = "SUCCEEDED" =>
                \A o \in Visible(care'.seen) :
                  o[1] = a.label => a.inst # NoInstance /\ o[2] \notin {a.inst, NoInstance}]_vars
  BY NextKept DEF Kept, Ends, Unseen
<1> QED BY <1>1, SpecIInv, PTL DEF Spec, RecheckSucceedsUnseen
=============================================================================
