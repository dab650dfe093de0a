---------------------------- MODULE CareController ----------------------------
(***************************************************************************)
(* care_controller.py: what the robot does about what it sees, what it is  *)
(* asked and what its motor link and its backend link do.  The control     *)
(* loop calls step every 50 ms and command threads call request, both      *)
(* under Runtime.lock, so each is one action here.                         *)
(*                                                                         *)
(* care       the CareController object, a record with its fields:         *)
(*   action     the one treatment under way, a set of at most one record   *)
(*   control    the one POWER/PAUSE/RESUME not confirmed yet, likewise     *)
(*   tracked    keys of blocked_instances                                  *)
(*   seen       the objects of the last valid frame, while it is valid     *)
(*   unseen     per key of last_seen, frames counted since its sighting    *)
(*   absent, present  frames counted since absent_since, verified_since    *)
(*   waitFrame  no frame captured after require_frame_after was seen yet   *)
(*   overdue    the deadline of action or control has passed               *)
(*   met        generation is not None                                     *)
(*   moved      the current timed phase has been acknowledged once         *)
(*   hold       history: "user" after a confirmed stop, "link" after a     *)
(*              link loss that stopped the robot, until a user's command   *)
(* link, newSession, submitted, ack, acked   MotorOutput: ready, a session *)
(*            the controller has not seen, the command under lease, the    *)
(*            one acknowledged last (S also when there is none), and       *)
(*            whether that was after the last request or finish            *)
(* fault      Runtime.control_fault is latched                             *)
(*                                                                         *)
(* Time is counted in frames one unit (max_observation_gap, 1 s) apart; a  *)
(* longer distance is a gap.  A count of n says that n-1 units have gone.  *)
(***************************************************************************)
EXTENDS Naturals, FiniteSets

CONSTANTS
  Labels,     \* kinds of swallowing hazards
  Instances,  \* object_instance_ids the tracker issues
  KindOf,     \* the kind an instance was tracked as
  NoInstance, \* a detection, or a request, without an instance
  Ids,        \* commandIds
  Asked,      \* the commands sent
  Removal,    \* removal_absence_seconds
  Clear,      \* absent_clear_seconds
  DropVerify  \* drop_verify_seconds

Treatments == {"RECHECK_HAZARD", "RELOCATE"}
Controls == {"POWER_ON", "POWER_OFF", "PAUSE", "RESUME"}

ASSUME SettingsAssumption ==
  /\ KindOf \in [Instances -> Labels]
  /\ NoInstance \notin Instances
  /\ Asked \subseteq Treatments \cup Controls \cup {"RECOVER_COMMAND"}
  /\ Removal \in Nat \ {0} /\ Clear \in Nat /\ DropVerify \in Nat
  /\ Clear > Removal

VARIABLES care, link, newSession, submitted, ack, acked, fault

motorVars == <<link, newSession, submitted, ack, acked>>
vars == <<care, motorVars, fault>>

RelocationPhases == {"ALIGNING_TARGET", "CAPTURING", "SEEKING_MARKER", "PUSHING_TO_MARKER",
                     "BACKING", "VERIFYING_DROP", "TURNING_AROUND"}
Phases == {"OFF", "PAUSED", "HAZARD_PAUSED", "RUNNING", "RECHECKING"} \cup RelocationPhases
Outputs == {"S", "F", "B", "T"} \* T is L or R

Objects == (Labels \X {NoInstance}) \cup {<<KindOf[i], i>> : i \in Instances}
Frames == [Objects -> {"absent", "candidate", "stable"}] \* stable: confirmed as a hazard
Nothing == [o \in Objects |-> "absent"]
Keys == Labels \cup Instances
Max2(m, n) == IF m > n THEN m ELSE n
Longest == Max2(Removal, DropVerify) + 1

Actions == [cmd : Treatments, id : Ids, label : Labels, inst : Instances \cup {NoInstance}]

Controllers ==
  [powered : BOOLEAN, phase : Phases, blocked : SUBSET Labels,
   tracked : SUBSET Instances, relocated : SUBSET Labels, seen : Frames,
   unseen : [Keys -> 0..Clear + 1], action : SUBSET Actions, finishing : BOOLEAN,
   control : SUBSET [cmd : Controls, id : Ids], overdue : BOOLEAN,
   results : [Ids -> {"none", "SUCCEEDED", "FAILED"}],
   absent : 0..Longest, present : 0..Longest, dropSeen : BOOLEAN,
   searching : BOOLEAN, moved : BOOLEAN, waitFrame : BOOLEAN, output : Outputs,
   met : BOOLEAN, backendOk : BOOLEAN, hold : {"none", "link", "user"}]

TypeOK ==
  /\ care \in Controllers
  /\ Cardinality(care.action) + Cardinality(care.control) <= 1
  /\ link \in BOOLEAN /\ newSession \in BOOLEAN /\ acked \in BOOLEAN /\ fault \in BOOLEAN
  /\ ack \in Outputs /\ submitted \in Outputs

Init ==
  /\ care = [powered |-> FALSE, phase |-> "OFF", blocked |-> {}, tracked |-> {}, relocated |-> {},
             seen |-> Nothing, unseen |-> [k \in Keys |-> 0],
             action |-> {}, finishing |-> FALSE, control |-> {}, overdue |-> FALSE,
             results |-> [i \in Ids |-> "none"], absent |-> 0, present |-> 0,
             dropSeen |-> FALSE, searching |-> FALSE, moved |-> FALSE, waitFrame |-> TRUE,
             output |-> "S", met |-> FALSE, backendOk |-> TRUE, hold |-> "none"]
  /\ link = FALSE /\ newSession = TRUE /\ submitted = "S" /\ ack = "S" /\ acked = FALSE
  /\ fault = FALSE

-----------------------------------------------------------------------------
(* Helpers of the class: each takes the fields to what they become *)

Targets(c) == {a.label : a \in c.action}
Visible(frame) == {o \in Objects : frame[o] # "absent"}
Kinds(objects) == {o[1] : o \in objects}

Answers(c, jobs, status) ==
  [i \in Ids |-> IF \E j \in jobs : j.id = i THEN status ELSE c.results[i]]

CompleteAction(c, status) ==
  [c EXCEPT !.results = Answers(c, c.action, status), !.action = {}, !.finishing = FALSE,
            !.absent = 0, !.present = 0, !.overdue = FALSE]

\* Mutant: the phase of a task outlives it.
FailActionKeepsPhase(c) == CompleteAction(c, "FAILED")

FailAction(c) == [CompleteAction(c, "FAILED") EXCEPT !.phase = "HAZARD_PAUSED"]

\* A treatment broken off from outside keeps its hazard blocked.
AbandonAction(c) == [FailAction(c) EXCEPT !.blocked = @ \cup Targets(c)]

DropControl(c, jobs, status) ==
  [c EXCEPT !.results = Answers(c, jobs, status), !.control = @ \ jobs, !.overdue = FALSE]

\* require_frame_after: only a frame captured from now on counts.
AwaitFrame(c) == [c EXCEPT !.waitFrame = TRUE, !.seen = Nothing]

StartPhase(c, phase) == [c EXCEPT !.phase = phase, !.searching = FALSE, !.moved = FALSE]

\* Deadlines remain effective even while the motor is disconnected.
Deadlines(c) ==
  IF ~c.overdue THEN c
  ELSE IF c.action # {} THEN [AbandonAction(c) EXCEPT !.output = "S"]
  ELSE [DropControl(c, c.control, "FAILED") EXCEPT
          !.phase = IF c.blocked # {} THEN "HAZARD_PAUSED" ELSE IF c.powered THEN "PAUSED" ELSE "OFF",
          !.output = "S"]

\* _stop_after_link_loss
LinkLoss(c, keepRecheck) ==
  LET kept == keepRecheck /\ \A a \in c.action : a.cmd = "RECHECK_HAZARD"
      d == IF c.action # {} /\ ~kept THEN [AbandonAction(c) EXCEPT !.hold = "link"]
           ELSE IF c.phase = "RUNNING" /\ ~c.finishing
                THEN [c EXCEPT !.phase = "PAUSED", !.hold = "link"]
                ELSE c
      resume == {k \in d.control : k.cmd = "RESUME"}
  IN IF resume = {} THEN d ELSE DropControl(d, resume, "FAILED")

NewSession(c) ==
  LET d == [AwaitFrame(c) EXCEPT !.absent = 0, !.present = 0, !.output = "S", !.met = TRUE]
  IN IF ~newSession THEN c ELSE IF c.met THEN LinkLoss(d, TRUE) ELSE d

\* POWER_ON is confirmed by a stop as well as by the first drive.
Confirms(c, k) ==
  LET stopped == k.cmd \in {"PAUSE", "POWER_OFF", "POWER_ON"} \/ c.phase = "HAZARD_PAUSED"
  IN /\ acked
     /\ \/ stopped /\ ack = "S"
        \/ (~stopped \/ k.cmd = "POWER_ON") /\ c.output = "F" /\ ack = "F"

ConfirmControl(c) ==
  LET done == {k \in c.control : Confirms(c, k)}
      stops == \E k \in done : k.cmd \in {"PAUSE", "POWER_OFF"}
  IN IF done = {} THEN c
     ELSE [DropControl(c, done, "SUCCEEDED") EXCEPT !.hold = IF stops THEN "user" ELSE @]

\* What step does before it looks at the backend and the camera.
Checked == ConfirmControl(NewSession(Deadlines(care)))

Halt(c) == [c EXCEPT !.output = "S", !.absent = 0, !.present = 0]

-----------------------------------------------------------------------------
(* What a valid frame changes before the phase decides *)

\* last_seen of a key after one more frame: a gap restarts it, and a key that is not
\* in last_seen yet enters it when it is seen or judged.
CountUnseen(count, sighted, judged, gap) ==
  IF sighted \/ (gap /\ count # 0) \/ (judged /\ count = 0) THEN 1
  ELSE IF count \in 1..Clear THEN count + 1
  ELSE count

\* _clear_absent: what live detection no longer sees is no longer blocked, except the
\* target of the action under way; a kind stays while an instance of it does.
ClearAbsent(c, gap) ==
  LET objects == Visible(c.seen)
      busy == Targets(c)
      instance == [i \in Instances |->
                     CountUnseen(c.unseen[i], \E o \in objects : o[2] = i,
                                 i \in c.tracked /\ KindOf[i] \notin busy, gap)]
      tracked == {i \in c.tracked : KindOf[i] \in busy \/ instance[i] <= Clear}
      open == {l \in c.blocked : l \notin busy /\ \A i \in tracked : KindOf[i] # l}
      kind == [l \in Labels |->
                 CountUnseen(c.unseen[l], l \in Kinds(objects), l \in open, gap)]
      blocked == {l \in c.blocked : l \in open => kind[l] <= Clear}
  IN [c EXCEPT !.tracked = tracked,
               !.blocked = blocked,
               !.unseen = [k \in Keys |-> IF k \in tracked THEN instance[k]
                                          ELSE IF k \in blocked THEN kind[k] ELSE 0]]

MayResume(c) == c.blocked = {} /\ c.action = {} /\ ~c.finishing

\* Mutant: a robot that a user has paused is set in motion as well.
ResumeEvenPaused(c) ==
  IF c.phase \in {"PAUSED", "HAZARD_PAUSED"} /\ MayResume(c) THEN [c EXCEPT !.phase = "RUNNING"] ELSE c

\* The end of _clear_absent: the last hazard to go sets the robot in motion again.
Resume(c) ==
  IF c.phase = "HAZARD_PAUSED" /\ MayResume(c) THEN [c EXCEPT !.phase = "RUNNING"] ELSE c

\* Mutant: a latched hazard does not stop a driving robot.
LatchKeepsRunning(c) ==
  LET confirmed == {o \in Objects : c.seen[o] = "stable"}
  IN [c EXCEPT !.blocked = @ \cup Kinds(confirmed),
               !.tracked = @ \cup ({o[2] : o \in confirmed} \ {NoInstance})]

\* Hazards that the detector confirms are latched, and stop a driving robot.
Latch(c) ==
  LET confirmed == {o \in Objects : c.seen[o] = "stable"}
      blocked == c.blocked \cup Kinds(confirmed)
  IN [c EXCEPT !.blocked = blocked,
               !.tracked = @ \cup ({o[2] : o \in confirmed} \ {NoInstance}),
               !.phase = IF @ = "RUNNING" /\ blocked # {} THEN "HAZARD_PAUSED" ELSE @]

\* safe: kinds whose one object lies in the verified zone; a kind seen elsewhere loses
\* its exemption.
Observe(c, frame, safe) ==
  [c EXCEPT !.backendOk = TRUE, !.waitFrame = FALSE,
            !.relocated = @ \ (Kinds(Visible(frame)) \ safe),
            !.seen = [o \in Objects |-> IF o[1] \in safe THEN "absent" ELSE frame[o]]]

\* _recheck_target_visible: an object without an identity may be the one.
TargetVisible(c) ==
  \E a \in c.action : \E o \in Visible(c.seen) :
    o[1] = a.label /\ (a.inst = NoInstance \/ o[2] \in {a.inst, NoInstance})

\* Mutant: what is seen after the window no longer counts.
RedetectTooLate(c) == c

\* A fresh redetection invalidates absence before the completion is acknowledged.
Redetect(c) ==
  IF c.finishing /\ (\E a \in c.action : a.cmd = "RECHECK_HAZARD") /\ TargetVisible(c)
  THEN [c EXCEPT !.finishing = FALSE, !.phase = "RECHECKING", !.absent = 0]
  ELSE c

Settle(c) ==
  IF /\ c.finishing /\ acked
     /\ \/ c.phase = "RUNNING" /\ c.output = "F" /\ ack = "F"
        \/ c.phase = "HAZARD_PAUSED" /\ ack = "S"
  THEN CompleteAction(c, "SUCCEEDED")
  ELSE c

\* Mutant: the kind is unblocked whatever else of it is tracked.
FinishMotionForgetsSiblings(c) ==
  LET a == CHOOSE a \in c.action : TRUE
      tracked == {i \in c.tracked : IF a.inst = NoInstance THEN KindOf[i] # a.label ELSE i # a.inst}
  IN [AwaitFrame(c) EXCEPT
        !.relocated = IF a.cmd = "RELOCATE" THEN @ \cup {a.label} ELSE @,
        !.tracked = tracked,
        !.blocked = @ \ {a.label},
        !.finishing = TRUE,
        !.phase = IF c.blocked \subseteq {a.label} THEN "RUNNING" ELSE "HAZARD_PAUSED"]

\* _finish_motion: the treated object is no longer blocked, its siblings still are.
FinishMotion(c) ==
  LET a == CHOOSE a \in c.action : TRUE
      tracked == {i \in c.tracked : IF a.inst = NoInstance THEN KindOf[i] # a.label ELSE i # a.inst}
      blocked == (c.blocked \ {a.label}) \cup {KindOf[i] : i \in tracked}
  IN [AwaitFrame(c) EXCEPT
        !.relocated = IF a.cmd = "RELOCATE" THEN @ \cup {a.label} ELSE @,
        !.tracked = tracked,
        !.blocked = blocked,
        !.finishing = TRUE,
        !.phase = IF blocked # {} THEN "HAZARD_PAUSED" ELSE "RUNNING"]

-----------------------------------------------------------------------------
(* What each phase makes of the frame; c is what Observe and the others left *)

Output(c, command) == care' = [c EXCEPT !.output = command]

StandStill(c) ==
  /\ c.phase \in {"PAUSED", "HAZARD_PAUSED"}
  /\ Output(c, "S")

\* A candidate that is not confirmed yet stops the robot without blocking it.
Drive(c) ==
  /\ c.phase = "RUNNING"
  /\ Output(c, IF Visible(c.seen) = {} THEN "F" ELSE "S")

\* The two windows of a removal check run only over frames in unbroken sequence.
Recheck(c, isNew, gap) ==
  LET Frames1(count) == IF gap THEN 1 ELSE count + 1
      present == Frames1(c.present)
      absent == Frames1(c.absent)
      done == FinishMotion([c EXCEPT !.present = 0, !.absent = absent])
      left == Kinds(Visible(c.seen))
  IN /\ c.phase = "RECHECKING"
     /\ \/ ~isNew /\ Output(c, "S")
        \/ /\ isNew /\ TargetVisible(c)
           /\ Output(IF present > Removal THEN FailAction(c)
                     ELSE [c EXCEPT !.absent = 0, !.present = present], "S")
        \/ /\ isNew /\ ~TargetVisible(c)
           /\ Output(IF absent <= Removal THEN [c EXCEPT !.present = 0, !.absent = absent]
                     ELSE IF left = {} THEN done
                     ELSE [done EXCEPT !.blocked = @ \cup left, !.phase = "HAZARD_PAUSED"], "S")

TargetKindVisible(c) == Targets(c) \subseteq Kinds(Visible(c.seen))

\* _steer keeps turning, pulses or waits, until the target is ahead.
Align(c) ==
  /\ c.phase = "ALIGNING_TARGET"
  /\ \/ Output(c, "S")
     \/ TargetKindVisible(c) /\ Output(c, "T")
     \/ TargetKindVisible(c) /\ Output(StartPhase(c, "CAPTURING"), "F")

\* A timed phase counts only periods whose command is acknowledged.
Counted(c, desired) == c.output = desired /\ ack = desired

Capture(c) ==
  /\ c.phase = "CAPTURING"
  /\ \/ Output(c, "F")
     \/ Counted(c, "F") /\ Output(StartPhase(c, "SEEKING_MARKER"), "S")

\* Without the marker the robot looks, then turns until its turn budget is spent.
SearchMarker(c) ==
  /\ c.phase \in {"SEEKING_MARKER", "PUSHING_TO_MARKER"}
  /\ \/ ~c.searching /\ Output([StartPhase(c, "SEEKING_MARKER") EXCEPT !.searching = TRUE], "S")
     \/ c.searching /\ \E command \in {"S", "T"} : Output(c, command)
     \/ c.searching /\ Counted(c, "T") /\ Output(FailAction(c), "S")

FollowMarker(c) ==
  LET d == [c EXCEPT !.searching = FALSE]
  IN /\ c.phase \in {"SEEKING_MARKER", "PUSHING_TO_MARKER"}
     /\ \/ \E command \in {"S", "T"} : Output(d, command)
        \/ Output(StartPhase([d EXCEPT !.dropSeen = FALSE], "BACKING"), "S")
        \/ c.phase = "SEEKING_MARKER" /\ Output(StartPhase(d, "PUSHING_TO_MARKER"), "F")
        \/ c.phase = "PUSHING_TO_MARKER" /\ Output(d, "F")

\* A sighting counts once the robot has moved back far enough.
BackAway(c, isNew) ==
  LET moved == c.moved \/ Counted(c, "B")
      noticed == {c.dropSeen} \cup {d \in {TRUE} : isNew /\ moved /\ TargetKindVisible(c)}
  IN /\ c.phase = "BACKING"
     /\ \E dropSeen \in noticed :
          LET d == [c EXCEPT !.moved = moved, !.dropSeen = dropSeen]
          IN \/ Output(d, "B")
             \/ /\ Counted(c, "B")
                /\ IF dropSeen THEN Output(StartPhase(d, "TURNING_AROUND"), "S")
                   ELSE Output([AwaitFrame(StartPhase(d, "VERIFYING_DROP")) EXCEPT !.present = 0], "S")

TurnAround(c) ==
  /\ c.phase = "TURNING_AROUND"
  /\ \/ Output(c, "T")
     \/ Counted(c, "T") /\ Output(FinishMotion(c), "S")

VerifyDrop(c, isNew, gap) ==
  LET present == IF gap THEN 1 ELSE c.present + 1
  IN /\ c.phase = "VERIFYING_DROP"
     /\ \/ ~isNew /\ Output(c, "S")
        \/ /\ isNew /\ TargetKindVisible(c)
           /\ present > DropVerify /\ Output(StartPhase(c, "TURNING_AROUND"), "S")
        \/ /\ isNew /\ (TargetKindVisible(c) => present <= DropVerify)
           /\ \/ Output([c EXCEPT !.present = IF TargetKindVisible(c) THEN present ELSE 0], "S")
              \/ Output(FailAction(c), "S")

-----------------------------------------------------------------------------
(* step *)

\* submit takes the command of a controller that saw this session.
Step(effect) ==
  /\ ~fault
  /\ effect
  /\ submitted' = IF link THEN care'.output ELSE submitted
  /\ newSession' = (newSession /\ ~link)
  /\ acked' = (acked /\ (care'.finishing => care.finishing))
  /\ UNCHANGED <<link, ack, fault>>

\* Mutant: deadlines are looked at only while the motor is connected.
StepDisconnectedForgivesDeadlines == Step(
  /\ ~link
  /\ care' = AwaitFrame(Halt(care)))

StepDisconnected == Step(
  /\ ~link
  /\ care' = AwaitFrame(Halt(Deadlines(care))))

StepWithoutBackend == Step(
  /\ link
  /\ care' = [Halt(IF care.backendOk THEN LinkLoss(Checked, FALSE) ELSE Checked)
                EXCEPT !.backendOk = FALSE])

StepOff == Step(
  /\ link /\ ~Checked.powered
  /\ care' = [Checked EXCEPT !.output = "S", !.backendOk = TRUE])

\* No frame, an old one, or one of a camera or a model that fails.
StepBlind == Step(
  /\ link /\ Checked.powered
  /\ care' = [Halt(Checked) EXCEPT !.backendOk = TRUE])

\* What a valid frame has changed by the time the phase decides.
Seeing(frame, isNew, gap, safe) ==
  LET latched == Latch(Observe(Checked, frame, safe))
  IN Settle(Redetect(IF isNew THEN Resume(ClearAbsent(latched, gap)) ELSE latched))

StepSees(frame, isNew, gap, safe) == Step(
  /\ link
  /\ \E c \in {Seeing(frame, isNew, gap, safe)} :
       /\ c.powered
       /\ \/ StandStill(c)
          \/ Drive(c)
          \/ Recheck(c, isNew, gap)
          \/ Align(c)
          \/ Capture(c)
          \/ SearchMarker(c)
          \/ FollowMarker(c)
          \/ BackAway(c, isNew)
          \/ TurnAround(c)
          \/ VerifyDrop(c, isNew, gap))

\* safe_labels: a relocated kind of which the frame shows one object.
Exemptable(frame) ==
  {l \in care.relocated : Cardinality({o \in Visible(frame) : o[1] = l}) = 1}

StepNewFrame ==
  \E frame \in Frames, gap \in BOOLEAN : \E safe \in SUBSET Exemptable(frame) :
    StepSees(frame, TRUE, gap, safe)

StepSameFrame == ~Checked.waitFrame /\ StepSees(care.seen, FALSE, FALSE, {})

-----------------------------------------------------------------------------
(* request, and what else the runtime does to the controller *)

\* Mutant: an id that has its answer is taken again.
FreshUnlessRunning(id) ==
  /\ ~fault
  /\ \A job \in care.action \cup care.control : job.id # id

Fresh(id) ==
  /\ ~fault
  /\ care.results[id] = "none"
  /\ \A job \in care.action \cup care.control : job.id # id

Requested(c) ==
  /\ care' = [c EXCEPT !.overdue = FALSE]
  /\ acked' = FALSE
  /\ UNCHANGED <<link, newSession, submitted, ack, fault>>

\* Mutant: the treatment under way is not interrupted.
RequestStopBesideAction(id, cmd) ==
  LET powered == cmd # "POWER_OFF" /\ care.powered
  IN /\ Fresh(id)
     /\ Requested([DropControl(care, care.control, "FAILED") EXCEPT
                     !.powered = powered,
                     !.phase = IF powered THEN "PAUSED" ELSE "OFF",
                     !.control = {[cmd |-> cmd, id |-> id]},
                     !.output = "S"])

\* PAUSE and POWER_OFF interrupt whatever runs.
RequestStop(id, cmd) ==
  LET c == CompleteAction(care, "FAILED")
      powered == cmd # "POWER_OFF" /\ care.powered
  IN /\ Fresh(id)
     /\ Requested([DropControl(c, c.control, "FAILED") EXCEPT
                     !.powered = powered,
                     !.phase = IF powered THEN "PAUSED" ELSE "OFF",
                     !.control = {[cmd |-> cmd, id |-> id]},
                     !.output = "S",
                     !.hold = IF @ = "user" THEN "none" ELSE @])

Idle == care.action = {} /\ care.control = {}

Accepted(cmd) ==
  /\ Idle
  /\ cmd = "RESUME" => care.powered /\ care.blocked = {}
  /\ cmd \in Treatments => care.powered /\ care.phase \in {"HAZARD_PAUSED", "PAUSED"}

RequestDrive(id, cmd) ==
  /\ Fresh(id) /\ Accepted(cmd)
  /\ Requested([AwaitFrame(care) EXCEPT
                  !.powered = TRUE,
                  !.phase = IF care.blocked # {} THEN "HAZARD_PAUSED" ELSE "RUNNING",
                  !.control = {[cmd |-> cmd, id |-> id]},
                  !.hold = "none"])

RequestTreatment(id, cmd, label, inst) ==
  /\ Fresh(id) /\ Accepted(cmd)
  /\ Requested([AwaitFrame(care) EXCEPT
                  !.blocked = @ \cup {label},
                  !.tracked = @ \cup ({inst} \ {NoInstance}),
                  !.relocated = @ \ {label},
                  !.searching = FALSE,
                  !.action = {[cmd |-> cmd, id |-> id, label |-> label, inst |-> inst]},
                  !.phase = IF cmd = "RELOCATE" THEN "ALIGNING_TARGET" ELSE "RECHECKING",
                  !.absent = 0, !.present = 0, !.hold = "none"])

\* A refused request is answered at once and changes nothing else.
RequestRefused(id, cmd) ==
  /\ Fresh(id) /\ ~Accepted(cmd)
  /\ care' = [care EXCEPT !.results[id] = "FAILED"]
  /\ UNCHANGED <<motorVars, fault>>

\* command and recover_command take a result out; the controller forgets the id.
Collect(id) ==
  /\ care.results[id] # "none"
  /\ care' = [care EXCEPT !.results[id] = "none"]
  /\ UNCHANGED <<motorVars, fault>>

\* recover_command ends the request's own work, and takes out its result.
Recover(id) ==
  LET own == {job \in care.action \cup care.control : job.id = id}
      c == IF care.action # {} THEN AbandonAction(care)
           ELSE [DropControl(care, own, "FAILED") EXCEPT
                   !.phase = IF care.blocked # {} THEN "HAZARD_PAUSED" ELSE "PAUSED"]
  IN /\ own # {}
     /\ care' = [c EXCEPT !.results[id] = "none", !.output = "S"]
     /\ submitted' = "S"
     /\ UNCHANGED <<link, newSession, ack, acked, fault>>

\* fail_control; the controller is left as it is when a stalled thread has its lock.
FailControl ==
  LET c == IF care.action # {} THEN AbandonAction(care) ELSE care
  IN /\ ~fault
     /\ fault' = TRUE
     /\ submitted' = "S"
     /\ \/ care' = [DropControl(c, c.control, "FAILED") EXCEPT
                      !.phase = IF c.blocked # {} THEN "HAZARD_PAUSED" ELSE "PAUSED",
                      !.output = "S"]
        \/ UNCHANGED care
     /\ UNCHANGED <<link, newSession, ack, acked>>

-----------------------------------------------------------------------------
(* Time, and the motor link as MotorOutput shows it *)

\* In the 8 s of a control command a link that is up confirms every stop; then only a
\* RESUME can still be waiting, for the first drive.
TimeUp ==
  /\ ~Idle /\ ~care.overdue
  /\ link => \A k \in care.control : k.cmd = "RESUME" /\ care.phase # "HAZARD_PAUSED"
  /\ care' = [care EXCEPT !.overdue = TRUE]
  /\ UNCHANGED <<motorVars, fault>>

\* Every 25 ms: the command under lease, or a stop that a lapsed lease or an earlier
\* command was, comes back acknowledged.
MotorAck ==
  /\ link
  /\ ack' \in {submitted, "S"} /\ acked' = TRUE
  /\ UNCHANGED <<care, link, newSession, submitted, fault>>

LinkDown ==
  /\ link
  /\ link' = FALSE /\ newSession' = TRUE
  /\ submitted' = "S" /\ ack' = "S"
  /\ UNCHANGED <<care, acked, fault>>

\* A session begins with a stop that the robot has acknowledged.
LinkUp ==
  /\ ~link
  /\ link' = TRUE /\ acked' = TRUE
  /\ UNCHANGED <<care, newSession, submitted, ack, fault>>

Request ==
  \E id \in Ids :
    \/ \E cmd \in {"PAUSE", "POWER_OFF"} \cap Asked : RequestStop(id, cmd)
    \/ \E cmd \in {"POWER_ON", "RESUME"} \cap Asked : RequestDrive(id, cmd)
    \/ \E cmd \in Treatments \cap Asked, label \in Labels : RequestTreatment(id, cmd, label, NoInstance)
    \/ \E cmd \in Treatments \cap Asked, inst \in Instances : RequestTreatment(id, cmd, KindOf[inst], inst)
    \/ \E cmd \in Asked \ {"PAUSE", "POWER_OFF", "RECOVER_COMMAND"} : RequestRefused(id, cmd)
    \/ Collect(id)
    \/ "RECOVER_COMMAND" \in Asked /\ Recover(id)

ControlLoop ==
  \/ StepDisconnected
  \/ StepWithoutBackend
  \/ StepOff
  \/ StepBlind
  \/ StepNewFrame
  \/ StepSameFrame

Next == ControlLoop \/ Request \/ FailControl \/ TimeUp \/ MotorAck \/ LinkDown \/ LinkUp

Spec == Init /\ [][Next]_vars

\* The loop runs until it faults, a link that stays up acknowledges, and time passes, also
\* when the link comes and goes.
LiveSpec == Spec /\ WF_vars(ControlLoop) /\ WF_vars(MotorAck) /\ SF_vars(TimeUp)

-----------------------------------------------------------------------------
(* Properties *)

\* What step dereferences is there: a treatment phase has its treatment, which has not been
\* finished, and a treatment without its phase waits for the acknowledgement of its end.
TaskHasAction ==
  /\ care.phase \in RelocationPhases =>
       ~care.finishing /\ \E a \in care.action : a.cmd = "RELOCATE"
  /\ care.phase = "RECHECKING" => ~care.finishing /\ \E a \in care.action : a.cmd = "RECHECK_HAZARD"
  /\ care.finishing => care.action # {} /\ care.phase \in {"RUNNING", "HAZARD_PAUSED"}
  /\ care.action # {} /\ ~care.finishing => care.phase \in RelocationPhases \cup {"RECHECKING"}

\* The robot moves only switched on, with the backend in reach, and either on a task or
\* driving with nothing blocked and no hazard, not even an unconfirmed one, in sight.
MotionIsLicensed ==
  care.output # "S" =>
    /\ care.powered /\ care.backendOk
    /\ \/ care.phase \in RelocationPhases
       \/ care.phase = "RUNNING" /\ care.output = "F" /\ care.blocked = {} /\ Visible(care.seen) = {}

\* A kind stays blocked as long as one of its objects is, however the others end.
InstanceBlocks == \A i \in care.tracked : KindOf[i] \in care.blocked

\* After a PAUSE or POWER_OFF reported as done the robot moves only for a later command of
\* the user, however hazards come and go and links fail and return meanwhile.
ConfirmedPauseHolds == care.hold = "user" => care.output = "S"

\* _stop_after_link_loss: "A restored link must never restart driving by itself; only a user
\* RESUME does."  Refuted: the hazard of a task that the loss broke off leaves HAZARD_PAUSED
\* behind, and Resume leads from there to RUNNING.
NoSelfRestart == care.hold = "link" => care.output # "F"

\* A command in hand leaves it with its answer, unless recover_command takes that out at
\* once, and has this answer until it is taken out: not one of the races of acknowledgement,
\* deadline, link loss, interruption and recovery loses an answer or answers twice.
ResultFinal ==
  [][/\ \A id \in Ids :
          care.results[id] # "none" => care'.results[id] \in {"none", care.results[id]}
     /\ \A job \in care.action \cup care.control :
          \/ job \in care'.action \cup care'.control
          \/ care'.results[job.id] # "none"
          \/ Recover(job.id)]_vars

\* A removal is reported as done only over a frame in which its target is not seen: one that
\* comes back while the completion waits for its acknowledgement takes it back.
RecheckSucceedsUnseen ==
  [][\A a \in care.action :
       a.cmd = "RECHECK_HAZARD" /\ care'.results[a.id] = "SUCCEEDED" =>
         \A o \in Visible(care'.seen) :
           o[1] = a.label => a.inst # NoInstance /\ o[2] \notin {a.inst, NoInstance}]_vars

InHand(id) == \E job \in care.action \cup care.control : job.id = id

\* Whatever becomes of the links and the camera, an accepted command ends.
EveryCommandEnds == \A id \in Ids : InHand(id) ~> fault \/ ~InHand(id)
=============================================================================
