# Deni: a verification development

TLA+ models of the Deni child-safety robot (`src/`), the TLC runs that check them
on small instances, and TLAPS proofs that hold for every instance.

## 1. The system

A PC runtime (`hardware/`, Python) drives a small robot over TCP, watches its
camera and obeys a backend (`backend/`, Spring Boot and PostgreSQL) over a
WebSocket; parents use a web front end (`frontend/`, React) that polls the backend.

| component | state it keeps | operations | interacts with |
|---|---|---|---|
| Command delivery: `OperationService`, `DeviceCommandDispatcher`, `DeviceMessageService`, `DeviceSocketHandler`, `DeviceChannel` | rows of `operation_requests` and `device_command_delivery` (QUEUED, SENT, DELIVERED, UNKNOWN, SUCCEEDED, FAILED, EXPIRED), the open session, `recoveryQueries` | request a command, a removal check or a relocation; the 500 ms dispatcher tick; reception of COMMAND_ACK and COMMAND_RESULT | the bridge, by frames; the hazard ledger, in the same transactions |
| Command journal: `bridge.py` | SQLite tables `commands`, `pending_results`, `started_commands`; `inflight`, `receipts` in memory | `handle`, `recover_result`, `resend`, `session`, the constructor after a crash | the backend, by frames; `Runtime.command`, in a thread per command |
| Care controller: `care_controller.py` | phase, blocked kinds and instances, the action and the control command in hand, results, time stamps | `request` (command threads), `step` (control loop, 50 ms) | runtime, detector (observations), motor (acknowledgements) |
| Care runtime: `care_runtime.py` | the controller, the fault latch, the time of the last tick and of the last backend message | `_run_loop`, `command`, `recover_command`, `fail_control`, `supervise`, `state` | every thread of the PC, under one lock |
| Motor output: `motor_output.py`, `pc_client.py`, `protocol.py` | the command under lease, the session's generation, the last acknowledgement | `submit`, `observation`, the 25 ms drive cycle with reconnection | the runtime; the robot's receiver, over TCP |
| Detection pipeline: `detection/service.py`, `worker.py`, `risk_engine.py`, `stabilization.py` | shared words (mode and generation, power, masks), the result queue of one place, tracks, votes, cooldowns, identities | take a frame, infer, vote, alert, show, save; mode and power switches, masks, resets | the runtime; the outbox |
| Outbox: `EventStore`, `uploader.py`, `Bridge.enqueue_detection`, `flush_once`, `DetectionUploadService` | `events` (pending, sent, rejected), `detection_events` | enqueue, upload with retry, idempotent save | the hazard ledger |
| Hazard ledger: `HazardService`, `TreatmentHistory`, `DeviceMessageService.retireUnseen` | `hazards` (ACTIVE, RESOLVED), the treatment results, `lastSeen` | record a detection, acknowledge, resolve by treatment, retire what is not seen | delivery, outbox, automatic relocation |
| Automatic relocation: `AutoRelocationDispatcher` | issued requests, failures per hazard and device | a tick every 2 s | `OperationService` |
| Device status: `DeviceService`, `robot_live_state` and its triggers | last report, links of devices and children | report, freshness, activation of a child | everything that asks whether the robot is online or paused |
| Children and reports | profiles, stage history | registration, refresh, reports | ledger, front end |
| Front end | the last answers | polling, commands, treatment dialogue | REST only |

Operator tools, test doubles, model loading and image code, REST mapping and screen
layout are not part of the development; `PROJECT.json` lists each with its reason.

### What is hard

* **Crashes and lost frames.** A physical task must not run twice and must not be
  forgotten, whatever dies between the acknowledgement, the start, the result and the
  receipt. Tests start one bridge, and crash it at one point.
* **Interleaving.** Each command frame has its own asyncio task and its own thread in
  the runtime; the control loop, the watchdog and the recovery of a lost command act on
  the same controller.
* **Order.** A result overtakes its acknowledgement, a status query its command, a
  deadline the result; an acknowledged motor command may be older than the request.
* **Evidence from the camera.** Absence counts only over frames in sequence; an object
  may come back between the decision and its acknowledgement.
* **Several objects of one kind**, with and without identity, block one kind.
* **Liveness.** A command thread waits for its result without a timeout of its own.

`PROJECT.json` lists the hazards one by one with their lines and the properties that
cover them, and for the rest the reason.

### What makes each component correct

* Delivery: at most one run per command, no forgotten run, a row says what the journal
  says, at most one open treatment, UNKNOWN is temporary, EXPIRED means never run.
* Controller: it moves only with a licence; a stop reported as done holds until a user
  lifts it; no command loses its answer or is answered twice; success means that the target was
  not in sight, failure that it stays blocked.
* Motor link: no movement crosses sessions or outlives its leases, except for a command the motor
  thread holds, read and not sent; a fault is final; what is shown as acknowledged is what the
  robot does.
* Outbox: what is queued reaches the backend exactly once, in order, or is refused.
* Detection: nothing of another mode is shown; an alert rests on votes since the last
  reset; no alert is recorded during a treatment; two objects have two identities.
* Ledger: one ACTIVE hazard per object; a photograph from before the end of a treatment
  opens none; only what was not seen for long enough is retired.
* Automatic relocation: a hazard that failed is skipped, a device that failed twice is
  switched off, every result is counted once.

## 2. Plan

Most important first; 1 to 6 are written, with proofs of their safety properties.

1. **CommandDelivery** = DeviceLink + BackendCommands + BridgeJournal, implementing
   CommandOutcome; proofs in CommandDeliveryProofs.
2. **CareController**, with MCCareController; proofs in CareControllerProofs, from one
   inductive invariant over `care`.
3. **CareRuntime** on MotorOutput on RobotLink: the drive cycle, leases, generations, the
   fault latch and the acknowledgement in flight; proofs in CareRuntimeProofs.
4. **HazardLedger**, with MCHazardLedger and HazardLedgerProofs.
5. **Outbox**, implementing UploadPromise; proofs in OutboxProofs.
6. **DetectionPipeline** on RiskEngine, and MCRiskEngine; proofs in
   DetectionPipelineProofs.
7. Not written: automatic relocation (settling, counting failures, disabling), the state
   report of the runtime, the order of device reports.

## 3. Modules

### Command delivery

| module | models | state |
|---|---|---|
| `DeviceLink` | the WebSocket: `DeviceChannel`, the two ends of a session | `channel` (the backend's session is open), `socket` (the robot's is), frames under way each way |
| `BackendCommands` | the delivery rows | `row`, `sent`, `age` (in time, or past the deadline) and the status queries of a command |
| `BridgeJournal` | `Bridge.handle` and its neighbours | `started`, `result`, `pending` (SQLite, survive a crash); `up`, the handler's place per command and the receipts (lost with the process); `runs` counts the physical executions |
| `CommandDelivery` | the composition and its properties | all of these |
| `CommandOutcome` | what a parent is promised of one command | `life`: runs, verdict, what was told |

A frame is a record of its type and command. The frames under way in a direction are a
set: any of them may be handled next, and what is addressed to an end is lost when that
end closes its session. `BridgeJournal` splits `handle` where other code can run, at each
`await` and each commit. `Execute` hands the command to the controller, of which only
the answer (`RobotSettles`) and whether the robot stands still matter here.

### Care controller

`care` is the controller object as one record. `step` is one action, in the disjuncts
of its early returns (`StepDisconnected`, `StepWithoutBackend`, `StepOff`, `StepBlind`,
`StepNewFrame`, `StepSameFrame`); what every call does first (deadlines, new session,
confirmation of control commands) is `Checked`, what a valid frame changes is `Seeing`,
and each phase is an operator of its own. `request` is `RequestStop`, `RequestDrive`,
`RequestTreatment` and `RequestRefused`. Observation, motor snapshot, step and submit
are one action: step and submit share `Runtime.lock`, and `submit` refuses a generation
the snapshot does not name.

* Time is counted in frames one `max_observation_gap` apart; a longer distance restarts
  the windows as `gap`. The windows of the code (2 s removal, 5 s absence, 1 s drop) are
  1, 2 and 1 units, in the order the code's defaults have.
* Steering, marker search and pulse timers only choose when a phase goes on; the model
  lets it go on at any step. The proof of movement (a phase counts only periods whose
  command is acknowledged) is kept.
* A result leaves the controller with `Collect` or `Recover`, so ids are used again.
* Deadlines: `TimeUp` may strike at any time for a treatment. With the link up a stop is
  acknowledged within milliseconds, so of the control commands only a RESUME, which
  waits for its first drive, can run out of its 8 s there.
* Labels of kinds the robot does not treat are not modelled.
* `hold` is a history variable of two properties and is read by no action.

### Care runtime, motor output, robot link

| module | models | state |
|---|---|---|
| `RobotLink` | `pc_client.py`, `protocol.py`, and the receiver on the robot as they rely on it | `line`: the exchange under way, what the motors do, the receiver's lease |
| `MotorOutput` | `MotorOutput.run`, `submit`, `close`, `leased_command` | `motor` (ready, generation, ack, command and its lease), `thread` (where `run` is), `taken`, `stop` |
| `CareRuntime` | `_run_loop`, `command`, `fail_control`, `supervise` | `ctl` (whether the controller drives, and the session it has met), `loop`, `age` of `control_tick`, `fault`, `failing`; `turned` and `still` are history |

The steps are cut at the locks. A turn of the motor thread is `Turn` (the stop event),
`Take` (the command, under the lock), `Drive` (the send, without it), `Obey` (the robot) and
`Driven` (the acknowledgement, under the lock); `Leave` disarms, `Close` sends the last stop.
`Observe` takes the snapshot, `Step` holds `Runtime.lock` until `Publish` or `Crash`;
`fail_control` is `Latch`, `Withdraw`, `Conclude`. A thread may stall between any two of its
steps for any time: no fairness bounds it in a safety property, and time goes on. Two steps
are one action: connecting with the first stop, which moves nothing, and in `Shutdown` the
`submit('S', 0)` with the stop event, where what is submitted between them may as well be
submitted before or after both. Of the controller only what these threads race over is
kept: it may stop driving in any step, and `Ask` lets a user start or stop it when the lock
is free; when it does so is `CareController`'s matter. A new session stops it, or does not
when it is finishing a removal check (`MeetSession`). `CareController` in turn takes the
link as one step (`MotorAck`); `AckIsObeyed` and `StopHolds` say how far that is right.

Between `Take` and `Drive` no lease is looked at. A motor thread that stalls there with a
moving command in its hand (`Held`) sends it however old it is, and the receiver obeys
it for `LEASE_SECONDS`: after a PAUSE, and after a latched fault. `MotionNeedsControl`
and `StopHolds` therefore bound the motion on clocks that stand while a command is held
(`turned`, `still`): the motion is late by what the thread stalled there and by no more, and
a stall anywhere else, of any thread, moves nothing.

The receiver is not in the repository. It is taken to obey and acknowledge each command,
to stop after `LEASE_SECONDS` without one and when the session ends. A command on its way
is obeyed within the time the client waits for its acknowledgement (`Arrives`), or in that
time when the client breaks the session, or never. That is an assumption on the network: `drive`
closes the socket after that time, but a thread that stalls between send and receive does
not. Reconnect delays and the wheel mapping are left out.

### Detection outbox

`Outbox` has the steps of `EventStore.save` (`Photo`, `Keep`, `Unlink`, `Prune`, one
`Enqueue` per object), of `flush_once` (`Select`, `Post`, `Settle`, `GiveUp`), a crash
of either process at any of them, and the backend (`Serve`), also for a request that was
given up and arrives later (`ServeLate`). `UploadPromise` is what this amounts to for one
upload: `fate` and whether it is stored. Images, texts and the validation of both ends
are one choice, accepted or refused; the content of an event id never changes, so the
409 for other content cannot occur.

### Detection pipeline

`RiskEngine` is the engine and the class vote as operators on a record: `Evaluate` takes
a frame, a sequence of labels at places with or without a track, and returns the engine,
the hazards and the alerts. Ages count ticks up to `Forget`; two boxes overlap when they
are at one place; an identity is a number no key holds. `DetectionPipeline` puts the worker
process around it, one action between two reads of a shared word (`Switch`, `Load`, `Take`,
`Judge`, `Show`, `Encode`, `Save`), and the threads of the runtime (`Collect`, `SelectMode`,
`SetProcessing`, `SetMuted`, `RequestReset`). The mailbox may hold, keep or lose any frame,
so `Take` takes any. Which objects a marker excuses (`safe_labels`) is a choice of `Judge`.
`since` and `frame.quiet` are history and read by no action. One kind and one tracked object
stand in the run of the pipeline; two objects, with and without tracks, in `MCRiskEngine`.

### Hazard ledger

| variable | code |
|---|---|
| `photo` | detection events: device, kind, tracked instance, `captured_at` |
| `filed` | the hazard a stored `detection_events` row was credited to |
| `hazard` | rows of `hazards`, each named by the event that opened it |
| `treatment` | removal checks and relocations: `operation_requests` with their delivery |
| `lastSeen` | the map `DeviceMessageService.lastSeen`, in memory |
| `retiring` | what a report handler has found unseen and takes the device lock for |
| `linked`, `now` | the child of a device; the clock |
| `away`, `overdue` | history: since which report a hazard is out of sight, and for too long |

Every transaction on hazards takes the advisory lock of its device and keeps it to its
end, so what it does under the lock is one action. What it reads before the lock is an
action of its own: `LoadHazard` then `QueueTreatment` or `RefuseTreatment`, `Report`
then `Retire` or `RetireRolledBack` (the rows come back, the dropped timers do not).
A photograph is taken by `Capture` and reaches the backend by `Upload` at any later time
and in any order. A repeated upload of a stored event changes nothing. Delivery is
BackendCommands' matter: here SENT stands for SENT, DELIVERED and UNKNOWN, and a result
comes with any completion time since the sending.

`Report(d, sight)` carries what the robot's live detection has in sight (without what
`safe_labels` excuses); the robot lists only the swallowing objects of it (`Visible`).
An upload without `object_instance_id` stands for any object of its kind. One the
backend keeps without judging it (no capture time, no growth stage) is `KeepUpload`.
Each start of the backend may run the demo reset or not (`StartupResets`; the property
comes from the environment), and the runs allow both.

## 4. Runs

| run | instance | shows |
|---|---|---|
| `DeliveryPair` | two treatments, one fault anywhere (crash, lost session, raising handler, backend restart) | the six safety properties of delivery, and that every step is a step of `CommandOutcome` |
| `DeliveryLive` | one PAUSE, three faults | `UnknownIsSettled`, `PendingDrains` |
| `CareRecheck` | one kind, two tracked objects of it and an unidentified one, two ids, POWER_ON, PAUSE, RESUME, removal check | the safety properties of a removal check, what a stop does to it, `ResultFinal` |
| `CareRelocate` | two kinds without identities, POWER_ON and relocation | the phases of a relocation with another hazard in the way |
| `CareLive` | one kind, every command and the recovery | `EveryCommandEnds` |
| `CareLinkLoss` | one kind, POWER_ON, RESUME, removal check | finding 1: `NoSelfRestart` is violated |
| `Robot` | two sessions, one moving command, leases of 1, 2 and 1 ticks, a fault after more than 4 | the seven properties of runtime, motor output and link, with stalls of any thread |
| `Outbox` | two events of two objects, a history of one, batches of two | order, which rows of the history have their photographs, `UploadPromise`, and that every pending upload is settled |
| `Detection` | one object, three generations of the mode, votes 2 of 2 | the four properties of the pipeline |
| `RiskInstances` | two tracks, two raw detections, two places | finding 3: `DistinctInstances` is violated |
| `Ledger` | one robot, two children, a swallowing and a living kind, two photographs, one treatment | the three invariants and three action properties of the ledger |
| `LedgerLiving` | one robot, one photograph | finding 2: `SeenIsKept` is violated |

Why the bounds are enough. The commands of one device meet only in the treatment rule
(`OneHazardTask`) and in the controller, which takes one at a time; two commands show
every meeting of two. One fault with two commands and three with one cover a fault in
the recovery from a fault. One id at a time suffices in the controller because it
refuses a second request while one is in hand, except PAUSE and POWER_OFF, which
interrupt: `CareRecheck` has two ids for that. A PAUSE that interrupts a relocation meets
one kind in `CareLive`; with two ids and two kinds the state space is beyond a run. Two objects of a kind are needed
for "the last one unblocks", two kinds for "another hazard is in the way". Two units
of absence suffice to tell the windows apart. Two
photographs make every pair the ledger compares: an old and a new one, one with and one
without identity, of two kinds or two children. The three instants of `MaxTime = 2` are
before, at and after the end of a treatment, and exceed the absence time (1 unit); the
grace after a failure (2) is longer than the absence, as 30 s and 5 s are in the code.
Two sessions with the robot show every race of an old one with a new one; the leases are
short and their sum is the stall time, the tightest the assumption allows. In `Outbox` the
history is shorter than the events and the batch than the uploads, so pruning and a second
batch happen, and save may be broken off between them. That a later save repairs the history
takes a third event: `PhotosShown` proves it, and TLC agrees with `Events = 3` and
`Detections = 1`. Three generations let the mode change while its change is being made; a
result of the first may then meet the third. `MaxMode`, `MaxSession`, `MaxRaw` and `Events`
are bounds of the models. Deadlock is checked in every run but `Outbox`, which is done when
every event is through.

Symmetry is used over the commands of `DeliveryPair`, the ids and instances of `CareRecheck`
and the photographs and children of `Ledger`, in runs without liveness, where the
properties do not name them.

### Fairness

`CommandDelivery!FairSpec`: the dispatcher is scheduled every 500 ms; the bridge
reconnects in a loop with a bounded delay; both ends find a dead session by pings;
asyncio runs the tasks it has; the resend loop repeats every two seconds; the controller
answers (that is `EveryCommandEnds`). Requests, faults and the start of a dead process
are not fair: the liveness properties speak of a process that stays up.
`CareController!LiveSpec`: the control loop runs every 50 ms until a fault is latched
(weak), a link that stays up acknowledges every 25 ms (weak), and time passes also while
the link comes and goes (strong, `TimeUp`). Frames, links and users are not fair.
`CareRuntime!Spec`: the motor thread runs, the receiver obeys and notices a lost session,
time passes; the loop and the supervisor may stall for ever.
`Outbox!Spec`: the uploader is scheduled every two seconds and a request ends after 25 s
(weak); a backend that is asked again and again gives a verdict and one of its answers
arrives before the next crash (strong). Without the last, an unreachable backend keeps an
upload pending for ever, as it should.
`DetectionPipeline!Spec`: worker and reader run (weak); while the power is on a frame that
can be judged comes in the end (weak); of the states offered to the queue of one place again
and again one is not pushed out (strong).

## 5. Proofs

`CommandDeliveryProofs` proves the six safety properties of `DeliveryPair` for every set
of commands and any number of faults, `ExpiredNeverRan` and the refinement
`Spec => OutcomeSpec` for a backend without the demo reset.

None of the properties is inductive. That a row agrees with the journal, for instance,
needs that result frames carry what the journal says, which needs that the journal never
changes a verdict, which needs that a handler that is about to write one still owns its
command. The invariant `IInv` says per command and place of the handler

* `JournalOf`: which of started, result and pending hold, how often the task has run,
* `AgreeOf`: that frames, receipts and the row carry the journal's verdict,
* `SentOf`: that a command which reached the robot in any way was sent, so its row is
  past QUEUED,

and `RobotInv`, what the controller may hold for a command whose handler is gone. The
proof of a step has one case per action; actions of the link and of the backend leave
the journal alone, which lemmas state once. Assumptions: those of the modules on their
constants, all checked by TLC.

`HazardLedgerProofs` proves all seven properties of the run `Ledger` for any number of
devices, children, photographs and treatments and any length of the clock;
`UnseenIsRetired` under the assumption of one robot, which it needs: the reports of two
erase each other's timers. Of the properties, one object on a list once needs least: `ActiveBefore` says that
a row is opened only when nothing like it is active, and rows, once opened, keep their
photograph (`RowsInv`, `PhotosKept`). `SwallowRetiredUnseen` needs `TimerInv`, that the
timer of a swallowing object is never older than its absence, and `PhotoInv`, that the
tracker's identity determines the kind, so the filter of the visible lists hides none of
these objects. `TreatmentHolds` needs `TreatmentInv`, that treatments are of swallowing
objects, which an acknowledgement cannot close. The two action properties about
photographs rest on the lemma `Showing`: what a photograph writes into a row it writes
only when `handledAfter` finds nothing. `SoloInv` says that with one robot an overdue row
is one its report handler is about to close. The assumptions are `LedgerAssumption`
and `NoneAssumption`, checked by TLC.

`CareRuntimeProofs` proves six safety properties of `Robot` for any commands, leases,
stall time and number of sessions. Each is about clocks that run in different places, so
`MotionInv` says how much of the sum is left: a command under lease has `left` ticks of
`Pulse`, one on its way at most `Pulse` plus the wait so far, one obeyed the rest of the
receiver's lease; once counted since the last iteration (`turned`), once since the controller
stopped (`still`). A command in the hand of the motor thread is younger than `Pulse` on
both clocks, because they stand as long as it is held; on a clock that goes on nothing bounds it.
That only a driving controller of the session in hand renews it is
`SessionInv`; `ThreadInv` and `AckInv` tie the motor thread to the exchange. Assumptions:
the leases are positive and add up to at most `FaultAfter` (1.25 s and 3 s in the code).
`EndIsFinal` is the safety half of `ShutdownStops`: the end of the motor thread with the robot
standing is never left; that it is reached stays with TLC.

`CareControllerProofs` proves the seven safety properties of the controller's runs for any
kinds, tracked objects, commands and windows. `step` applies up to a dozen helpers one after the
other, and what they hand on is no state of the model; so what is invariant is stated of a
record (`Core`), each helper has a lemma that it keeps it, and a branch of `step` is the
composition of these. The parts of `Core` are

* `JobInv`: one command in hand, without an answer yet; a deadline is that of a command,
* `TaskInv`: phase, treatment and pending end belong together, the absence window is open,
* `BlockInv`: a tracked object blocks its kind,
* `PauseInv`: a stop that waits for its confirmation is in the phase of a stop, and one that
  has it leaves nothing in hand. After a latched fault only the weaker `StopInv` holds:
  `fail_control` may take a paused controller to `HAZARD_PAUSED`, but no loop runs any more.

`MotionIsLicensed` is inductive over this, because each step computes the output anew
(`SeesWell`, `Leaves`). The two action properties need a second line of lemmas: `Follows`
(answers are final, a command that is dropped has failed), `Judges` (or it succeeded over a
frame without its target) and `Ends` say what helpers, a step and a request do to the commands
in hand, and compose along the branches. The only assumption is `SettingsAssumption`.

`OutboxProofs` proves order, `HistoryShowsPhoto` and the refinement of `UploadPromise` for any number of
events, detections per event, rows of the history and of a batch. `StoredInOrder` holds by three
facts together: what is queued lies behind the next one to be queued (`QueueInv`); what is
still to be sent of a batch comes before whatever else is pending (`BatchInv`), for which
`FirstIsCut` and `OldestIsFirst` say that `ORDER BY rowid LIMIT` takes rows from the front; so
nothing pending comes before what has left the robot, also for a request that was given up and is
under way still (`OrderInv`). An upload that failed stays pending and is again the first of the
next batch. The step of the refinement that needs most is a late request: `OrderInv`
and `StoredInv` say that it stores what is pending or was refused, never what was marked sent
without being stored. Assumption: `OutboxAssumption`.

`DetectionPipelineProofs` proves `ShownIsSelected`, `SuppressedStaysQuiet` and `FreshVotes` for
any labels, windows, times of the engine and any number of switches, with the one tracked
object that the frames of `DetectionPipeline` hold. `FreshVotes` speaks of alerts, and what the
engine remembers is in the votes of its keys: `Backed` says that the votes of a label in the
window, and its confirmation, have as many judged frames behind them since the engine
last forgot the object. `NewInstanceIsNew` is the counting argument that an unused identity exists
for any number of keys. Assumptions: `RiskAssumption` and `PipelineAssumption`.

Only model-checked:

* the liveness properties (`UnknownIsSettled`, `PendingDrains`, `EveryCommandEnds`,
  `ShutdownStops`, `PendingSettled`, `SwitchIsShown`): they rest on fairness and ENABLED, which the
  prover does not do;
* the three findings of section 6, which are counterexamples;
* what `Evaluate` makes of a frame of several detections. It folds over a sequence of any
  length, which would take induction over data; the proofs unfold it for frames of no and of one
  detection, and `RiskInstances` checks frames of two;
* `ExpiredNeverRan` and `OutcomeSpec` with the demo reset, and `UnseenIsRetired` with two
  robots, are false, not unproved: sections 5 and 6 say why.

## 6. Findings

1. **The robot drives on by itself after a link loss** (`CareLinkLoss`). A removal check
   broken off by the loss of the backend leaves `HAZARD_PAUSED`. When the backend is back
   and the camera does not show the object for five seconds, `_clear_absent` sets RUNNING.
   The comment of `_stop_after_link_loss` says only a RESUME may do that. The test of the
   case stops after four seconds.
2. **A living hazard in sight is retired** (`LedgerLiving`). The robot fills the visible
   lists from swallowing objects only (`care_controller.py:416-417`); `retireUnseen` asks
   them about every active hazard of the device, so a wire or a socket the camera sees
   all the time is closed after five seconds of live detection.
3. **Two objects with one identity** (`RiskInstances`). An object seen without a track
   leaves a raw entry at its place; its track inherits the identity, and the entry keeps
   it. When that track has moved on and a second object of the kind appears at the place
   within the forget time, its track inherits the same identity.

Seen while modelling, without a run:

* Delivery. The demo reset expires sent commands too, so EXPIRED may stand for a command
  that ran (`DemoSessionReset.java:30`), where the socket specification, line 40, has it for
  commands never sent; after it a pending result is resent for ever. A robot clock behind
  the backend makes a result refused for ever (`DeviceMessageService.java:141`).
* Controller. A removal check may end as "still present" with nothing blocked: the kind is
  unblocked when the target was absent for the window, and a sighting before the completion
  is acknowledged reopens the check without blocking it again (`care_controller.py:440`). An
  unconfirmed PAUSE that times out over a blocked hazard leaves `HAZARD_PAUSED`, from which
  the robot also resumes by itself; a completed recheck keeps RUNNING through a motor
  reconnect; comments disagree on automatic resumption (`care_controller.py:449-450` and
  `CARE_RUNTIME_KO.md:13` deny it, line 223 does it, the socket specification line 36 wants it).
* Runtime. A PAUSE is confirmed by an S acknowledged after the request, while an F read
  before it may still be on its way; `StopHolds` bounds it by the leases. A motor thread that
  stalls between `motor_output.py:68` and 69 sends an old F after any PAUSE or latched
  fault: `pc_client.py:3` says that a stalled caller loses its lease, and it does, but takes a new
  one with the command it held. The stop evidence of
  `recover_command` has the same gap. In `pc_dashboard.py:226` even an S from before counts.
  A POST of `FocusSwitch` that succeeds without an answer leaves `applied` stale.
* Outbox. `save` unlinks the photograph of a row beyond `MAX_EVENTS` before the DELETE is
  committed (`event_store.py:38-40`), and `history(before)` returns rows however old: such a
  row is shown without its photograph in between, and until the next save when the
  process dies or the DELETE fails there.
* Ledger. Two robots erase each other's absence timers: `lastSeen` is one map, and each
  report keeps only the entries of its device (`DeviceMessageService.java:60`). A treatment is
  queued for a hazard closed between the read of it and the device lock
  (`OperationService.java:92-101`); a photograph taken before an automatic retirement and
  uploaded after it is dropped like one of a treated object (`TreatmentHistory.java:48`).
* Detection. `reset_alert_labels` reaches an object only by the label it was read as last;
  after `set_processing(False)` a queued result replaces "disabled" (`service.py:115-116`).

## 7. Not modelled

Automatic relocation, the state report and device status, children and reports, the front
end, REST, tools and test doubles, model loading and inference: `PROJECT.json` gives the
reason for each. `pc_dashboard.py`, with which the robot can be driven by hand, is never run
beside the runtime; it uses the same `RobotClient`.

## 8. Running

    tlc -workers 2 -config DeliveryPair.cfg MCCommandDelivery.tla
    tlc -workers 2 -config CareRecheck.cfg MCCareController.tla
    tlc -workers 2 -config Robot.cfg CareRuntime.tla
    tlc -workers 2 -config Outbox.cfg Outbox.tla
    tlc -workers 2 -config Detection.cfg DetectionPipeline.tla
    tlc -workers 2 -config Ledger.cfg MCHazardLedger.tla
    tlapm CommandDeliveryProofs.tla
    tlapm CareRuntimeProofs.tla
    tlapm HazardLedgerProofs.tla
    tlapm CareControllerProofs.tla
    tlapm OutboxProofs.tla
    tlapm DetectionPipelineProofs.tla
