--------------------------- MODULE DetectionPipeline ---------------------------
(***************************************************************************)
(* detection/service.py and worker.py: the inference process and the       *)
(* threads of the runtime that feed it, read it and steer it through       *)
(* shared words: the mode with its generation, processing, the suppressed  *)
(* and the reset labels.  The engine (RiskEngine) sees one tracked object, *)
(* or none.                                                                *)
(*                                                                         *)
(* mode       generation; odd and even are two modes                       *)
(* processing, resets     as in the code                                   *)
(* muted      suppressed_alert_mask: all labels, or none                   *)
(* latest     what state() shows: a status and a generation (0: none);     *)
(*            "ok" stands for every outcome of a frame                     *)
(* results    the queue of one place, Empty or a state                     *)
(* worker     at      top, loading, inferring, judged (the events are      *)
(*                    known), shown (published) or saving                  *)
(*            active, loaded     active_code and loaded_code               *)
(*            frame, events      of this round                             *)
(*            safe               previous_safe                             *)
(* engine     the RiskEngine                                               *)
(*                                                                         *)
(* since      history: frames judged with a label, up to Votes, since the  *)
(*            engine last forgot the object                                *)
(*                                                                         *)
(* A frame shows a label of the object or "none" and whether a person is   *)
(* near; quiet is history: it was taken while muted, and no treatment has  *)
(* begun or ended since.                                                   *)
(***************************************************************************)
EXTENDS RiskEngine

CONSTANT MaxMode  \* bound: generations of the mode

\* The object has track 1.
ASSUME PipelineAssumption == MaxMode \in Nat \ {0} /\ 1 \in Tracks

VARIABLES mode, processing, muted, resets, latest, results, worker, engine, since

control == <<mode, processing, muted, resets>>
judged == <<engine, since>>
vars == <<control, latest, results, worker, judged>>

\* What _bridge hands on, with what the models find in it.
NoFrame == [label |-> "none", person |-> FALSE, quiet |-> FALSE]
Frames == {NoFrame} \cup [label : Labels, person : BOOLEAN, quiet : BOOLEAN]

State(status, generation) == [status |-> status, generation |-> generation]
Empty == State("empty", 0)

Init ==
  /\ mode = 1 /\ processing = FALSE /\ muted = FALSE /\ resets = {}
  /\ latest = State("waiting", 1)
  /\ results = Empty
  /\ worker = [at |-> "top", active |-> 1, loaded |-> 0, frame |-> NoFrame, events |-> {},
               safe |-> {}]
  /\ engine = NewEngine /\ since = [l \in Labels |-> 0]

-----------------------------------------------------------------------------
(* The threads of the runtime *)

\* Mutant: whatever comes is shown.
CollectAny ==
  /\ results # Empty
  /\ latest' = results /\ results' = Empty
  /\ UNCHANGED <<control, worker, judged>>

\* _collect
Collect ==
  /\ results # Empty
  /\ latest' = IF results.generation = mode THEN results ELSE latest
  /\ results' = Empty
  /\ UNCHANGED <<control, worker, judged>>

SelectMode ==
  /\ mode < MaxMode
  /\ mode' = mode + 1
  /\ latest' = State("switching", mode + 1)
  /\ UNCHANGED <<processing, muted, resets, results, worker, judged>>

SetProcessing ==
  /\ processing' = ~processing
  /\ latest' = State(IF processing THEN "disabled" ELSE "waiting", 0)
  /\ UNCHANGED <<mode, muted, resets, results, worker, judged>>

\* set_suppressed_alert_labels, at the start of a treatment and when its result is settled.
SetMuted ==
  /\ muted' = ~muted
  /\ worker' = [worker EXCEPT !.frame.quiet = FALSE]
  /\ UNCHANGED <<mode, processing, resets, latest, results, judged>>

\* reset_alert_labels, after a removal check has succeeded.
RequestReset(label) ==
  /\ resets' = resets \cup {label}
  /\ UNCHANGED <<mode, processing, muted, latest, results, worker, judged>>

-----------------------------------------------------------------------------
(* worker.run *)

\* offer: a full queue loses its old state, or the new one when the reader is at it.
Offer(state) == results' \in {state} \cup (IF results = Empty THEN {} ELSE {results})

\* publish: nothing of a mode that is no longer selected.
Publish(active, status) ==
  IF mode = active THEN Offer(State(status, active)) ELSE UNCHANGED results

\* The events of the round are dropped.
Top == [worker EXCEPT !.at = "top", !.frame = NoFrame, !.events = {}]

\* Another mode: the models and the engine are new.
Switch ==
  /\ worker.at = "top" /\ worker.loaded # mode
  /\ worker' = [worker EXCEPT !.at = "loading", !.active = mode]
  /\ Offer(State("switching", mode))
  /\ engine' = NewEngine /\ since' = [l \in Labels |-> 0]
  /\ UNCHANGED <<control, latest>>

\* Mutant: the mode that was loaded is read again.
LoadRereads ==
  /\ worker.at = "loading"
  /\ worker' = [worker EXCEPT !.at = "top", !.loaded = mode]
  /\ Publish(worker.active, "waiting")
  /\ UNCHANGED <<control, latest, judged>>

Load ==
  /\ worker.at = "loading"
  /\ worker' = [worker EXCEPT !.at = "top", !.loaded = worker.active]
  /\ Publish(worker.active, "waiting")
  /\ UNCHANGED <<control, latest, judged>>

\* take: any frame, as one may be lost, or lie in the mailbox since before the treatment.
InMailbox == {frame \in Frames : frame.quiet => muted}

\* A frame that is too old, or blurred, ends the round.  After a gap of Forget the engine
\* would start afresh; it remembers nothing then in any case.
Take ==
  /\ worker.at = "top" /\ worker.loaded = mode /\ processing
  /\ \/ /\ \E frame \in InMailbox :
             worker' = [worker EXCEPT !.at = "inferring", !.frame = frame]
        /\ UNCHANGED results
     \/ Publish(worker.active, "ok") /\ UNCHANGED worker
  /\ UNCHANGED <<control, latest, judged>>

StillWanted == mode = worker.active /\ processing

\* Leaving the zone does not wait for the cooldown.
Left(e, labels) ==
  [e EXCEPT !.alerted = [k \in Keys |-> IF e.label[k] \in labels THEN Gone ELSE @[k]]]

Detected(frame) ==
  IF frame.label = "none" THEN <<>>
  ELSE <<[track |-> 1, label |-> frame.label, place |-> CHOOSE p \in Places : TRUE]>>

\* After inference: the mask of resets is taken and the frame is judged.  safe_labels: the
\* object may lie in the zone of the marker.
Judge ==
  /\ worker.at = "inferring" /\ StillWanted
  /\ \E safe \in SUBSET ({worker.frame.label} \cap Labels) :
       LET ready == Left(Reset(engine, resets), worker.safe \ safe)
           r == Evaluate(ready, Detected(worker.frame), worker.frame.person)
           forgotten == \A k \in Keys : engine.seen[k] = Gone \/ engine.label[k] \in resets
       IN /\ engine' = r.engine
          /\ since' = [l \in Labels |->
                         LET before == IF forgotten THEN 0 ELSE since[l]
                         IN IF l = worker.frame.label /\ before < Votes THEN before + 1
                            ELSE before]
          /\ worker' = [worker EXCEPT !.at = "judged", !.safe = safe,
                                      !.events = {h.label : h \in r.events} \ safe]
  /\ resets' = {}
  /\ UNCHANGED <<mode, processing, muted, latest, results>>

\* Mutant: the mask of suppressed labels is not read.
ShowUnmuted ==
  /\ worker.at = "judged"
  /\ worker' = IF worker.events = {} THEN Top ELSE [worker EXCEPT !.at = "shown"]
  /\ Publish(worker.active, "ok")
  /\ UNCHANGED <<control, latest, judged>>

\* The mask of suppressed labels is read, and the state is shown before anything is written.
Show ==
  /\ worker.at = "judged"
  /\ worker' = IF muted \/ worker.events = {} THEN Top ELSE [worker EXCEPT !.at = "shown"]
  /\ Publish(worker.active, "ok")
  /\ UNCHANGED <<control, latest, judged>>

\* The photograph is encoded; the round ends when the mode or the power has changed.
Encode ==
  /\ worker.at = "shown" /\ StillWanted
  /\ worker' = [worker EXCEPT !.at = "saving"]
  /\ UNCHANGED <<control, latest, results, judged>>

\* EventStore.save (see Outbox), and the state is shown again.
Save ==
  /\ worker.at = "saving"
  /\ worker' = Top
  /\ Publish(worker.active, "ok")
  /\ UNCHANGED <<control, latest, judged>>

Unwanted ==
  /\ worker.at \in {"inferring", "shown"} /\ ~StillWanted
  /\ worker' = Top
  /\ UNCHANGED <<control, latest, results, judged>>

Tick ==
  /\ engine' = Aged(engine) /\ engine' # engine
  /\ UNCHANGED <<control, latest, results, worker, since>>

-----------------------------------------------------------------------------

Next ==
  \/ Collect \/ SelectMode \/ SetProcessing \/ SetMuted
  \/ \E label \in Labels : RequestReset(label)
  \/ Switch \/ Load \/ Take \/ Judge \/ Show \/ Encode \/ Save \/ Unwanted
  \/ Tick

\* What Judge does to the worker: enough to say that it comes to it.
Judged ==
  /\ worker.at = "inferring" /\ StillWanted
  /\ \E safe, events \in SUBSET Labels :
       worker' = [worker EXCEPT !.at = "judged", !.safe = safe, !.events = events]

\* The worker runs and the reader reads; while the power is on a frame comes that is judged,
\* and of the states that are offered again and again one gets through.
Spec ==
  /\ Init /\ [][Next]_vars
  /\ WF_vars(Switch \/ Load \/ Show \/ Encode \/ Save \/ Unwanted) /\ WF_vars(Collect)
  /\ WF_vars(Take /\ worker'.at = "inferring") /\ WF_worker(Judged)
  /\ SF_vars(Show /\ results' = State("ok", worker.active))

-----------------------------------------------------------------------------

\* What is shown as a result is of the mode that is selected, although results of an earlier
\* one may be in the queue, or under way, when the mode is selected.
ShownIsSelected == latest.generation \in {0, mode}

\* A frame that was taken while a treatment runs is not recorded while it still runs
\* (_sync_alert_suppression); the engine goes on judging all the time.
SuppressedStaysQuiet == worker.at = "saving" => ~(muted /\ worker.frame.quiet)

\* Without a person an alert rests on Votes frames of its label since the engine last forgot
\* the object: a removal check that succeeds takes the votes along with the cooldown.  (A
\* reset that finds the object under another label, the one it was read as last, is none.)
FreshVotes ==
  worker.at = "judged" /\ ~worker.frame.person => \A l \in worker.events : since[l] >= Votes

\* With the power on a switch of the mode comes to an end for the reader, whatever other
\* switches, resets and lost states there are.
SwitchIsShown ==
  <>[]processing => (latest.status = "switching" ~> latest.status # "switching")
=============================================================================
