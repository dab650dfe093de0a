-------------------------------- MODULE Outbox --------------------------------
(***************************************************************************)
(* The way of a detection from the inference process to the backend:       *)
(* EventStore.save keeps the event with its photograph in the local        *)
(* history and then queues one upload per detected object; the uploader    *)
(* thread of the other process sends what is queued, oldest first, and     *)
(* again until it is accepted or refused; DetectionUploadService.save      *)
(* stores it once.  The two processes share the SQLite file of the outbox  *)
(* and nothing else; each may die at any time.                             *)
(*                                                                         *)
(* save      at    idle, photo (written), kept (committed), unlinked,      *)
(*                 queueing or incomplete (the exception is on its way)    *)
(*           event, next   the event, and the detection to be queued       *)
(* photos    events whose photograph is on disk                            *)
(* history   rows of the local event table                                 *)
(* status    of the uploads: unknown (no row), pending, sent, rejected     *)
(* flush     at      idle, picking or waiting (for an answer)              *)
(*           batch   the rows read that are still to be sent               *)
(*           answer  none, ok, refused or busy (408, 429, 5xx)             *)
(* late      uploads whose request was given up and may still arrive       *)
(* received  detection_events: how many rows an upload has made            *)
(***************************************************************************)
EXTENDS Integers, FiniteSets

CONSTANTS
  Events,      \* bound: local events 1..Events, in the order of their time
  Detections,  \* objects of an event
  MaxEvents,   \* C.MAX_EVENTS
  Batch        \* LIMIT of flush_once

ASSUME OutboxAssumption ==
  /\ Events \in Nat /\ Detections \in Nat \ {0}
  /\ MaxEvents \in Nat \ {0} /\ Batch \in Nat \ {0}

VARIABLES save, photos, history, status, flush, late, received

local == <<save, photos, history>>
sender == <<flush, late>>
vars == <<local, status, sender, received>>

Uploads == (1..Events) \X (1..Detections)

\* rowid: one process queues, event after event.
Earlier(u, v) == u[1] < v[1] \/ (u[1] = v[1] /\ u[2] < v[2])
OldestOf(uploads) == CHOOSE u \in uploads : \A v \in uploads \ {u} : Earlier(u, v)

Pending == {u \in Uploads : status[u] = "pending"}

Idle == [at |-> "idle", batch |-> {}, answer |-> "none"]

Init ==
  /\ save = [at |-> "idle", event |-> 0, next |-> 1]
  /\ photos = {} /\ history = {}
  /\ status = [u \in Uploads |-> "unknown"]
  /\ flush = Idle /\ late = {}
  /\ received = [u \in Uploads |-> 0]

-----------------------------------------------------------------------------
(* EventStore.save *)

\* Mutant: the row is committed before the photograph is in place.
RowFirst ==
  /\ save.at = "idle" /\ save.event < Events
  /\ save' = [at |-> "photo", event |-> save.event + 1, next |-> 1]
  /\ history' = history \cup {save.event + 1}
  /\ UNCHANGED <<photos, status, sender, received>>

Photo ==
  /\ save.at = "idle" /\ save.event < Events
  /\ save' = [at |-> "photo", event |-> save.event + 1, next |-> 1]
  /\ photos' = photos \cup {save.event + 1}
  /\ UNCHANGED <<history, status, sender, received>>

\* The INSERT is committed, or it raises: rollback, and the photograph goes.
Keep ==
  /\ save.at = "photo"
  /\ \/ /\ save' = [save EXCEPT !.at = "kept"]
        /\ history' = history \cup {save.event}
        /\ photos' = photos \cup {save.event}
     \/ /\ save' = [save EXCEPT !.at = "idle"]
        /\ photos' = photos \ {save.event}
        /\ UNCHANGED history
  /\ UNCHANGED <<status, sender, received>>

\* The rows OFFSET MAX_EVENTS, newest first.
Old == {e \in history : Cardinality({f \in history : f > e}) >= MaxEvents}

Unlink ==
  /\ save.at = "kept"
  /\ save' = [save EXCEPT !.at = "unlinked"]
  /\ photos' = photos \ Old
  /\ UNCHANGED <<history, status, sender, received>>

Prune ==
  /\ save.at = "unlinked"
  /\ save' = [save EXCEPT !.at = "queueing"]
  /\ history' = history \ Old
  /\ UNCHANGED <<photos, status, sender, received>>

\* enqueue_frame: one transaction per detection.  A file that is locked, or an image or a
\* model that is refused, ends save; the detections that follow are never queued.
Enqueue ==
  /\ save.at = "queueing"
  /\ LET u == <<save.event, save.next>>
     IN \/ /\ status' = [status EXCEPT ![u] = "pending"]
           /\ save' = IF save.next = Detections THEN [save EXCEPT !.at = "idle"]
                      ELSE [save EXCEPT !.next = @ + 1]
        \/ save' = [save EXCEPT !.at = "idle"] /\ UNCHANGED status
  /\ UNCHANGED <<photos, history, sender, received>>

\* The inference process dies.  The next one never looks for what was not queued.
DetectorCrash ==
  /\ save.at # "idle"
  /\ save' = [save EXCEPT !.at = "idle"]
  /\ UNCHANGED <<photos, history, status, sender, received>>

-----------------------------------------------------------------------------
(* flush_once *)

First(uploads) == {u \in uploads : Cardinality({v \in uploads : Earlier(v, u)}) < Batch}

\* Mutant: the rows are selected whatever their status.
SelectAny ==
  /\ flush.at = "idle" /\ Pending # {}
  /\ flush' = [at |-> "picking", answer |-> "none",
               batch |-> First({u \in Uploads : status[u] # "unknown"}) \cap Pending]
  /\ UNCHANGED <<local, status, late, received>>

Select ==
  /\ flush.at = "idle" /\ Pending # {}
  /\ flush' = [at |-> "picking", answer |-> "none", batch |-> First(Pending)]
  /\ UNCHANGED <<local, status, late, received>>

Post ==
  /\ flush.at = "picking"
  /\ flush' = IF flush.batch = {} THEN Idle ELSE [flush EXCEPT !.at = "waiting"]
  /\ UNCHANGED <<local, status, late, received>>

Current == OldestOf(flush.batch)

\* Mutant: the rows behind are tried all the same.
GiveUpOnOne ==
  /\ flush.at = "waiting" /\ flush.answer \in {"none", "busy"}
  /\ flush' = [at |-> "picking", answer |-> "none", batch |-> flush.batch \ {Current}]
  /\ late' = IF flush.answer = "none" THEN late \cup {Current} ELSE late
  /\ UNCHANGED <<local, status, received>>

\* No answer (connection lost, 5 s, 20 s), or one that says later: the turn ends.
GiveUp ==
  /\ flush.at = "waiting"
  /\ flush' = Idle
  /\ late' = IF flush.answer = "none" THEN late \cup {Current} ELSE late
  /\ UNCHANGED <<local, status, received>>

\* The process of the uploader dies; the rows are as it left them.
UploaderCrash ==
  /\ flush.at # "idle"
  /\ flush' = Idle
  /\ late' = IF flush.at = "waiting" /\ flush.answer = "none" THEN late \cup {Current} ELSE late
  /\ UNCHANGED <<local, status, received>>

\* Mutant: an answer that says later counts as one.
SettleBusy ==
  /\ flush.at = "waiting" /\ flush.answer # "none"
  /\ status' = [status EXCEPT ![Current] = IF flush.answer = "refused" THEN "rejected" ELSE "sent"]
  /\ flush' = [at |-> "picking", answer |-> "none", batch |-> flush.batch \ {Current}]
  /\ UNCHANGED <<local, late, received>>

\* The verdict is committed, and the next row is sent.
Settle ==
  /\ flush.at = "waiting" /\ flush.answer \in {"ok", "refused"}
  /\ status' = [status EXCEPT ![Current] = IF flush.answer = "ok" THEN "sent" ELSE "rejected"]
  /\ flush' = [at |-> "picking", answer |-> "none", batch |-> flush.batch \ {Current}]
  /\ UNCHANGED <<local, late, received>>

-----------------------------------------------------------------------------
(* DetectionUploadService.save, and the network before it *)

\* A row of the same event id, with the same content, is answered and not stored again.
Stores(u) == IF received[u] = 0 THEN [received EXCEPT ![u] = 1] ELSE received

\* The transaction commits, or rolls back: the robot is not known or linked to no child, the
\* database is busy.
Handle(u, answer) ==
  IF answer = "ok" THEN received' = Stores(u) ELSE UNCHANGED received

Answers == {"ok", "refused", "busy"}

Serve(answer) ==
  /\ flush.at = "waiting" /\ flush.answer = "none"
  /\ Handle(Current, answer)
  /\ flush' = [flush EXCEPT !.answer = answer]
  /\ UNCHANGED <<local, status, late>>

\* A request nobody waits for any more comes to the backend, or is lost.
ServeLate(u) ==
  /\ u \in late
  /\ late' = late \ {u}
  /\ \E answer \in Answers : Handle(u, answer)
  /\ UNCHANGED <<local, status, flush>>

-----------------------------------------------------------------------------

Next ==
  \/ Photo \/ Keep \/ Unlink \/ Prune \/ Enqueue \/ DetectorCrash
  \/ Select \/ Post \/ GiveUp \/ Settle \/ UploaderCrash
  \/ \E answer \in Answers : Serve(answer)
  \/ \E u \in Uploads : ServeLate(u)

Verdict == Serve("ok") \/ Serve("refused")

\* The uploader runs, and again every two seconds, and no request takes for ever; a backend
\* that is asked again and again gives a verdict in the end, and one of its verdicts arrives.
Spec ==
  /\ Init /\ [][Next]_vars
  /\ WF_vars(Select) /\ WF_vars(GiveUp)
  /\ SF_vars(Post) /\ SF_vars(Verdict) /\ SF_vars(Settle)

-----------------------------------------------------------------------------

\* The outbox keeps its promise although requests are given up, come late or twice, answers
\* are lost and either process dies: see UploadPromise.
Promise ==
  INSTANCE UploadPromise WITH fate <- status, stored <- {u \in Uploads : received[u] > 0}

PromiseSpec == Promise!Spec

\* The backend stores no upload twice, and none as long as one queued earlier is pending: it
\* learns of detections in the order of their photographs, and one that is late or repeated
\* does not overtake.
StoredInOrder ==
  \A u \in Uploads :
    /\ received[u] <= 1
    /\ received[u] > 0 => \A v \in Pending : ~Earlier(v, u)

\* The newest MaxEvents rows have their photographs, wherever save was broken off.  A row
\* beyond them, which history(before) still returns, lacks its photograph from the unlink until
\* the DELETE is committed, and when save is broken off in between, until a later save has come
\* that far: then no row is without.
HistoryShowsPhoto ==
  /\ history \ photos \subseteq Old
  /\ save.at = "queueing" => history \subseteq photos

\* What is queued is sent or refused in the end: no row waits for ever behind others.
PendingSettled == \A u \in Uploads : status[u] = "pending" ~> status[u] # "pending"
=============================================================================
