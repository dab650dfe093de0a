----------------------------- MODULE OutboxProofs -----------------------------
(***************************************************************************)
(* That the outbox stores in order, which rows of the history have their   *)
(* photographs, and that the whole implements UploadPromise, for any       *)
(* number of events, detections, rows of the history and rows of a batch.  *)
(*                                                                         *)
(* The order of the uploads needs three facts that hold together: what is  *)
(* queued lies behind the next one to be queued (QueueInv), what is still  *)
(* to be sent of a batch comes before whatever else is pending (BatchInv), *)
(* so that what has left the robot, stored or late, has nothing pending    *)
(* before it (OrderInv).                                                   *)
(***************************************************************************)
EXTENDS Outbox, FiniteSetTheorems, WellFoundedInduction, TLAPS

-----------------------------------------------------------------------------
(* The order of the rows *)

\* rowid is a total order of the uploads.
LEMMA EarlierIsTotal ==
  /\ \A u \in Uploads : ~Earlier(u, u)
  /\ \A u, v \in Uploads : u # v => Earlier(u, v) \/ Earlier(v, u)
  /\ \A u, v \in Uploads : ~(Earlier(u, v) /\ Earlier(v, u))
  /\ \A u, v, w \in Uploads : Earlier(u, v) /\ Earlier(v, w) => Earlier(u, w)
  BY OutboxAssumption DEF Uploads, Earlier

\* A set of naturals that is not empty has a least element.
LEMMA LeastNatural ==
  ASSUME NEW S \in SUBSET Nat, S # {}
  PROVE  \E n \in S : \A m \in S : n <= m
<1>1. \E n \in S : \A m \in S : <<m, n>> \notin OpToRel(<, Nat)
  <2> DEFINE R == OpToRel(<, Nat)
  <2>1. IsWellFoundedOn(R, Nat)
    BY NatLessThanWellFounded
  <2> HIDE DEF R
  <2>2. \E n \in S : \A m \in S : ~(<<m, n>> \in R)
    BY <2>1, WFMin
  <2>3. QED
    BY <2>2 DEF R
<1>2. PICK n \in S : \A m \in S : <<m, n>> \notin OpToRel(<, Nat)
  BY <1>1
<1>3. OpToRel(<, Nat) = {p \in Nat \X Nat : p[1] < p[2]}
  BY DEF OpToRel
<1>4. ASSUME NEW m \in S, m < n PROVE FALSE
  <2>1. <<m, n>> \in {p \in Nat \X Nat : p[1] < p[2]}
    BY <1>4
  <2>2. QED
    BY <1>2, <1>3, <2>1, Zenon
<1>5. QED
  BY <1>4

\* The row that is sent next exists, and comes before the others of the batch.
LEMMA OldestIsFirst ==
  ASSUME NEW S \in SUBSET Uploads, S # {}
  PROVE  OldestOf(S) \in S /\ \A v \in S \ {OldestOf(S)} : Earlier(OldestOf(S), v)
<1>1. \A u \in S : u = <<u[1], u[2]>> /\ u[1] \in Nat /\ u[2] \in Nat
  BY OutboxAssumption DEF Uploads
<1>2. PICK e \in {u[1] : u \in S} : \A f \in {u[1] : u \in S} : e <= f
  <2>1. {u[1] : u \in S} \in SUBSET Nat /\ {u[1] : u \in S} # {}
    BY <1>1
  <2>2. QED
    BY <2>1, LeastNatural
<1> DEFINE T == {u \in S : u[1] = e}
<1>3. PICK d \in {u[2] : u \in T} : \A f \in {u[2] : u \in T} : d <= f
  <2>1. {u[2] : u \in T} \in SUBSET Nat /\ {u[2] : u \in T} # {}
    BY <1>1, <1>2
  <2>2. QED
    BY <2>1, LeastNatural
<1>4. PICK u \in T : u[2] = d
  BY <1>3
<1>5. \A v \in S \ {u} : Earlier(u, v)
  <2> SUFFICES ASSUME NEW v \in S \ {u} PROVE Earlier(u, v)
    OBVIOUS
  <2>1. e <= v[1] /\ v[1] \in Nat /\ v[2] \in Nat /\ e \in Nat /\ d \in Nat
    BY <1>1, <1>2, <1>4
  <2>2. CASE v[1] = e
    <3>1. d <= v[2]
      BY <1>3, <2>2
    <3>2. v[2] # d
      BY <1>1, <1>4, <2>2
    <3>3. QED
      BY <1>4, <2>1, <2>2, <3>1, <3>2 DEF Earlier
  <2>3. CASE v[1] # e
    BY <1>4, <2>1, <2>3 DEF Earlier
  <2>4. QED
    BY <2>2, <2>3
<1>6. QED
  BY <1>4, <1>5 DEF OldestOf

\* LIMIT cuts the rows off behind a row: nothing it leaves comes before one it takes.
LEMMA FirstIsCut ==
  ASSUME NEW S \in SUBSET Uploads
  PROVE  /\ First(S) \subseteq S
         /\ \A u \in First(S), v \in S \ First(S) : Earlier(u, v)
<1>1. IsFiniteSet(Uploads)
  <2>1. IsFiniteSet(1..Events) /\ IsFiniteSet(1..Detections)
    BY OutboxAssumption, FS_Interval
  <2>2. QED
    BY <2>1, FS_Product, Zenon DEF Uploads
<1>2. SUFFICES ASSUME NEW u \in First(S), NEW v \in S \ First(S), ~Earlier(u, v)
               PROVE  FALSE
  BY DEF First
<1>3. u \in S /\ v \in S /\ u # v /\ Earlier(v, u)
  BY <1>2, EarlierIsTotal DEF First
<1> DEFINE Before(w) == {x \in S : Earlier(x, w)}
<1>4. Before(v) \subseteq Before(u)
  <2> SUFFICES ASSUME NEW x \in S, Earlier(x, v) PROVE Earlier(x, u)
    OBVIOUS
  <2>1. x \in Uploads /\ v \in Uploads /\ u \in Uploads
    BY <1>3
  <2>2. QED
    BY <1>3, <2>1, EarlierIsTotal
<1>5. IsFiniteSet(Before(u)) /\ IsFiniteSet(Before(v))
  BY <1>1, FS_Subset
<1>6. Cardinality(Before(v)) <= Cardinality(Before(u))
  BY <1>4, <1>5, FS_Subset
<1>7. Cardinality(Before(v)) \in Nat /\ Cardinality(Before(u)) \in Nat
  BY <1>5, FS_CardinalityType
<1>8. Cardinality(Before(u)) < Batch /\ ~(Cardinality(Before(v)) < Batch)
  BY <1>2, <1>3 DEF First
<1>9. QED
  BY <1>6, <1>7, <1>8, OutboxAssumption

\* A row that is too old stays so when another one is written.
LEMMA OldStaysOld ==
  ASSUME history \subseteq 1..Events, history' \subseteq 1..Events, history \subseteq history'
  PROVE  Old \subseteq Old'
<1> SUFFICES ASSUME NEW e \in Old PROVE e \in Old'
  OBVIOUS
<1> DEFINE Newer == {f \in history : f > e}
           Newer2 == {f \in history' : f > e}
<1>1. IsFiniteSet(Newer) /\ IsFiniteSet(Newer2)
  <2>1. IsFiniteSet(1..Events)
    BY OutboxAssumption, FS_Interval
  <2>2. QED
    BY <2>1, FS_Subset
<1>2. Cardinality(Newer) <= Cardinality(Newer2)
  BY <1>1, FS_Subset
<1>3. Cardinality(Newer) \in Nat /\ Cardinality(Newer2) \in Nat
  BY <1>1, FS_CardinalityType
<1>4. e \in history /\ Cardinality(Newer) >= MaxEvents
  BY DEF Old
<1>5. QED
  BY <1>2, <1>3, <1>4, OutboxAssumption DEF Old

-----------------------------------------------------------------------------
(* The invariant *)

Typed ==
  /\ save \in [at : {"idle", "photo", "kept", "unlinked", "queueing"},
               event : 0..Events, next : 1..Detections]
  /\ photos \subseteq 1..Events
  /\ status \in [Uploads -> {"unknown", "pending", "sent", "rejected"}]
  /\ flush \in [at : {"idle", "picking", "waiting"}, batch : SUBSET Uploads,
                answer : {"none"} \cup Answers]
  /\ late \subseteq Uploads
  /\ received \in [Uploads -> {0, 1}]

\* The detections that have had their turn.
Passed(u) ==
  \/ u[1] < save.event
  \/ /\ u[1] = save.event /\ save.at \in {"idle", "queueing"}
     /\ save.at = "queueing" => u[2] < save.next

QueueInv ==
  /\ save.at # "idle" => save.event > 0
  /\ \A u \in Uploads : status[u] # "unknown" => Passed(u)

BatchInv ==
  /\ flush.batch \subseteq Pending
  /\ \A u \in flush.batch, v \in Pending \ flush.batch : Earlier(u, v)
  /\ flush.at = "idle" => flush = Idle
  /\ flush.at = "waiting" => flush.batch # {}
  /\ flush.at # "waiting" => flush.answer = "none"

OrderInv ==
  \A u \in Uploads : u \in late \/ received[u] > 0 =>
    status[u] # "unknown" /\ \A v \in Pending : ~Earlier(v, u)

StoredInv ==
  /\ flush.at = "waiting" /\ flush.answer = "ok" => received[Current] > 0
  /\ \A u \in Uploads : status[u] = "sent" => received[u] > 0

HistoryInv ==
  /\ history \subseteq 1..save.event
  /\ save.at = "photo" => save.event \notin history
  /\ HistoryShowsPhoto

IInv == Typed /\ QueueInv /\ BatchInv /\ OrderInv /\ StoredInv /\ HistoryInv

LEMMA Established == Init => IInv
<1> SUFFICES ASSUME Init PROVE IInv
  OBVIOUS
<1>1. Typed
  BY OutboxAssumption DEF Init, Typed, Idle, Answers
<1>2. QueueInv
  BY DEF Init, QueueInv
<1>3. Pending = {}
  BY DEF Init, Pending
<1>4. BatchInv /\ OrderInv /\ StoredInv
  BY <1>3 DEF Init, BatchInv, OrderInv, StoredInv, Idle
<1>5. HistoryInv
  BY DEF Init, HistoryInv, HistoryShowsPhoto, Old
<1>6. QED
  BY <1>1, <1>2, <1>4, <1>5 DEF IInv

\* What is posted is the oldest of all that is pending.
LEMMA CurrentIsOldest ==
  ASSUME IInv, flush.at = "waiting"
  PROVE  /\ Current \in flush.batch /\ Current \in Pending /\ Current \in Uploads
         /\ \A v \in Pending \ {Current} : Earlier(Current, v)
<1>1. flush.batch \in SUBSET Uploads /\ flush.batch # {} /\ flush.batch \subseteq Pending
  BY DEF IInv, Typed, BatchInv
<1>2. Current \in flush.batch /\ \A v \in flush.batch \ {Current} : Earlier(Current, v)
  BY <1>1, OldestIsFirst DEF Current
<1>3. \A v \in Pending \ flush.batch : Earlier(Current, v)
  BY <1>2 DEF IInv, BatchInv
<1>4. QED
  BY <1>1, <1>2, <1>3

-----------------------------------------------------------------------------
(* The steps of EventStore.save *)

\* What does not touch the queue, the sender or the backend leaves their invariants.
LEMMA QueueUntouched ==
  ASSUME IInv, UNCHANGED <<status, sender, received>>
  PROVE  BatchInv' /\ OrderInv' /\ StoredInv'
<1>1. Pending' = Pending /\ Current' = Current
  BY DEF Pending, Current, sender
<1>2. QED
  BY <1>1 DEF IInv, sender, BatchInv, OrderInv, StoredInv

LEMMA PhotoKeeps == IInv /\ Photo => IInv'
<1> SUFFICES ASSUME IInv, Photo PROVE IInv'
  OBVIOUS
<1>1. UNCHANGED <<history, status, sender, received>>
  BY DEF Photo
<1>2. save.event \in 0..Events /\ save.event < Events
  BY DEF Photo, IInv, Typed
<1>3. Typed'
  <2>1. save.event + 1 \in 1..Events /\ 1 \in 1..Detections
    BY <1>2, OutboxAssumption
  <2>2. photos' \subseteq 1..Events
    BY <2>1 DEF Photo, IInv, Typed
  <2>3. QED
    BY <1>1, <2>1, <2>2 DEF Photo, IInv, Typed, sender
<1>4. QueueInv'
  <2> SUFFICES ASSUME NEW u \in Uploads, status[u] # "unknown" PROVE Passed(u)'
    BY <1>1, <1>2 DEF Photo, QueueInv
  <2>1. Passed(u) /\ u[1] \in Nat
    BY DEF IInv, QueueInv, Uploads
  <2>2. QED
    BY <1>2, <2>1 DEF Photo, Passed
<1>5. HistoryInv'
  <2>1. history \subseteq 1..save.event /\ history \ Old \subseteq photos
    BY DEF IInv, HistoryInv, HistoryShowsPhoto
  <2>2. Old' = Old
    BY <1>1 DEF Old
  <2>3. /\ save'.event = save.event + 1 /\ save'.at = "photo"
        /\ photos' = photos \cup {save.event + 1}
    BY DEF Photo
  <2>4. QED
    BY <1>1, <1>2, <2>1, <2>2, <2>3 DEF HistoryInv, HistoryShowsPhoto
<1>6. QED
  BY <1>1, <1>3, <1>4, <1>5, QueueUntouched DEF IInv

\* A step of save that goes on, or is broken off, within its event.
LEMMA SameEvent ==
  ASSUME IInv, UNCHANGED <<status, sender, received>>,
         save.at # "idle", save'.at # "photo", save'.at # "idle" => save.at # "queueing",
         save'.event = save.event, save'.next = save.next,
         save'.at = "queueing" => save.at # "queueing"
  PROVE  QueueInv'
<1>1. ASSUME NEW u \in Uploads, status[u] # "unknown" PROVE Passed(u)'
  <2>1. Passed(u)
    BY <1>1 DEF IInv, QueueInv
  <2>2. CASE save.at = "queueing"
    BY <2>1, <2>2 DEF Passed
  <2>3. CASE save.at # "queueing"
    BY <2>1, <2>3 DEF Passed
  <2>4. QED
    BY <2>2, <2>3
<1>2. save.event > 0
  BY DEF IInv, QueueInv
<1>3. QED
  BY <1>1, <1>2 DEF QueueInv

LEMMA KeepKeeps == IInv /\ Keep => IInv'
<1> SUFFICES ASSUME IInv, Keep PROVE IInv'
  OBVIOUS
<1>1. UNCHANGED <<status, sender, received>>
  BY DEF Keep
<1>2. save \in [at : {"idle", "photo", "kept", "unlinked", "queueing"},
                event : 0..Events, next : 1..Detections]
  BY DEF IInv, Typed
<1>3. save.event \in 1..Events
  BY <1>2, OutboxAssumption DEF Keep, IInv, QueueInv
<1>4. save'.event = save.event /\ save'.next = save.next /\ save'.at \in {"kept", "idle"}
  BY <1>2 DEF Keep
<1>5. Typed'
  BY <1>1, <1>2, <1>3, <1>4 DEF Keep, IInv, Typed, sender
<1>6. QueueInv'
  BY <1>1, <1>4, SameEvent DEF Keep
<1>7. history \subseteq 1..save.event /\ save.event \notin history /\ history \ Old \subseteq photos
  BY DEF Keep, IInv, HistoryInv, HistoryShowsPhoto
<1>8. HistoryInv'
  <2>1. CASE /\ history' = history \cup {save.event}
             /\ photos' = photos \cup {save.event}
    <3>1. history \subseteq 1..Events /\ history' \subseteq 1..Events /\ history \subseteq history'
      <4>1. 1..save.event \subseteq 1..Events
        BY <1>3, OutboxAssumption
      <4>2. QED
        BY <1>3, <1>7, <2>1, <4>1
    <3>2. Old \subseteq Old'
      BY <3>1, OldStaysOld
    <3>3. history' \ Old' \subseteq photos'
      BY <1>7, <2>1, <3>2
    <3>4. history' \subseteq 1..save'.event
      <4>1. save.event \in 1..save.event
        BY <1>3, OutboxAssumption
      <4>2. QED
        BY <1>4, <1>7, <2>1, <4>1
    <3>5. save'.at \notin {"photo", "queueing"}
      BY <1>4
    <3>6. QED
      BY <3>3, <3>4, <3>5 DEF HistoryInv, HistoryShowsPhoto
  <2>2. CASE history' = history /\ photos' = photos \ {save.event}
    <3>1. Old' = Old
      BY <2>2 DEF Old
    <3>2. QED
      BY <1>4, <1>7, <2>2, <3>1 DEF HistoryInv, HistoryShowsPhoto
  <2>3. QED
    BY <2>1, <2>2 DEF Keep
<1>9. QED
  BY <1>1, <1>5, <1>6, <1>8, QueueUntouched DEF IInv

LEMMA UnlinkKeeps == IInv /\ Unlink => IInv'
<1> SUFFICES ASSUME IInv, Unlink PROVE IInv'
  OBVIOUS
<1>1. UNCHANGED <<history, status, sender, received>>
  BY DEF Unlink
<1>2. Typed'
  BY <1>1 DEF Unlink, IInv, Typed, sender
<1>3. save'.at = "unlinked" /\ save'.event = save.event /\ save'.next = save.next
  BY DEF Unlink, IInv, Typed
<1>4. QueueInv'
  BY <1>1, <1>3, SameEvent DEF Unlink
<1>5. HistoryInv'
  <2>1. Old' = Old
    BY <1>1 DEF Old
  <2>2. history \subseteq 1..save.event /\ history \ Old \subseteq photos
    BY DEF IInv, HistoryInv, HistoryShowsPhoto
  <2>3. QED
    BY <1>1, <1>3, <2>1, <2>2 DEF Unlink, HistoryInv, HistoryShowsPhoto
<1>6. QED
  BY <1>1, <1>2, <1>4, <1>5, QueueUntouched DEF IInv

LEMMA PruneKeeps == IInv /\ Prune => IInv'
<1> SUFFICES ASSUME IInv, Prune PROVE IInv'
  OBVIOUS
<1>1. UNCHANGED <<photos, status, sender, received>> /\ history' = history \ Old
  BY DEF Prune
<1>2. Typed'
  BY <1>1 DEF Prune, IInv, Typed, sender
<1>3. /\ save'.at = "queueing" /\ save'.event = save.event /\ save'.next = save.next
      /\ save.at = "unlinked"
  BY DEF Prune, IInv, Typed
<1>4. QueueInv'
  BY <1>1, <1>3, SameEvent
<1>5. HistoryInv'
  <2>1. history \subseteq 1..save.event /\ history \ Old \subseteq photos
    BY DEF IInv, HistoryInv, HistoryShowsPhoto
  <2>2. QED
    BY <1>1, <1>3, <2>1 DEF HistoryInv, HistoryShowsPhoto
<1>6. QED
  BY <1>1, <1>2, <1>4, <1>5, QueueUntouched DEF IInv

LEMMA DetectorCrashKeeps == IInv /\ DetectorCrash => IInv'
<1> SUFFICES ASSUME IInv, DetectorCrash PROVE IInv'
  OBVIOUS
<1>1. UNCHANGED <<photos, history, status, sender, received>>
  BY DEF DetectorCrash
<1>2. Typed'
  BY <1>1 DEF DetectorCrash, IInv, Typed, sender
<1>3. save'.at = "idle" /\ save'.event = save.event /\ save'.next = save.next
  BY DEF DetectorCrash, IInv, Typed
<1>4. QueueInv'
  BY <1>1, <1>3, SameEvent DEF DetectorCrash
<1>5. HistoryInv'
  <2>1. Old' = Old
    BY <1>1 DEF Old
  <2>2. QED
    BY <1>1, <1>3, <2>1 DEF IInv, HistoryInv, HistoryShowsPhoto
<1>6. QED
  BY <1>1, <1>2, <1>4, <1>5, QueueUntouched DEF IInv

LEMMA EnqueueKeeps == IInv /\ Enqueue => IInv'
<1> SUFFICES ASSUME IInv, Enqueue PROVE IInv'
  OBVIOUS
<1> DEFINE u == <<save.event, save.next>>
<1>1. UNCHANGED <<photos, history, sender, received>> /\ save.at = "queueing"
  BY DEF Enqueue
<1>2. save \in [at : {"idle", "photo", "kept", "unlinked", "queueing"},
                event : 0..Events, next : 1..Detections]
  BY DEF IInv, Typed
<1>3. u \in Uploads
  <2>1. save.event \in 1..Events
    BY <1>1, <1>2, OutboxAssumption DEF IInv, QueueInv
  <2>2. QED
    BY <1>2, <2>1 DEF Uploads
<1>4. HistoryInv'
  <2>1. save'.event = save.event /\ save'.at # "photo"
    BY <1>1, <1>2 DEF Enqueue
  <2>2. Old' = Old
    BY <1>1 DEF Old
  <2>3. QED
    BY <1>1, <2>1, <2>2 DEF IInv, HistoryInv, HistoryShowsPhoto
<1>5. CASE save' = [save EXCEPT !.at = "idle"] /\ UNCHANGED status
  <2>1. Typed'
    BY <1>1, <1>5 DEF IInv, Typed, sender
  <2>2. save'.at = "idle" /\ save'.event = save.event /\ save'.next = save.next
    BY <1>2, <1>5
  <2>3. QueueInv'
    BY <1>1, <1>5, <2>2, SameEvent
  <2>4. QED
    BY <1>1, <1>4, <1>5, <2>1, <2>3, QueueUntouched DEF IInv
<1>6. CASE /\ status' = [status EXCEPT ![u] = "pending"]
           /\ save' = IF save.next = Detections THEN [save EXCEPT !.at = "idle"]
                      ELSE [save EXCEPT !.next = @ + 1]
  <2>1. \A v \in Uploads : status[v] # "unknown" => v # u /\ Earlier(v, u)
    <3> SUFFICES ASSUME NEW v \in Uploads, status[v] # "unknown"
                 PROVE  v # u /\ Earlier(v, u)
      OBVIOUS
    <3>1. v[1] \in Nat /\ v[2] \in Nat /\ save.event \in Nat /\ save.next \in Nat
      BY <1>2, OutboxAssumption DEF Uploads
    <3>2. v[1] < save.event \/ (v[1] = save.event /\ v[2] < save.next)
      BY <1>1 DEF IInv, QueueInv, Passed
    <3>3. QED
      BY <3>1, <3>2 DEF Earlier
  <2>2. \A v \in Uploads : status'[v] = IF v = u THEN "pending" ELSE status[v]
    BY <1>6 DEF IInv, Typed
  <2>3. Pending' = Pending \cup {u}
    BY <1>3, <2>2 DEF Pending
  <2>4. Typed'
    <3>1. save' \in [at : {"idle", "photo", "kept", "unlinked", "queueing"},
                     event : 0..Events, next : 1..Detections]
      <4>1. save.next # Detections => save.next + 1 \in 1..Detections
        BY <1>2, OutboxAssumption
      <4>2. QED
        BY <1>2, <1>6, <4>1
    <3>2. status' \in [Uploads -> {"unknown", "pending", "sent", "rejected"}]
      BY <1>6 DEF IInv, Typed
    <3>3. QED
      BY <1>1, <3>1, <3>2 DEF IInv, Typed, sender
  <2>5. QueueInv'
    <3>1. save'.event = save.event /\ save.event > 0
      BY <1>1, <1>2, <1>6 DEF IInv, QueueInv
    <3>2. ASSUME NEW v \in Uploads, status'[v] # "unknown" PROVE Passed(v)'
      <4>1. v[1] \in Nat /\ v[2] \in Nat /\ save.event \in Nat /\ save.next \in Nat
        BY <1>2, OutboxAssumption DEF Uploads
      <4>2. v[1] < save.event \/ (v[1] = save.event /\ v[2] <= save.next)
        BY <2>1, <2>2, <3>2, <4>1 DEF Earlier
      <4>3. CASE save.next = Detections
        BY <1>2, <1>6, <4>1, <4>2, <4>3 DEF Passed
      <4>4. CASE save.next # Detections
        <5>1. save'.next = save.next + 1 /\ save'.at = "queueing"
          BY <1>1, <1>2, <1>6, <4>4
        <5>2. QED
          BY <3>1, <4>1, <4>2, <5>1 DEF Passed
      <4>5. QED
        BY <4>3, <4>4
    <3>3. QED
      BY <3>1, <3>2 DEF QueueInv
  <2>6. BatchInv'
    <3>1. \A b \in flush.batch : b \in Pending
      BY DEF IInv, BatchInv
    <3>2. \A b \in flush.batch : Earlier(b, u)
      BY <2>1, <3>1 DEF Pending
    <3>3. flush' = flush
      BY <1>1 DEF sender
    <3>4. QED
      BY <2>3, <3>1, <3>2, <3>3 DEF IInv, BatchInv
  <2>7. OrderInv'
    <3> SUFFICES ASSUME NEW w \in Uploads, w \in late \/ received[w] > 0
                 PROVE  status'[w] # "unknown" /\ \A v \in Pending' : ~Earlier(v, w)
      BY <1>1 DEF OrderInv, sender
    <3>1. status[w] # "unknown" /\ \A v \in Pending : ~Earlier(v, w)
      BY DEF IInv, OrderInv
    <3>2. ~Earlier(u, w)
      BY <1>3, <2>1, <3>1, EarlierIsTotal
    <3>3. QED
      BY <2>2, <2>3, <3>1, <3>2
  <2>8. StoredInv'
    <3>1. Current' = Current
      BY <1>1 DEF Current, sender
    <3>2. QED
      BY <1>1, <2>2, <3>1 DEF IInv, StoredInv, sender
  <2>9. QED
    BY <1>4, <2>4, <2>5, <2>6, <2>7, <2>8 DEF IInv
<1>7. QED
  BY <1>5, <1>6 DEF Enqueue

-----------------------------------------------------------------------------
(* The steps of flush_once *)

\* What the uploader and the backend do leaves the files and what is queued.
LEMMA SaveUntouched ==
  ASSUME IInv, UNCHANGED local,
         \A u \in Uploads : status'[u] # "unknown" => status[u] # "unknown"
  PROVE  QueueInv' /\ HistoryInv'
<1>1. QueueInv'
  BY DEF local, IInv, QueueInv, Passed
<1>2. Old' = Old
  BY DEF Old, local
<1>3. QED
  BY <1>1, <1>2 DEF local, IInv, HistoryInv, HistoryShowsPhoto

LEMMA SelectKeeps == IInv /\ Select => IInv'
<1> SUFFICES ASSUME IInv, Select PROVE IInv'
  OBVIOUS
<1>1. UNCHANGED <<local, status, late, received>>
  BY DEF Select
<1>2. flush' = [at |-> "picking", answer |-> "none", batch |-> First(Pending)]
  BY DEF Select
<1>3. /\ First(Pending) \subseteq Pending
      /\ \A u \in First(Pending), v \in Pending \ First(Pending) : Earlier(u, v)
  BY FirstIsCut DEF Pending
<1>4. Pending' = Pending /\ Pending \subseteq Uploads
  BY <1>1 DEF Pending
<1>5. Typed'
  BY <1>1, <1>2, <1>3, <1>4 DEF IInv, Typed, local
<1>6. BatchInv'
  BY <1>2, <1>3, <1>4 DEF BatchInv
<1>7. OrderInv' /\ StoredInv'
  BY <1>1, <1>2, <1>4 DEF IInv, OrderInv, StoredInv
<1>8. QED
  BY <1>1, <1>5, <1>6, <1>7, SaveUntouched DEF IInv

LEMMA PostKeeps == IInv /\ Post => IInv'
<1> SUFFICES ASSUME IInv, Post PROVE IInv'
  OBVIOUS
<1>1. UNCHANGED <<local, status, late, received>>
  BY DEF Post
<1>2. flush.answer = "none" /\ Pending' = Pending
  BY <1>1 DEF Post, Pending, IInv, BatchInv
<1>3. flush' = Idle \/ (flush.batch # {} /\ flush' = [flush EXCEPT !.at = "waiting"])
  BY DEF Post
<1>4. flush'.answer = "none"
  BY <1>2, <1>3 DEF Idle, IInv, Typed
<1>5. Typed'
  BY <1>1, <1>3 DEF IInv, Typed, local, Idle
<1>6. BatchInv'
  BY <1>2, <1>3 DEF IInv, Typed, BatchInv, Idle
<1>7. OrderInv' /\ StoredInv'
  BY <1>1, <1>2, <1>4 DEF IInv, OrderInv, StoredInv
<1>8. QED
  BY <1>1, <1>5, <1>6, <1>7, SaveUntouched DEF IInv

\* A request whose answer nobody waits for may have been of the row that is posted only.
LEMMA TurnEnds ==
  ASSUME IInv, UNCHANGED <<local, status, received>>, flush' = Idle,
         \/ late' = late
         \/ flush.at = "waiting" /\ late' = late \cup {Current}
  PROVE  IInv'
<1>1. Pending' = Pending
  BY DEF Pending
<1>2. Typed'
  BY CurrentIsOldest DEF IInv, Typed, local, Idle
<1>3. BatchInv'
  BY DEF BatchInv, Idle
<1>4. OrderInv'
  <2>1. CASE late' = late
    BY <1>1, <2>1 DEF IInv, OrderInv
  <2>2. CASE flush.at = "waiting" /\ late' = late \cup {Current}
    <3>1. status[Current] # "unknown" /\ \A v \in Pending : ~Earlier(v, Current)
      <4>1. Current \in Pending /\ \A v \in Pending \ {Current} : Earlier(Current, v)
        BY <2>2, CurrentIsOldest
      <4>2. Pending \subseteq Uploads
        BY DEF Pending
      <4>3. QED
        BY <4>1, <4>2, EarlierIsTotal DEF Pending
    <3>2. QED
      BY <1>1, <2>2, <3>1 DEF IInv, OrderInv
  <2>3. QED
    BY <2>1, <2>2
<1>5. StoredInv'
  BY DEF IInv, StoredInv, Idle
<1>6. QED
  BY <1>2, <1>3, <1>4, <1>5, SaveUntouched DEF IInv

LEMMA GiveUpKeeps == IInv /\ (GiveUp \/ UploaderCrash) => IInv'
  BY TurnEnds DEF GiveUp, UploaderCrash

LEMMA SettleKeeps == IInv /\ Settle => IInv'
<1> SUFFICES ASSUME IInv, Settle PROVE IInv'
  OBVIOUS
<1>1. UNCHANGED <<local, late, received>> /\ flush.at = "waiting"
  BY DEF Settle
<1>2. /\ Current \in flush.batch /\ Current \in Pending /\ Current \in Uploads
      /\ \A v \in Pending \ {Current} : Earlier(Current, v)
  BY <1>1, CurrentIsOldest
<1>3. PICK fate \in {"sent", "rejected"} :
        /\ status' = [status EXCEPT ![Current] = fate]
        /\ fate = "sent" => flush.answer = "ok"
  BY DEF Settle
<1>4. flush' = [at |-> "picking", answer |-> "none", batch |-> flush.batch \ {Current}]
  BY DEF Settle
<1>5. \A u \in Uploads : status'[u] = IF u = Current THEN fate ELSE status[u]
  BY <1>2, <1>3 DEF IInv, Typed
<1>6. Pending' = Pending \ {Current}
  BY <1>5 DEF Pending
<1>7. Typed'
  BY <1>1, <1>3, <1>4 DEF IInv, Typed, local
<1>8. BatchInv'
  BY <1>4, <1>6 DEF IInv, BatchInv
<1>9. OrderInv'
  BY <1>1, <1>5, <1>6 DEF IInv, OrderInv
<1>10. StoredInv'
  BY <1>1, <1>3, <1>4, <1>5 DEF IInv, StoredInv
<1>11. \A u \in Uploads : status'[u] # "unknown" => status[u] # "unknown"
  BY <1>2, <1>5 DEF Pending
<1>12. QED
  BY <1>1, <1>7, <1>8, <1>9, <1>10, <1>11, SaveUntouched DEF IInv

-----------------------------------------------------------------------------
(* The steps of the backend *)

\* The backend stores an upload that is queued and has nothing pending before it.
LEMMA HandleKeeps ==
  ASSUME IInv, UNCHANGED <<local, status>>, NEW u \in Uploads, NEW answer \in Answers,
         Handle(u, answer), status[u] # "unknown", \A v \in Pending : ~Earlier(v, u)
  PROVE  /\ received' \in [Uploads -> {0, 1}]
         /\ \A w \in Uploads : received[w] > 0 => received'[w] > 0
         /\ \A w \in Uploads : received'[w] > 0 =>
              status[w] # "unknown" /\ \A v \in Pending : ~Earlier(v, w)
         /\ answer = "ok" => received'[u] > 0
<1>1. received \in [Uploads -> {0, 1}]
  BY DEF IInv, Typed
<1>2. received' = received \/ received' = [received EXCEPT ![u] = 1]
  BY DEF Handle, Stores
<1>3. \A w \in Uploads : received'[w] > 0 => w = u \/ received[w] > 0
  BY <1>1, <1>2
<1>4. answer = "ok" => received'[u] > 0
  BY <1>1 DEF Handle, Stores
<1>5. received' \in [Uploads -> {0, 1}] /\ \A w \in Uploads : received[w] > 0 => received'[w] > 0
  BY <1>1, <1>2
<1>6. QED
  BY <1>3, <1>4, <1>5 DEF IInv, OrderInv

LEMMA ServeKeeps ==
  ASSUME IInv, NEW answer \in Answers, Serve(answer)
  PROVE  IInv'
<1>1. UNCHANGED <<local, status, late>> /\ flush.at = "waiting" /\ flush.answer = "none"
  BY DEF Serve
<1>2. /\ Current \in flush.batch /\ Current \in Pending /\ Current \in Uploads
      /\ \A v \in Pending \ {Current} : Earlier(Current, v)
  BY <1>1, CurrentIsOldest
<1>3. status[Current] # "unknown" /\ \A v \in Pending : ~Earlier(v, Current)
  <2>1. Pending \subseteq Uploads
    BY DEF Pending
  <2>2. QED
    BY <1>2, <2>1, EarlierIsTotal DEF Pending
<1>4. flush' = [flush EXCEPT !.answer = answer] /\ Handle(Current, answer)
  BY DEF Serve
<1>5. /\ received' \in [Uploads -> {0, 1}]
      /\ \A w \in Uploads : received[w] > 0 => received'[w] > 0
      /\ \A w \in Uploads : received'[w] > 0 =>
           status[w] # "unknown" /\ \A v \in Pending : ~Earlier(v, w)
      /\ answer = "ok" => received'[Current] > 0
  BY <1>1, <1>2, <1>3, <1>4, HandleKeeps
<1>6. /\ flush'.at = flush.at /\ flush'.batch = flush.batch /\ flush'.answer = answer
      /\ flush' \in [at : {"idle", "picking", "waiting"}, batch : SUBSET Uploads,
                     answer : {"none"} \cup Answers]
  BY <1>4 DEF IInv, Typed
<1>7. Pending' = Pending /\ Current' = Current
  BY <1>1, <1>6 DEF Pending, Current
<1>8. Typed'
  BY <1>1, <1>5, <1>6 DEF IInv, Typed, local
<1>9. BatchInv'
  BY <1>1, <1>6, <1>7 DEF IInv, BatchInv
<1>10. OrderInv'
  BY <1>1, <1>5, <1>7 DEF IInv, OrderInv
<1>11. StoredInv'
  BY <1>1, <1>5, <1>6, <1>7 DEF IInv, StoredInv
<1>12. QED
  BY <1>1, <1>8, <1>9, <1>10, <1>11, SaveUntouched DEF IInv

LEMMA ServeLateKeeps ==
  ASSUME IInv, NEW u \in Uploads, ServeLate(u)
  PROVE  IInv'
<1>1. UNCHANGED <<local, status, flush>> /\ u \in late /\ late' = late \ {u}
  BY DEF ServeLate
<1>2. PICK answer \in Answers : Handle(u, answer)
  BY DEF ServeLate
<1>3. status[u] # "unknown" /\ \A v \in Pending : ~Earlier(v, u)
  BY <1>1 DEF IInv, OrderInv
<1>4. /\ received' \in [Uploads -> {0, 1}]
      /\ \A w \in Uploads : received[w] > 0 => received'[w] > 0
      /\ \A w \in Uploads : received'[w] > 0 =>
           status[w] # "unknown" /\ \A v \in Pending : ~Earlier(v, w)
  BY <1>1, <1>2, <1>3, HandleKeeps
<1>5. Pending' = Pending /\ Current' = Current
  BY <1>1 DEF Pending, Current
<1>6. Typed'
  BY <1>1, <1>4 DEF IInv, Typed, local
<1>7. BatchInv'
  BY <1>1, <1>5 DEF IInv, BatchInv
<1>8. OrderInv'
  BY <1>1, <1>4, <1>5 DEF IInv, OrderInv
<1>9. StoredInv'
  <2>1. flush.at = "waiting" => Current \in Uploads
    BY CurrentIsOldest
  <2>2. QED
    BY <1>1, <1>4, <1>5, <2>1 DEF IInv, StoredInv
<1>10. QED
  BY <1>1, <1>6, <1>7, <1>8, <1>9, SaveUntouched DEF IInv

-----------------------------------------------------------------------------
(* The theorems *)

LEMMA SpecIInv == Spec => []IInv
<1>1. ASSUME IInv, [Next]_vars PROVE IInv'
  <2>1. CASE UNCHANGED vars
    <3>1. UNCHANGED <<status, sender, received>> /\ UNCHANGED local
      BY <2>1 DEF vars
    <3>2. Typed' /\ QueueInv' /\ HistoryInv'
      BY <1>1, <3>1, SaveUntouched DEF IInv, Typed, local, sender
    <3>3. QED
      BY <1>1, <3>1, <3>2, QueueUntouched DEF IInv
  <2>2. CASE Photo \/ Keep \/ Unlink \/ Prune \/ Enqueue \/ DetectorCrash
    BY <1>1, <2>2, PhotoKeeps, KeepKeeps, UnlinkKeeps, PruneKeeps, EnqueueKeeps,
       DetectorCrashKeeps
  <2>3. CASE Select \/ Post \/ GiveUp \/ Settle \/ UploaderCrash
    BY <1>1, <2>3, SelectKeeps, PostKeeps, GiveUpKeeps, SettleKeeps
  <2>4. CASE \E answer \in Answers : Serve(answer)
    BY <1>1, <2>4, ServeKeeps
  <2>5. CASE \E u \in Uploads : ServeLate(u)
    BY <1>1, <2>5, ServeLateKeeps
  <2>6. QED
    BY <1>1, <2>1, <2>2, <2>3, <2>4, <2>5 DEF Next
<1>2. QED
  BY <1>1, Established, PTL DEF Spec

\* DetectionUploadService stores each upload once, and while one queued before it waits for
\* its verdict it stores none: repeats and late requests keep the order of the photographs.
THEOREM InOrder == Spec => []StoredInOrder
<1>1. IInv => StoredInOrder
  BY DEF IInv, Typed, OrderInv, StoredInOrder
<1>2. QED
  BY <1>1, SpecIInv, PTL

\* EventStore.save may be broken off anywhere: the newest MaxEvents rows have their photographs.
\* Only a row beyond them, which save is deleting or was when it was broken off, may be without,
\* and none is any more when a save has come to its end.
THEOREM PhotosShown == Spec => []HistoryShowsPhoto
<1>1. IInv => HistoryShowsPhoto
  BY DEF IInv, HistoryInv
<1>2. QED
  BY <1>1, SpecIInv, PTL

\* Queue, uploader, network and backend together keep the promise of each upload: it stays
\* queued until the backend has answered, is stored once, and what is marked sent is stored.
THEOREM ImplementsPromise == Spec => PromiseSpec
<1> DEFINE stored == {u \in Uploads : received[u] > 0}
<1>1. Init => Promise!Init
  BY DEF Init, Promise!Init
<1>2. IInv /\ [Next]_vars => [Promise!Next]_<<status, stored>>
  <2> SUFFICES ASSUME IInv, Next, ~UNCHANGED <<status, stored>> PROVE Promise!Next
    BY DEF vars
  <2>1. CASE Photo \/ Keep \/ Unlink \/ Prune \/ DetectorCrash \/ Select \/ Post \/ GiveUp
             \/ UploaderCrash
    BY <2>1 DEF Photo, Keep, Unlink, Prune, DetectorCrash, Select, Post, GiveUp, UploaderCrash
  <2>2. CASE Enqueue
    <3> DEFINE u == <<save.event, save.next>>
    <3>1. received' = received
      BY <2>2 DEF Enqueue
    <3>2. status' = [status EXCEPT ![u] = "pending"]
      BY <2>2, <3>1 DEF Enqueue
    <3>3. u \in Uploads /\ save.event \in Nat /\ save.next \in Nat
      BY <2>2, OutboxAssumption DEF Enqueue, IInv, QueueInv, Typed, Uploads
    <3>4. status[u] = "unknown"
      BY <2>2, <3>3 DEF Enqueue, IInv, QueueInv, Passed
    <3>5. Promise!Queue(u)
      BY <3>1, <3>2, <3>4 DEF Promise!Queue
    <3>6. QED
      BY <3>3, <3>5 DEF Promise!Next
  <2>3. CASE Settle
    <3>1. received' = received /\ flush.at = "waiting"
      BY <2>3 DEF Settle
    <3>2. Current \in Uploads /\ status[Current] = "pending"
      BY <3>1, CurrentIsOldest DEF Pending
    <3>3. CASE flush.answer = "ok"
      <4>1. status' = [status EXCEPT ![Current] = "sent"] /\ received[Current] > 0
        BY <2>3, <3>1, <3>3 DEF Settle, IInv, StoredInv
      <4>2. Promise!Send(Current)
        BY <3>1, <3>2, <4>1 DEF Promise!Send
      <4>3. QED
        BY <3>2, <4>2 DEF Promise!Next
    <3>4. CASE flush.answer # "ok"
      <4>1. status' = [status EXCEPT ![Current] = "rejected"]
        BY <2>3, <3>4 DEF Settle
      <4>2. Promise!Reject(Current)
        BY <3>1, <3>2, <4>1 DEF Promise!Reject
      <4>3. QED
        BY <3>2, <4>2 DEF Promise!Next
    <3>5. QED
      BY <3>3, <3>4
  <2>4. ASSUME NEW u \in Uploads, NEW answer \in Answers, Handle(u, answer), status' = status,
               status[u] # "unknown"
        PROVE  Promise!Next
    <3>1. received \in [Uploads -> {0, 1}]
      BY DEF IInv, Typed
    <3>2. received[u] = 0 /\ received' = [received EXCEPT ![u] = 1]
      BY <2>4 DEF Handle, Stores
    <3>3. stored' = stored \cup {u} /\ u \notin stored
      BY <3>1, <3>2
    <3>4. status[u] \in {"pending", "rejected"}
      BY <2>4, <3>2 DEF IInv, Typed, StoredInv
    <3>5. Promise!Store(u)
      BY <2>4, <3>3, <3>4 DEF Promise!Store
    <3>6. QED
      BY <3>5 DEF Promise!Next
  <2>5. ASSUME NEW answer \in Answers, Serve(answer) PROVE Promise!Next
    <3>1. Current \in Uploads /\ status[Current] # "unknown"
      BY <2>5, CurrentIsOldest DEF Serve, Pending
    <3>2. QED
      BY <2>4, <2>5, <3>1 DEF Serve
  <2>6. ASSUME NEW u \in Uploads, ServeLate(u) PROVE Promise!Next
    <3>1. status[u] # "unknown"
      BY <2>6 DEF ServeLate, IInv, OrderInv
    <3>2. QED
      BY <2>4, <2>6, <3>1 DEF ServeLate
  <2>7. QED
    BY <2>1, <2>2, <2>3, <2>5, <2>6 DEF Next
<1>3. QED
  BY <1>1, <1>2, SpecIInv, PTL DEF Spec, PromiseSpec, Promise!Spec
=============================================================================
