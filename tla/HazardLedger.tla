----------------------------- MODULE HazardLedger -----------------------------
(***************************************************************************)
(* The backend's hazards: HazardService opens and refreshes them from      *)
(* photographs, treatments and acknowledgements close them, retireUnseen   *)
(* closes what the robot no longer sees.                                   *)
(*                                                                         *)
(* photo      the photographs taken, each of one detection event           *)
(* filed      detection_events: the hazard a stored event was credited to, *)
(*            NoHazard if it was credited to none                          *)
(* hazard     the row of hazards opened by an event (source_event_id); its *)
(*            device, kind and instance are those of the photograph        *)
(* treatment  requests about a hazard and their delivery; LOADED is one    *)
(*            whose transaction has read the hazard and not the lock yet,  *)
(*            SENT stands for SENT, DELIVERED and UNKNOWN; at is sent_at   *)
(*            and, once there is a result, completed_at                    *)
(* lastSeen   DeviceMessageService.lastSeen, of all devices                *)
(* retiring   per device, what its report handler found unseen too long    *)
(*            and takes the lock for                                       *)
(* linked     the child a device works for                                 *)
(* away       history: the report since which a hazard has been out of     *)
(*            sight, Never before its first one                            *)
(* overdue    history: the hazards out of sight for Absent when the last   *)
(*            live report of their device came                             *)
(*                                                                         *)
(* Every transaction takes the device's advisory lock and holds it to its  *)
(* end, so what it does under the lock is one action; what it reads before *)
(* the lock is an action of its own.  Time is a clock of MaxTime units.    *)
(***************************************************************************)
EXTENDS Integers, FiniteSets

CONSTANTS
  Devices, Children,
  SwallowKinds, \* object_names of type SWALLOW
  LivingKinds,  \* object_names of type LIVING
  Instances,    \* objects the tracker knows, by their object_instance_id
  KindOf,       \* their kinds
  NoInstance,   \* an upload without object_instance_id
  Photos,       \* events (bound)
  Treatments,   \* treatment requests (bound)
  None,         \* no photograph, row or request
  NoHazard,     \* a stored event without hazard_id
  MaxTime,      \* end of the clock (bound)
  Absent,       \* ABSENT_MILLIS
  Grace,        \* FAILURE_GRACE_SECONDS
  Gap,          \* LIVING_REDETECTION_GAP
  StartupResets \* the values deni.demo.reset-on-startup has at a start

Never == -1
Kinds == SwallowKinds \cup LivingKinds
Time == 0..MaxTime

ASSUME LedgerAssumption ==
  /\ NoInstance \notin Instances
  /\ KindOf \in [Instances -> Kinds]
  /\ None \notin Photos /\ NoHazard \notin Photos \cup {None}
  /\ MaxTime \in Nat /\ Absent \in Nat \ {0} /\ Grace \in Nat \ {0} /\ Gap \in Nat
  /\ SwallowKinds \cap LivingKinds = {}
  /\ StartupResets \subseteq BOOLEAN

VARIABLES now, linked, photo, filed, hazard, treatment, lastSeen, retiring,
          away, overdue

rows == <<hazard, treatment>>
reports == <<lastSeen, retiring, away, overdue>>
uploads == <<photo, filed>>
vars == <<now, linked, uploads, rows, reports>>

Photo == [device: Devices, kind: Kinds, instance: Instances \cup {NoInstance}, taken: Time]
Hazard == [status: {"ACTIVE", "RESOLVED"}, child: Children, detected: Time, updated: Time,
           acknowledged: BOOLEAN]
Treatment == [hazard: Photos, kind: {"DIRECT_REMOVAL_CHECK", "RELOCATE"}, at: Time \cup {Never},
              status: {"LOADED", "QUEUED", "SENT", "SUCCEEDED", "FAILED", "EXPIRED"}]

ASSUME NoneAssumption == None \notin Hazard

TypeOK ==
  /\ now \in Time
  /\ linked \in [Devices -> Children]
  /\ photo \in [Photos -> Photo \cup {None}]
  /\ filed \in [Photos -> Photos \cup {None, NoHazard}]
  /\ hazard \in [Photos -> Hazard \cup {None}]
  /\ treatment \in [Treatments -> Treatment \cup {None}]
  /\ lastSeen \in [Photos -> Time \cup {Never}]
  /\ retiring \in [Devices -> SUBSET Photos]
  /\ away \in [Photos -> Time \cup {Never}]
  /\ overdue \subseteq Photos

Init ==
  /\ now = 0
  /\ linked \in [Devices -> Children]
  /\ photo = [p \in Photos |-> None]
  /\ filed = [p \in Photos |-> None]
  /\ hazard = [h \in Photos |-> None]
  /\ treatment = [t \in Treatments |-> None]
  /\ lastSeen = [h \in Photos |-> Never]
  /\ retiring = [d \in Devices |-> {}]
  /\ away = [h \in Photos |-> Never]
  /\ overdue = {}

-----------------------------------------------------------------------------
Rows == {h \in Photos : hazard[h] # None}
ActiveRows == {h \in Rows : hazard[h].status = "ACTIVE"}
ActiveOn(d) == {h \in ActiveRows : photo[h].device = d}

TreatmentsOf(h) == {t \in Treatments : treatment[t] # None /\ treatment[t].hazard = h}
Open(t) == treatment[t].status \in {"QUEUED", "SENT"}

\* A treatment of the hazard succeeded at the given time or later.
TreatedSince(h, time) ==
  \E t \in TreatmentsOf(h) : treatment[t].status = "SUCCEEDED" /\ treatment[t].at >= time

\* TreatmentHistory.relocated: ACTIVE in storage, handled for the parents.
Relocated(h) ==
  /\ h \in ActiveRows
  /\ \E t \in TreatmentsOf(h) :
       /\ treatment[t].kind = "RELOCATE" /\ treatment[t].status = "SUCCEEDED"
       /\ treatment[t].at >= hazard[h].detected

\* An open treatment, or one that failed a moment ago, keeps its hazard.
Protected(h) ==
  \E t \in TreatmentsOf(h) :
    \/ Open(t)
    \/ treatment[t].status = "FAILED" /\ treatment[t].at > now - Grace

-----------------------------------------------------------------------------
(* Photographs *)

Capture(p, d, i, instance) ==
  /\ photo[p] = None
  /\ photo' = [photo EXCEPT ![p] = [device |-> d, kind |-> KindOf[i], instance |-> instance,
                                    taken |-> now]]
  /\ UNCHANGED <<now, linked, filed, rows, reports>>

\* The rows a photograph may be about: an unidentified one is about any of its kind.
Alike(p) ==
  {h \in Rows :
     /\ photo[h].device = photo[p].device
     /\ photo[h].kind = photo[p].kind
     /\ hazard[h].child = linked[photo[p].device]
     /\ photo[p].instance \in {NoInstance, photo[h].instance}}

\* Mutant: only closed rows count as handled, and a relocated one stays active.
HandledAfterClosed(p) ==
  {h \in Alike(p) : hazard[h].status = "RESOLVED" /\ hazard[h].updated >= photo[p].taken}

\* TreatmentHistory.handledAfter
HandledAfter(p) ==
  {h \in Alike(p) :
     \/ hazard[h].status = "RESOLVED" /\ hazard[h].updated >= photo[p].taken
     \/ TreatedSince(h, photo[p].taken)}

\* Mutant: a photograph of a relocated object does not find its row.
SameObjectUnlessRelocated(p) == {h \in Alike(p) \cap ActiveRows : ~Relocated(h)}

SameObject(p) == Alike(p) \cap ActiveRows
RecentlyAcknowledged(p) ==
  {h \in Alike(p) \ ActiveRows : hazard[h].acknowledged /\ hazard[h].updated >= now - Gap}

\* ORDER BY updated_at DESC LIMIT 1, ORDER BY detected_at DESC LIMIT 1
LastUpdated(S) == {h \in S : \A g \in S : hazard[g].updated <= hazard[h].updated}
LastDetected(S) == {h \in S : \A g \in S : hazard[g].detected <= hazard[h].detected}

\* Mutant: refreshFromDetection leaves detected_at.
RefreshKeepsTime(h, p) == hazard' = [hazard EXCEPT ![h].updated = now]

Refresh(h, p) ==
  hazard' = IF photo[p].taken > hazard[h].detected
            THEN [hazard EXCEPT ![h].detected = photo[p].taken, ![h].updated = now]
            ELSE hazard

OpenHazard(p) ==
  hazard' = [hazard EXCEPT ![p] =
               [status |-> "ACTIVE", child |-> linked[photo[p].device], detected |-> photo[p].taken,
                updated |-> now, acknowledged |-> FALSE]]

\* recordDetection, and the id it returns
RecordDetection(p) ==
  \/ \E h \in LastUpdated(HandledAfter(p)) :
       /\ filed' = [filed EXCEPT ![p] = h]
       /\ UNCHANGED hazard
  \/ /\ HandledAfter(p) = {}
     /\ \/ \E h \in LastDetected(SameObject(p)) :
             /\ filed' = [filed EXCEPT ![p] = h]
             /\ Refresh(h, p)
        \/ /\ SameObject(p) = {}
           /\ photo[p].kind \in LivingKinds
           /\ \E h \in LastUpdated(RecentlyAcknowledged(p)) :
                /\ filed' = [filed EXCEPT ![p] = h]
                /\ hazard' = [hazard EXCEPT ![h].updated = now]
        \/ /\ SameObject(p) = {}
           /\ photo[p].kind \in LivingKinds => RecentlyAcknowledged(p) = {}
           /\ filed' = [filed EXCEPT ![p] = p]
           /\ OpenHazard(p)

\* save, late and, when its answer is lost, repeated; a stored event changes nothing.
Upload(p) ==
  /\ photo[p] # None
  /\ filed[p] = None
  /\ RecordDetection(p)
  /\ UNCHANGED <<now, linked, photo, treatment, reports>>

\* An upload without capture time, or for a child without growth stage, is only kept.
KeepUpload(p) ==
  /\ photo[p] # None
  /\ filed[p] = None
  /\ filed' = [filed EXCEPT ![p] = NoHazard]
  /\ UNCHANGED <<now, linked, photo, rows, reports>>

-----------------------------------------------------------------------------
(* Reports of the robot: retireUnseen, before the lock and under it *)

Among(h, objects) ==
  IF photo[h].instance = NoInstance THEN \E i \in objects : KindOf[i] = photo[h].kind
                                    ELSE photo[h].instance \in objects

\* CareController.step and _clear_absent: the visible lists hold swallowing objects only.
\* (sight are the objects detected, except those safe_labels excuses.)
Visible(sight) == {i \in sight : KindOf[i] \in SwallowKinds}

\* Mutant: a report without live detection leaves the timers running.
ReportBlindKeepsTimers(d) ==
  /\ retiring[d] = {}
  /\ away' = [h \in Photos |-> IF h \in ActiveOn(d) THEN now ELSE away[h]]
  /\ overdue' = overdue \ ActiveOn(d)
  /\ UNCHANGED <<now, linked, uploads, rows, retiring, lastSeen>>

\* Nothing is retired without live detection; the timers start again.
ReportBlind(d) ==
  /\ retiring[d] = {}
  /\ lastSeen' = [h \in Photos |-> IF h \in ActiveOn(d) THEN now ELSE lastSeen[h]]
  /\ away' = [h \in Photos |-> IF h \in ActiveOn(d) THEN now ELSE away[h]]
  /\ overdue' = overdue \ ActiveOn(d)
  /\ UNCHANGED <<now, linked, uploads, rows, retiring>>

\* Mutant: get for computeIfAbsent, so what was never listed has no timer.
ReportStartsNoTimer(d, sight) ==
  LET seen == {h \in ActiveOn(d) : Among(h, Visible(sight))}
      unseen == ActiveOn(d) \ seen
  IN
  /\ retiring[d] = {}
  /\ lastSeen' = [h \in Photos |->
       IF h \in seen THEN now ELSE IF h \in unseen THEN lastSeen[h] ELSE Never]
  /\ retiring' = [retiring EXCEPT ![d] =
       {h \in unseen : lastSeen[h] # Never /\ now - lastSeen[h] >= Absent}]
  /\ away' = [h \in Photos |->
       IF h \in ActiveOn(d) /\ (Among(h, sight) \/ away[h] = Never) THEN now ELSE away[h]]
  /\ overdue' = (overdue \ ActiveOn(d)) \cup {h \in ActiveOn(d) : now - away'[h] >= Absent}
  /\ UNCHANGED <<now, linked, uploads, rows>>

Report(d, sight) ==
  LET seen == {h \in ActiveOn(d) : Among(h, Visible(sight))}
      unseen == ActiveOn(d) \ seen
  IN
  /\ retiring[d] = {}
  \* retainAll(alive): alive are the active hazards of this device
  /\ lastSeen' = [h \in Photos |->
       IF h \in seen \/ (h \in unseen /\ lastSeen[h] = Never) THEN now
       ELSE IF h \in unseen THEN lastSeen[h]
       ELSE Never]
  /\ retiring' = [retiring EXCEPT ![d] =
       {h \in unseen : lastSeen[h] # Never /\ now - lastSeen[h] >= Absent}]
  /\ away' = [h \in Photos |->
       IF h \in ActiveOn(d) /\ (Among(h, sight) \/ away[h] = Never) THEN now ELSE away[h]]
  /\ overdue' = (overdue \ ActiveOn(d)) \cup {h \in ActiveOn(d) : now - away'[h] >= Absent}
  /\ UNCHANGED <<now, linked, uploads, rows>>

Forget(d) ==
  /\ lastSeen' = [h \in Photos |-> IF h \in retiring[d] THEN Never ELSE lastSeen[h]]
  /\ retiring' = [retiring EXCEPT ![d] = {}]
  /\ away' = [h \in Photos |-> IF h \in retiring[d] THEN Never ELSE away[h]]
  /\ overdue' = overdue \ retiring[d]

\* Mutant: the UPDATE has no NOT EXISTS.
RetireAll(d) ==
  /\ retiring[d] # {}
  /\ hazard' = [h \in Photos |->
       IF h \in retiring[d] \cap ActiveRows
       THEN [hazard[h] EXCEPT !.status = "RESOLVED", !.updated = now]
       ELSE hazard[h]]
  /\ Forget(d)
  /\ UNCHANGED <<now, linked, uploads, treatment>>

Retire(d) ==
  /\ retiring[d] # {}
  /\ hazard' = [h \in Photos |->
       IF h \in retiring[d] \cap ActiveRows /\ ~Protected(h)
       THEN [hazard[h] EXCEPT !.status = "RESOLVED", !.updated = now]
       ELSE hazard[h]]
  /\ Forget(d)
  /\ UNCHANGED <<now, linked, uploads, treatment>>

\* A later statement of the transaction fails: the rows come back, the timers do not.
RetireRolledBack(d) ==
  /\ retiring[d] # {}
  /\ Forget(d)
  /\ UNCHANGED <<now, linked, uploads, rows>>

-----------------------------------------------------------------------------
(* Treatments *)

SetTreatment(t, record) == treatment' = [treatment EXCEPT ![t] = record]

\* requestRemovalCheck and requestRelocation read the hazard before the lock ...
LoadHazard(t, h, kind) ==
  /\ treatment[t] = None
  /\ h \in ActiveRows
  /\ photo[h].kind \in SwallowKinds
  /\ SetTreatment(t, [hazard |-> h, kind |-> kind, status |-> "LOADED", at |-> Never])
  /\ UNCHANGED <<now, linked, uploads, hazard, reports>>

\* ... and keep that copy under it; what JdbcTemplate asks is asked anew.
QueueTreatment(t) ==
  LET h == treatment[t].hazard IN
  /\ treatment[t] # None /\ treatment[t].status = "LOADED"
  /\ hazard[h].child = linked[photo[h].device]
  /\ ~Relocated(h)
  /\ \A u \in Treatments : treatment[u] # None /\ Open(u)
       => photo[treatment[u].hazard].device # photo[h].device
  /\ SetTreatment(t, [treatment[t] EXCEPT !.status = "QUEUED"])
  /\ UNCHANGED <<now, linked, uploads, hazard, reports>>

\* Any check fails, those of the robot's state among them.
RefuseTreatment(t) ==
  /\ treatment[t] # None /\ treatment[t].status = "LOADED"
  /\ SetTreatment(t, None)
  /\ UNCHANGED <<now, linked, uploads, hazard, reports>>

SendTreatment(t) ==
  /\ treatment[t] # None /\ treatment[t].status = "QUEUED"
  /\ SetTreatment(t, [treatment[t] EXCEPT !.status = "SENT", !.at = now])
  /\ UNCHANGED <<now, linked, uploads, hazard, reports>>

ExpireTreatment(t) ==
  /\ treatment[t] # None /\ treatment[t].status = "QUEUED"
  /\ SetTreatment(t, [treatment[t] EXCEPT !.status = "EXPIRED"])
  /\ UNCHANGED <<now, linked, uploads, hazard, reports>>

\* Mutant: the robot's clock is ahead and its completedAt is stored as it comes.
ReceiveResultAhead(t, status, completed) ==
  LET h == treatment[t].hazard IN
  /\ treatment[t] # None /\ treatment[t].status = "SENT"
  /\ completed \in treatment[t].at..now
  /\ SetTreatment(t, [treatment[t] EXCEPT !.status = status, !.at = completed + 1])
  /\ hazard' =
       IF status = "SUCCEEDED" /\ h \in ActiveRows
       THEN [hazard EXCEPT ![h].updated = now,
                           ![h].status = IF treatment[t].kind = "RELOCATE" THEN @ ELSE "RESOLVED"]
       ELSE hazard
  /\ UNCHANGED <<now, linked, uploads, reports>>

\* COMMAND_RESULT, completed at some time since it was sent
ReceiveResult(t, status, completed) ==
  LET h == treatment[t].hazard IN
  /\ treatment[t] # None /\ treatment[t].status = "SENT"
  /\ completed \in treatment[t].at..now
  /\ SetTreatment(t, [treatment[t] EXCEPT !.status = status, !.at = completed])
  /\ hazard' =
       IF status = "SUCCEEDED" /\ h \in ActiveRows
       THEN [hazard EXCEPT ![h].updated = now,
                           ![h].status = IF treatment[t].kind = "RELOCATE" THEN @ ELSE "RESOLVED"]
       ELSE hazard
  /\ UNCHANGED <<now, linked, uploads, reports>>

-----------------------------------------------------------------------------
\* acknowledgeLiving; a row that changed after it was read fails on its @Version.
AcknowledgeLiving(h) ==
  /\ h \in ActiveRows
  /\ photo[h].kind \in LivingKinds
  /\ hazard' = [hazard EXCEPT ![h].status = "RESOLVED", ![h].acknowledged = TRUE,
                              ![h].updated = now]
  /\ UNCHANGED <<now, linked, uploads, treatment, reports>>

ActivateChild(d, c) ==
  /\ linked[d] # c
  /\ linked' = [linked EXCEPT ![d] = c]
  /\ UNCHANGED <<now, uploads, rows, reports>>

\* The transactions under way are rolled back; DemoSessionReset runs when configured.
BackendRestart(reset) ==
  /\ lastSeen' = [h \in Photos |-> Never]
  /\ away' = [h \in Photos |-> Never]
  /\ overdue' = {}
  /\ retiring' = [d \in Devices |-> {}]
  /\ treatment' = [t \in Treatments |->
       IF treatment[t] = None \/ treatment[t].status = "LOADED" THEN None
       ELSE IF reset /\ Open(t)
            THEN [treatment[t] EXCEPT !.status = "EXPIRED"]
            ELSE treatment[t]]
  /\ hazard' = [h \in Photos |->
       IF reset /\ h \in ActiveRows
       THEN [hazard[h] EXCEPT !.status = "RESOLVED", !.updated = now]
       ELSE hazard[h]]
  /\ UNCHANGED <<now, linked, uploads>>

Tick ==
  /\ now < MaxTime
  /\ now' = now + 1
  /\ UNCHANGED <<linked, uploads, rows, reports>>

Next ==
  \/ Tick
  \/ \E reset \in StartupResets : BackendRestart(reset)
  \/ \E p \in Photos : Upload(p) \/ KeepUpload(p) \/ AcknowledgeLiving(p)
  \/ \E p \in Photos, d \in Devices, i \in Instances : \E instance \in {i, NoInstance} :
       Capture(p, d, i, instance)
  \/ \E d \in Devices :
       \/ ReportBlind(d)
       \/ \E sight \in SUBSET Instances : Report(d, sight)
       \/ Retire(d)
       \/ RetireRolledBack(d)
       \/ \E c \in Children : ActivateChild(d, c)
  \/ \E t \in Treatments :
       \/ \E h \in Photos, kind \in {"DIRECT_REMOVAL_CHECK", "RELOCATE"} : LoadHazard(t, h, kind)
       \/ QueueTreatment(t)
       \/ RefuseTreatment(t)
       \/ SendTreatment(t)
       \/ ExpireTreatment(t)
       \/ \E status \in {"SUCCEEDED", "FAILED"}, completed \in Time :
            ReceiveResult(t, status, completed)

Spec == Init /\ [][Next]_vars

-----------------------------------------------------------------------------
(* Properties *)

\* One object is on a child's list once: photographs are merged into its active row.
OneHazardPerObject ==
  \A h, g \in ActiveRows :
    /\ h # g
    /\ photo[h].device = photo[g].device /\ photo[h].kind = photo[g].kind
    /\ hazard[h].child = hazard[g].child
    => photo[h].instance # photo[g].instance

\* After a treatment succeeded the list shows nothing about its object on the evidence
\* of a photograph from before: no row is opened by one, no row shows a new one.
TreatedStaysTreated ==
  [][\A h \in Photos, t \in Treatments :
       LET g == treatment[t].hazard IN
       /\ treatment[t] # None /\ treatment[t].status = "SUCCEEDED"
       /\ hazard'[h] # None /\ hazard'[h].child = hazard[g].child
       /\ photo[h].device = photo[g].device /\ photo[h].kind = photo[g].kind
       /\ photo[h].instance = photo[g].instance
       /\ hazard[h] = None \/ hazard'[h].detected # hazard[h].detected
       => hazard'[h].detected > treatment[t].at]_vars

\* A photograph taken after all that was done about objects like its own is not lost:
\* credited to a hazard, an active row that parents see shows it or a later one.  (A living
\* hazard acknowledged a moment ago is the exception of recordDetection.)
FreshPhotoShows ==
  [][\A p \in Photos :
       /\ filed[p] = None /\ filed'[p] \in Photos
       /\ HandledAfter(p) = {}
       => \E h \in Photos :
            /\ filed'[p] = h
            /\ \/ /\ h \in ActiveRows' /\ ~Relocated(h)'
                  /\ hazard'[h].detected >= photo'[p].taken
               \/ photo[p].kind \in LivingKinds /\ h \in Rows /\ hazard[h].acknowledged]_vars

\* A hazard whose treatment is open, or failed a moment ago, leaves the list only with
\* the end of a treatment, whatever the report handler had read before; or with the
\* whole list, when the backend starts a new session.
TreatmentHolds ==
  [][\/ TRUE \in StartupResets /\ BackendRestart(TRUE)
     \/ \A h \in ActiveRows : Protected(h) /\ h \notin ActiveRows'
          => \E t \in TreatmentsOf(h) : Open(t) /\ ~Open(t)']_vars

\* What live reports have not shown for Absent is off the list when the report handler
\* is done, unless its treatment or a failed statement kept it.
UnseenIsRetired ==
  \A h \in overdue \cap ActiveRows : retiring[photo[h].device] # {}

\* What the report handler takes the lock for has been overdue at its report.
RetiredUnseen(kinds) ==
  \A d \in Devices : \A h \in retiring[d] : photo[h].kind \in kinds => h \in overdue

\* Only what was out of sight for Absent, with live detection throughout, is retired.
SwallowRetiredUnseen == RetiredUnseen(SwallowKinds)

\* The same of every hazard: what the camera sees all the time is not retired.
SeenIsKept == RetiredUnseen(Kinds)

=============================================================================
