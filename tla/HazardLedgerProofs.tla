-------------------------- MODULE HazardLedgerProofs --------------------------
(***************************************************************************)
(* The hazards of the backend, for every number of devices, children,      *)
(* photographs and treatments and every length of the clock.  IInv adds to *)
(* the properties what rows, photographs, treatments and timers have to do *)
(* with each other; SoloInv what a single robot adds.                      *)
(***************************************************************************)
EXTENDS HazardLedger, TLAPS

\* A row is of a stored photograph.
RowsInv == \A h \in Photos : hazard[h] # None => photo[h] # None /\ filed[h] # None

\* The tracker knows the kind of what it identifies.
PhotoInv ==
  \A p \in Photos : photo[p] # None /\ photo[p].instance # NoInstance
    => KindOf[photo[p].instance] = photo[p].kind

\* Treatments are about the rows of swallowing objects.
TreatmentInv ==
  \A t \in Treatments : treatment[t] # None
    => LET h == treatment[t].hazard
       IN  hazard[h] # None /\ photo[h] # None /\ photo[h].kind \in SwallowKinds

\* The timer of a swallowing object is never older than its absence.
TimerInv ==
  \A h \in Photos :
    /\ away[h] <= now /\ lastSeen[h] <= now
    /\ lastSeen[h] # Never => photo[h] # None
    /\ lastSeen[h] # Never /\ photo[h].kind \in SwallowKinds
         => away[h] # Never /\ away[h] <= lastSeen[h]

\* A report handler retires hazards of its own device.
RetiringInv == \A d \in Devices : \A h \in retiring[d] : photo[h] # None /\ photo[h].device = d

IInv ==
  /\ TypeOK
  /\ RowsInv
  /\ PhotoInv
  /\ TreatmentInv
  /\ TimerInv
  /\ RetiringInv
  /\ OneHazardPerObject
  /\ SwallowRetiredUnseen

USE LedgerAssumption DEF LedgerAssumption, Never

\* The backend starts without photographs, rows and timers.
LEMMA InitTyped == Init => TypeOK
BY DEF Init, TypeOK, Photo, Hazard, Treatment, Time

\* That is where the invariant starts.
LEMMA InitIInv == Init => IInv
<1> SUFFICES ASSUME Init PROVE IInv
  OBVIOUS
<1>1. TypeOK /\ RowsInv /\ PhotoInv /\ TreatmentInv /\ RetiringInv
  BY InitTyped DEF Init, RowsInv, PhotoInv, TreatmentInv, RetiringInv
<1>2. TimerInv
  BY DEF Init, TimerInv
<1>3. OneHazardPerObject /\ SwallowRetiredUnseen
  BY DEF Init, OneHazardPerObject, ActiveRows, Rows, SwallowRetiredUnseen, RetiredUnseen
<1>4. QED
  BY <1>1, <1>2, <1>3 DEF IInv

\* The sets recordDetection chooses from are sets of rows.
LEMMA AlikeRows ==
  ASSUME NEW p \in Photos
  PROVE  /\ HandledAfter(p) \subseteq Rows
         /\ SameObject(p) \subseteq ActiveRows
         /\ RecentlyAcknowledged(p) \subseteq Rows
         /\ ActiveRows \subseteq Rows
         /\ Rows \subseteq Photos
         /\ \A S : LastUpdated(S) \subseteq S /\ LastDetected(S) \subseteq S
<1>1. Alike(p) \subseteq Rows /\ ActiveRows \subseteq Rows /\ Rows \subseteq Photos
  BY DEF Alike, ActiveRows, Rows
<1>2. \A S : LastUpdated(S) \subseteq S /\ LastDetected(S) \subseteq S
  BY DEF LastUpdated, LastDetected
<1>3. HandledAfter(p) \subseteq Rows /\ SameObject(p) \subseteq ActiveRows
      /\ RecentlyAcknowledged(p) \subseteq Rows
  BY <1>1 DEF HandledAfter, SameObject, RecentlyAcknowledged
<1>4. QED
  BY <1>1, <1>2, <1>3

\* A row keeps its type when its times or its status change.
LEMMA RowTyped ==
  ASSUME TypeOK, NEW h \in Rows
  PROVE  /\ hazard[h] \in Hazard
         /\ [hazard EXCEPT ![h].updated = now] \in [Photos -> Hazard \cup {None}]
         /\ \A time \in Time :
              [hazard EXCEPT ![h].detected = time, ![h].updated = now]
                \in [Photos -> Hazard \cup {None}]
         /\ [hazard EXCEPT ![h].status = "RESOLVED", ![h].acknowledged = TRUE, ![h].updated = now]
              \in [Photos -> Hazard \cup {None}]
         /\ [hazard[h] EXCEPT !.status = "RESOLVED", !.updated = now] \in Hazard
<1>1. h \in Photos /\ hazard[h] \in Hazard /\ now \in Time
      /\ hazard \in [Photos -> Hazard \cup {None}]
  BY DEF TypeOK, Rows
<1>2. QED
  BY <1>1 DEF Hazard

\* A photograph is credited to a row and opens or changes a row of the type.
LEMMA RecordDetectionTyped ==
  ASSUME TypeOK, NEW p \in Photos, photo[p] # None, RecordDetection(p)
  PROVE  /\ hazard' \in [Photos -> Hazard \cup {None}]
         /\ filed' \in [Photos -> Photos \cup {None, NoHazard}]
<1> DEFINE Rowed == [Photos -> Hazard \cup {None}]
<1>1. photo[p] \in Photo /\ photo[p].taken \in Time /\ photo[p].device \in Devices
  BY DEF TypeOK, Photo
<1>2. filed' \in [Photos -> Photos \cup {None, NoHazard}]
  BY AlikeRows DEF RecordDetection, TypeOK
<1>3. ASSUME NEW h \in SameObject(p), Refresh(h, p) PROVE hazard' \in Rowed
  <2>1. h \in Rows
    BY AlikeRows
  <2>2. QED
    BY <1>1, <1>3, <2>1, RowTyped DEF Refresh, TypeOK
<1>4. ASSUME NEW h \in RecentlyAcknowledged(p), hazard' = [hazard EXCEPT ![h].updated = now]
      PROVE  hazard' \in Rowed
  <2>1. h \in Rows
    BY AlikeRows
  <2>2. QED
    BY <1>4, <2>1, RowTyped
<1>5. ASSUME OpenHazard(p) PROVE hazard' \in Rowed
  <2>1. linked[photo[p].device] \in Children /\ now \in Time
    BY <1>1 DEF TypeOK
  <2>2. QED
    BY <1>1, <1>5, <2>1 DEF OpenHazard, TypeOK, Hazard
<1>6. ASSUME UNCHANGED hazard PROVE hazard' \in Rowed
  BY <1>6 DEF TypeOK
<1>7. QED
  BY <1>2, <1>3, <1>4, <1>5, <1>6, AlikeRows DEF RecordDetection

\* A set of rows is closed at once: by retireUnseen and by the start of a session.
LEMMA ClosedTyped ==
  ASSUME TypeOK, NEW S, S \subseteq ActiveRows
  PROVE  [h \in Photos |-> IF h \in S THEN [hazard[h] EXCEPT !.status = "RESOLVED", !.updated = now]
                                      ELSE hazard[h]]
           \in [Photos -> Hazard \cup {None}]
<1>1. \A h \in S : [hazard[h] EXCEPT !.status = "RESOLVED", !.updated = now] \in Hazard
  BY RowTyped DEF ActiveRows
<1>2. QED
  BY <1>1 DEF TypeOK

\* A treatment keeps its type when its status or its time changes.
LEMMA TreatmentTyped ==
  ASSUME TypeOK, NEW t \in Treatments, treatment[t] # None
  PROVE  /\ treatment[t] \in Treatment
         /\ treatment[t].hazard \in Photos
         /\ \A s \in {"LOADED", "QUEUED", "SENT", "SUCCEEDED", "FAILED", "EXPIRED"} :
              /\ [treatment[t] EXCEPT !.status = s] \in Treatment
              /\ \A time \in Time : [treatment[t] EXCEPT !.status = s, !.at = time] \in Treatment
<1>1. treatment[t] \in Treatment
  BY DEF TypeOK
<1>2. QED
  BY <1>1 DEF Treatment

\* A report keeps the types of the timers.
LEMMA ReportTyped ==
  ASSUME TypeOK, NEW d \in Devices, NEW sight \in SUBSET Instances, Report(d, sight)
  PROVE  TypeOK'
<1>1. ActiveOn(d) \subseteq Photos
  BY DEF ActiveOn, ActiveRows, Rows
<1> DEFINE seen == {h \in ActiveOn(d) : Among(h, Visible(sight))}
           unseen == ActiveOn(d) \ seen
           due == {h \in unseen : lastSeen[h] # Never /\ now - lastSeen[h] >= Absent}
<1>2. seen \subseteq Photos /\ due \subseteq Photos
  BY <1>1
<1>3. retiring' \in [Devices -> SUBSET Photos]
  <2>1. retiring' = [retiring EXCEPT ![d] = due]
    BY DEF Report
  <2> HIDE DEF due
  <2>2. QED
    BY <2>1, <1>2 DEF TypeOK
<1>4. lastSeen' \in [Photos -> Time \cup {Never}]
  BY DEF Report, TypeOK
<1>5. away' \in [Photos -> Time \cup {Never}]
  BY DEF Report, TypeOK
<1>6. overdue' \subseteq Photos
  BY <1>1 DEF Report, TypeOK
<1>7. QED
  BY <1>3, <1>4, <1>5, <1>6 DEF Report, TypeOK, uploads, rows

\* Every step keeps the types.
LEMMA NextTyped == TypeOK /\ [Next]_vars => TypeOK'
<1> SUFFICES ASSUME TypeOK, [Next]_vars PROVE TypeOK'
  OBVIOUS
<1>1. CASE Tick
  BY <1>1 DEF Tick, TypeOK, Time, uploads, rows, reports
<1>2. ASSUME NEW reset \in StartupResets, BackendRestart(reset) PROVE TypeOK'
  <2>1. hazard' \in [Photos -> Hazard \cup {None}]
    <3> DEFINE S == IF reset THEN ActiveRows ELSE {}
    <3>1. hazard' = [h \in Photos |-> IF h \in S
                       THEN [hazard[h] EXCEPT !.status = "RESOLVED", !.updated = now]
                       ELSE hazard[h]]
      BY <1>2 DEF BackendRestart
    <3>2. S \subseteq ActiveRows
      OBVIOUS
    <3> HIDE DEF S
    <3>3. QED
      BY <3>1, <3>2, ClosedTyped
  <2>2. treatment' \in [Treatments -> Treatment \cup {None}]
    <3>1. \A t \in Treatments : treatment[t] # None
            => [treatment[t] EXCEPT !.status = "EXPIRED"] \in Treatment
      BY TreatmentTyped
    <3>2. QED
      BY <1>2, <3>1 DEF BackendRestart, TypeOK
  <2>3. QED
    BY <1>2, <2>1, <2>2 DEF BackendRestart, TypeOK, uploads
<1>3. ASSUME NEW p \in Photos, Upload(p) PROVE TypeOK'
  BY <1>3, RecordDetectionTyped DEF Upload, TypeOK, reports
<1>4. ASSUME NEW p \in Photos, KeepUpload(p) PROVE TypeOK'
  BY <1>4 DEF KeepUpload, TypeOK, rows, reports
<1>5. ASSUME NEW h \in Photos, AcknowledgeLiving(h) PROVE TypeOK'
  <2>1. h \in Rows
    BY <1>5 DEF AcknowledgeLiving, ActiveRows
  <2>2. hazard' \in [Photos -> Hazard \cup {None}]
    BY <1>5, <2>1, RowTyped DEF AcknowledgeLiving
  <2>3. QED
    BY <1>5, <2>2 DEF AcknowledgeLiving, TypeOK, uploads, reports
<1>6. ASSUME NEW p \in Photos, NEW d \in Devices, NEW i \in Instances,
             NEW instance \in {i, NoInstance}, Capture(p, d, i, instance)
      PROVE  TypeOK'
  BY <1>6 DEF Capture, TypeOK, Photo, Kinds, rows, reports
<1>7. ASSUME NEW d \in Devices, ReportBlind(d) PROVE TypeOK'
  BY <1>7 DEF ReportBlind, TypeOK, uploads, rows
<1>8. ASSUME NEW d \in Devices, NEW sight \in SUBSET Instances, Report(d, sight) PROVE TypeOK'
  BY <1>8, ReportTyped
<1>9. ASSUME NEW d \in Devices, Forget(d) PROVE
        /\ lastSeen' \in [Photos -> Time \cup {Never}]
        /\ retiring' \in [Devices -> SUBSET Photos]
        /\ away' \in [Photos -> Time \cup {Never}]
        /\ overdue' \subseteq Photos
  BY <1>9 DEF Forget, TypeOK
<1>10. ASSUME NEW d \in Devices, Retire(d) PROVE TypeOK'
  <2> DEFINE S == {h \in retiring[d] \cap ActiveRows : ~Protected(h)}
  <2>1. hazard' = [h \in Photos |-> IF h \in S
                     THEN [hazard[h] EXCEPT !.status = "RESOLVED", !.updated = now]
                     ELSE hazard[h]]
    BY <1>10 DEF Retire
  <2>2. S \subseteq ActiveRows
    OBVIOUS
  <2> HIDE DEF S
  <2>3. hazard' \in [Photos -> Hazard \cup {None}]
    BY <2>1, <2>2, ClosedTyped
  <2>4. QED
    BY <1>9, <1>10, <2>3 DEF Retire, TypeOK, uploads
<1>11. ASSUME NEW d \in Devices, RetireRolledBack(d) PROVE TypeOK'
  BY <1>9, <1>11 DEF RetireRolledBack, TypeOK, uploads, rows
<1>12. ASSUME NEW d \in Devices, NEW c \in Children, ActivateChild(d, c) PROVE TypeOK'
  BY <1>12 DEF ActivateChild, TypeOK, uploads, rows, reports
<1>13. ASSUME NEW t \in Treatments, NEW h \in Photos,
              NEW kind \in {"DIRECT_REMOVAL_CHECK", "RELOCATE"}, LoadHazard(t, h, kind)
       PROVE  TypeOK'
  BY <1>13 DEF LoadHazard, SetTreatment, TypeOK, Treatment, uploads, reports
<1>14. ASSUME NEW t \in Treatments, RefuseTreatment(t) PROVE TypeOK'
  BY <1>14 DEF RefuseTreatment, SetTreatment, TypeOK, uploads, reports
<1>15. ASSUME NEW t \in Treatments, QueueTreatment(t) \/ SendTreatment(t) \/ ExpireTreatment(t)
       PROVE  TypeOK'
  <2>1. treatment[t] # None /\ now \in Time
    BY <1>15 DEF QueueTreatment, SendTreatment, ExpireTreatment, TypeOK
  <2>2. treatment' \in [Treatments -> Treatment \cup {None}]
    <3>1. \E record \in Treatment : treatment' = [treatment EXCEPT ![t] = record]
      <4>1. CASE QueueTreatment(t)
        BY <2>1, <4>1, TreatmentTyped DEF QueueTreatment, SetTreatment
      <4>2. CASE SendTreatment(t)
        BY <2>1, <4>2, TreatmentTyped DEF SendTreatment, SetTreatment
      <4>3. CASE ExpireTreatment(t)
        BY <2>1, <4>3, TreatmentTyped DEF ExpireTreatment, SetTreatment
      <4>4. QED
        BY <1>15, <4>1, <4>2, <4>3
    <3>2. QED
      BY <3>1 DEF TypeOK
  <2>3. QED
    BY <1>15, <2>2 DEF QueueTreatment, SendTreatment, ExpireTreatment, TypeOK, uploads, reports
<1>16. ASSUME NEW t \in Treatments, NEW status \in {"SUCCEEDED", "FAILED"},
              NEW completed \in Time, ReceiveResult(t, status, completed)
       PROVE  TypeOK'
  <2>1. treatment' \in [Treatments -> Treatment \cup {None}]
    BY <1>16, TreatmentTyped DEF ReceiveResult, SetTreatment, TypeOK
  <2>2. hazard' \in [Photos -> Hazard \cup {None}]
    <3> DEFINE h == treatment[t].hazard
    <3>1. CASE h \in ActiveRows /\ status = "SUCCEEDED"
      <4>1. hazard[h] \in Hazard /\ h \in Photos
        BY <3>1, RowTyped DEF ActiveRows, Rows
      <4>2. QED
        BY <1>16, <3>1, <4>1 DEF ReceiveResult, TypeOK, Hazard
    <3>2. CASE ~(h \in ActiveRows /\ status = "SUCCEEDED")
      BY <1>16, <3>2 DEF ReceiveResult, TypeOK
    <3>3. QED
      BY <3>1, <3>2
  <2>3. QED
    BY <1>16, <2>1, <2>2 DEF ReceiveResult, TypeOK, uploads, reports
<1>17. CASE UNCHANGED vars
  BY <1>17 DEF vars, uploads, rows, reports, TypeOK
<1>18. QED
  BY <1>1, <1>2, <1>3, <1>4, <1>5, <1>6, <1>7, <1>8, <1>10, <1>11, <1>12, <1>13, <1>14, <1>15,
     <1>16, <1>17
  DEF Next

-----------------------------------------------------------------------------
(* What one step does to photographs and rows *)

\* A photograph stays what it is, and a stored one stored.
LEMMA PhotosKept ==
  ASSUME TypeOK, [Next]_vars, NEW p \in Photos
  PROVE  /\ photo[p] # None => photo'[p] = photo[p]
         /\ filed[p] # None => filed'[p] # None
<1>1. ASSUME NEW q \in Photos, Upload(q) PROVE filed[p] # None => filed'[p] # None
  BY <1>1, AlikeRows DEF Upload, RecordDetection, TypeOK
<1>2. CASE UNCHANGED vars
  BY <1>2 DEF vars, uploads
<1>3. CASE Next
  BY <1>1, <1>3
  DEF Next, Tick, BackendRestart, Upload, KeepUpload, AcknowledgeLiving, Capture, ReportBlind, Report,
      Retire, RetireRolledBack, ActivateChild, LoadHazard, QueueTreatment, RefuseTreatment,
      SendTreatment, ExpireTreatment, ReceiveResult, uploads, TypeOK
<1>4. QED
  BY <1>2, <1>3

\* The steps that write hazards.
LEMMA RowSteps ==
  ASSUME [Next]_vars
  PROVE  \/ UNCHANGED hazard
         \/ \E reset \in StartupResets : BackendRestart(reset)
         \/ \E p \in Photos : Upload(p) \/ AcknowledgeLiving(p)
         \/ \E d \in Devices : Retire(d)
         \/ \E t \in Treatments, status \in {"SUCCEEDED", "FAILED"}, completed \in Time :
              ReceiveResult(t, status, completed)
BY DEF Next, vars, Tick, KeepUpload, Capture, ReportBlind, Report, RetireRolledBack, ActivateChild,
       LoadHazard, QueueTreatment, RefuseTreatment, SendTreatment, ExpireTreatment, rows

\* An active row was active before or is opened now, and then nothing like it was active.
LEMMA ActiveBefore ==
  ASSUME TypeOK, [Next]_vars, NEW h \in ActiveRows'
  PROVE  \/ h \in ActiveRows /\ hazard'[h].child = hazard[h].child
         \/ /\ photo[h] # None
            /\ filed[h] = None
            /\ SameObject(h) = {}
            /\ hazard'[h].child = linked[photo[h].device]
            /\ \A g \in Photos \ {h} : hazard'[g] = hazard[g]
<1>1. h \in Photos /\ hazard'[h] # None /\ hazard'[h].status = "ACTIVE"
  BY DEF ActiveRows, Rows
<1> USE DEF TypeOK
<1>2. CASE UNCHANGED hazard
  BY <1>1, <1>2 DEF ActiveRows, Rows
<1>3. ASSUME NEW reset \in StartupResets, BackendRestart(reset)
      PROVE  h \in ActiveRows /\ hazard'[h].child = hazard[h].child
  <2>1. h \notin ActiveRows => hazard'[h] = hazard[h]
    BY <1>1, <1>3 DEF BackendRestart
  <2>2. h \in ActiveRows
    BY <1>1, <2>1 DEF ActiveRows, Rows
  <2>3. hazard'[h] = hazard[h] \/ hazard'[h] = [hazard[h] EXCEPT !.status = "RESOLVED", !.updated = now]
    BY <1>1, <1>3 DEF BackendRestart
  <2>4. hazard[h] \in Hazard
    BY <2>2, RowTyped DEF ActiveRows
  <2>5. QED
    BY <2>2, <2>3, <2>4 DEF Hazard
<1>4. ASSUME NEW d \in Devices, Retire(d)
      PROVE  h \in ActiveRows /\ hazard'[h].child = hazard[h].child
  <2>1. h \notin ActiveRows => hazard'[h] = hazard[h]
    BY <1>1, <1>4 DEF Retire
  <2>2. h \in ActiveRows
    BY <1>1, <2>1 DEF ActiveRows, Rows
  <2>3. hazard'[h] = hazard[h] \/ hazard'[h] = [hazard[h] EXCEPT !.status = "RESOLVED", !.updated = now]
    BY <1>1, <1>4 DEF Retire
  <2>4. hazard[h] \in Hazard
    BY <2>2, RowTyped DEF ActiveRows
  <2>5. QED
    BY <2>2, <2>3, <2>4 DEF Hazard
<1>5. ASSUME NEW g \in Photos, AcknowledgeLiving(g)
      PROVE  h \in ActiveRows /\ hazard'[h].child = hazard[h].child
  <2>1. hazard[g] \in Hazard
    BY <1>5, RowTyped DEF AcknowledgeLiving, ActiveRows
  <2>2. g # h
    BY <1>1, <1>5, <2>1 DEF AcknowledgeLiving, Hazard
  <2>3. hazard'[h] = hazard[h]
    BY <1>1, <1>5, <2>2 DEF AcknowledgeLiving
  <2>4. QED
    BY <1>1, <2>3 DEF ActiveRows, Rows
<1>6. ASSUME NEW t \in Treatments, NEW status \in {"SUCCEEDED", "FAILED"},
             NEW completed \in Time, ReceiveResult(t, status, completed)
      PROVE  h \in ActiveRows /\ hazard'[h].child = hazard[h].child
  <2>1. CASE hazard'[h] = hazard[h]
    BY <1>1, <2>1 DEF ActiveRows, Rows
  <2>2. CASE hazard'[h] # hazard[h]
    <3>1. h = treatment[t].hazard /\ h \in ActiveRows
      BY <1>1, <1>6, <2>2 DEF ReceiveResult
    <3>2. hazard[h] \in Hazard
      BY <3>1, RowTyped DEF ActiveRows
    <3>3. hazard'[h].child = hazard[h].child
      BY <1>1, <1>6, <3>1, <3>2 DEF ReceiveResult, Hazard
    <3>4. QED
      BY <3>1, <3>3
  <2>3. QED
    BY <2>1, <2>2
<1>7. ASSUME NEW p \in Photos, Upload(p)
      PROVE  \/ h \in ActiveRows /\ hazard'[h].child = hazard[h].child
             \/ /\ photo[h] # None
                /\ filed[h] = None
                /\ SameObject(h) = {}
                /\ hazard'[h].child = linked[photo[h].device]
                /\ \A g \in Photos \ {h} : hazard'[g] = hazard[g]
  <2>1. CASE UNCHANGED hazard
    BY <1>1, <2>1 DEF ActiveRows, Rows
  <2>2. ASSUME NEW g \in SameObject(p), Refresh(g, p)
        PROVE  h \in ActiveRows /\ hazard'[h].child = hazard[h].child
    <3>1. g \in ActiveRows /\ hazard[g] \in Hazard
      BY AlikeRows, RowTyped
    <3>2. CASE g = h
      BY <1>1, <2>2, <3>1, <3>2 DEF Refresh, Hazard
    <3>3. CASE g # h
      BY <1>1, <2>2, <3>3 DEF Refresh, ActiveRows, Rows
    <3>4. QED
      BY <3>2, <3>3
  <2>3. ASSUME NEW g \in RecentlyAcknowledged(p), hazard' = [hazard EXCEPT ![g].updated = now]
        PROVE  h \in ActiveRows /\ hazard'[h].child = hazard[h].child
    <3>1. g \in Rows /\ g \notin ActiveRows /\ hazard[g] \in Hazard
      BY AlikeRows, RowTyped DEF RecentlyAcknowledged
    <3>2. hazard[g].status # "ACTIVE"
      BY <3>1 DEF ActiveRows
    <3>3. g # h
      BY <1>1, <2>3, <3>1, <3>2 DEF Hazard
    <3>4. QED
      BY <1>1, <2>3, <3>3 DEF ActiveRows, Rows
  <2>4. ASSUME OpenHazard(p), SameObject(p) = {}
        PROVE  \/ h \in ActiveRows /\ hazard'[h].child = hazard[h].child
               \/ /\ photo[h] # None
                  /\ filed[h] = None
                  /\ SameObject(h) = {}
                  /\ hazard'[h].child = linked[photo[h].device]
                  /\ \A g \in Photos \ {h} : hazard'[g] = hazard[g]
    <3>1. CASE h = p
      BY <1>1, <1>7, <2>4, <3>1 DEF OpenHazard, Upload
    <3>2. CASE h # p
      BY <1>1, <2>4, <3>2 DEF OpenHazard, ActiveRows, Rows
    <3>3. QED
      BY <3>1, <3>2
  <2>5. QED
    BY <1>7, <2>1, <2>2, <2>3, <2>4, AlikeRows DEF Upload, RecordDetection
<1>8. QED
  BY <1>2, <1>3, <1>4, <1>5, <1>6, <1>7, RowSteps

\* A row is never removed.
LEMMA RowsStay ==
  ASSUME TypeOK, [Next]_vars, NEW h \in Rows
  PROVE  hazard'[h] # None
<1> USE DEF TypeOK
<1>1. h \in Photos /\ hazard[h] # None /\ hazard[h] \in Hazard
  BY RowTyped DEF Rows
<1>2. SUFFICES hazard'[h] \in Hazard
  BY NoneAssumption
<1>3. CASE UNCHANGED hazard
  BY <1>1, <1>3
<1>4. now \in Time
  OBVIOUS
<1>5. ASSUME NEW p \in Photos, Upload(p) PROVE hazard'[h] \in Hazard
  <2>1. photo[p] # None /\ photo[p].taken \in Time /\ linked[photo[p].device] \in Children
    BY <1>5 DEF Upload, Photo
  <2>2. ASSUME NEW g \in SameObject(p), Refresh(g, p) PROVE hazard'[h] \in Hazard
    BY <1>1, <1>4, <2>1, <2>2 DEF Refresh, Hazard
  <2>3. ASSUME NEW g, hazard' = [hazard EXCEPT ![g].updated = now] PROVE hazard'[h] \in Hazard
    BY <1>1, <1>4, <2>3 DEF Hazard
  <2>4. ASSUME OpenHazard(p) PROVE hazard'[h] \in Hazard
    BY <1>1, <1>4, <2>1, <2>4 DEF OpenHazard, Hazard
  <2>5. QED
    BY <1>3, <1>5, <2>2, <2>3, <2>4, AlikeRows DEF Upload, RecordDetection
<1>6. ASSUME NEW g \in Photos, AcknowledgeLiving(g) PROVE hazard'[h] \in Hazard
  BY <1>1, <1>4, <1>6 DEF AcknowledgeLiving, Hazard
<1>7. ASSUME NEW t \in Treatments, NEW status \in {"SUCCEEDED", "FAILED"},
             NEW completed \in Time, ReceiveResult(t, status, completed)
      PROVE  hazard'[h] \in Hazard
  BY <1>1, <1>4, <1>7 DEF ReceiveResult, Hazard
<1>8. ASSUME NEW reset \in StartupResets, BackendRestart(reset) PROVE hazard'[h] \in Hazard
  BY <1>1, <1>8, RowTyped DEF BackendRestart
<1>9. ASSUME NEW d \in Devices, Retire(d) PROVE hazard'[h] \in Hazard
  BY <1>1, <1>9, RowTyped DEF Retire
<1>10. QED
  BY <1>3, <1>5, <1>6, <1>7, <1>8, <1>9, RowSteps

\* Rows appear only for stored photographs.
LEMMA RowsInvKept == IInv /\ [Next]_vars => RowsInv'
<1> SUFFICES ASSUME IInv, [Next]_vars, NEW h \in Photos, hazard'[h] # None
             PROVE  photo'[h] # None /\ filed'[h] # None
  BY DEF RowsInv
<1>1. hazard[h] # None \/ (photo[h] # None /\ filed'[h] # None)
  <2>1. ASSUME NEW p \in Photos, Upload(p), hazard[h] = None
        PROVE  photo[h] # None /\ filed'[h] # None
    <3>1. h \notin Rows
      BY <2>1 DEF Rows
    <3>2. \A g \in Rows : g # h
      BY <3>1
    <3>3. OpenHazard(p) /\ filed' = [filed EXCEPT ![p] = p]
      <4>1. hazard' # hazard
        BY <2>1
      <4>2. ASSUME NEW g \in SameObject(p), Refresh(g, p) PROVE FALSE
        BY <2>1, <3>2, <4>2, AlikeRows DEF Refresh, IInv, TypeOK
      <4>3. ASSUME NEW g \in RecentlyAcknowledged(p), hazard' = [hazard EXCEPT ![g].updated = now]
            PROVE  FALSE
        BY <2>1, <3>2, <4>3, AlikeRows DEF IInv, TypeOK
      <4>4. QED
        BY <2>1, <4>1, <4>2, <4>3, AlikeRows DEF Upload, RecordDetection
    <3>4. h = p
      BY <2>1, <3>3 DEF OpenHazard, IInv, TypeOK
    <3>5. QED
      BY <2>1, <3>3, <3>4 DEF Upload, IInv, TypeOK
  <2>2. ASSUME NEW p \in Photos, AcknowledgeLiving(p) PROVE hazard[h] # None
    BY <2>2 DEF AcknowledgeLiving, ActiveRows, Rows, IInv, TypeOK
  <2>3. ASSUME NEW t \in Treatments, NEW status \in {"SUCCEEDED", "FAILED"},
               NEW completed \in Time, ReceiveResult(t, status, completed)
        PROVE  hazard[h] # None
    BY <2>3 DEF ReceiveResult, ActiveRows, Rows, IInv, TypeOK
  <2>4. ASSUME NEW reset \in StartupResets, BackendRestart(reset) PROVE hazard[h] # None
    BY <2>4 DEF BackendRestart, ActiveRows, Rows
  <2>5. ASSUME NEW d \in Devices, Retire(d) PROVE hazard[h] # None
    BY <2>5 DEF Retire, ActiveRows, Rows
  <2>6. QED
    BY <2>1, <2>2, <2>3, <2>4, <2>5, RowSteps
<1>2. QED
  BY <1>1, PhotosKept DEF IInv, RowsInv

\* One object has one active row.
LEMMA OneHazardKept == IInv /\ [Next]_vars => OneHazardPerObject'
<1> SUFFICES ASSUME IInv, [Next]_vars,
                    NEW h \in ActiveRows', NEW g \in ActiveRows', h # g,
                    photo'[h].device = photo'[g].device, photo'[h].kind = photo'[g].kind,
                    hazard'[h].child = hazard'[g].child
             PROVE  photo'[h].instance # photo'[g].instance
  BY DEF OneHazardPerObject
<1> DEFINE Was(x) == x \in ActiveRows /\ hazard'[x].child = hazard[x].child
           IsNew(x) == /\ photo[x] # None
                       /\ SameObject(x) = {}
                       /\ hazard'[x].child = linked[photo[x].device]
                       /\ \A y \in Photos \ {x} : hazard'[y] = hazard[y]
<1>1. h \in Photos /\ g \in Photos
  BY DEF ActiveRows, Rows
<1>2. (Was(h) \/ IsNew(h)) /\ (Was(g) \/ IsNew(g))
  BY ActiveBefore DEF IInv
<1>3. photo[h] # None /\ photo[g] # None
  BY <1>1, <1>2 DEF IInv, RowsInv, ActiveRows, Rows
<1>4. photo'[h] = photo[h] /\ photo'[g] = photo[g]
  BY <1>1, <1>3, PhotosKept DEF IInv
<1>5. CASE Was(h) /\ Was(g)
  BY <1>4, <1>5 DEF IInv, OneHazardPerObject
<1>6. ASSUME NEW x \in {h, g}, NEW y \in {h, g}, x # y, IsNew(x)
      PROVE  photo[x].instance # photo[y].instance
  <2>1. hazard'[y] = hazard[y]
    BY <1>1, <1>6
  <2>2. y \in ActiveRows
    BY <1>1, <2>1 DEF ActiveRows, Rows
  <2>3. hazard[y].child = linked[photo[x].device]
    BY <1>6, <2>1
  <2>4. y \notin Alike(x)
    BY <1>6, <2>2 DEF SameObject
  <2>5. photo[x].instance \notin {NoInstance, photo[y].instance}
    BY <1>4, <2>2, <2>3, <2>4 DEF Alike, ActiveRows
  <2>6. QED
    BY <2>5
<1>7. QED
  BY <1>2, <1>4, <1>5, <1>6

-----------------------------------------------------------------------------
(* What the actions say of photographs, treatments and timers *)

\* Only Capture makes photographs, of what the tracker knows.
LEMMA PhotoInvKept == IInv /\ [Next]_vars => PhotoInv'
<1> SUFFICES ASSUME IInv, [Next]_vars PROVE PhotoInv'
  OBVIOUS
<1>1. ASSUME NEW p \in Photos, NEW d \in Devices, NEW i \in Instances,
             NEW instance \in {i, NoInstance}, Capture(p, d, i, instance)
      PROVE  PhotoInv'
  BY <1>1 DEF Capture, PhotoInv, IInv, TypeOK
<1>2. CASE UNCHANGED photo
  BY <1>2 DEF PhotoInv, IInv
<1>3. CASE UNCHANGED vars
  BY <1>2, <1>3 DEF vars, uploads
<1>4. CASE Next
  <2>1. \/ UNCHANGED photo
        \/ \E p \in Photos, d \in Devices, i \in Instances : \E instance \in {i, NoInstance} :
             Capture(p, d, i, instance)
    BY <1>4
    DEF Next, uploads, Tick, BackendRestart, Upload, KeepUpload, AcknowledgeLiving, ReportBlind,
        Report, Retire, RetireRolledBack, ActivateChild, LoadHazard, QueueTreatment,
        RefuseTreatment, SendTreatment, ExpireTreatment, ReceiveResult
  <2>2. QED
    BY <1>1, <1>2, <2>1
<1>5. QED
  BY <1>3, <1>4

\* Only LoadHazard makes treatments, of rows of swallowing objects.
LEMMA TreatmentInvKept == IInv /\ [Next]_vars => TreatmentInv'
<1> SUFFICES ASSUME IInv, [Next]_vars, NEW t \in Treatments, treatment'[t] # None
             PROVE  LET h == treatment'[t].hazard
                    IN  hazard'[h] # None /\ photo'[h] # None /\ photo'[h].kind \in SwallowKinds
  BY DEF TreatmentInv
<1> DEFINE About(h) == h \in Rows /\ photo[h] # None /\ photo[h].kind \in SwallowKinds
<1>1. treatment[t] # None => About(treatment[t].hazard)
  BY TreatmentTyped DEF IInv, TreatmentInv, Rows
<1>2. CASE treatment[t] # None /\ treatment'[t].hazard = treatment[t].hazard
  BY <1>1, <1>2, PhotosKept, RowsStay DEF IInv, Rows
<1>3. ASSUME NEW h \in Photos, NEW kind, LoadHazard(t, h, kind), treatment[t] = None
      PROVE  treatment'[t].hazard = h /\ About(h)
  <2>1. h \in Rows /\ photo[h].kind \in SwallowKinds
    BY <1>3 DEF LoadHazard, ActiveRows
  <2>2. photo[h] # None
    BY <2>1 DEF IInv, RowsInv, Rows
  <2>3. treatment'[t].hazard = h
    BY <1>3 DEF LoadHazard, SetTreatment, IInv, TypeOK
  <2>4. QED
    BY <2>1, <2>2, <2>3
<1>4. \/ treatment[t] # None /\ treatment'[t].hazard = treatment[t].hazard
      \/ \E h \in Photos, kind \in {"DIRECT_REMOVAL_CHECK", "RELOCATE"} :
           LoadHazard(t, h, kind) /\ treatment[t] = None
  <2> USE DEF IInv, TypeOK
  <2>1. ASSUME NEW reset \in StartupResets, BackendRestart(reset)
        PROVE  treatment[t] # None /\ treatment'[t].hazard = treatment[t].hazard
    <3>1. treatment[t] # None
      BY <2>1 DEF BackendRestart
    <3>2. \/ treatment'[t] = treatment[t]
          \/ treatment'[t] = [treatment[t] EXCEPT !.status = "EXPIRED"]
      BY <2>1, <3>1 DEF BackendRestart
    <3>3. treatment[t] \in Treatment
      BY <3>1, TreatmentTyped
    <3>4. QED
      BY <3>1, <3>2, <3>3 DEF Treatment
  <2>2. CASE treatment'[t] = treatment[t]
    BY <2>2
  <2>3. ASSUME NEW u \in Treatments, treatment[u] # None,
               \A v \in Treatments \ {u} : treatment'[v] = treatment[v],
               treatment'[u] = None \/ treatment'[u].hazard = treatment[u].hazard
        PROVE  \/ treatment'[t] = treatment[t]
               \/ treatment[t] # None /\ treatment'[t].hazard = treatment[t].hazard
    BY <2>3
  <2>4. ASSUME NEW u \in Treatments,
               \/ QueueTreatment(u) \/ RefuseTreatment(u) \/ SendTreatment(u) \/ ExpireTreatment(u)
               \/ \E status \in {"SUCCEEDED", "FAILED"}, completed \in Time :
                    ReceiveResult(u, status, completed)
        PROVE  \/ treatment'[t] = treatment[t]
               \/ treatment[t] # None /\ treatment'[t].hazard = treatment[t].hazard
    <3>1. treatment[u] # None /\ treatment[u] \in Treatment
      BY <2>4, TreatmentTyped
      DEF QueueTreatment, RefuseTreatment, SendTreatment, ExpireTreatment, ReceiveResult
    <3>2. CASE QueueTreatment(u)
      BY <2>3, <3>1, <3>2 DEF QueueTreatment, SetTreatment, Treatment
    <3>3. CASE RefuseTreatment(u)
      BY <2>3, <3>1, <3>3 DEF RefuseTreatment, SetTreatment, Treatment
    <3>4. CASE SendTreatment(u)
      BY <2>3, <3>1, <3>4 DEF SendTreatment, SetTreatment, Treatment
    <3>5. CASE ExpireTreatment(u)
      BY <2>3, <3>1, <3>5 DEF ExpireTreatment, SetTreatment, Treatment
    <3>6. ASSUME NEW status \in {"SUCCEEDED", "FAILED"}, NEW completed \in Time,
                 ReceiveResult(u, status, completed)
          PROVE  \/ treatment'[t] = treatment[t]
                 \/ treatment[t] # None /\ treatment'[t].hazard = treatment[t].hazard
      BY <2>3, <3>1, <3>6 DEF ReceiveResult, SetTreatment, Treatment
    <3>7. QED
      BY <2>4, <3>2, <3>3, <3>4, <3>5, <3>6
  <2>5. ASSUME NEW u \in Treatments, NEW h \in Photos,
               NEW kind \in {"DIRECT_REMOVAL_CHECK", "RELOCATE"}, LoadHazard(u, h, kind)
        PROVE  \/ treatment'[t] = treatment[t]
               \/ LoadHazard(t, h, kind) /\ treatment[t] = None
    BY <2>5 DEF LoadHazard, SetTreatment
  <2>6. \/ UNCHANGED treatment
        \/ \E reset \in StartupResets : BackendRestart(reset)
        \/ \E u \in Treatments :
             \/ \E h \in Photos, kind \in {"DIRECT_REMOVAL_CHECK", "RELOCATE"} :
                  LoadHazard(u, h, kind)
             \/ QueueTreatment(u) \/ RefuseTreatment(u) \/ SendTreatment(u) \/ ExpireTreatment(u)
             \/ \E status \in {"SUCCEEDED", "FAILED"}, completed \in Time :
                  ReceiveResult(u, status, completed)
    BY DEF Next, vars, rows, Tick, Upload, KeepUpload, AcknowledgeLiving, Capture, ReportBlind,
           Report, Retire, RetireRolledBack, ActivateChild
  <2>7. QED
    BY <2>1, <2>2, <2>4, <2>5, <2>6
<1>5. QED
  BY <1>2, <1>3, <1>4, PhotosKept, RowsStay DEF IInv, Rows

\* Only a report fills retiring, with active hazards of its device.
LEMMA RetiringInvKept == IInv /\ [Next]_vars => RetiringInv'
<1> SUFFICES ASSUME IInv, [Next]_vars, NEW d \in Devices, NEW h \in retiring'[d]
             PROVE  photo'[h] # None /\ photo'[h].device = d
  BY DEF RetiringInv
<1> USE DEF IInv, TypeOK
<1>1. h \in retiring[d] \/ \E sight \in SUBSET Instances : Report(d, sight) /\ h \in ActiveOn(d)
  <2>1. ASSUME NEW e \in Devices, NEW sight \in SUBSET Instances, Report(e, sight)
        PROVE  h \in retiring[d] \/ (e = d /\ h \in ActiveOn(d))
    BY <2>1 DEF Report
  <2>2. ASSUME NEW e \in Devices, Forget(e) PROVE h \in retiring[d]
    BY <2>2 DEF Forget
  <2>3. ASSUME NEW reset \in StartupResets, BackendRestart(reset) PROVE FALSE
    BY <2>3 DEF BackendRestart
  <2>4. \/ UNCHANGED retiring
        \/ \E e \in Devices, sight \in SUBSET Instances : Report(e, sight)
        \/ \E e \in Devices : Forget(e)
        \/ \E reset \in StartupResets : BackendRestart(reset)
    BY DEF Next, vars, reports, Tick, Upload, KeepUpload, AcknowledgeLiving, Capture, ReportBlind,
           Retire, RetireRolledBack, ActivateChild, LoadHazard, QueueTreatment, RefuseTreatment,
           SendTreatment, ExpireTreatment, ReceiveResult
  <2>5. QED
    BY <2>1, <2>2, <2>3, <2>4
<1>2. h \in Photos /\ photo[h] # None /\ photo[h].device = d
  BY <1>1 DEF RetiringInv, ActiveOn, ActiveRows, Rows, RowsInv
<1>3. QED
  BY <1>2, PhotosKept

-----------------------------------------------------------------------------
(* Timers: only the clock, reports, their handlers and a restart move them *)

\* The steps that move timers.
LEMMA TimerSteps ==
  ASSUME [Next]_vars
  PROVE  \/ UNCHANGED reports /\ UNCHANGED now
         \/ Tick
         \/ \E reset \in StartupResets : BackendRestart(reset)
         \/ \E d \in Devices :
              \/ ReportBlind(d)
              \/ \E sight \in SUBSET Instances : Report(d, sight)
              \/ Forget(d) /\ UNCHANGED now
BY DEF Next, vars, Upload, KeepUpload, AcknowledgeLiving, Capture, Retire, RetireRolledBack,
       ActivateChild, LoadHazard, QueueTreatment, RefuseTreatment, SendTreatment, ExpireTreatment,
       ReceiveResult

\* The lists of the robot leave no swallowing object out that is in sight.
LEMMA SwallowListed ==
  ASSUME IInv, NEW h \in Photos, photo[h] # None, photo[h].kind \in SwallowKinds,
         NEW sight \in SUBSET Instances, Among(h, sight)
  PROVE  Among(h, Visible(sight))
<1>1. CASE photo[h].instance = NoInstance
  BY <1>1 DEF Among, Visible
<1>2. CASE photo[h].instance # NoInstance
  <2>1. KindOf[photo[h].instance] = photo[h].kind
    BY <1>2 DEF IInv, PhotoInv
  <2>2. QED
    BY <1>2, <2>1 DEF Among, Visible
<1>3. QED
  BY <1>1, <1>2

\* Sight of a swallowing object restarts its timer whenever it ends its absence.
LEMMA TimerInvKept == IInv /\ [Next]_vars => TimerInv'
<1> SUFFICES ASSUME IInv, [Next]_vars, NEW h \in Photos
             PROVE  /\ away'[h] <= now' /\ lastSeen'[h] <= now'
                    /\ lastSeen'[h] # Never => photo'[h] # None
                    /\ lastSeen'[h] # Never /\ photo'[h].kind \in SwallowKinds
                         => away'[h] # Never /\ away'[h] <= lastSeen'[h]
  BY DEF TimerInv
<1> DEFINE Swallow == photo[h].kind \in SwallowKinds
<1>1. /\ now \in Nat /\ away[h] \in Int /\ lastSeen[h] \in Int
      /\ away[h] <= now /\ lastSeen[h] <= now
      /\ lastSeen[h] # Never => photo[h] # None
      /\ lastSeen[h] # Never /\ Swallow => away[h] # Never /\ away[h] <= lastSeen[h]
  BY DEF IInv, TypeOK, Time, TimerInv
<1>2. photo[h] # None => photo'[h] = photo[h]
  BY PhotosKept DEF IInv
<1>3. \A d \in Devices : h \in ActiveOn(d) => photo[h] # None
  BY DEF ActiveOn, ActiveRows, Rows, IInv, RowsInv
<1>4. SUFFICES /\ away'[h] <= now' /\ lastSeen'[h] <= now'
               /\ lastSeen'[h] # Never => photo[h] # None
               /\ lastSeen'[h] # Never /\ Swallow => away'[h] # Never /\ away'[h] <= lastSeen'[h]
  BY <1>2
<1>5. CASE UNCHANGED reports /\ UNCHANGED now
  BY <1>1, <1>5 DEF reports
<1>6. CASE Tick
  BY <1>1, <1>6 DEF Tick, reports
<1>7. ASSUME NEW reset \in StartupResets, BackendRestart(reset)
      PROVE  lastSeen'[h] = Never /\ away'[h] = Never /\ now' = now
  BY <1>7 DEF BackendRestart
<1>8. ASSUME NEW d \in Devices, ReportBlind(d)
      PROVE  \/ h \in ActiveOn(d) /\ lastSeen'[h] = now /\ away'[h] = now /\ now' = now
             \/ lastSeen'[h] = lastSeen[h] /\ away'[h] = away[h] /\ now' = now
  BY <1>8 DEF ReportBlind
<1>9. ASSUME NEW d \in Devices, Forget(d)
      PROVE  \/ lastSeen'[h] = Never /\ away'[h] = Never
             \/ lastSeen'[h] = lastSeen[h] /\ away'[h] = away[h]
  BY <1>9 DEF Forget
<1>10. ASSUME NEW d \in Devices, NEW sight \in SUBSET Instances, Report(d, sight)
       PROVE  /\ away'[h] <= now' /\ lastSeen'[h] <= now'
              /\ lastSeen'[h] # Never => photo[h] # None
              /\ lastSeen'[h] # Never /\ Swallow => away'[h] # Never /\ away'[h] <= lastSeen'[h]
  <2>1. /\ now' = now
        /\ lastSeen'[h] \in {now, lastSeen[h], Never}
        /\ away'[h] = IF h \in ActiveOn(d) /\ (Among(h, sight) \/ away[h] = Never) THEN now
                                                                               ELSE away[h]
    BY <1>10 DEF Report
  <2>2. h \notin ActiveOn(d) => lastSeen'[h] = Never
    BY <1>10 DEF Report
  <2>3. h \in ActiveOn(d) /\ Swallow /\ Among(h, sight) => lastSeen'[h] = now
    <3>1. h \in ActiveOn(d) /\ Swallow /\ Among(h, sight) => Among(h, Visible(sight))
      BY <1>3, SwallowListed
    <3>2. QED
      BY <1>10, <3>1 DEF Report
  <2>4. h \in ActiveOn(d) /\ away[h] = Never /\ Swallow => lastSeen'[h] = now
    BY <1>1, <1>10 DEF Report
  <2>5. QED
    BY <1>1, <1>3, <2>1, <2>2, <2>3, <2>4
<1>11. QED
  BY <1>1, <1>3, <1>5, <1>6, <1>7, <1>8, <1>9, <1>10, TimerSteps

\* What the report handler takes the lock for has been out of sight for Absent.
LEMMA SwallowKept == IInv /\ [Next]_vars => SwallowRetiredUnseen'
<1> SUFFICES ASSUME IInv, [Next]_vars, NEW d \in Devices, NEW h \in retiring'[d],
                    photo'[h].kind \in SwallowKinds
             PROVE  h \in overdue'
  BY DEF SwallowRetiredUnseen, RetiredUnseen
<1> USE DEF IInv, TypeOK
<1>1. ASSUME h \in retiring[d]
      PROVE  /\ h \in Photos /\ photo[h] # None /\ photo[h].device = d
             /\ h \in overdue
             /\ \A e \in Devices : h \in ActiveOn(e) \/ h \in retiring[e] => e = d
  <2>1. h \in Photos /\ photo[h] # None /\ photo[h].device = d
    BY <1>1 DEF RetiringInv
  <2>2. photo[h].kind \in SwallowKinds
    BY <2>1, PhotosKept
  <2>3. QED
    BY <1>1, <2>1, <2>2 DEF SwallowRetiredUnseen, RetiredUnseen, RetiringInv, ActiveOn
<1>2. CASE UNCHANGED reports
  BY <1>1, <1>2 DEF reports
<1>3. CASE Tick
  BY <1>1, <1>3 DEF Tick, reports
<1>4. ASSUME NEW reset \in StartupResets, BackendRestart(reset) PROVE FALSE
  BY <1>4 DEF BackendRestart
<1>5. ASSUME NEW e \in Devices, ReportBlind(e) PROVE h \in overdue'
  BY <1>1, <1>5 DEF ReportBlind
<1>6. ASSUME NEW e \in Devices, Forget(e) PROVE h \in overdue'
  BY <1>1, <1>6 DEF Forget
<1>7. ASSUME NEW e \in Devices, NEW sight \in SUBSET Instances, Report(e, sight)
      PROVE  h \in overdue'
  <2>1. CASE e # d
    BY <1>1, <1>7, <2>1 DEF Report
  <2>2. CASE e = d
    <3>1. /\ h \in ActiveOn(d) /\ ~Among(h, Visible(sight))
          /\ lastSeen[h] # Never /\ now - lastSeen[h] >= Absent
      BY <1>7, <2>2 DEF Report
    <3>2. h \in Photos /\ photo[h] # None
      BY <3>1 DEF ActiveOn, ActiveRows, Rows, RowsInv
    <3>3. photo[h].kind \in SwallowKinds
      BY <3>2, PhotosKept
    <3>4. ~Among(h, sight)
      BY <3>1, <3>2, <3>3, SwallowListed
    <3>5. away[h] # Never /\ away[h] <= lastSeen[h]
      BY <3>1, <3>2, <3>3 DEF TimerInv
    <3>6. away'[h] = away[h]
      BY <1>7, <2>2, <3>2, <3>4, <3>5 DEF Report
    <3>7. now \in Int /\ away[h] \in Int /\ lastSeen[h] \in Int
      BY <3>2 DEF Time
    <3>8. now - away'[h] >= Absent
      BY <3>1, <3>5, <3>6, <3>7
    <3>9. QED
      BY <1>7, <2>2, <3>1, <3>8 DEF Report
  <2>3. QED
    BY <2>1, <2>2
<1>8. QED
  BY <1>2, <1>3, <1>4, <1>5, <1>6, <1>7, TimerSteps

\* Every step keeps the invariant.
LEMMA IInvKept == IInv /\ [Next]_vars => IInv'
BY NextTyped, RowsInvKept, PhotoInvKept, TreatmentInvKept, TimerInvKept, RetiringInvKept,
   OneHazardKept, SwallowKept
DEF IInv

-----------------------------------------------------------------------------
(* The invariants *)

\* The inductive invariant holds in every reachable state.
THEOREM SpecIInv == Spec => []IInv
<1>1. Init => IInv
  BY InitIInv
<1>2. IInv /\ [Next]_vars => IInv'
  BY IInvKept
<1>3. QED
  BY <1>1, <1>2, PTL DEF Spec

\* Every variable keeps its type.
THEOREM LedgerTyped == Spec => []TypeOK
<1>1. IInv => TypeOK
  BY DEF IInv
<1>2. QED
  BY <1>1, SpecIInv, PTL

\* A child's list shows no object twice, whatever order photographs, treatments and
\* reports come in.
THEOREM ObjectsShownOnce == Spec => []OneHazardPerObject
<1>1. IInv => OneHazardPerObject
  BY DEF IInv
<1>2. QED
  BY <1>1, SpecIInv, PTL

\* A swallowing hazard is retired only after the camera has missed it for Absent.
THEOREM SwallowSeenIsKept == Spec => []SwallowRetiredUnseen
<1>1. IInv => SwallowRetiredUnseen
  BY DEF IInv
<1>2. QED
  BY <1>1, SpecIInv, PTL

-----------------------------------------------------------------------------
(* What a step may never do *)

\* A hazard leaves the list by a restart with reset, an acknowledgement, retireUnseen
\* or the success of a treatment.
LEMMA Closing ==
  ASSUME IInv, [Next]_vars, NEW h \in ActiveRows, h \notin ActiveRows'
  PROVE  \/ TRUE \in StartupResets /\ BackendRestart(TRUE)
         \/ photo[h].kind \in LivingKinds
         \/ ~Protected(h)
         \/ \E t \in TreatmentsOf(h) : Open(t) /\ ~Open(t)'
<1> USE DEF IInv, TypeOK
<1>1. h \in Photos /\ hazard[h] \in Hazard /\ hazard[h].status = "ACTIVE"
  BY RowTyped DEF ActiveRows, Rows
<1>2. hazard'[h] # None
  BY RowsStay DEF ActiveRows
<1>3. hazard'[h].status # "ACTIVE"
  BY <1>1, <1>2 DEF ActiveRows, Rows
<1>4. CASE UNCHANGED hazard
  BY <1>1, <1>3, <1>4
<1>5. ASSUME NEW p \in Photos, Upload(p) PROVE FALSE
  <2>1. ASSUME NEW g, Refresh(g, p) PROVE FALSE
    BY <1>1, <1>3, <2>1 DEF Refresh, Hazard
  <2>2. ASSUME NEW g, hazard' = [hazard EXCEPT ![g].updated = now] PROVE FALSE
    BY <1>1, <1>3, <2>2 DEF Hazard
  <2>3. ASSUME OpenHazard(p) PROVE FALSE
    BY <1>1, <1>3, <2>3 DEF OpenHazard
  <2>4. QED
    BY <1>4, <1>5, <1>1, <1>3, <2>1, <2>2, <2>3 DEF Upload, RecordDetection
<1>6. ASSUME NEW g \in Photos, AcknowledgeLiving(g) PROVE photo[h].kind \in LivingKinds
  BY <1>1, <1>3, <1>6 DEF AcknowledgeLiving
<1>7. ASSUME NEW d \in Devices, Retire(d) PROVE ~Protected(h)
  BY <1>1, <1>3, <1>7 DEF Retire
<1>8. ASSUME NEW reset \in StartupResets, BackendRestart(reset)
      PROVE  TRUE \in StartupResets /\ BackendRestart(TRUE)
  <2>1. reset = TRUE
    BY <1>1, <1>3, <1>8 DEF BackendRestart
  <2>2. QED
    BY <1>8, <2>1
<1>9. ASSUME NEW t \in Treatments, NEW status \in {"SUCCEEDED", "FAILED"},
             NEW completed \in Time, ReceiveResult(t, status, completed)
      PROVE  \E u \in TreatmentsOf(h) : Open(u) /\ ~Open(u)'
  <2>1. treatment[t] # None /\ treatment[t].status = "SENT" /\ treatment[t] \in Treatment
    BY <1>9, TreatmentTyped DEF ReceiveResult
  <2>2. treatment[t].hazard = h
    BY <1>1, <1>3, <1>9 DEF ReceiveResult
  <2>3. treatment'[t].status = status
    BY <1>9, <2>1 DEF ReceiveResult, SetTreatment, Treatment
  <2>4. QED
    BY <2>1, <2>2, <2>3 DEF TreatmentsOf, Open
<1>10. \/ \E reset \in StartupResets : BackendRestart(reset)
       \/ \E p \in Photos : Upload(p) \/ AcknowledgeLiving(p)
       \/ \E d \in Devices : Retire(d)
       \/ \E t \in Treatments, status \in {"SUCCEEDED", "FAILED"}, completed \in Time :
            ReceiveResult(t, status, completed)
  BY <1>1, <1>3, RowSteps
<1> HIDE DEF IInv, TypeOK
<1>11. CASE \E reset \in StartupResets : BackendRestart(reset)
  BY <1>8, <1>11
<1>12. CASE \E p \in Photos : Upload(p) \/ AcknowledgeLiving(p)
  BY <1>5, <1>6, <1>12
<1>13. CASE \E d \in Devices : Retire(d)
  BY <1>7, <1>13
<1>14. CASE \E t \in Treatments, status \in {"SUCCEEDED", "FAILED"}, completed \in Time :
              ReceiveResult(t, status, completed)
  BY <1>9, <1>14
<1>15. QED
  BY <1>10, <1>11, <1>12, <1>13, <1>14

\* A treatment that is open, or has just failed, keeps its hazard on the list although
\* the report handler reads the rows before it takes the lock.
THEOREM TreatmentsHold == Spec => TreatmentHolds
<1> DEFINE A == \/ TRUE \in StartupResets /\ BackendRestart(TRUE)
                \/ \A h \in ActiveRows : Protected(h) /\ h \notin ActiveRows'
                     => \E t \in TreatmentsOf(h) : Open(t) /\ ~Open(t)'
<1>1. IInv /\ [Next]_vars => [A]_vars
  <2> SUFFICES ASSUME IInv, [Next]_vars, ~(TRUE \in StartupResets /\ BackendRestart(TRUE)),
                      NEW h \in ActiveRows, Protected(h), h \notin ActiveRows'
               PROVE  \E t \in TreatmentsOf(h) : Open(t) /\ ~Open(t)'
    OBVIOUS
  <2>1. photo[h].kind \in SwallowKinds
    BY DEF Protected, TreatmentsOf, IInv, TreatmentInv
  <2>2. photo[h].kind \notin LivingKinds
    BY <2>1
  <2>3. QED
    BY <2>2, Closing
<1> HIDE DEF A
<1>2. Spec => [][A]_vars
  BY <1>1, SpecIInv, PTL DEF Spec
<1>3. QED
  BY <1>2 DEF A, TreatmentHolds

\* What a photograph writes into a row: only when nothing it may be about was handled
\* since it was taken, and then its time.
LEMMA Showing ==
  ASSUME IInv, [Next]_vars, NEW h \in Photos, hazard'[h] # None,
         hazard[h] = None \/ hazard'[h].detected # hazard[h].detected
  PROVE  \E p \in Photos :
           /\ Upload(p)
           /\ HandledAfter(p) = {}
           /\ hazard'[h].detected = photo[p].taken
           /\ hazard'[h].child = linked[photo[p].device]
           /\ photo[p] # None
           /\ photo[h].device = photo[p].device /\ photo[h].kind = photo[p].kind
           /\ photo[p].instance \in {NoInstance, photo[h].instance}
<1> USE DEF IInv, TypeOK
<1>1. hazard[h] # None => hazard[h] \in Hazard
  OBVIOUS
<1>2. CASE UNCHANGED hazard
  BY <1>2
<1>3. ASSUME NEW d \in Devices, Retire(d) PROVE FALSE
  BY <1>1, <1>3 DEF Retire, ActiveRows, Rows, Hazard
<1>4. ASSUME NEW reset \in StartupResets, BackendRestart(reset) PROVE FALSE
  BY <1>1, <1>4 DEF BackendRestart, ActiveRows, Rows, Hazard
<1>5. ASSUME NEW g \in Photos, AcknowledgeLiving(g) PROVE FALSE
  BY <1>1, <1>5 DEF AcknowledgeLiving, ActiveRows, Rows, Hazard
<1>6. ASSUME NEW t \in Treatments, NEW status \in {"SUCCEEDED", "FAILED"},
             NEW completed \in Time, ReceiveResult(t, status, completed)
      PROVE  FALSE
  BY <1>1, <1>6 DEF ReceiveResult, ActiveRows, Rows, Hazard
<1>7. ASSUME NEW p \in Photos, Upload(p)
      PROVE  /\ HandledAfter(p) = {}
             /\ hazard'[h].detected = photo[p].taken
             /\ hazard'[h].child = linked[photo[p].device]
             /\ photo[p] # None
             /\ photo[h].device = photo[p].device /\ photo[h].kind = photo[p].kind
             /\ photo[p].instance \in {NoInstance, photo[h].instance}
  <2>1. photo[p] # None /\ hazard' # hazard
    BY <1>7 DEF Upload
  <2>2. HandledAfter(p) = {}
    BY <1>7, <2>1 DEF Upload, RecordDetection
  <2>3. ASSUME NEW g \in RecentlyAcknowledged(p), hazard' = [hazard EXCEPT ![g].updated = now]
        PROVE  FALSE
    <3>1. g \in Rows
      BY AlikeRows
    <3>2. QED
      BY <1>1, <2>3, <3>1 DEF Rows, Hazard
  <2>4. ASSUME NEW g \in SameObject(p), Refresh(g, p)
        PROVE  /\ hazard'[h].detected = photo[p].taken
               /\ hazard'[h].child = linked[photo[p].device]
               /\ photo[h].device = photo[p].device /\ photo[h].kind = photo[p].kind
               /\ photo[p].instance \in {NoInstance, photo[h].instance}
    <3>1. g \in Rows /\ g \in Alike(p)
      BY AlikeRows DEF SameObject
    <3>2. g = h
      BY <2>1, <2>4 DEF Refresh
    <3>3. hazard[h] \in Hazard
      BY <3>1, <3>2 DEF Rows
    <3>4. /\ hazard'[h].detected = photo[p].taken
          /\ hazard'[h].child = hazard[h].child
      BY <2>1, <2>4, <3>2, <3>3 DEF Refresh, Hazard
    <3>5. QED
      BY <3>1, <3>2, <3>4 DEF Alike
  <2>5. ASSUME OpenHazard(p)
        PROVE  /\ hazard'[h].detected = photo[p].taken
               /\ hazard'[h].child = linked[photo[p].device]
               /\ photo[h].device = photo[p].device /\ photo[h].kind = photo[p].kind
               /\ photo[p].instance \in {NoInstance, photo[h].instance}
    BY <2>5 DEF OpenHazard
  <2>6. QED
    BY <1>7, <2>1, <2>2, <2>3, <2>4, <2>5, AlikeRows DEF Upload, RecordDetection
<1>8. QED
  BY <1>2, <1>3, <1>4, <1>5, <1>6, <1>7, RowSteps

\* What was treated does not come back on the evidence of an older photograph.
THEOREM TreatedStays == Spec => TreatedStaysTreated
<1> DEFINE A == \A h \in Photos, t \in Treatments :
                  LET g == treatment[t].hazard IN
                  /\ treatment[t] # None /\ treatment[t].status = "SUCCEEDED"
                  /\ hazard'[h] # None /\ hazard'[h].child = hazard[g].child
                  /\ photo[h].device = photo[g].device /\ photo[h].kind = photo[g].kind
                  /\ photo[h].instance = photo[g].instance
                  /\ hazard[h] = None \/ hazard'[h].detected # hazard[h].detected
                  => hazard'[h].detected > treatment[t].at
<1>1. IInv /\ [Next]_vars => A
  <2> SUFFICES ASSUME IInv, [Next]_vars, NEW h \in Photos, NEW t \in Treatments, NEW g,
                      g = treatment[t].hazard,
                      treatment[t] # None, treatment[t].status = "SUCCEEDED",
                      hazard'[h] # None, hazard'[h].child = hazard[g].child,
                      photo[h].device = photo[g].device, photo[h].kind = photo[g].kind,
                      photo[h].instance = photo[g].instance,
                      hazard[h] = None \/ hazard'[h].detected # hazard[h].detected
               PROVE  hazard'[h].detected > treatment[t].at
    OBVIOUS
  <2>1. PICK p \in Photos :
          /\ HandledAfter(p) = {}
          /\ hazard'[h].detected = photo[p].taken
          /\ hazard'[h].child = linked[photo[p].device]
          /\ photo[p] # None
          /\ photo[h].device = photo[p].device /\ photo[h].kind = photo[p].kind
          /\ photo[p].instance \in {NoInstance, photo[h].instance}
    BY Showing
  <2>2. treatment[t] \in Treatment /\ g \in Photos
    BY TreatmentTyped DEF IInv
  <2>3. g \in Alike(p)
    BY <2>1, <2>2 DEF Alike, Rows, IInv, TreatmentInv
  <2>4. ~(treatment[t].at >= photo[p].taken)
    BY <2>1, <2>3 DEF HandledAfter, TreatedSince, TreatmentsOf
  <2>5. treatment[t].at \in Int /\ photo[p].taken \in Int
    BY <2>1, <2>2 DEF IInv, TypeOK, Treatment, Photo, Time
  <2>6. QED
    BY <2>1, <2>4, <2>5
<1> HIDE DEF A
<1>2. Spec => [][A]_vars
  BY <1>1, SpecIInv, PTL DEF Spec
<1>3. QED
  BY <1>2 DEF A, TreatedStaysTreated

\* A photograph taken after all that was done about objects like its own is shown.
THEOREM FreshShown == Spec => FreshPhotoShows
<1> DEFINE A == \A p \in Photos :
                  /\ filed[p] = None /\ filed'[p] \in Photos
                  /\ HandledAfter(p) = {}
                  => \E h \in Photos :
                       /\ filed'[p] = h
                       /\ \/ /\ h \in ActiveRows' /\ ~Relocated(h)'
                             /\ hazard'[h].detected >= photo'[p].taken
                          \/ photo[p].kind \in LivingKinds /\ h \in Rows /\ hazard[h].acknowledged
<1>1. IInv /\ [Next]_vars => A
  <2> SUFFICES ASSUME IInv, [Next]_vars, NEW p \in Photos,
                      filed[p] = None, filed'[p] \in Photos, HandledAfter(p) = {}
               PROVE  \E h \in Photos :
                        /\ filed'[p] = h
                        /\ \/ /\ h \in ActiveRows' /\ ~Relocated(h)'
                              /\ hazard'[h].detected >= photo'[p].taken
                           \/ photo[p].kind \in LivingKinds /\ h \in Rows /\ hazard[h].acknowledged
    OBVIOUS
  <2>1. Upload(p)
    <3>1. ASSUME NEW q \in Photos, Upload(q) PROVE q = p
      BY <3>1, AlikeRows DEF Upload, RecordDetection, IInv, TypeOK
    <3>2. ASSUME NEW q \in Photos, KeepUpload(q) PROVE FALSE
      BY <3>2 DEF KeepUpload, IInv, TypeOK
    <3>3. filed' # filed
      OBVIOUS
    <3>4. \E q \in Photos : Upload(q) \/ KeepUpload(q)
      BY <3>3
      DEF Next, vars, uploads, Tick, BackendRestart, AcknowledgeLiving, Capture, ReportBlind, Report,
          Retire, RetireRolledBack, ActivateChild, LoadHazard, QueueTreatment, RefuseTreatment,
          SendTreatment, ExpireTreatment, ReceiveResult
    <3>5. QED
      BY <3>1, <3>2, <3>4
  <2>2. /\ photo[p] # None /\ photo' = photo /\ treatment' = treatment
        /\ photo[p] \in Photo /\ photo[p].taken \in Int
    BY <2>1 DEF Upload, IInv, TypeOK, Photo, Time
  <2>3. ASSUME NEW h \in LastDetected(SameObject(p)), filed' = [filed EXCEPT ![p] = h], Refresh(h, p)
        PROVE  /\ h \in Photos /\ filed'[p] = h
               /\ h \in ActiveRows' /\ ~Relocated(h)'
               /\ hazard'[h].detected >= photo'[p].taken
    <3>1. h \in ActiveRows /\ h \in Alike(p) /\ h \in Photos
      BY AlikeRows DEF SameObject
    <3>2. hazard[h] \in Hazard /\ hazard[h].status = "ACTIVE" /\ hazard[h].detected \in Int
      <4>1. hazard[h] \in Hazard /\ hazard[h].status = "ACTIVE"
        BY <3>1, RowTyped DEF ActiveRows, IInv
      <4>2. QED
        BY <4>1 DEF Hazard, Time
    <3>3. hazard'[h].status = "ACTIVE" /\ hazard'[h].detected \in Int
          /\ hazard'[h].detected >= photo[p].taken
      BY <2>2, <2>3, <3>1, <3>2 DEF Refresh, Hazard, IInv, TypeOK
    <3>4. h \in ActiveRows'
      BY <3>1, <3>3, RowsStay DEF ActiveRows, Rows, IInv
    <3>5. \A t \in TreatmentsOf(h) :
            treatment[t].status = "SUCCEEDED" => ~(treatment[t].at >= photo[p].taken)
      BY <3>1 DEF HandledAfter, TreatedSince
    <3>6. \A t \in TreatmentsOf(h) : treatment[t].at \in Int
      <4>1. \A t \in TreatmentsOf(h) : treatment[t] \in Treatment
        BY TreatmentTyped DEF TreatmentsOf, IInv
      <4>2. QED
        BY <4>1 DEF Treatment, Time
    <3>7. \A t \in TreatmentsOf(h) :
            treatment[t].status = "SUCCEEDED" => ~(treatment[t].at >= hazard'[h].detected)
      BY <2>2, <3>3, <3>5, <3>6
    <3>8. ~Relocated(h)'
      BY <2>2, <3>7 DEF Relocated, TreatmentsOf
    <3>9. QED
      BY <2>2, <2>3, <3>1, <3>3, <3>4, <3>8 DEF IInv, TypeOK
  <2>4. ASSUME NEW h \in LastUpdated(RecentlyAcknowledged(p)), filed' = [filed EXCEPT ![p] = h],
               photo[p].kind \in LivingKinds
        PROVE  /\ h \in Photos /\ filed'[p] = h
               /\ photo[p].kind \in LivingKinds /\ h \in Rows /\ hazard[h].acknowledged
    BY <2>4, AlikeRows DEF RecentlyAcknowledged, IInv, TypeOK
  <2>5. ASSUME filed' = [filed EXCEPT ![p] = p], OpenHazard(p)
        PROVE  /\ filed'[p] = p
               /\ p \in ActiveRows' /\ ~Relocated(p)'
               /\ hazard'[p].detected >= photo'[p].taken
    <3>1. hazard[p] = None
      BY DEF IInv, RowsInv
    <3>2. TreatmentsOf(p) = {}
      BY <3>1 DEF TreatmentsOf, IInv, TreatmentInv
    <3>3. hazard'[p].status = "ACTIVE" /\ hazard'[p].detected = photo[p].taken /\ hazard'[p] \in Hazard
      BY <2>2, <2>5 DEF OpenHazard, Hazard, Photo, IInv, TypeOK
    <3>4. p \in ActiveRows'
      BY <3>3, NoneAssumption DEF ActiveRows, Rows
    <3>5. ~Relocated(p)'
      BY <2>2, <3>2 DEF Relocated, TreatmentsOf
    <3>6. QED
      BY <2>2, <2>5, <3>3, <3>4, <3>5 DEF IInv, TypeOK
  <2>6. QED
    BY <2>1, <2>3, <2>4, <2>5, AlikeRows DEF Upload, RecordDetection
<1> HIDE DEF A
<1>2. Spec => [][A]_vars
  BY <1>1, SpecIInv, PTL DEF Spec
<1>3. QED
  BY <1>2 DEF A, FreshPhotoShows

-----------------------------------------------------------------------------
(* One robot *)

\* With one robot the timer of a hazard runs whenever it is out of sight, and what is
\* overdue is about to be retired.
SoloInv ==
  /\ \A h \in Photos :
       /\ h \in overdue \/ away[h] # Never => filed[h] # None
       /\ h \in ActiveRows /\ away[h] # Never => lastSeen[h] # Never /\ lastSeen[h] <= away[h]
  /\ \A h \in overdue \cap ActiveRows : h \in retiring[photo[h].device]

\* Every step keeps what a single robot adds.
LEMMA SoloKept ==
  ASSUME \A d, e \in Devices : d = e, IInv, SoloInv, [Next]_vars
  PROVE  SoloInv'
<1> USE DEF IInv, TypeOK
<1>1. ASSUME NEW h \in ActiveRows'
      PROVE  /\ h \in Photos
             /\ h \in ActiveRows \/ (filed[h] = None /\ h \notin overdue /\ away[h] = Never)
  BY ActiveBefore DEF SoloInv, ActiveRows, Rows
<1>2. ASSUME NEW h \in ActiveRows, NEW d \in Devices
      PROVE  h \in Photos /\ h \in ActiveOn(d) /\ photo[h].device = d
             /\ photo'[h] = photo[h] /\ filed[h] # None
  <2>1. h \in Photos /\ photo[h] # None /\ filed[h] # None
    BY DEF ActiveRows, Rows, RowsInv
  <2>2. photo[h].device = d
    BY <2>1 DEF Photo
  <2>3. QED
    BY <2>1, <2>2, PhotosKept DEF ActiveOn
<1>3. \A h \in Photos : filed[h] # None => filed'[h] # None
  BY PhotosKept
<1>4. \A h \in Photos : away[h] \in Int /\ lastSeen[h] \in Int /\ now \in Nat /\ away[h] <= now
  BY DEF Time, TimerInv
<1>5. \A h \in ActiveRows' : photo'[h].device \in Devices /\ photo'[h].device = photo[h].device
  <2>1. SUFFICES ASSUME NEW h \in ActiveRows'
                 PROVE  photo'[h].device \in Devices /\ photo'[h].device = photo[h].device
    OBVIOUS
  <2>2. h \in Photos /\ photo[h] # None
    BY <1>1, ActiveBefore DEF RowsInv, ActiveRows, Rows
  <2>3. photo'[h] = photo[h] /\ photo[h] \in Photo
    BY <2>2, PhotosKept
  <2>4. QED
    BY <2>3 DEF Photo
<1>6. CASE UNCHANGED reports
  BY <1>1, <1>3, <1>5, <1>6 DEF SoloInv, reports
<1>7. ASSUME NEW reset \in StartupResets, BackendRestart(reset) PROVE SoloInv'
  BY <1>7 DEF BackendRestart, SoloInv
<1>8. ASSUME NEW d \in Devices, ReportBlind(d) PROVE SoloInv'
  <2>1. ActiveRows' = ActiveRows
    BY <1>8 DEF ReportBlind, ActiveRows, Rows, rows
  <2>2. \A h \in ActiveRows : lastSeen'[h] = now /\ away'[h] = now /\ h \notin overdue'
    BY <1>2, <1>8 DEF ReportBlind
  <2>3. \A h \in Photos \ ActiveRows : away'[h] = away[h] /\ (h \in overdue' => h \in overdue)
    BY <1>8 DEF ReportBlind, ActiveOn
  <2>4. QED
    BY <1>2, <1>3, <1>4, <1>8, <2>1, <2>2, <2>3 DEF SoloInv
<1>9. ASSUME NEW d \in Devices, Forget(d) PROVE SoloInv'
  <2>1. \A h \in Photos :
          IF h \in retiring[d] THEN lastSeen'[h] = Never /\ away'[h] = Never /\ h \notin overdue'
          ELSE lastSeen'[h] = lastSeen[h] /\ away'[h] = away[h] /\ (h \in overdue' => h \in overdue)
    BY <1>9 DEF Forget
  <2>2. \A h \in ActiveRows' : h \notin overdue'
    BY <1>1, <1>2, <1>9, <2>1 DEF SoloInv
  <2>3. QED
    BY <1>1, <1>3, <2>1, <2>2 DEF SoloInv
<1>10. ASSUME NEW d \in Devices, NEW sight \in SUBSET Instances, Report(d, sight) PROVE SoloInv'
  <2>1. ActiveRows' = ActiveRows /\ photo' = photo /\ now' = now
    BY <1>10 DEF Report, ActiveRows, Rows, rows, uploads
  <2>2. ASSUME NEW h \in Photos \ ActiveRows
        PROVE  away'[h] = away[h] /\ (h \in overdue' => h \in overdue)
    BY <1>10, <2>2 DEF Report, ActiveOn
  <2>3. ASSUME NEW h \in ActiveRows
        PROVE  /\ lastSeen'[h] # Never /\ lastSeen'[h] <= away'[h]
               /\ h \in overdue' => h \in retiring'[d]
    <3>1. h \in Photos /\ h \in ActiveOn(d)
      BY <1>2
    <3>2. Among(h, Visible(sight)) => Among(h, sight)
      BY DEF Among, Visible
    <3>3. away[h] # Never => lastSeen[h] # Never /\ lastSeen[h] <= away[h]
      BY <2>3, <3>1 DEF SoloInv
    <3>4. away'[h] = IF Among(h, sight) \/ away[h] = Never THEN now ELSE away[h]
      BY <1>10, <3>1 DEF Report
    <3>5. lastSeen'[h] = IF Among(h, Visible(sight)) \/ lastSeen[h] = Never THEN now ELSE lastSeen[h]
      BY <1>10, <3>1 DEF Report
    <3>6. lastSeen[h] <= now
      BY <1>4, <3>1 DEF TimerInv, Time
    <3>7. lastSeen'[h] # Never /\ lastSeen'[h] <= away'[h]
      BY <1>4, <3>1, <3>2, <3>3, <3>4, <3>5, <3>6
    <3>8. h \in overdue' => now - away'[h] >= Absent
      BY <1>10, <3>1 DEF Report
    <3>9. h \in overdue' => ~Among(h, Visible(sight)) /\ lastSeen[h] # Never
                             /\ now - lastSeen[h] >= Absent
      BY <1>4, <3>1, <3>2, <3>3, <3>4, <3>8
    <3>10. h \in overdue' => h \in retiring'[d]
      BY <1>10, <3>1, <3>9 DEF Report
    <3>11. QED
      BY <3>7, <3>10
  <2>4. QED
    BY <1>2, <1>3, <2>1, <2>2, <2>3 DEF SoloInv
<1>11. CASE Tick
  BY <1>6, <1>11 DEF Tick
<1>12. QED
  BY <1>6, <1>7, <1>8, <1>9, <1>10, <1>11, TimerSteps

\* With one robot, what live reports have not shown for Absent is retired.
THEOREM UnseenRetired ==
  ASSUME \A d, e \in Devices : d = e
  PROVE  Spec => []UnseenIsRetired
<1>1. Init => SoloInv
  BY DEF Init, SoloInv
<1>2. IInv /\ SoloInv /\ [Next]_vars => SoloInv'
  BY SoloKept
<1>3. SoloInv => UnseenIsRetired
  BY DEF SoloInv, UnseenIsRetired
<1>4. QED
  BY <1>1, <1>2, <1>3, SpecIInv, PTL DEF Spec

===============================================================================
