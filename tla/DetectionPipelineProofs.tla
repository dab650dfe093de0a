------------------------ MODULE DetectionPipelineProofs ------------------------
(***************************************************************************)
(* That the pipeline shows results of the selected mode only, records no   *)
(* frame of a running treatment, and raises an alert on fresh votes only,  *)
(* for any labels, windows and times of the engine and any number of       *)
(* switches of the mode.                                                   *)
(*                                                                         *)
(* FreshVotes says nothing of what the engine remembers: it holds because  *)
(* the votes in the window, and the label that is confirmed, are always    *)
(* backed by frames judged since the engine last forgot the object         *)
(* (Backed), whichever of reset, gap and switch of the mode comes between. *)
(***************************************************************************)
EXTENDS DetectionPipeline, FiniteSetTheorems, TLAPS

-----------------------------------------------------------------------------
(* A frame of one detection, or of none *)

LEMMA FoldNone ==
  ASSUME NEW r
  PROVE  FoldLeft(Evaluated, r, <<>>) = r
<1> DEFINE Iter(f) == [s \in SUBSET DOMAIN <<>> |->
                         IF s = {} THEN r ELSE Evaluated(f[s \ {Max(s)}], <<>>[Max(s)])]
           iter == CHOOSE f : f = Iter(f)
<1>1. \E f : f = Iter(f)
  <2>1. \A s \in SUBSET DOMAIN <<>> : s = {}
    OBVIOUS
  <2>2. [s \in SUBSET DOMAIN <<>> |-> r] = Iter([s \in SUBSET DOMAIN <<>> |-> r])
    BY <2>1
  <2>3. QED
    BY <2>2
<1>2. iter = Iter(iter)
  BY <1>1
<1>3. FoldLeft(Evaluated, r, <<>>) = iter[DOMAIN <<>>]
  BY DEF FoldLeft, MapThenFoldSet
<1> HIDE DEF iter
<1>4. Iter(iter)[DOMAIN <<>>] = r
  OBVIOUS
<1>5. QED
  BY <1>2, <1>3, <1>4

LEMMA FoldOne ==
  ASSUME NEW r, NEW d
  PROVE  FoldLeft(Evaluated, r, <<d>>) = Evaluated(r, d)
<1> DEFINE Iter(f) == [s \in SUBSET DOMAIN <<d>> |->
                         IF s = {} THEN r ELSE Evaluated(f[s \ {Max(s)}], <<d>>[Max(s)])]
           iter == CHOOSE f : f = Iter(f)
           g == [s \in SUBSET DOMAIN <<d>> |-> IF s = {} THEN r ELSE Evaluated(r, d)]
<1>1. DOMAIN <<d>> = {1} /\ <<d>>[1] = d /\ Max({1}) = 1
  BY DEF Max
<1>2. g = Iter(g)
  <2>1. ASSUME NEW s \in SUBSET DOMAIN <<d>>, s # {}
        PROVE  Evaluated(g[s \ {Max(s)}], <<d>>[Max(s)]) = Evaluated(r, d)
    <3>1. s = {1}
      BY <1>1, <2>1
    <3>2. s \ {Max(s)} = {} /\ <<d>>[Max(s)] = d
      BY <1>1, <3>1
    <3>3. g[{}] = r
      OBVIOUS
    <3>4. QED
      BY <3>2, <3>3
  <2>2. QED
    BY <2>1
<1>3. iter = Iter(iter)
  <2>1. \E f : f = Iter(f)
    BY <1>2
  <2>2. QED
    BY <2>1
<1>4. FoldLeft(Evaluated, r, <<d>>) = iter[DOMAIN <<d>>]
  BY DEF FoldLeft, MapThenFoldSet
<1> HIDE DEF iter
<1>5. iter[{}] = r
  <2>1. Iter(iter)[{}] = r
    OBVIOUS
  <2>2. QED
    BY <1>3, <2>1
<1>6. Iter(iter)[DOMAIN <<d>>] = Evaluated(iter[{}], d)
  <2>1. DOMAIN <<d>> \in SUBSET DOMAIN <<d>> /\ DOMAIN <<d>> # {}
    BY <1>1
  <2>2. DOMAIN <<d>> \ {Max(DOMAIN <<d>>)} = {} /\ <<d>>[Max(DOMAIN <<d>>)] = d
    BY <1>1
  <2>3. Iter(iter)[DOMAIN <<d>>]
        = Evaluated(iter[DOMAIN <<d>> \ {Max(DOMAIN <<d>>)}], <<d>>[Max(DOMAIN <<d>>)])
    BY <2>1
  <2>4. QED
    BY <2>2, <2>3
<1>7. QED
  BY <1>3, <1>4, <1>5, <1>6

-----------------------------------------------------------------------------
(* The votes of a window *)

Count(votes, label) == Cardinality({i \in DOMAIN votes : votes[i] = label})

LEMMA CountTyped ==
  ASSUME NEW votes \in Seq(Labels), NEW label
  PROVE  /\ IsFiniteSet({i \in DOMAIN votes : votes[i] = label})
         /\ Count(votes, label) \in Nat
<1>1. DOMAIN votes = 1..Len(votes) /\ Len(votes) \in Nat
  OBVIOUS
<1>2. IsFiniteSet(DOMAIN votes)
  BY <1>1, FS_Interval
<1>3. IsFiniteSet({i \in DOMAIN votes : votes[i] = label})
  BY <1>2, FS_Subset
<1>4. QED
  BY <1>3, FS_CardinalityType DEF Count

\* One more frame is one vote more, for its label only.
LEMMA CountAppend ==
  ASSUME NEW votes \in Seq(Labels), NEW new \in Labels, NEW label \in Labels
  PROVE  Count(Append(votes, new), label)
         <= Count(votes, label) + (IF new = label THEN 1 ELSE 0)
<1> DEFINE old == {i \in DOMAIN votes : votes[i] = label}
           now == {i \in DOMAIN Append(votes, new) : Append(votes, new)[i] = label}
           n == Len(votes) + 1
<1>1. IsFiniteSet(old) /\ Count(votes, label) \in Nat /\ Cardinality(old) = Count(votes, label)
  BY CountTyped DEF Count
<1>2. /\ Len(votes) \in Nat /\ DOMAIN Append(votes, new) = 1..n /\ Append(votes, new)[n] = new
      /\ \A i \in 1..Len(votes) : Append(votes, new)[i] = votes[i]
      /\ DOMAIN votes = 1..Len(votes)
  OBVIOUS
<1>3. Count(Append(votes, new), label) = Cardinality(now)
  BY DEF Count
<1> HIDE DEF now, old
<1>4. CASE new = label
  <2>1. now = old \cup {n}
    BY <1>2, <1>4 DEF now, old
  <2>2. n \notin old
    BY <1>2 DEF old
  <2>3. Cardinality(now) = Cardinality(old) + 1
    BY <1>1, <2>1, <2>2, FS_AddElement
  <2>4. QED
    BY <1>1, <1>3, <1>4, <2>3
<1>5. CASE new # label
  <2>1. now = old
    BY <1>2, <1>5 DEF now, old
  <2>2. QED
    BY <1>1, <1>3, <1>5, <2>1
<1>6. QED
  BY <1>4, <1>5

\* A vote that falls out of the window adds none.
LEMMA CountTail ==
  ASSUME NEW votes \in Seq(Labels), votes # <<>>, NEW label \in Labels
  PROVE  Count(Tail(votes), label) <= Count(votes, label)
<1> DEFINE old == {i \in DOMAIN votes : votes[i] = label}
           now == {i \in DOMAIN Tail(votes) : Tail(votes)[i] = label}
           later == [i \in now |-> i + 1]
<1>1. /\ Len(votes) \in Nat \ {0} /\ DOMAIN votes = 1..Len(votes)
      /\ DOMAIN Tail(votes) = 1..(Len(votes) - 1)
      /\ \A i \in 1..(Len(votes) - 1) : Tail(votes)[i] = votes[i + 1]
  OBVIOUS
<1>2. later \in Injection(now, old)
  <2>1. \A i \in now : i \in Nat /\ i + 1 \in old
    BY <1>1
  <2>2. QED
    BY <2>1 DEF Injection, IsInjective
<1>3. IsFiniteSet(old)
  BY CountTyped
<1>4. Cardinality(now) <= Cardinality(old)
  BY <1>2, <1>3, FS_Injection
<1>5. QED
  BY <1>4 DEF Count

-----------------------------------------------------------------------------
(* The engine *)

\* The one object of the model.
Object == <<"track", 1>>

\* What is in the window, and what was confirmed, was judged as often.
Backed(votes, confirmed, counts) ==
  \A l \in Labels :
    /\ counts[l] < Votes => Count(votes, l) <= counts[l]
    /\ confirmed = l => counts[l] = Votes

Counts == [Labels -> 0..Votes]

\* The keys but the one are those of objects the model does not have.
EngineShape(e) ==
  /\ e \in [seen : [Keys -> 0..Gone], alerted : [Keys -> 0..Gone], level : [Keys -> 0..Urgent],
            label : [Keys -> Labels \cup {"none"}], votes : [Keys -> Seq(Labels)],
            confirmed : [Keys -> Labels \cup {"none"}], instance : [Keys -> Nat],
            place : [1..MaxRaw -> Places], raws : 0..MaxRaw]
  /\ \A k \in Keys \ {Object} : e.seen[k] = Gone

EngineInv(e, counts) == EngineShape(e) /\ Backed(e.votes[Object], e.confirmed[Object], counts)

LEMMA Numbers ==
  /\ Object \in Keys /\ Window \in Nat /\ Votes \in Nat \ {0} /\ Votes <= Window
  /\ Gone \in Nat \ {0} /\ MaxRaw \in Nat /\ "none" \notin Labels
<1>1. Object \in Keys
  BY PipelineAssumption DEF Object, Keys
<1>2. QED
  BY <1>1, RiskAssumption DEF Gone

\* uuid4: there is an identity that no key has, and it is given.
LEMMA NewInstanceIsNew ==
  ASSUME NEW e, e.instance \in [Keys -> Nat]
  PROVE  NewInstance(e) \in Nat /\ \A k \in Keys : e.instance[k] # NewInstance(e)
<1> DEFINE given == {e.instance[k] : k \in Keys}
           numbers == 1..(Cardinality(Keys) + 1)
<1>1. IsFiniteSet(Keys)
  <2>1. IsFiniteSet({"track"} \X Tracks)
    BY FS_Singleton, FS_Product, RiskAssumption, Zenon
  <2>2. IsFiniteSet(1..MaxRaw)
    BY FS_Interval, RiskAssumption
  <2>3. IsFiniteSet({"raw"} \X (1..MaxRaw))
    BY <2>2, FS_Singleton, FS_Product, Zenon
  <2>4. QED
    BY <2>1, <2>3, FS_Union, Zenon DEF Keys
<1>2. Cardinality(Keys) \in Nat
  BY <1>1, FS_CardinalityType
<1>3. IsFiniteSet(given) /\ Cardinality(given) <= Cardinality(Keys)
  <2>1. e.instance \in Surjection(Keys, given)
    BY DEF Surjection
  <2>2. QED
    BY <1>1, <2>1, FS_Surjection
<1>4. Cardinality(numbers) = Cardinality(Keys) + 1
  BY <1>2, FS_Interval
<1>5. ~(numbers \subseteq given)
  <2>1. Cardinality(given) \in Nat
    BY <1>3, FS_CardinalityType
  <2> HIDE DEF given, numbers
  <2>2. QED
    BY <1>2, <1>3, <1>4, <2>1, FS_Subset
<1>6. \E n \in numbers : \A k \in Keys : e.instance[k] # n
  BY <1>5
<1>7. NewInstance(e) \in numbers /\ \A k \in Keys : e.instance[k] # NewInstance(e)
  BY <1>6 DEF NewInstance
<1>8. QED
  BY <1>2, <1>7

\* An engine that remembers nothing rests on nothing.
LEMMA NothingBacked ==
  ASSUME NEW counts \in Counts
  PROVE  Backed(<<>>, "none", counts)
<1>1. ASSUME NEW l \in Labels PROVE Count(<<>>, l) = 0
  <2>1. {i \in DOMAIN <<>> : <<>>[i] = l} = {}
    OBVIOUS
  <2>2. QED
    BY <2>1, FS_EmptySet DEF Count
<1>2. QED
  BY <1>1, Numbers DEF Backed, Counts

LEMMA NewEngineFits ==
  ASSUME NEW counts \in Counts
  PROVE  EngineInv(NewEngine, counts)
<1>1. <<>> \in Seq(Labels)
  OBVIOUS
<1>2. (CHOOSE p \in Places : TRUE) \in Places
  BY RiskAssumption
<1>3. EngineShape(NewEngine)
  BY <1>1, <1>2, Numbers DEF EngineShape, NewEngine, Urgent
<1>4. NewEngine.votes[Object] = <<>> /\ NewEngine.confirmed[Object] = "none"
  BY Numbers DEF NewEngine
<1>5. QED
  BY <1>3, <1>4, NothingBacked DEF EngineInv

LEMMA AgedFits ==
  ASSUME NEW e, NEW counts, EngineInv(e, counts)
  PROVE  EngineInv(Aged(e), counts)
<1>1. \A age \in 0..Gone : Older(age) \in 0..Gone /\ Older(Gone) = Gone
  BY Numbers DEF Older
<1>2. EngineShape(Aged(e))
  BY <1>1 DEF Aged, EngineInv, EngineShape
<1>3. Aged(e).votes = e.votes /\ Aged(e).confirmed = e.confirmed
  BY DEF Aged, EngineInv, EngineShape
<1>4. QED
  BY <1>2, <1>3 DEF EngineInv

\* Resets and gaps take votes and confirmation along when the counts start again.
LEMMA PreparedFits ==
  ASSUME NEW e, NEW counts \in Counts, NEW labels, NEW left, EngineInv(e, counts)
  PROVE  LET forgotten == \A k \in Keys : e.seen[k] = Gone \/ e.label[k] \in labels
         IN EngineInv(Expired(Left(Reset(e, labels), left)),
                      [l \in Labels |-> IF forgotten THEN 0 ELSE counts[l]])
<1> DEFINE forgotten == \A k \in Keys : e.seen[k] = Gone \/ e.label[k] \in labels
           kept == [l \in Labels |-> IF forgotten THEN 0 ELSE counts[l]]
           a == Reset(e, labels)
           b == Left(a, left)
           x == Expired(b)
<1>1. EngineShape(a) /\ EngineShape(b) /\ EngineShape(x)
  <2>1. <<>> \in Seq(Labels) /\ Gone \in 0..Gone
    BY Numbers
  <2>2. EngineShape(a)
    BY <2>1 DEF EngineInv, EngineShape, Reset
  <2> HIDE DEF a
  <2>3. EngineShape(b)
    BY <2>1, <2>2 DEF EngineShape, Left
  <2> HIDE DEF b
  <2>4. EngineShape(x)
    <3>1. 0 \in 0..Urgent
      BY DEF Urgent
    <3>2. x.votes \in [Keys -> Seq(Labels)] /\ x.confirmed \in [Keys -> Labels \cup {"none"}]
      BY <2>1, <2>3 DEF EngineShape, Expired
    <3>3. /\ x.level \in [Keys -> 0..Urgent] /\ x.label \in [Keys -> Labels \cup {"none"}]
          /\ x.instance \in [Keys -> Nat]
      BY <2>3, <3>1 DEF EngineShape, Expired
    <3>4. x = [b EXCEPT !.votes = x.votes, !.confirmed = x.confirmed, !.level = x.level,
                        !.label = x.label, !.instance = x.instance]
      BY <2>3 DEF EngineShape, Expired
    <3> HIDE DEF x
    <3>5. QED
      BY <2>3, <3>2, <3>3, <3>4 DEF EngineShape
  <2>5. QED
    BY <2>2, <2>3, <2>4
<1>2. /\ a.seen = e.seen
      /\ a.votes = [k \in Keys |-> IF e.label[k] \in labels THEN <<>> ELSE e.votes[k]]
      /\ a.confirmed = [k \in Keys |-> IF e.label[k] \in labels THEN "none" ELSE e.confirmed[k]]
  BY DEF EngineInv, EngineShape, Reset
<1> HIDE DEF a
<1>3. b.seen = a.seen /\ b.votes = a.votes /\ b.confirmed = a.confirmed
  BY <1>1 DEF EngineShape, Left
<1> HIDE DEF b
<1>4. /\ x.votes = [k \in Keys |-> IF b.seen[k] = Gone THEN <<>> ELSE b.votes[k]]
      /\ x.confirmed = [k \in Keys |-> IF b.seen[k] = Gone THEN "none" ELSE b.confirmed[k]]
  BY <1>1 DEF EngineShape, Expired
<1> HIDE DEF x
<1>5. kept \in Counts
  BY Numbers DEF Counts
<1>6. Backed(x.votes[Object], x.confirmed[Object], kept)
  <2>1. CASE e.seen[Object] = Gone \/ e.label[Object] \in labels
    <3>1. x.votes[Object] = <<>> /\ x.confirmed[Object] = "none"
      BY <1>2, <1>3, <1>4, <2>1, Numbers
    <3>2. QED
      BY <1>5, <3>1, NothingBacked
  <2>2. CASE ~(e.seen[Object] = Gone \/ e.label[Object] \in labels)
    <3>1. x.votes[Object] = e.votes[Object] /\ x.confirmed[Object] = e.confirmed[Object]
      BY <1>2, <1>3, <1>4, <2>2, Numbers
    <3>2. \A l \in Labels : kept[l] = counts[l]
      BY <2>2, Numbers
    <3>3. QED
      BY <3>1, <3>2 DEF EngineInv, Backed
  <2>3. QED
    BY <2>1, <2>2
<1>7. QED
  BY <1>1, <1>6 DEF EngineInv, x, b, a

\* The counts after a frame with a label.
Counted(counts, label) ==
  [l \in Labels |-> IF l = label /\ counts[l] < Votes THEN counts[l] + 1 ELSE counts[l]]

LEMMA CountedTyped ==
  ASSUME NEW counts \in Counts, NEW label
  PROVE  Counted(counts, label) \in Counts
  BY Numbers DEF Counted, Counts

\* A frame adds its vote and drops the oldest of a full window; what it confirms has the votes.
LEMMA VoteFits ==
  ASSUME NEW e, NEW counts \in Counts, NEW label \in Labels, EngineInv(e, counts)
  PROVE  EngineInv(Vote(e, Object, label), Counted(counts, label))
<1> DEFINE q == e.votes[Object]
           all == Append(q, label)
           votes == IF Len(all) > Window THEN Tail(all) ELSE all
           winners == {l \in Labels : Cardinality({i \in DOMAIN votes : votes[i] = l}) >= Votes}
           confirmed == IF Len(votes) = Window /\ winners # {}
                        THEN CHOOSE l \in winners : TRUE ELSE e.confirmed[Object]
           now == Counted(counts, label)
           v == Vote(e, Object, label)
<1>1. q \in Seq(Labels) /\ all \in Seq(Labels) /\ all # <<>> /\ votes \in Seq(Labels)
  <2>1. q \in Seq(Labels)
    BY Numbers DEF EngineInv, EngineShape
  <2>2. all \in Seq(Labels) /\ all # <<>>
    BY <2>1
  <2>3. Tail(all) \in Seq(Labels)
    BY <2>2
  <2>4. QED
    BY <2>1, <2>2, <2>3
<1>2. \A l \in Labels : winners # {} /\ confirmed # e.confirmed[Object] => confirmed \in winners
  OBVIOUS
<1>3. v = [e EXCEPT !.votes = [@ EXCEPT ![Object] = votes],
                    !.confirmed = [@ EXCEPT ![Object] = confirmed]]
  BY DEF Vote
<1>4. ASSUME NEW l \in Labels
      PROVE  now[l] < Votes => Count(votes, l) <= now[l]
  <2>1. /\ Count(q, l) \in Nat /\ Count(all, l) \in Nat /\ Count(Tail(all), l) \in Nat
        /\ Count(votes, l) \in Nat
    <3>1. Tail(all) \in Seq(Labels)
      BY <1>1
    <3>2. QED
      BY <1>1, <3>1, CountTyped
  <2>2. Count(all, l) <= Count(q, l) + (IF label = l THEN 1 ELSE 0)
    BY <1>1, CountAppend
  <2>3. Count(Tail(all), l) <= Count(all, l)
    BY <1>1, CountTail
  <2>4. Count(votes, l) <= Count(all, l)
    BY <2>1, <2>3
  <2>5. counts[l] < Votes => Count(q, l) <= counts[l]
    BY DEF EngineInv, Backed
  <2>6. counts[l] \in 0..Votes
    BY DEF Counts
  <2>7. now[l] = IF l = label /\ counts[l] < Votes THEN counts[l] + 1 ELSE counts[l]
    BY DEF Counted
  <2> HIDE DEF q, all, votes, now
  <2>8. QED
    BY <2>1, <2>2, <2>4, <2>5, <2>6, <2>7, Numbers
<1>5. \A l \in Labels : now[l] \in 0..Votes /\ (counts[l] = Votes => now[l] = Votes)
  BY CountedTyped, Numbers DEF Counts, Counted
<1>6. ASSUME NEW l \in Labels, confirmed = l PROVE now[l] = Votes
  <2>1. CASE confirmed \in winners
    <3>1. Count(votes, l) >= Votes /\ Count(votes, l) \in Nat
      BY <1>1, <1>6, <2>1, CountTyped DEF Count
    <3> HIDE DEF votes, now
    <3>2. QED
      BY <1>4, <1>5, <3>1, Numbers
  <2>2. CASE confirmed = e.confirmed[Object]
    BY <1>5, <1>6, <2>2 DEF EngineInv, Backed
  <2>3. QED
    BY <2>1, <2>2
<1>7. confirmed \in Labels \cup {"none"}
  <2>1. e.confirmed[Object] \in Labels \cup {"none"}
    BY Numbers DEF EngineInv, EngineShape
  <2>2. QED
    BY <2>1
<1> HIDE DEF votes, confirmed, now, v
<1>8. EngineShape(v)
  BY <1>1, <1>3, <1>7 DEF EngineInv, EngineShape
<1>9. Backed(votes, confirmed, now)
  BY <1>4, <1>6 DEF Backed
<1>10. v.votes[Object] = votes /\ v.confirmed[Object] = confirmed
  BY <1>3, Numbers DEF EngineInv, EngineShape
<1>11. QED
  BY <1>8, <1>9, <1>10 DEF EngineInv, v, now

\* The detection of the object is taken for no raw one.
LEMMA ObjectIsTrack ==
  ASSUME NEW e, EngineShape(e), NEW used, NEW l, NEW p
  PROVE  TrackIdentity(e, used, [track |-> 1, label |-> l, place |-> p])
         = [key |-> Object, used |-> used, engine |-> e]
<1> DEFINE d == [track |-> 1, label |-> l, place |-> p]
<1>1. ASSUME NEW n \in 1..MaxRaw PROVE e.seen[RawKey(n)] = Gone
  <2>1. RawKey(n) \in Keys \ {Object}
    BY DEF RawKey, Keys, Object
  <2>2. QED
    BY <2>1 DEF EngineShape
<1>2. Known(e, used, d) = {}
  BY <1>1 DEF Known
<1>3. <<"track", d.track>> = Object
  BY DEF Object
<1> HIDE DEF d
<1>4. TrackIdentity(e, used, d) = [key |-> Object, used |-> used, engine |-> e]
  BY <1>2, <1>3 DEF TrackIdentity
<1>5. QED
  BY <1>4 DEF d

\* One detection: an alert that needs no person is of a label that is confirmed.
LEMMA DetectionFits ==
  ASSUME NEW e, NEW counts \in Counts, EngineInv(e, counts), NEW l \in Labels, NEW p,
         NEW person \in BOOLEAN
  PROVE  LET r == Evaluated([engine |-> e, used |-> {}, person |-> person, hazards |-> {},
                             events |-> {}], [track |-> 1, label |-> l, place |-> p])
         IN /\ EngineInv(r.engine, Counted(counts, l))
            /\ \A h \in r.events :
                 h.label = l /\ (~person => Counted(counts, l)[l] = Votes)
<1> DEFINE d == [track |-> 1, label |-> l, place |-> p]
           r0 == [engine |-> e, used |-> {}, person |-> person, hazards |-> {}, events |-> {}]
           named == [e EXCEPT !.instance[Object] = IF @ = 0 THEN NewInstance(e) ELSE @,
                              !.seen[Object] = 0, !.label[Object] = l]
           voted == Vote(named, Object, l)
           alert == Alert(voted, Object, l, person)
           hazard == [key |-> Object, label |-> l, instance |-> alert.engine.instance[Object]]
           now == Counted(counts, l)
<1>1. EngineInv(named, counts)
  <2>1. 0 \in 0..Gone /\ Object \in Keys
    BY Numbers
  <2>2. NewInstance(e) \in Nat
    BY NewInstanceIsNew DEF EngineInv, EngineShape
  <2>3. EngineShape(named)
    BY <2>1, <2>2 DEF EngineInv, EngineShape
  <2>4. named.votes = e.votes /\ named.confirmed = e.confirmed
    BY DEF EngineInv, EngineShape
  <2>5. QED
    BY <2>3, <2>4 DEF EngineInv
<1>2. EngineInv(voted, now)
  BY <1>1, VoteFits
<1> HIDE DEF voted
<1>3. EngineInv(alert.engine, now)
  <2> DEFINE level == IF person THEN Urgent ELSE BaseLevel
  <2>1. alert.engine \in {voted, [voted EXCEPT !.alerted[Object] = 0, !.level[Object] = level]}
    BY DEF Alert
  <2>2. 0 \in 0..Gone /\ level \in 0..Urgent
    BY Numbers DEF Urgent, BaseLevel
  <2> HIDE DEF level, alert
  <2>3. CASE alert.engine = voted
    BY <1>2, <2>3
  <2>4. CASE alert.engine = [voted EXCEPT !.alerted[Object] = 0, !.level[Object] = level]
    <3>1. EngineShape(alert.engine)
      <4>1. /\ [voted.alerted EXCEPT ![Object] = 0] \in [Keys -> 0..Gone]
            /\ [voted.level EXCEPT ![Object] = level] \in [Keys -> 0..Urgent]
        BY <1>2, <2>2 DEF EngineInv, EngineShape
      <4>2. QED
        BY <1>2, <2>4, <4>1 DEF EngineInv, EngineShape
    <3>2. alert.engine.votes = voted.votes /\ alert.engine.confirmed = voted.confirmed
      BY <1>2, <2>4 DEF EngineInv, EngineShape
    <3>3. QED
      BY <1>2, <3>1, <3>2 DEF EngineInv
  <2>5. QED
    BY <2>1, <2>3, <2>4
<1>4. alert.due => person \/ now[l] = Votes
  BY <1>2 DEF Alert, EngineInv, Backed
<1>5. TrackIdentity(r0.engine, r0.used, d) = [key |-> Object, used |-> {}, engine |-> e]
  BY ObjectIsTrack DEF EngineInv
<1>6. Evaluated(r0, d)
      = [r0 EXCEPT !.engine = alert.engine, !.used = {}, !.hazards = @ \cup {hazard},
                   !.events = IF alert.due THEN @ \cup {hazard} ELSE @]
  <2> DEFINE i == IF d.track = 0 THEN RawIdentity(r0.engine, r0.used, d)
                  ELSE TrackIdentity(r0.engine, r0.used, d)
             Named(n) == [n.engine EXCEPT
                            !.instance[n.key] = IF @ = 0 THEN NewInstance(n.engine) ELSE @,
                            !.seen[n.key] = 0, !.label[n.key] = d.label]
             Due(n) == Alert(Vote(Named(n), n.key, d.label), n.key, d.label, r0.person)
             Hazard(n) == [key |-> n.key, label |-> d.label,
                           instance |-> Due(n).engine.instance[n.key]]
  <2>1. Evaluated(r0, d)
        = [r0 EXCEPT !.engine = Due(i).engine, !.used = i.used,
                     !.hazards = @ \cup {Hazard(i)},
                     !.events = IF Due(i).due THEN @ \cup {Hazard(i)} ELSE @]
    BY DEF Evaluated
  <2>2. i.key = Object /\ i.used = {} /\ i.engine = e
    BY <1>5
  <2>3. d.label = l /\ r0.person = person
    OBVIOUS
  <2> HIDE DEF d, r0, i
  <2>4. Named(i) = named
    BY <2>2, <2>3
  <2> HIDE DEF named, Named
  <2>5. Due(i) = alert
    BY <2>2, <2>3, <2>4 DEF voted
  <2> HIDE DEF Due, alert
  <2>6. Hazard(i) = hazard
    BY <2>2, <2>3, <2>5
  <2> HIDE DEF Hazard, hazard
  <2>7. QED
    BY <2>1, <2>2, <2>5, <2>6
<1> HIDE DEF alert, now
<1>7. Evaluated(r0, d).engine = alert.engine
  BY <1>6
<1>8. Evaluated(r0, d).events = IF alert.due THEN {hazard} ELSE {}
  BY <1>6
<1>9. EngineInv(Evaluated(r0, d).engine, now)
  BY <1>3, <1>7
<1>10. \A h \in Evaluated(r0, d).events : h.label = l /\ (~person => now[l] = Votes)
  <2>1. hazard.label = l
    OBVIOUS
  <2> HIDE DEF hazard
  <2>2. QED
    BY <1>4, <1>8, <2>1
<1>11. QED
  BY <1>9, <1>10 DEF now

Views == [label : Labels \cup {"none"}, person : BOOLEAN, quiet : BOOLEAN]

\* A frame with the object, or without it.
LEMMA FrameFits ==
  ASSUME NEW e, NEW counts \in Counts, EngineInv(Expired(e), counts), NEW frame \in Views
  PROVE  LET r == Evaluate(e, Detected(frame), frame.person)
             now == Counted(counts, frame.label)
         IN /\ EngineInv(r.engine, now)
            /\ \A h \in r.events : /\ h.label = frame.label /\ frame.label \in Labels
                                   /\ ~frame.person => now[frame.label] = Votes
<1> DEFINE r0 == [engine |-> Expired(e), used |-> {}, person |-> frame.person, hazards |-> {},
                  events |-> {}]
           r == Evaluate(e, Detected(frame), frame.person)
           now == Counted(counts, frame.label)
<1>1. CASE frame.label = "none"
  <2>1. r = r0
    BY <1>1, FoldNone DEF Evaluate, Detected
  <2>2. \A l \in Labels : now[l] = counts[l]
    BY <1>1, Numbers DEF Counted
  <2>3. EngineInv(r.engine, now) /\ r.events = {}
    BY <2>1, <2>2 DEF EngineInv, Backed
  <2>4. QED
    BY <2>3
<1>2. CASE frame.label # "none"
  <2> DEFINE p == CHOOSE p \in Places : TRUE
             d == [track |-> 1, label |-> frame.label, place |-> p]
  <2>1. r = Evaluated(r0, d)
    BY <1>2, FoldOne DEF Evaluate, Detected
  <2>2. frame.label \in Labels /\ frame.person \in BOOLEAN
    BY <1>2 DEF Views
  <2>3. /\ EngineInv(Evaluated(r0, d).engine, now)
        /\ \A h \in Evaluated(r0, d).events :
             h.label = frame.label /\ (~frame.person => now[frame.label] = Votes)
    BY <2>2, DetectionFits
  <2>4. QED
    BY <2>1, <2>2, <2>3
<1>3. QED
  BY <1>1, <1>2

-----------------------------------------------------------------------------
(* The invariant of the pipeline *)

Workers ==
  [at : {"top", "loading", "inferring", "judged", "shown", "saving"},
   active : 1..MaxMode, loaded : 0..MaxMode, frame : Views,
   events : SUBSET Labels, safe : SUBSET Labels]

\* A quiet frame is one of a treatment that still runs, and such a frame comes no further
\* than the mask.
QuietInv ==
  /\ worker.frame.quiet => muted
  /\ worker.at \in {"shown", "saving"} => ~worker.frame.quiet

IInv ==
  /\ mode \in 1..MaxMode /\ worker \in Workers /\ since \in Counts
  /\ QuietInv
  /\ EngineInv(engine, since) /\ FreshVotes
  /\ ShownIsSelected

LEMMA Established == Init => IInv
<1> SUFFICES ASSUME Init PROVE IInv
  OBVIOUS
<1>1. mode \in 1..MaxMode /\ worker \in Workers
  BY PipelineAssumption DEF Init, Workers, Views, NoFrame
<1>2. since \in Counts
  BY Numbers DEF Init, Counts
<1>3. EngineInv(engine, since)
  BY <1>2, NewEngineFits DEF Init
<1>4. QuietInv /\ FreshVotes /\ ShownIsSelected
  BY DEF Init, QuietInv, FreshVotes, ShownIsSelected, NoFrame, State
<1>5. QED
  BY <1>1, <1>2, <1>3, <1>4 DEF IInv

-----------------------------------------------------------------------------
(* The threads of the runtime *)

\* What leaves the worker and the engine leaves what is judged.
LEMMA JudgedUntouched ==
  ASSUME IInv, UNCHANGED <<worker, judged>>
  PROVE  worker' \in Workers /\ since' \in Counts /\ EngineInv(engine, since)' /\ FreshVotes'
  BY DEF IInv, judged, FreshVotes

LEMMA CollectKeeps == IInv /\ Collect => IInv'
  BY JudgedUntouched DEF IInv, Collect, control, QuietInv, ShownIsSelected

LEMMA SelectModeKeeps == IInv /\ SelectMode => IInv'
<1> SUFFICES ASSUME IInv, SelectMode PROVE IInv'
  OBVIOUS
<1>1. UNCHANGED <<worker, judged>> /\ muted' = muted
  BY DEF SelectMode
<1>2. mode' \in 1..MaxMode /\ ShownIsSelected'
  BY PipelineAssumption DEF IInv, SelectMode, ShownIsSelected, State
<1>3. QED
  BY <1>1, <1>2, JudgedUntouched DEF IInv, QuietInv

LEMMA SetProcessingKeeps == IInv /\ SetProcessing => IInv'
<1> SUFFICES ASSUME IInv, SetProcessing PROVE IInv'
  OBVIOUS
<1>1. UNCHANGED <<worker, judged>> /\ muted' = muted /\ mode' = mode
  BY DEF SetProcessing
<1>2. ShownIsSelected'
  BY DEF SetProcessing, ShownIsSelected, State
<1>3. QED
  BY <1>1, <1>2, JudgedUntouched DEF IInv, QuietInv

LEMMA SetMutedKeeps == IInv /\ SetMuted => IInv'
<1> SUFFICES ASSUME IInv, SetMuted PROVE IInv'
  OBVIOUS
<1>1. UNCHANGED <<mode, latest, judged>> /\ worker' = [worker EXCEPT !.frame.quiet = FALSE]
  BY DEF SetMuted
<1>2. /\ worker' \in Workers /\ worker'.at = worker.at /\ worker'.events = worker.events
      /\ worker'.frame.person = worker.frame.person /\ ~worker'.frame.quiet
  BY <1>1 DEF IInv, Workers, Views
<1>3. QuietInv' /\ FreshVotes'
  BY <1>1, <1>2 DEF IInv, QuietInv, FreshVotes, judged
<1>4. QED
  BY <1>1, <1>2, <1>3 DEF IInv, judged, ShownIsSelected

-----------------------------------------------------------------------------
(* The worker *)

\* A step of the worker that judges nothing.
LEMMA WorkerMoves ==
  ASSUME IInv, UNCHANGED <<control, latest, judged>>, worker' \in Workers,
         worker'.at # "judged", QuietInv'
  PROVE  IInv'
  BY DEF IInv, control, judged, FreshVotes, ShownIsSelected

LEMMA TopTyped ==
  ASSUME IInv
  PROVE  Top \in Workers /\ Top.at = "top" /\ ~Top.frame.quiet
  BY DEF IInv, Top, Workers, Views, NoFrame

LEMMA SwitchKeeps == IInv /\ Switch => IInv'
<1> SUFFICES ASSUME IInv, Switch PROVE IInv'
  OBVIOUS
<1>1. UNCHANGED <<control, latest>> /\ engine' = NewEngine /\ since' = [l \in Labels |-> 0]
  BY DEF Switch
<1>2. worker' = [worker EXCEPT !.at = "loading", !.active = mode]
  BY DEF Switch
<1>3. worker' \in Workers /\ worker'.at = "loading" /\ worker'.frame = worker.frame
  BY <1>2 DEF IInv, Workers
<1>4. since' \in Counts /\ EngineInv(engine, since)'
  <2>1. since' \in Counts
    BY <1>1, Numbers DEF Counts
  <2>2. QED
    BY <1>1, <2>1, NewEngineFits
<1>5. QuietInv' /\ FreshVotes'
  BY <1>1, <1>3 DEF IInv, QuietInv, FreshVotes, control
<1>6. QED
  BY <1>1, <1>3, <1>4, <1>5 DEF IInv, control, ShownIsSelected

LEMMA LoadKeeps == IInv /\ Load => IInv'
<1> SUFFICES ASSUME IInv, Load PROVE IInv'
  OBVIOUS
<1>1. UNCHANGED <<control, latest, judged>>
  BY DEF Load
<1>2. worker' \in Workers /\ worker'.at = "top" /\ worker'.frame = worker.frame
  <2>1. worker.active \in 0..MaxMode
    BY PipelineAssumption DEF IInv, Workers
  <2>2. worker' = [worker EXCEPT !.at = "top", !.loaded = worker.active]
    BY DEF Load
  <2>3. QED
    BY <2>1, <2>2 DEF IInv, Workers
<1>3. QuietInv'
  BY <1>1, <1>2 DEF IInv, QuietInv, control
<1>4. QED
  BY <1>1, <1>2, <1>3, WorkerMoves

LEMMA TakeKeeps == IInv /\ Take => IInv'
<1> SUFFICES ASSUME IInv, Take PROVE IInv'
  OBVIOUS
<1>1. UNCHANGED <<control, latest, judged>>
  BY DEF Take
<1>2. CASE \E frame \in InMailbox :
             worker' = [worker EXCEPT !.at = "inferring", !.frame = frame]
  <2>1. PICK frame \in InMailbox :
               worker' = [worker EXCEPT !.at = "inferring", !.frame = frame]
    BY <1>2
  <2>2. frame \in Views /\ (frame.quiet => muted)
    <3>1. NoFrame \in Views
      BY DEF NoFrame, Views
    <3>2. [label : Labels, person : BOOLEAN, quiet : BOOLEAN] \subseteq Views
      BY DEF Views
    <3>3. QED
      BY <3>1, <3>2 DEF InMailbox, Frames
  <2>3. worker' \in Workers /\ worker'.at = "inferring" /\ worker'.frame = frame
    BY <2>1, <2>2 DEF IInv, Workers
  <2>4. QuietInv'
    BY <1>1, <2>2, <2>3 DEF QuietInv, control
  <2>5. QED
    BY <1>1, <2>3, <2>4, WorkerMoves
<1>3. CASE UNCHANGED worker
  BY <1>1, <1>3, JudgedUntouched DEF IInv, control, QuietInv, ShownIsSelected
<1>4. QED
  BY <1>2, <1>3 DEF Take

\* Whatever resets are taken with it, the events of the frame are backed by fresh votes.
LEMMA JudgeKeeps == IInv /\ Judge => IInv'
<1> SUFFICES ASSUME IInv, Judge PROVE IInv'
  OBVIOUS
<1> DEFINE frame == worker.frame
           forgotten == \A k \in Keys : engine.seen[k] = Gone \/ engine.label[k] \in resets
           kept == [l \in Labels |-> IF forgotten THEN 0 ELSE since[l]]
           now == Counted(kept, frame.label)
           ready(s) == Left(Reset(engine, resets), worker.safe \ s)
           r(s) == Evaluate(ready(s), Detected(frame), frame.person)
<1>1. UNCHANGED <<mode, muted, latest>> /\ worker.at = "inferring"
  BY DEF Judge
<1>2. PICK s \in SUBSET ({frame.label} \cap Labels) :
        /\ engine' = r(s).engine
        /\ since' = [l \in Labels |->
                       LET before == IF forgotten THEN 0 ELSE since[l]
                       IN IF l = frame.label /\ before < Votes THEN before + 1 ELSE before]
        /\ worker' = [worker EXCEPT !.at = "judged", !.safe = s,
                                    !.events = {h.label : h \in r(s).events} \ s]
  BY DEF Judge
<1>3. kept \in Counts /\ frame \in Views
  BY Numbers DEF IInv, Counts, Workers
<1>4. EngineInv(Expired(ready(s)), kept)
  BY PreparedFits DEF IInv
<1>5. since' = now
  BY <1>2 DEF Counted
<1>6. /\ EngineInv(r(s).engine, now)
      /\ \A h \in r(s).events : /\ h.label = frame.label /\ frame.label \in Labels
                                /\ ~frame.person => now[frame.label] = Votes
  <2> HIDE DEF ready, kept, frame
  <2>1. QED
    BY <1>3, <1>4, FrameFits
<1>7. now \in Counts
  BY <1>3, CountedTyped
<1> HIDE DEF r, now, kept, forgotten
<1>8. {h.label : h \in r(s).events} \ s \subseteq Labels
  BY <1>6
<1>9. /\ worker' \in Workers /\ worker'.at = "judged" /\ worker'.frame = frame
      /\ worker'.events = {h.label : h \in r(s).events} \ s
  BY <1>2, <1>8 DEF IInv, Workers
<1>10. FreshVotes'
  <2>1. ASSUME ~frame.person, NEW l \in worker'.events PROVE now[l] = Votes
    BY <1>6, <1>9, <2>1
  <2>2. QED
    BY <1>5, <1>9, <2>1, Numbers DEF FreshVotes
<1>11. QuietInv'
  BY <1>1, <1>9 DEF IInv, QuietInv
<1>12. QED
  BY <1>1, <1>2, <1>5, <1>6, <1>7, <1>9, <1>10, <1>11 DEF IInv, ShownIsSelected

LEMMA ShowKeeps == IInv /\ Show => IInv'
<1> SUFFICES ASSUME IInv, Show PROVE IInv'
  OBVIOUS
<1>1. UNCHANGED <<control, latest, judged>>
  BY DEF Show
<1>2. CASE worker' = Top
  BY <1>1, <1>2, TopTyped, WorkerMoves DEF QuietInv
<1>3. CASE worker' = [worker EXCEPT !.at = "shown"] /\ ~muted
  <2>1. worker' \in Workers /\ worker'.at = "shown" /\ worker'.frame = worker.frame
    BY <1>3 DEF IInv, Workers
  <2>2. QuietInv'
    BY <1>1, <1>3, <2>1 DEF IInv, QuietInv, control
  <2>3. QED
    BY <1>1, <2>1, <2>2, WorkerMoves
<1>4. QED
  BY <1>2, <1>3 DEF Show

LEMMA EncodeKeeps == IInv /\ Encode => IInv'
<1> SUFFICES ASSUME IInv, Encode PROVE IInv'
  OBVIOUS
<1>1. UNCHANGED <<control, latest, judged>> /\ worker.at = "shown"
  BY DEF Encode
<1>2. worker' \in Workers /\ worker'.at = "saving" /\ worker'.frame = worker.frame
  BY DEF IInv, Encode, Workers
<1>3. QuietInv'
  BY <1>1, <1>2 DEF IInv, QuietInv, control
<1>4. QED
  BY <1>1, <1>2, <1>3, WorkerMoves

LEMMA RoundEnds == IInv /\ (Save \/ Unwanted) => IInv'
  BY TopTyped, WorkerMoves DEF Save, Unwanted, QuietInv

LEMMA TickKeeps == IInv /\ Tick => IInv'
<1> SUFFICES ASSUME IInv, Tick PROVE IInv'
  OBVIOUS
<1>1. UNCHANGED <<control, latest, worker, since>> /\ engine' = Aged(engine)
  BY DEF Tick
<1>2. EngineInv(engine, since)'
  BY <1>1, AgedFits DEF IInv
<1>3. QED
  BY <1>1, <1>2 DEF IInv, control, QuietInv, FreshVotes, ShownIsSelected

-----------------------------------------------------------------------------
(* The theorems *)

LEMMA SpecIInv == Spec => []IInv
<1>1. ASSUME IInv, [Next]_vars PROVE IInv'
  <2>1. CASE UNCHANGED vars
    BY <1>1, <2>1, JudgedUntouched DEF vars, control, IInv, QuietInv, ShownIsSelected
  <2>2. CASE Collect \/ SelectMode \/ SetProcessing \/ SetMuted
    BY <1>1, <2>2, CollectKeeps, SelectModeKeeps, SetProcessingKeeps, SetMutedKeeps
  <2>3. CASE \E label \in Labels : RequestReset(label)
    BY <1>1, <2>3, JudgedUntouched DEF RequestReset, IInv, QuietInv, ShownIsSelected
  <2>4. CASE Switch \/ Load \/ Take \/ Judge
    BY <1>1, <2>4, SwitchKeeps, LoadKeeps, TakeKeeps, JudgeKeeps
  <2>5. CASE Show \/ Encode \/ Save \/ Unwanted \/ Tick
    BY <1>1, <2>5, ShowKeeps, EncodeKeeps, RoundEnds, TickKeeps
  <2>6. QED
    BY <1>1, <2>1, <2>2, <2>3, <2>4, <2>5 DEF Next
<1>2. QED
  BY <1>1, Established, PTL DEF Spec

\* _collect and select_mode: a result of a mode that is no longer selected is never shown,
\* however late it leaves the queue.
THEOREM SelectedShown == Spec => []ShownIsSelected
<1>1. IInv => ShownIsSelected
  BY DEF IInv
<1>2. QED
  BY <1>1, SpecIInv, PTL

\* A frame of a treatment that still runs is not recorded, whenever the mask of suppressed
\* labels changes between frame, inference, judgement and save.
THEOREM TreatmentsQuiet == Spec => []SuppressedStaysQuiet
<1>1. IInv => SuppressedStaysQuiet
  BY DEF IInv, QuietInv, SuppressedStaysQuiet
<1>2. QED
  BY <1>1, SpecIInv, PTL

\* Without a person no alert rests on votes from before a reset, a gap or a switch of the
\* mode: RiskEngine has judged Votes frames of the label since.
THEOREM VotesFresh == Spec => []FreshVotes
<1>1. IInv => FreshVotes
  BY DEF IInv
<1>2. QED
  BY <1>1, SpecIInv, PTL
=============================================================================
