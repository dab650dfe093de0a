------------------------------- MODULE RiskEngine -------------------------------
(***************************************************************************)
(* detection/risk_engine.py and stabilization.py: which detections of a    *)
(* frame are stable, which of them raise an alert, and which object each   *)
(* of them is.  A detection is a label at a place, with a track of the     *)
(* tracker or without (0); two boxes overlap when they are at one place.   *)
(*                                                                         *)
(* The state of an engine, as a record over the keys of tracks and of raw  *)
(* detections.  Times are ages in ticks, Gone when there is no entry.      *)
(*   seen, label, instance     as in the code ("none", 0: no entry)        *)
(*   alerted, level            the time and the level of alerted           *)
(*   votes, confirmed          the history of ClassStabilizer              *)
(*   place                     the box of a raw detection, in unknown as   *)
(*                             long as it is in seen                       *)
(*   raws                      how many raw keys were given                *)
(* An identity (a uuid) is a number that no key of the engine has.         *)
(***************************************************************************)
EXTENDS Naturals, SequencesExt

CONSTANTS
  Tracks,    \* track ids, numbers from 1
  MaxRaw,    \* bound: raw detections that are told apart
  Labels, Places,
  Window, Votes,     \* C.STABLE_WINDOW, C.STABLE_VOTES
  Cooldown, Forget   \* C.ALERT_COOLDOWN_SEC, C.TRACK_FORGET_SEC in ticks

\* Votes: "Require window / 2 < votes <= window".
ASSUME RiskAssumption ==
  /\ IsFiniteSet(Tracks) /\ MaxRaw \in Nat /\ Places # {} /\ "none" \notin Labels
  /\ Window \in Nat /\ Votes \in ((Window \div 2) + 1)..Window
  /\ Cooldown \in Nat /\ Forget \in Nat /\ Cooldown <= Forget

Keys == ({"track"} \X Tracks) \cup ({"raw"} \X (1..MaxRaw))
RawKey(n) == <<"raw", n>>
Gone == Forget + 1
Urgent == 3

\* BaseLevel: RISK_LEVELS; the kinds modelled are of level 1.
BaseLevel == 1

NewEngine ==
  [seen |-> [k \in Keys |-> Gone], alerted |-> [k \in Keys |-> Gone],
   level |-> [k \in Keys |-> 0], label |-> [k \in Keys |-> "none"],
   votes |-> [k \in Keys |-> <<>>], confirmed |-> [k \in Keys |-> "none"],
   instance |-> [k \in Keys |-> 0],
   place |-> [n \in 1..MaxRaw |-> CHOOSE p \in Places : TRUE],
   raws |-> 0]

\* uuid4
NewInstance(e) ==
  CHOOSE n \in 1..(Cardinality(Keys) + 1) : \A k \in Keys : e.instance[k] # n

Older(age) == IF age = Gone THEN Gone ELSE age + 1

\* A tick passes.
Aged(e) ==
  [e EXCEPT !.seen = [k \in Keys |-> Older(@[k])], !.alerted = [k \in Keys |-> Older(@[k])]]

\* Mutant: only the cooldown is forgotten.
ResetCooldown(e, labels) ==
  [e EXCEPT !.alerted = [k \in Keys |-> IF e.label[k] \in labels THEN Gone ELSE @[k]]]

\* reset_alert_labels: of the keys that last had one of the labels.
Reset(e, labels) ==
  LET hit == {k \in Keys : e.label[k] \in labels}
  IN [e EXCEPT !.alerted = [k \in Keys |-> IF k \in hit THEN Gone ELSE @[k]],
               !.votes = [k \in Keys |-> IF k \in hit THEN <<>> ELSE @[k]],
               !.confirmed = [k \in Keys |-> IF k \in hit THEN "none" ELSE @[k]]]

\* The start of evaluate: votes go with the track, label and identity with track and alert.
Expired(e) ==
  LET lost == {k \in Keys : e.seen[k] = Gone}
      over == {k \in lost : e.alerted[k] = Gone}
  IN [e EXCEPT !.votes = [k \in Keys |-> IF k \in lost THEN <<>> ELSE @[k]],
               !.confirmed = [k \in Keys |-> IF k \in lost THEN "none" ELSE @[k]],
               !.level = [k \in Keys |-> IF e.alerted[k] = Gone THEN 0 ELSE @[k]],
               !.label = [k \in Keys |-> IF k \in over THEN "none" ELSE @[k]],
               !.instance = [k \in Keys |-> IF k \in over THEN 0 ELSE @[k]]]

\* The raw detections that one at this place with this label may be taken for.
Known(e, used, d) ==
  {n \in 1..MaxRaw : /\ e.seen[RawKey(n)] # Gone /\ RawKey(n) \notin used
                     /\ e.label[RawKey(n)] = d.label /\ e.place[n] = d.place}

Least(S) == CHOOSE n \in S : \A m \in S : n <= m

\* A detection without a track is taken for one of before, or is new.
RawIdentity(e, used, d) ==
  LET known == Known(e, used, d)
      n == IF known = {} THEN e.raws + 1 ELSE Least(known)
  IN [key |-> RawKey(n), used |-> used \cup {RawKey(n)},
      engine |-> [e EXCEPT !.raws = IF known = {} THEN n ELSE @,
                           !.place[n] = d.place]]

\* A track takes over the alert and the identity of a raw detection at its place.
TrackIdentity(e, used, d) ==
  LET key == <<"track", d.track>>
      known == Known(e, used, d)
      raw == RawKey(Least(known))
  IN IF known = {} THEN [key |-> key, used |-> used, engine |-> e]
     ELSE [key |-> key, used |-> used \cup {raw},
           engine |-> [e EXCEPT
             !.alerted[key] = IF @ = Gone THEN e.alerted[raw] ELSE @,
             !.level[key] = IF e.alerted[key] = Gone THEN e.level[raw] ELSE @,
             !.instance[key] = IF @ = 0 THEN e.instance[raw] ELSE @]]

\* ClassStabilizer.update: a full window with enough votes; what was confirmed stays.
Vote(e, key, label) ==
  LET all == Append(e.votes[key], label)
      votes == IF Len(all) > Window THEN Tail(all) ELSE all
      winners == {l \in Labels : Cardinality({i \in DOMAIN votes : votes[i] = l}) >= Votes}
  IN [e EXCEPT !.votes[key] = votes,
               !.confirmed[key] = IF Len(votes) = Window /\ winners # {}
                                  THEN CHOOSE l \in winners : TRUE ELSE @]

\* An alert is due: the object is stable or a person is near, and its cooldown is over.
Alert(e, key, label, urgent) ==
  LET level == IF urgent THEN Urgent ELSE BaseLevel
      due == /\ urgent \/ e.confirmed[key] = label
             /\ e.alerted[key] >= Cooldown \/ level > e.level[key]
  IN [engine |-> IF due THEN [e EXCEPT !.alerted[key] = 0, !.level[key] = level] ELSE e,
      due |-> due]

\* One detection of a frame.  r is what evaluate has so far.
Evaluated(r, d) ==
  LET i == IF d.track = 0 THEN RawIdentity(r.engine, r.used, d)
           ELSE TrackIdentity(r.engine, r.used, d)
      named == [i.engine EXCEPT
                  !.instance[i.key] = IF @ = 0 THEN NewInstance(i.engine) ELSE @,
                  !.seen[i.key] = 0, !.label[i.key] = d.label]
      a == Alert(Vote(named, i.key, d.label), i.key, d.label, r.person)
      hazard == [key |-> i.key, label |-> d.label, instance |-> a.engine.instance[i.key]]
  IN [r EXCEPT !.engine = a.engine, !.used = i.used, !.hazards = @ \cup {hazard},
               !.events = IF a.due THEN @ \cup {hazard} ELSE @]

\* evaluate; frame is a sequence of detections.
Evaluate(e, frame, person) ==
  FoldLeft(Evaluated,
           [engine |-> Expired(e), used |-> {}, person |-> person, hazards |-> {}, events |-> {}],
           frame)
=============================================================================
