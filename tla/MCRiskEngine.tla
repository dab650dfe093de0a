------------------------------ MODULE MCRiskEngine ------------------------------
(***************************************************************************)
(* RiskEngine alone, over every sequence of frames with up to two          *)
(* detections at different places: two objects of one kind on the floor.   *)
(***************************************************************************)
EXTENDS RiskEngine

VARIABLES engine, shown

vars == <<engine, shown>>

Init == engine = NewEngine /\ shown = {}

Detections == [track : Tracks \cup {0}, label : Labels, place : Places]

Frames ==
  {<<>>} \cup {<<d>> : d \in Detections}
         \cup {<<c, d>> : c \in Detections, d \in Detections}

\* The tracker gives no id twice in a frame.
Possible(frame) ==
  \A i, j \in DOMAIN frame :
    i # j => /\ frame[i].place # frame[j].place
             /\ frame[i].track = frame[j].track => frame[i].track = 0

Frame ==
  \E frame \in Frames :
    /\ Possible(frame)
    /\ engine.raws + Len(frame) <= MaxRaw \/ \A i \in DOMAIN frame : frame[i].track # 0
    /\ LET r == Evaluate(engine, frame, FALSE)
       IN engine' = r.engine /\ shown' = r.hazards

Tick == engine' = Aged(engine) /\ UNCHANGED shown

Next == Frame \/ Tick

Spec == Init /\ [][Next]_vars

\* Two objects seen in one frame are two objects: docs/Socket_명세서_백엔드-하드웨어.md:51.
DistinctInstances == \A g, h \in shown : g.instance = h.instance => g.key = h.key
=============================================================================
