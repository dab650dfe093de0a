--------------------------- MODULE CommandOutcome ---------------------------
(***************************************************************************)
(* What a parent is promised about a remote command, whatever the backend, *)
(* the socket and the robot process do in between.  For each command:      *)
(*                                                                         *)
(* runs     how often the robot has physically begun the task              *)
(* verdict  the one verdict the robot will ever give, "NONE" until then    *)
(* told     the status the parent reads (OperationService.getCommand and   *)
(*          getAction), "ABSENT" before the request is accepted            *)
(***************************************************************************)

EXTENDS Naturals

CONSTANT Commands

VARIABLE life

Verdicts == {"SUCCEEDED", "FAILED"}
Open == {"REQUESTED", "UNKNOWN"}

Lives == [runs : 0..1,
          verdict : Verdicts \cup {"NONE"},
          told : Open \cup Verdicts \cup {"ABSENT", "EXPIRED"}]

Init == life = [c \in Commands |-> [runs |-> 0, verdict |-> "NONE", told |-> "ABSENT"]]

Ask(old, new) ==
  /\ old.told = "ABSENT"
  /\ new = [old EXCEPT !.told = "REQUESTED"]

\* The task begins once, and only while the parent may still expect it.
Run(old, new) ==
  /\ old.told \in Open /\ old.verdict = "NONE" /\ old.runs = 0
  /\ new = [old EXCEPT !.runs = 1]

\* One verdict, never revised, and no success without having run.
Judge(old, new) ==
  /\ old.told \in Open /\ old.verdict = "NONE"
  /\ \E v \in Verdicts :
       /\ v = "SUCCEEDED" => old.runs = 1
       /\ new = [old EXCEPT !.verdict = v]

Tell(old, new) ==
  /\ old.told \in Open /\ old.verdict \in Verdicts
  /\ new = [old EXCEPT !.told = old.verdict]

LoseTrack(old, new) ==
  /\ old.told = "REQUESTED"
  /\ new = [old EXCEPT !.told = "UNKNOWN"]

\* "EXPIRED" tells the parent that nothing happened; it also closes Run and Judge.
Expire(old, new) ==
  /\ old.told = "REQUESTED" /\ old.verdict = "NONE" /\ old.runs = 0
  /\ new = [old EXCEPT !.told = "EXPIRED"]

Step(old, new) ==
  \/ Ask(old, new)
  \/ Run(old, new)
  \/ Judge(old, new)
  \/ Tell(old, new)
  \/ LoseTrack(old, new)
  \/ Expire(old, new)

\* Several commands may step at once: one SQL UPDATE closes every overdue row,
\* and one restart of the robot process judges every unfinished task.
Next ==
  /\ life' \in [Commands -> Lives]
  /\ \A c \in Commands : life'[c] = life[c] \/ Step(life[c], life'[c])

Spec == Init /\ [][Next]_life
=============================================================================
