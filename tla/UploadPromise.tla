----------------------------- MODULE UploadPromise -----------------------------
(***************************************************************************)
(* What the detection outbox promises of each upload (Bridge.flush_once:   *)
(* "Retry ... with original bytes and ID", "never create a replacement     *)
(* event automatically"): once queued it stays queued until the backend    *)
(* has accepted or refused it, the backend stores it at most once, what is *)
(* marked sent is stored, and a verdict is final.                          *)
(*                                                                         *)
(* fate    unknown, pending, sent or rejected                              *)
(* stored  the uploads the backend has a row for                           *)
(***************************************************************************)
CONSTANT Uploads

VARIABLES fate, stored

Init == fate = [u \in Uploads |-> "unknown"] /\ stored = {}

Queue(u) ==
  /\ fate[u] = "unknown"
  /\ fate' = [fate EXCEPT ![u] = "pending"]
  /\ UNCHANGED stored

\* A request that was given up may reach the backend after a later one was refused.
Store(u) ==
  /\ fate[u] \in {"pending", "rejected"} /\ u \notin stored
  /\ stored' = stored \cup {u}
  /\ UNCHANGED fate

Send(u) ==
  /\ fate[u] = "pending" /\ u \in stored
  /\ fate' = [fate EXCEPT ![u] = "sent"]
  /\ UNCHANGED stored

Reject(u) ==
  /\ fate[u] = "pending"
  /\ fate' = [fate EXCEPT ![u] = "rejected"]
  /\ UNCHANGED stored

Next == \E u \in Uploads : Queue(u) \/ Store(u) \/ Send(u) \/ Reject(u)

Spec == Init /\ [][Next]_<<fate, stored>>
=============================================================================
