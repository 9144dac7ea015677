------------------------- MODULE ExternalOperation --------------------------
(* What the tasks that write to external systems promise whoever owns those  *)
(* systems: each operation is begun once, never beside an unsettled one it   *)
(* overlaps, and it is settled only by the acceptance of its task, which     *)
(* nobody had doubted before.  A doubt is for good, and so is an acceptance. *)

CONSTANTS
  Unit,      \* the tasks
  Overlaps   \* pairs of tasks that may write to a common host

VARIABLES
  effect,    \* of each task's operation: "none", "unknown" or "known"
  verdict    \* on each task: "open", "doubted" or "accepted"

vars == <<effect, verdict>>

Init ==
  /\ effect = [u \in Unit |-> "none"]
  /\ verdict = [u \in Unit |-> "open"]

Unsettled == {u \in Unit : effect[u] = "unknown"}

Begin(u) ==
  /\ effect[u] = "none" /\ verdict[u] = "open"
  /\ \A v \in Unsettled : <<u, v>> \notin Overlaps
  /\ effect' = [effect EXCEPT ![u] = "unknown"]
  /\ UNCHANGED verdict

(* The outcome of an operation in doubt is never learnt.                     *)
Doubt(u) ==
  /\ verdict[u] = "open"
  /\ verdict' = [verdict EXCEPT ![u] = "doubted"]
  /\ UNCHANGED effect

Accept(u) ==
  /\ verdict[u] = "open"
  /\ verdict' = [verdict EXCEPT ![u] = "accepted"]
  /\ effect' = [effect EXCEPT ![u] = IF u \in Unsettled THEN "known" ELSE @]

Next == \E u \in Unit : Begin(u) \/ Doubt(u) \/ Accept(u)

Spec == Init /\ [][Next]_vars
=============================================================================
