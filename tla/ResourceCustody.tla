-------------------------- MODULE ResourceCustody ---------------------------
(* What a Run promises the host of its Docker resources: a resource appears  *)
(* under a name never used before, while the Run is running and recorded; a  *)
(* record is struck only of what is gone for good; and the Run is not        *)
(* continued, by whichever process, while anything is still recorded.        *)

CONSTANT Name     \* the names of its resources

VARIABLES
  running,   \* a controller may invoke
  record,    \* of each name: "fresh", "recorded" or "struck"
  existing   \* names of what exists, or may still come to exist

vars == <<running, record, existing>>

Init ==
  /\ ~running
  /\ record = [n \in Name |-> "fresh"]
  /\ existing = {}

Continue ==
  /\ ~running
  /\ \A n \in Name : record[n] # "recorded"
  /\ running' = TRUE
  /\ UNCHANGED <<record, existing>>

Halt == running' = FALSE /\ UNCHANGED <<record, existing>>

Create(n) ==
  /\ running /\ record[n] = "fresh"
  /\ record' = [record EXCEPT ![n] = "recorded"]
  /\ existing' = existing \cup {n}
  /\ UNCHANGED running

(* It disappears, whoever removed it, or was never made; the record may go.  *)
Vanish(n) ==
  /\ record[n] = "recorded"
  /\ existing' = existing \ {n}
  /\ record' \in {record, [record EXCEPT ![n] = "struck"]}
  /\ UNCHANGED running

Next == Continue \/ Halt \/ \E n \in Name : Create(n) \/ Vanish(n)

Spec == Init /\ [][Next]_vars
=============================================================================
