--------------------------- MODULE BudgetAccount ----------------------------
(* What a Run promises whoever pays for its calls: an account of one sum.  A *)
(* call is held against the limit before it is made, and leaves the account  *)
(* once: for what it measurably used, or for what was held.  Nothing else    *)
(* moves the sum, and no call is charged twice or given back.                *)

EXTENDS Integers

CONSTANTS
  Call,     \* the calls the Run may make
  Amount,   \* what a call may be held or measured at
  Limit     \* what the payer agreed to

VARIABLES
  spent,    \* the sum, of calls that are over and calls in progress
  held,     \* of each call in progress, the part of the sum held for it
  closed    \* the calls that are over

vars == <<spent, held, closed>>

Init == spent = 0 /\ held = [i \in {} |-> 0] /\ closed = {}

Hold(i, amount) ==
  /\ i \notin DOMAIN held \cup closed
  /\ spent + amount <= Limit
  /\ spent' = spent + amount
  /\ held' = [j \in DOMAIN held \cup {i} |-> IF j = i THEN amount ELSE held[j]]
  /\ UNCHANGED closed

(* Measured usage replaces what was held; without it the hold is the charge. *)
Settle(i) ==
  /\ i \in DOMAIN held
  /\ \E amount \in Amount \cup {held[i]} : spent' = spent - held[i] + amount
  /\ held' = [j \in DOMAIN held \ {i} |-> held[j]]
  /\ closed' = closed \cup {i}

(* Nobody knows any more what the calls in progress used.                    *)
Forfeit ==
  /\ held' = [i \in {} |-> 0]
  /\ closed' = closed \cup DOMAIN held
  /\ UNCHANGED spent

Next ==
  \/ Forfeit
  \/ \E i \in Call : Settle(i) \/ \E amount \in Amount : Hold(i, amount)

Spec == Init /\ [][Next]_vars
=============================================================================
