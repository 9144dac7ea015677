----------------------------- MODULE RunOutcome -----------------------------
(* What one Run promises an operator who only sees its terminal events: the  *)
(* Run is fenced at most once, it completes at most once and only while it   *)
(* is neither fenced nor busy, nothing is started behind the fence or after  *)
(* completion, and a confirmed cleanup stays true for ever.                  *)

VARIABLES
  outcome,    \* "open" or "completed"
  fenced,     \* a stop is durable
  busy,       \* an environment exists or an invocation is unsettled
  confirmed   \* cleanup or revocation was reported as confirmed

vars == <<outcome, fenced, busy, confirmed>>

Init == outcome = "open" /\ ~fenced /\ ~busy /\ ~confirmed

(* An invocation is admitted: never behind the fence, never once completed.  *)
Start ==
  /\ ~fenced /\ ~confirmed /\ outcome = "open"
  /\ busy' = TRUE
  /\ UNCHANGED <<outcome, fenced, confirmed>>

Quiesce == busy' = FALSE /\ UNCHANGED <<outcome, fenced, confirmed>>

Complete ==
  /\ outcome = "open" /\ ~fenced /\ ~busy
  /\ outcome' = "completed"
  /\ UNCHANGED <<fenced, busy, confirmed>>

Fence == fenced' = TRUE /\ UNCHANGED <<outcome, busy, confirmed>>

Confirm ==
  /\ fenced \/ outcome = "completed"
  /\ ~busy
  /\ confirmed' = TRUE
  /\ UNCHANGED <<outcome, fenced, busy>>

Next == Start \/ Quiesce \/ Complete \/ Fence \/ Confirm

Spec == Init /\ [][Next]_vars
=============================================================================
