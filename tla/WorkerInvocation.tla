-------------------------- MODULE WorkerInvocation --------------------------
(* What one worker invocation promises the engine that called it: a          *)
(* workspace is handed over at most once, while every task process is known  *)
(* to have stopped after the model session, as it was then; and what is      *)
(* handed over does not change any more.                                     *)

EXTENDS Integers

CONSTANT NoTree

VARIABLES
  session,    \* "setup", "probe" or "model", the last one that was begun
  stopped,    \* whether its task processes are known to have stopped
  workspace,  \* the workspace, by the writes it has in it
  outcome     \* what the engine was given

vars == <<session, stopped, workspace, outcome>>

Undecided == outcome = [status |-> "none", tree |-> NoTree]

Init ==
  /\ session = "setup" /\ ~stopped /\ workspace = 0
  /\ Undecided

(* A session begins; nothing is known of it yet.                             *)
Begin ==
  /\ Undecided
  /\ session' = IF session = "setup" THEN "probe" ELSE "model"
  /\ stopped' = FALSE
  /\ UNCHANGED <<workspace, outcome>>

Work ==
  /\ ~stopped
  /\ workspace' = workspace + 1
  /\ UNCHANGED <<session, stopped, outcome>>

Confirm ==
  /\ Undecided /\ session # "setup"
  /\ stopped' = TRUE
  /\ UNCHANGED <<session, workspace, outcome>>

HandOver ==
  /\ Undecided /\ stopped /\ session = "model"
  /\ \E status \in {"returned", "saved"} :
       outcome' = [status |-> status, tree |-> workspace]
  /\ UNCHANGED <<session, stopped, workspace>>

Decline ==
  /\ Undecided
  /\ \E status \in {"unavailable", "capture_failed"} :
       outcome' = [status |-> status, tree |-> NoTree]
  /\ UNCHANGED <<session, stopped, workspace>>

Next == Begin \/ Work \/ Confirm \/ HandOver \/ Decline

Spec == Init /\ [][Next]_vars
=============================================================================
