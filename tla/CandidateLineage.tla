-------------------------- MODULE CandidateLineage --------------------------
(* What a Run promises whoever adopts its result: a lineage that only grows. *)
(* A candidate is accepted once for its task, made from candidates accepted  *)
(* before it, one for each dependency; nothing accepted is ever replaced,    *)
(* made anew or forgotten; one accepted candidate is delivered, and nothing  *)
(* is accepted behind it.                                                    *)

EXTENDS Integers

CONSTANTS
  Task,      \* definitions of tasks
  Id,        \* the id of each; at most one definition of an id is accepted
  Deps,      \* the ids each depends on
  Attempt    \* attempts a task may need

VARIABLES
  sources,   \* of each accepted candidate, those it was made from
  delivered  \* the candidate that was delivered, if any

vars == <<sources, delivered>>

Accepted == DOMAIN sources

Init == sources = [c \in {} |-> {}] /\ delivered = {}

Accept(t, n) ==
  /\ delivered = {}
  /\ \A c \in Accepted : Id[c[1]] # Id[t]
  /\ Deps[t] \subseteq {Id[c[1]] : c \in Accepted}
  /\ sources' = [c \in Accepted \cup {<<t, n>>} |->
                  IF c = <<t, n>> THEN {d \in Accepted : Id[d[1]] \in Deps[t]} ELSE sources[c]]
  /\ UNCHANGED delivered

Deliver(c) ==
  /\ delivered = {} /\ c \in Accepted
  /\ delivered' = {c}
  /\ UNCHANGED sources

Next ==
  \/ \E t \in Task, n \in Attempt : Accept(t, n)
  \/ \E c \in Accepted : Deliver(c)

Spec == Init /\ [][Next]_vars
=============================================================================
