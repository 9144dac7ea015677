----------------------------- MODULE MCPlanLineage -----------------------------
(* Small instance of PlanLineage: a task, one that depends on it, a third    *)
(* and one that joins.  One has a second definition, and another one has a   *)
(* second definition that no plan may hold: it would lead back to itself.    *)
EXTENDS PlanLineage, TLC

Definitions == {"direct", "a", "b", "c", "j", "a2", "c2"}
IdOf == [t \in Definitions |-> CASE t = "a2" -> "a" [] t = "c2" -> "c" [] OTHER -> t]
DepsOf == [t \in Definitions |->
            CASE t = "b" -> {"a"} [] t = "j" -> {"a", "c"}
              [] t = "a2" -> {"b"} [] OTHER -> {}]

(* The two loops of Plan.dag, round by round; WellFormed is compared with    *)
(* them on every set of definitions.                                         *)
Resolved(p) ==
  LET round[n \in 0..Cardinality(p.tasks)] ==
        IF n = 0 THEN {} ELSE {t \in p.tasks : Deps[t] \subseteq Ids(round[n - 1])}
  IN round[Cardinality(p.tasks)]
Ancestors(p) ==
  LET round[n \in 0..Cardinality(p.tasks)] ==
        IF n = 0 THEN {p.result}
        ELSE round[n - 1] \cup UNION {Parents(p, t) : t \in round[n - 1]}
  IN round[Cardinality(p.tasks)]

ASSUME DagAssumption ==
  \A p \in [tasks: SUBSET Task, result: Task] :
    WellFormed(p) <=>
      /\ p.result \in p.tasks /\ \A t, u \in p.tasks : Id[t] = Id[u] => t = u
      /\ Resolved(p) = p.tasks /\ Ancestors(p) = p.tasks
=============================================================================
