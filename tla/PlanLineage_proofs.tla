-------------------------- MODULE PlanLineage_proofs --------------------------
(* Theorems of PlanLineage, for any tasks, dependencies and limits.          *)

EXTENDS PlanLineage, FiniteSetTheorems, WellFoundedInduction, TLAPS

(* The last definitions are closed under dependencies and hold the current   *)
(* plan, a well-formed one.                                                  *)
PlansOK ==
  /\ planned = 0 => plan = NoPlan /\ known = {} /\ direct = "no"
  /\ planned > 0 => plan \in Plan /\ plan.tasks \subseteq known
  /\ \A t, u \in known : Id[t] = Id[u] => t = u
  /\ \A t \in known : Deps[t] \subseteq Ids(known)
  /\ broken \subseteq Ids(known)

(* While the direct plan is the current one nothing else was ever tried; a   *)
(* task with attempts is a known one, but for direct work that was replaced. *)
Directing == direct # "no" /\ fallback # "planned" /\ plan = DirectPlan
RouteOK ==
  /\ direct = "no" => fallback = "none" /\ directRuns = 0
  /\ direct # "no" => Id[Direct] \in Ids(known)
  /\ fallback # "none" => directRuns = 1 /\ handoff = "partial"
  /\ directRuns <= 1 /\ (directRuns > 0 => tries[Direct] > 0)
  /\ Directing => /\ known = {Direct}
                  /\ \A t \in Task \ {Direct} : tries[t] = 0
                  /\ tries[Direct] > 0 => directRuns = 1
  /\ fallback = "open" => plan = DirectPlan /\ \A t \in Task : accepted[t] = 0
  /\ \A t \in Task : tries[t] > 0 =>
       t \in known \/ (t = Direct /\ fallback = "planned" /\ accepted[Direct] = 0)
  /\ \A t \in Task \ {Direct} : /\ tries[t] = 0 => origin[t] = "none"
                                /\ fallback # "none" => origin[t] # "input"

(* What the scheduler holds is what the journal says of the current plan,    *)
(* but for the tasks that are not collected yet.                             *)
SchedulerOK ==
  /\ main \in {"down", "plan"} => adopted = Nothing
  /\ main # "pool" => pool = {}
  /\ pool \subseteq plan.tasks
  /\ main = "plan" => planned = 0 \/ fallback = "open"
  /\ main \notin {"down", "plan"} =>
       /\ planned > 0 /\ fallback # "open"
       /\ \A t \in Task : adopted[t] = IF t \in plan.tasks \ pool THEN accepted[t] ELSE 0
  /\ main = "fallback" =>
       Directing /\ fallback = "none" /\ tries[Direct] > 0 /\ accepted[Direct] = 0
  /\ main \in {"goal", "complete"} => \A t \in plan.tasks : accepted[t] > 0
  /\ main = "complete" =>
       /\ verdict[plan.result] \in {"passed", "reused"}
       /\ verdict[plan.result] = "reused" => Joint
  /\ completed # {} => main = "down"

ThreadsOK ==
  /\ \A t \in pool :
       /\ pc[t] = "returned" => accepted[t] = tries[t] /\ tries[t] > 0
       /\ pc[t] # "returned" => accepted[t] = 0
       /\ pc[t] \in {"worker", "attempt", "resume"} => tries[t] > 0
       /\ pc[t] = "fallback" => tries[t] > 0 /\ IsDirect(t)
  /\ \A t \in Task : /\ stage[t] \in Unfinished => tries[t] > 0
                     /\ stage[t] = "verified" => <<t, tries[t]>> \in passed

(* A task that was tried, or is about to be, has all its dependencies        *)
(* accepted, and every attempt of it was made from those candidates.         *)
Upstream(t) == {u \in known : Id[u] \in Deps[t]}
Sources(t) == {<<u, accepted[u]>> : u \in Upstream(t)}
LineageOK ==
  /\ \A t \in Task : accepted[t] > 0 =>
       t \in known /\ accepted[t] <= tries[t] /\ <<t, accepted[t]>> \in passed
  /\ \A t \in Task : tries[t] > 0 /\ t \notin known => \A n \in 1..tries[t] : upstream[t][n] = {}
  /\ \A t \in known : tries[t] > 0 \/ t \in pool =>
       /\ \A u \in Upstream(t) : accepted[u] > 0
       /\ \A n \in 1..tries[t] : upstream[t][n] = Sources(t)
       /\ t \in pool => given[t] = Sources(t)

IInv == /\ TypeOK /\ PlansOK /\ RouteOK /\ SchedulerOK /\ ThreadsOK /\ LineageOK
        /\ CompletionHolds

USE DEF Attempt, Candidate, Tree, Stage, Place, Main, Unfinished

LEMMA InitInv == ASSUME PlanAssumption, Init PROVE IInv
<1> USE DEF Init
<1>1. TypeOK
  <2>1. TaskAttempts \in Nat /\ 0 \in 0..TaskAttempts
    BY DEF PlanAssumption
  <2>2. plan \in [tasks: SUBSET Task, result: Task \cup {None}]
    BY DEF NoPlan
  <2>3. Nothing \in [Task -> 0..TaskAttempts]
    BY <2>1 DEF Nothing
  <2> QED
    BY <2>2, <2>3 DEF TypeOK
<1>2. PlansOK
  BY DEF PlansOK, Ids
<1>3. RouteOK
  BY DEF RouteOK, PlanAssumption, Nothing, Directing, DirectPlan, NoPlan
<1>4. SchedulerOK
  BY DEF SchedulerOK, NoPlan
<1>5. ThreadsOK
  BY DEF ThreadsOK
<1>6. LineageOK
  BY DEF LineageOK, Nothing
<1>7. CompletionHolds
  BY DEF CompletionHolds
<1> QED
  BY <1>1, <1>2, <1>3, <1>4, <1>5, <1>6, <1>7 DEF IInv

(* Every plan is one of known tasks; recording one keeps the types, and so   *)
(* does the start of execution.                                              *)
LEMMA RecordedTypes ==
  ASSUME TypeOK, NEW p \in Plan, Recorded(p)
  PROVE  /\ plan' \in [tasks: SUBSET Task, result: Task \cup {None}]
         /\ planned' \in Nat /\ original' \subseteq Key \cup Ids(p.tasks)
         /\ known' \subseteq Task
BY DEF TypeOK, Recorded, Plan

LEMMA EnterTypes ==
  ASSUME PlanAssumption, TypeOK, NEW p, NEW f, Enter(p, f)
  PROVE  main' \in {"plan", "schedule"} /\ adopted' \in [Task -> 0..TaskAttempts]
<1>1. TaskAttempts \in Nat /\ 0 \in 0..TaskAttempts
  BY DEF PlanAssumption
<1> QED
  BY <1>1 DEF Enter, AcceptedIn, Nothing, TypeOK

LEMMA IdsTyped == ASSUME PlanAssumption, NEW S \in SUBSET Task PROVE Ids(S) \subseteq Key
BY DEF PlanAssumption, Ids

(* Where a thread stands and what the journal says of its attempt.           *)
LEMMA Steps ==
  ASSUME TypeOK, NEW t \in Task
  PROVE  /\ \A place \in Place : Goto(t, place) => pc' \in [Task -> Place]
         /\ \A value \in Stage : Mark(t, value) => stage' \in [Task -> Stage]
<1> HIDE DEF Place, Stage
<1>1. pc \in [Task -> Place] /\ stage \in [Task -> Stage]
  BY DEF TypeOK
<1> QED
  BY <1>1 DEF Goto, Mark

(* The direct plan is a plan.                                                *)
LEMMA DirectIsPlan == ASSUME PlanAssumption PROVE DirectPlan \in Plan
<1>1. DirectPlan \in [tasks: SUBSET Task, result: Task]
  BY DEF DirectPlan, PlanAssumption
<1>2. DirectPlan.tasks = {Direct} /\ DirectPlan.result = Direct
  BY DEF DirectPlan
<1>3. ASSUME NEW S \in (SUBSET DirectPlan.tasks) \ {{}}
      PROVE  \E t \in S : Deps[t] \subseteq Ids(DirectPlan.tasks \ S)
  BY <1>2 DEF PlanAssumption
<1>4. ASSUME NEW S \in SUBSET DirectPlan.tasks, DirectPlan.result \in S
      PROVE  S = DirectPlan.tasks
  BY <1>2, <1>4
<1> QED
  BY <1>1, <1>2, <1>3, <1>4 DEF Plan, WellFormed

(* The dependencies of a task of a plan are tasks of the plan, one for each  *)
(* id; they are its known dependencies.                                      *)
LEMMA ParentsKnown ==
  ASSUME PlansOK, planned > 0, NEW t \in plan.tasks
  PROVE  Parents(plan, t) = Upstream(t) /\ Deps[t] \subseteq Ids(plan.tasks)
<1>1. plan.tasks \subseteq known /\ plan.tasks \subseteq Task /\ WellFormed(plan)
  BY DEF PlansOK, Plan
<1>2. {t} \in (SUBSET plan.tasks) \ {{}}
  OBVIOUS
<1>3. Deps[t] \subseteq Ids(plan.tasks \ {t})
  BY <1>1, <1>2 DEF WellFormed
<1>4. Deps[t] \subseteq Ids(plan.tasks)
  BY <1>3 DEF Ids
<1> QED
  BY <1>1, <1>4 DEF PlansOK, Parents, Upstream, Ids

(* A task that is ready has all its dependencies accepted.                   *)
LEMMA ReadyInputs ==
  ASSUME PlanAssumption, TypeOK, PlansOK, planned > 0, NEW t \in Ready
  PROVE  /\ t \in plan.tasks /\ adopted[t] = 0
         /\ \A u \in Parents(plan, t) : u \in plan.tasks /\ adopted[u] > 0
         /\ Inputs(plan, adopted, t) \subseteq Candidate
<1>1. t \in plan.tasks /\ adopted[t] = 0
  BY DEF Ready, Pending
<1>2. plan.tasks \subseteq known /\ plan.tasks \subseteq Task
  BY DEF PlansOK, Plan
<1>3. ASSUME NEW u \in Parents(plan, t) PROVE u \in plan.tasks /\ adopted[u] > 0
  <2>1. u \in plan.tasks /\ Id[u] \in Deps[t]
    BY DEF Parents
  <2>2. PICK v \in plan.tasks : adopted[v] > 0 /\ Id[v] = Id[u]
    BY <2>1 DEF Ready, Ids
  <2>3. u = v
    BY <1>2, <2>1, <2>2 DEF PlansOK
  <2> QED
    BY <2>1, <2>2, <2>3
<1>4. ASSUME NEW u \in Parents(plan, t) PROVE <<u, adopted[u]>> \in Task \X (1..TaskAttempts)
  <2>1. u \in Task /\ adopted[u] \in 0..TaskAttempts /\ adopted[u] > 0
    BY <1>2, <1>3 DEF TypeOK
  <2>2. adopted[u] \in 1..TaskAttempts
    BY <2>1 DEF PlanAssumption
  <2> QED
    BY <2>1, <2>2
<1> QED
  BY <1>1, <1>3, <1>4 DEF Inputs

LEMMA TypeStep ==
  ASSUME PlanAssumption, TypeOK, PlansOK, SchedulerOK, ThreadsOK, [Next]_vars PROVE TypeOK'
<1> USE DEF TypeOK, plans, route, attempts, results, threads, scheduler
<1>a. TaskAttempts \in Nat /\ 0 \in 0..TaskAttempts
  BY DEF PlanAssumption
<1>b. "plan" \in Main /\ "schedule" \in Main
  OBVIOUS
<1>1. CASE Resume
  BY <1>1, EnterTypes DEF Resume
<1>2. CASE Leave
  BY <1>2, <1>a DEF Leave, Nothing
<1>3. CASE Fallback
  BY <1>3, EnterTypes DEF Fallback
<1>4. CASE GoalReuse
  BY <1>4 DEF GoalReuse
<1>5. CASE Complete
  <2>1. Final \in Candidate
    <3>1. plan.result \in plan.tasks /\ plan.result \in Task
      BY <1>5 DEF Complete, SchedulerOK, PlansOK, Plan, WellFormed
    <3>2. adopted[plan.result] \in 0..TaskAttempts /\ adopted[plan.result] > 0
      BY <1>5, <3>1 DEF Complete, SchedulerOK
    <3>3. adopted[plan.result] \in 1..TaskAttempts
      BY <1>a, <3>2
    <3> QED
      BY <3>1, <3>3 DEF Final
  <2> QED
    BY <1>5, <1>a, <2>1 DEF Complete, Nothing
<1>6. CASE ScheduleEnds
  BY <1>6 DEF ScheduleEnds
<1>7. ASSUME NEW covers \in BOOLEAN, StartDirect(covers) PROVE TypeOK'
  BY <1>7, DirectIsPlan, RecordedTypes, EnterTypes, IdsTyped DEF StartDirect, Plan
<1>8. ASSUME NEW pass \in BOOLEAN, GoalVerify(pass) PROVE TypeOK'
  BY <1>8 DEF GoalVerify
<1>9. ASSUME NEW p \in Plan, MakePlan(p) PROVE TypeOK'
  BY <1>9, RecordedTypes, EnterTypes, IdsTyped DEF MakePlan, Plan
<1>10. ASSUME NEW p \in Plan, Recover(p) PROVE TypeOK'
  BY <1>10, RecordedTypes, EnterTypes, IdsTyped DEF Recover, Plan
<1>11. ASSUME NEW S \in SUBSET Ready, Submit(S) PROVE TypeOK'
  <2>1. planned > 0 /\ S \subseteq Task
    BY <1>11 DEF Submit, SchedulerOK, Ready, Pending
  <2>2. \A t \in S : Inputs(plan, adopted, t) \subseteq Candidate
    BY <2>1, ReadyInputs
  <2>3. given' \in [Task -> SUBSET Candidate]
    BY <1>11, <2>1, <2>2 DEF Submit
  <2> QED
    BY <1>11, <2>1, <2>3 DEF Submit
<1>12. ASSUME NEW t \in Task, Collect(t) PROVE TypeOK'
  <2>1. adopted' \in [Task -> 0..TaskAttempts] /\ broken' \subseteq Key /\ failure' \in BOOLEAN
    <3>1. CASE pc[t] = "returned"
      <4>1. adopted' = [adopted EXCEPT ![t] = tries[t]] /\ UNCHANGED <<broken, failure>>
        BY <1>12, <3>1 DEF Collect
      <4> QED
        BY <4>1
    <3>2. CASE pc[t] # "returned"
      <4>1. broken' = broken \cup {Id[t]} /\ failure' = TRUE /\ UNCHANGED adopted
        BY <1>12, <3>2 DEF Collect
      <4> QED
        BY <4>1 DEF PlanAssumption
    <3> QED
      BY <3>1, <3>2
  <2>2. main' \in Main /\ pool' \subseteq Task
    BY <1>12 DEF Collect
  <2> QED
    BY <1>12, <2>1, <2>2 DEF Collect
<1>13. ASSUME NEW t \in Task, GiveUp(t) PROVE TypeOK'
  BY <1>13 DEF GiveUp
<1>14. ASSUME NEW t \in Task, Begin(t) PROVE TypeOK'
  <2>1. Goto(t, "resume") \/ Goto(t, "fallback") \/ Goto(t, "work")
    BY <1>14 DEF Begin
  <2>2. pc' \in [Task -> Place]
    BY <2>1, Steps
  <2> QED
    BY <1>14, <2>2 DEF Begin
<1>15. ASSUME NEW t \in Task, Start(t) PROVE TypeOK'
  <2>1. tries[t] \in 0..TaskAttempts /\ Limit(t) \in 1..TaskAttempts /\ tries[t] < Limit(t)
    BY <1>15 DEF Start, Limit, PlanAssumption
  <2>2. tries[t] + 1 \in 1..TaskAttempts
    BY <2>1, <1>a
  <2>3. tries' \in [Task -> 0..TaskAttempts] /\ tries'[t] = tries[t] + 1
    BY <1>15, <2>2, <1>a DEF Start
  <2>4. [upstream[t] EXCEPT ![tries'[t]] = given[t]] \in [Attempt -> SUBSET Candidate]
    BY <2>2, <2>3
  <2>5. upstream' = [upstream EXCEPT ![t] = [upstream[t] EXCEPT ![tries'[t]] = given[t]]]
    BY <1>15 DEF Start
  <2>6. upstream' \in [Task -> [Attempt -> SUBSET Candidate]]
    <3> HIDE DEF Attempt, Candidate
    <3> QED
      BY <2>4, <2>5
  <2>7. origin' \in [Task -> Tree \cup {"upstream"}]
    BY <1>15 DEF Start, Source
  <2>8. stage' \in [Task -> Stage] /\ pc' \in [Task -> Place]
    BY <1>15, Steps DEF Start
  <2>9. directRuns' \in Nat
    BY <1>15 DEF Start
  <2> QED
    BY <1>15, <2>3, <2>6, <2>7, <2>8, <2>9 DEF Start
<1>16. ASSUME NEW t \in Task, Exhausted(t) PROVE TypeOK'
  <2>1. Goto(t, "fallback") \/ Goto(t, "raised")
    BY <1>16 DEF Exhausted, GivenUp
  <2>2. pc' \in [Task -> Place]
    BY <2>1, Steps
  <2> QED
    BY <1>16, <2>2 DEF Exhausted
<1>17. ASSUME NEW t \in Task, NEW value \in {"complete", "failed"}, Worker(t, value)
       PROVE  TypeOK'
  <2>1. stage' \in [Task -> Stage] /\ pc' \in [Task -> Place]
    <3>1. value \in Stage /\ (Goto(t, "attempt") \/ Goto(t, "work"))
      BY <1>17 DEF Worker
    <3>2. Mark(t, value)
      BY <1>17 DEF Worker
    <3>3. pc' \in [Task -> Place]
      BY <3>1, Steps
    <3>4. stage' \in [Task -> Stage]
      <4>1. \A v \in Stage : Mark(t, v) => stage' \in [Task -> Stage]
        BY Steps
      <4> HIDE DEF Stage
      <4> QED
        BY <3>1, <3>2, <4>1
    <3> QED
      BY <3>3, <3>4
  <2> QED
    BY <1>17, <2>1 DEF Worker
<1>18. ASSUME NEW t \in Task, WorkerGivesUp(t) PROVE TypeOK'
  <2>1. pc' \in [Task -> Place]
    BY <1>18, Steps DEF WorkerGivesUp
  <2> QED
    BY <1>18, <2>1 DEF WorkerGivesUp
<1>19. ASSUME NEW t \in Task, Freeze(t) PROVE TypeOK'
  <2>1. stage' \in [Task -> Stage]
    BY <1>19, Steps DEF Freeze
  <2> QED
    BY <1>19, <2>1 DEF Freeze
<1>20. ASSUME NEW t \in Task, NEW pass \in BOOLEAN, Verify(t, pass) PROVE TypeOK'
  <2>1. stage' \in [Task -> Stage]
    BY <1>20, Steps DEF Verify
  <2>2. tries[t] \in 1..TaskAttempts
    BY <1>20, <1>a DEF Verify, At, Running, ThreadsOK
  <2>3. passed' \subseteq Candidate
    BY <1>20, <2>2 DEF Verify
  <2> QED
    BY <1>20, <2>1, <2>3 DEF Verify
<1>21. ASSUME NEW t \in Task, VerifyRaises(t) PROVE TypeOK'
  <2>1. Goto(t, "work") \/ Goto(t, "raised")
    BY <1>21 DEF VerifyRaises
  <2>2. Mark(t, "failed") \/ UNCHANGED stage
    BY <1>21 DEF VerifyRaises
  <2>3. pc' \in [Task -> Place]
    BY <2>1, Steps
  <2>4. stage' \in [Task -> Stage]
    BY <2>2, Steps
  <2> QED
    BY <1>21, <2>3, <2>4 DEF VerifyRaises
<1>22. ASSUME NEW t \in Task, Refuse(t) PROVE TypeOK'
  <2>1. Mark(t, "failed") /\ (Goto(t, "work") \/ Goto(t, "fallback"))
    BY <1>22 DEF Refuse
  <2>2. pc' \in [Task -> Place]
    BY <2>1, Steps
  <2>3. stage' \in [Task -> Stage]
    BY <2>1, Steps
  <2> QED
    BY <1>22, <2>2, <2>3 DEF Refuse
<1>23. ASSUME NEW t \in Task, Accept(t) PROVE TypeOK'
  <2>1. Goto(t, "returned") /\ accepted' = [accepted EXCEPT ![t] = tries[t]]
    BY <1>23 DEF Accept
  <2>2. pc' \in [Task -> Place]
    BY <2>1, Steps
  <2>3. accepted' \in [Task -> 0..TaskAttempts]
    BY <2>1
  <2> QED
    BY <1>23, <2>2, <2>3 DEF Accept
<1>24. CASE UNCHANGED vars
  BY <1>24 DEF vars
<1> QED
  <2>1. CASE \E t \in Task : Thread(t)
    <3> HIDE DEF TypeOK, plans, route, attempts, results, threads, scheduler
    <3> QED
      BY <2>1, <1>14, <1>15, <1>16, <1>17, <1>18, <1>19, <1>20, <1>21, <1>22, <1>23 DEF Thread
  <2>2. CASE Next /\ ~\E t \in Task : Thread(t)
    <3> HIDE DEF TypeOK, plans, route, attempts, results, threads, scheduler
    <3> QED
      BY <2>2, <1>1, <1>2, <1>3, <1>4, <1>5, <1>6, <1>7, <1>8, <1>9, <1>10, <1>11, <1>12,
         <1>13 DEF Next
  <2> QED
    BY <1>24, <2>1, <2>2

-----------------------------------------------------------------------------
(* Plans.                                                                    *)

LEMMA RecordPlans ==
  ASSUME TypeOK, PlansOK, NEW p \in Plan, Recorded(p), UNCHANGED broken
  PROVE  /\ PlansOK' /\ planned' > 0 /\ plan' = p
         /\ Ids(known) \subseteq Ids(known')
         /\ \A t \in known : Id[t] \notin Ids(p.tasks) => t \in known'
         /\ \A t \in known' : t \in known \/ t \in p.tasks
<1>1. plan' = p /\ planned' > 0
  BY DEF Recorded, TypeOK
<1>2. known' = {t \in known : Id[t] \notin Ids(p.tasks)} \cup p.tasks
  BY DEF Recorded
<1>3. WellFormed(p)
  BY DEF Plan
<1>4. Ids(known) \subseteq Ids(known') /\ Ids(p.tasks) \subseteq Ids(known')
  BY <1>2 DEF Ids
<1>5. ASSUME NEW t \in known', NEW u \in known', Id[t] = Id[u] PROVE t = u
  <2>1. t \in p.tasks /\ u \in p.tasks => t = u
    BY <1>3, <1>5 DEF WellFormed
  <2>2. t \in known /\ u \in known => t = u
    BY <1>5 DEF PlansOK
  <2> QED
    BY <1>2, <1>5, <2>1, <2>2 DEF Ids
<1>6. ASSUME NEW t \in known' PROVE Deps[t] \subseteq Ids(known')
  <2>1. CASE t \in p.tasks
    <3>1. {t} \in (SUBSET p.tasks) \ {{}}
      BY <2>1
    <3>2. Deps[t] \subseteq Ids(p.tasks \ {t})
      BY <1>3, <3>1 DEF WellFormed
    <3> QED
      BY <1>4, <3>2 DEF Ids
  <2>2. CASE t \in known
    BY <1>4, <2>2 DEF PlansOK
  <2> QED
    BY <1>2, <2>1, <2>2
<1>7. broken' \subseteq Ids(known)'
  BY <1>4 DEF PlansOK, Ids
<1> QED
  BY <1>1, <1>2, <1>4, <1>5, <1>6, <1>7 DEF PlansOK, Ids

(* A repair keeps every known task as it is, and is never the direct plan.   *)
LEMMA RepairKeeps ==
  ASSUME TypeOK, PlansOK, NEW p \in Plan, NEW done, Extension(p, done), Recorded(p)
  PROVE  /\ known \subseteq known'
         /\ \A t \in known' \ known : t \in p.tasks /\ Id[t] \notin Ids(known)
         /\ \E i \in Ids(p.tasks) : i \notin Ids(known)
<1>1. known' = {t \in known : Id[t] \notin Ids(p.tasks)} \cup p.tasks
  BY DEF Recorded
<1>2. \A t \in p.tasks : Id[t] \in Ids(known) => t \in known
  BY DEF Extension
<1>3. ASSUME NEW t \in known, Id[t] \in Ids(p.tasks) PROVE t \in p.tasks
  <2>1. PICK u \in p.tasks : Id[u] = Id[t]
    BY <1>3 DEF Ids
  <2>2. u \in known
    BY <1>2, <2>1 DEF Ids
  <2>3. u = t
    BY <2>1, <2>2 DEF PlansOK
  <2> QED
    BY <2>1, <2>3
<1>4. \E i \in Ids(p.tasks) : i \notin Ids(known)
  BY DEF Extension
<1> QED
  BY <1>1, <1>2, <1>3, <1>4

(* The thread of a task changes only what is said of its attempts.           *)
LEMMA ThreadKeeps ==
  ASSUME NEW t \in Task, Thread(t)
  PROVE  /\ UNCHANGED <<plans, route, broken, verdict, completed, given, scheduler>>
         /\ main = "pool" /\ t \in pool
<1>1. Running(t, "begin") \/ Running(t, "work") \/ Running(t, "worker")
      \/ Running(t, "attempt") \/ Running(t, "resume")
  BY DEF Thread, Begin, Start, Exhausted, Worker, WorkerGivesUp, Freeze, Verify, VerifyRaises,
         Refuse, Accept, At
<1>2. UNCHANGED <<plans, route, broken, verdict, completed, given, scheduler>>
  BY DEF Thread, Begin, Start, Exhausted, Worker, WorkerGivesUp, Freeze, Verify, VerifyRaises,
         Refuse, Accept, results, threads
<1> QED
  BY <1>1, <1>2 DEF Running

LEMMA PlansStep ==
  ASSUME PlanAssumption, TypeOK, PlansOK, SchedulerOK, [Next]_vars PROVE PlansOK'
<1>1. ASSUME UNCHANGED <<plan, planned, known, direct, broken>> PROVE PlansOK'
  BY <1>1 DEF PlansOK, Ids
<1>2. ASSUME NEW covers \in BOOLEAN, StartDirect(covers) PROVE PlansOK'
  BY <1>2, DirectIsPlan, RecordPlans DEF StartDirect, results
<1>3. ASSUME NEW p \in Plan, MakePlan(p) \/ Recover(p) PROVE PlansOK'
  BY <1>3, RecordPlans DEF MakePlan, Recover, results
<1>4. ASSUME NEW t \in Task, Collect(t) PROVE PlansOK'
  <2>1. t \in known /\ plan' = plan /\ planned' = planned /\ known' = known /\ direct' = direct
    BY <1>4 DEF Collect, SchedulerOK, PlansOK, plans, route
  <2>2. broken' \subseteq broken \cup {Id[t]}
    BY <1>4 DEF Collect
  <2> QED
    BY <2>1, <2>2 DEF PlansOK, Ids
<1>5. ASSUME NEW t \in Task, Thread(t) PROVE PlansOK'
  BY <1>1, <1>5, ThreadKeeps DEF plans, route
<1> QED
  BY <1>1, <1>2, <1>3, <1>4, <1>5
     DEF Next, Resume, Leave, Fallback, GoalReuse, Complete, ScheduleEnds, GoalVerify, Submit,
         GiveUp, vars, plans, route, results

-----------------------------------------------------------------------------
(* Direct execution.                                                         *)

(* A running thread belongs to a known task that is not accepted yet.        *)
LEMMA ThreadTask ==
  ASSUME TypeOK, PlansOK, SchedulerOK, ThreadsOK, NEW t \in Task, Thread(t)
  PROVE  /\ t \in plan.tasks /\ t \in known /\ accepted[t] = 0
         /\ planned > 0 /\ fallback # "open"
         /\ tries[t] \in 0..TaskAttempts
         /\ IsDirect(t) => t = Direct /\ Directing
<1>1. main = "pool" /\ t \in pool
  BY ThreadKeeps
<1>2. pc[t] # "returned"
  BY DEF Thread, Begin, Start, Exhausted, Worker, WorkerGivesUp, Freeze, Verify, VerifyRaises,
         Refuse, Accept, At, Running
<1>3. IsDirect(t) => t = Direct /\ Directing
  BY DEF IsDirect, Directing, DirectPlan
<1> QED
  BY <1>1, <1>2, <1>3 DEF SchedulerOK, ThreadsOK, PlansOK, TypeOK

LEMMA RouteStep ==
  ASSUME PlanAssumption, TypeOK, PlansOK, RouteOK, SchedulerOK, ThreadsOK, LineageOK,
         [Next]_vars
  PROVE  RouteOK'
<1> USE DEF RouteOK
<1>1. ASSUME UNCHANGED <<plan, known, direct, fallback, handoff, tries, origin, accepted, directRuns>>
      PROVE  RouteOK'
  BY <1>1 DEF Directing, Ids
<1>2. ASSUME NEW covers \in BOOLEAN, StartDirect(covers) PROVE RouteOK'
  <2>1. planned = 0 /\ known = {} /\ direct = "no" /\ fallback = "none" /\ directRuns = 0
    BY <1>2 DEF StartDirect, PlansOK
  <2>2. \A t \in Task : tries[t] = 0
    BY <2>1 DEF TypeOK, PlanAssumption
  <2>3. plan' = DirectPlan /\ known' = {Direct} /\ direct' # "no"
    BY <1>2, <2>1 DEF StartDirect, Recorded, DirectPlan
  <2>4. UNCHANGED <<fallback, handoff, tries, origin, accepted, directRuns>>
    BY <1>2 DEF StartDirect, attempts, results
  <2>5. Direct \in Task
    BY DEF PlanAssumption
  <2>6. directRuns' = 0 /\ fallback' = "none" /\ \A t \in Task : tries'[t] = 0
    BY <2>1, <2>2, <2>4
  <2>7. Id[Direct] \in Ids(known')
    BY <2>3 DEF Ids
  <2>8. \A t \in Task \ {Direct} : origin'[t] = "none"
    BY <2>2, <2>4
  <2> QED
    BY <2>3, <2>5, <2>6, <2>7, <2>8
<1>3. ASSUME NEW p \in Plan, MakePlan(p) PROVE RouteOK'
  <2>1. UNCHANGED <<direct, handoff, tries, origin, accepted, directRuns>>
    BY <1>3 DEF MakePlan, attempts, results
  <2>2. planned = 0 \/ fallback = "open"
    BY <1>3 DEF MakePlan, SchedulerOK
  <2>3. Ids(known) \subseteq Ids(known') /\ PlansOK'
    BY <1>3, RecordPlans DEF MakePlan, results
  <2>4. CASE planned = 0
    <3>1. direct = "no" /\ fallback = "none" /\ known = {} /\ fallback' = "none"
      BY <1>3, <2>4 DEF MakePlan, PlansOK
    <3>2. \A t \in Task : tries[t] = 0
      BY <3>1 DEF TypeOK, PlanAssumption
    <3> QED
      BY <2>1, <3>1, <3>2 DEF Directing, PlanAssumption
  <2>5. CASE fallback = "open"
    <3>1. fallback' = "planned" /\ direct # "no" /\ Directing
      BY <1>3, <2>5 DEF MakePlan, Directing
    <3>2. \A t \in Task \ {Direct} : tries[t] = 0
      BY <3>1
    <3>3. \A t \in Task : accepted[t] = 0
      BY <2>5
    <3> QED
      BY <2>1, <2>3, <2>5, <3>1, <3>2, <3>3 DEF Directing, PlanAssumption
  <2> QED
    BY <2>2, <2>4, <2>5
<1>4. ASSUME NEW p \in Plan, Recover(p) PROVE RouteOK'
  <2>1. UNCHANGED <<direct, fallback, handoff, tries, origin, accepted, directRuns>>
    BY <1>4 DEF Recover, attempts, results, route
  <2>2. fallback # "open" /\ planned > 0
    BY <1>4 DEF Recover, SchedulerOK
  <2>3. known \subseteq known' /\ plan' = p /\ \E i \in Ids(p.tasks) : i \notin Ids(known)
    BY <1>4, RepairKeeps DEF Recover, Recorded
  <2>4. direct # "no" => p # DirectPlan
    BY <2>3 DEF DirectPlan, Ids
  <2>5. ~Directing'
    BY <2>1, <2>3, <2>4 DEF Directing
  <2>6. direct # "no" => Id[Direct] \in Ids(known')
    BY <2>3 DEF Ids
  <2> QED
    BY <2>1, <2>2, <2>3, <2>5, <2>6
<1>5. ASSUME Fallback PROVE RouteOK'
  <2>1. Directing /\ fallback = "none" /\ tries[Direct] > 0 /\ accepted[Direct] = 0
    BY <1>5 DEF Fallback, SchedulerOK
  <2>2. plan.result = Direct /\ known = {Direct}
    BY <2>1 DEF Directing, DirectPlan
  <2>3. handoff' = "partial" /\ fallback' = "open"
    BY <1>5, <2>1, <2>2 DEF Fallback
  <2>4. UNCHANGED <<plan, known, direct, tries, origin, accepted, directRuns>>
    BY <1>5 DEF Fallback, plans, attempts, results
  <2>5. \A t \in Task \ {Direct} : tries[t] = 0 /\ accepted[t] = 0 /\ origin[t] = "none"
    <3>1. \A t \in Task \ {Direct} : tries[t] = 0 /\ origin[t] = "none"
      BY <2>1
    <3>2. \A t \in Task : accepted[t] \in Nat /\ (accepted[t] > 0 => accepted[t] <= tries[t])
      <4> HIDE DEF RouteOK
      <4>1. \A t \in Task : accepted[t] \in 0..TaskAttempts
        BY DEF TypeOK
      <4>2. \A t \in Task : accepted[t] > 0 => accepted[t] <= tries[t]
        BY DEF LineageOK
      <4>3. TaskAttempts \in Nat
        BY DEF PlanAssumption
      <4>4. \A t \in Task : accepted[t] \in Nat
        BY <4>1, <4>3
      <4> QED
        BY <4>2, <4>4
    <3>3. ASSUME NEW t \in Task \ {Direct} PROVE accepted[t] = 0
      <4>1. t \in Task /\ tries[t] = 0
        BY <3>1
      <4> HIDE DEF RouteOK
      <4> QED
        BY <3>2, <4>1
    <3> QED
      BY <3>1, <3>3
  <2>6. directRuns = 1
    BY <2>1
  <2> QED
    BY <2>1, <2>2, <2>3, <2>4, <2>5, <2>6 DEF Directing, Ids
<1>6. ASSUME NEW t \in Task, Start(t) PROVE RouteOK'
  <2>1. Thread(t)
    BY <1>6 DEF Thread
  <2>2. t \in known /\ t \in plan.tasks /\ fallback # "open"
    BY <2>1, ThreadTask
  <2>3. UNCHANGED <<plan, known, direct, fallback, handoff, accepted>>
    BY <1>6 DEF Start, plans, route, results
  <2>4. tries' = [tries EXCEPT ![t] = tries[t] + 1]
    BY <1>6 DEF Start
  <2>5. \A u \in Task : u # t => tries'[u] = tries[u] /\ origin'[u] = origin[u]
    BY <1>6, <2>4 DEF Start, TypeOK
  <2>6. tries[t] \in Nat /\ tries'[t] = tries[t] + 1
    BY <2>4 DEF TypeOK, PlanAssumption
  <2>7. IsDirect(t) => t = Direct /\ Directing /\ tries[t] = 0
    BY <1>6, <2>1, <2>6, ThreadTask DEF Start, Limit
  <2>8. Directing => t = Direct /\ IsDirect(t)
    BY <2>2 DEF Directing, DirectPlan, IsDirect, TypeOK
  <2>9. directRuns' <= 1 /\ (directRuns' > 0 => tries'[Direct] > 0)
    BY <1>6, <2>4, <2>5, <2>6, <2>7 DEF Start, TypeOK, PlanAssumption
  <2>10. Directing' => /\ known' = {Direct} /\ (\A u \in Task \ {Direct} : tries'[u] = 0)
                       /\ directRuns' = 1
    BY <1>6, <2>3, <2>5, <2>7, <2>8, <2>9 DEF Start, Directing, TypeOK, PlanAssumption
  <2>11. direct = "no" => directRuns' = 0
    BY <1>6 DEF Start, IsDirect
  <2>12. fallback # "none" => directRuns' = directRuns
    BY <1>6 DEF Start, IsDirect
  <2>13. fallback # "none" => origin'[t] # "input" \/ t = Direct
    <3>1. tries[t] # 0 \/ fallback = "none" \/ origin'[t] \in {"upstream", handoff}
      BY <1>6 DEF Start, Source, TypeOK
    <3> QED
      BY <1>6, <3>1 DEF Start, TypeOK
  <2>14. \A u \in Task \ {Direct} : /\ tries'[u] = 0 => origin'[u] = "none"
                                    /\ fallback' # "none" => origin'[u] # "input"
    BY <2>3, <2>5, <2>6, <2>13
  <2>15. \A u \in Task : tries'[u] > 0 =>
           u \in known' \/ (u = Direct /\ fallback' = "planned" /\ accepted'[Direct] = 0)
    BY <2>2, <2>3, <2>5
  <2>16. /\ direct' = "no" => fallback' = "none" /\ directRuns' = 0
         /\ direct' # "no" => Id[Direct] \in Ids(known')
         /\ fallback' # "none" => directRuns' = 1 /\ handoff' = "partial"
         /\ fallback' = "open" => plan' = DirectPlan /\ \A u \in Task : accepted'[u] = 0
    BY <2>2, <2>3, <2>11, <2>12 DEF Ids
  <2> QED
    BY <2>9, <2>10, <2>14, <2>15, <2>16
<1>7. ASSUME NEW t \in Task, Accept(t) PROVE RouteOK'
  <2>1. Thread(t)
    BY <1>7 DEF Thread
  <2>2. t \in known /\ fallback # "open"
    BY <2>1, ThreadTask
  <2>3. UNCHANGED <<plan, known, direct, fallback, handoff, tries, origin, directRuns>>
    BY <1>7 DEF Accept, plans, route, attempts
  <2>4. \A u \in Task : u # t => accepted'[u] = accepted[u]
    BY <1>7 DEF Accept, TypeOK
  <2>5. \A u \in Task : tries'[u] > 0 =>
          u \in known' \/ (u = Direct /\ fallback' = "planned" /\ accepted'[Direct] = 0)
    BY <2>2, <2>3, <2>4 DEF PlanAssumption
  <2> QED
    BY <2>2, <2>3, <2>5 DEF Directing, Ids
<1>8. ASSUME NEW t \in Task, Thread(t), ~Start(t), ~Accept(t) PROVE RouteOK'
  <2>1. UNCHANGED <<tries, origin, accepted, directRuns>>
    BY <1>8 DEF Thread, Begin, Exhausted, Worker, WorkerGivesUp, Freeze, Verify, VerifyRaises,
         Refuse, attempts, results
  <2> QED
    BY <1>1, <1>8, <2>1, ThreadKeeps DEF plans, route
<1>9. ASSUME \/ Resume \/ Leave \/ GoalReuse \/ Complete \/ ScheduleEnds
             \/ (\E pass \in BOOLEAN : GoalVerify(pass)) \/ (\E S \in SUBSET Ready : Submit(S))
             \/ (\E t \in Task : Collect(t) \/ GiveUp(t)) \/ UNCHANGED vars
      PROVE  RouteOK'
  BY <1>1, <1>9 DEF Resume, Leave, GoalReuse, Complete, ScheduleEnds, GoalVerify, Submit,
         Collect, GiveUp, vars, plans, route, attempts, results
<1> QED
  <2> HIDE DEF RouteOK
  <2> QED
    BY <1>2, <1>3, <1>4, <1>5, <1>6, <1>7, <1>8, <1>9 DEF Next

-----------------------------------------------------------------------------
(* The scheduler and its threads.                                            *)

LEMMA EnterOK ==
  ASSUME TypeOK, main' \in {"plan", "schedule"}, Enter(plan', fallback'), pool' = {},
         UNCHANGED accepted, completed' = {}, planned' = 0 \/ plan' # NoPlan,
         planned' > 0 \/ plan' = NoPlan
  PROVE  SchedulerOK'
<1>1. CASE plan' = NoPlan \/ fallback' = "open"
  <2>1. main' = "plan" /\ adopted' = Nothing
    BY <1>1 DEF Enter
  <2>2. planned' = 0 \/ fallback' = "open"
    BY <1>1
  <2> QED
    BY <2>1, <2>2 DEF SchedulerOK, Nothing
<1>2. CASE ~(plan' = NoPlan \/ fallback' = "open")
  <2>1. main' = "schedule" /\ planned' > 0 /\ fallback' # "open"
    BY <1>2 DEF Enter
  <2>2. adopted' = [t \in Task |-> IF t \in plan'.tasks THEN accepted[t] ELSE 0]
    BY <1>2 DEF Enter, AcceptedIn
  <2> QED
    BY <2>1, <2>2 DEF SchedulerOK
<1> QED
  BY <1>1, <1>2

LEMMA SchedulerStep ==
  ASSUME PlanAssumption, TypeOK, PlansOK, RouteOK, SchedulerOK, ThreadsOK, LineageOK,
         [Next]_vars
  PROVE  SchedulerOK'
<1>a. main # "down" => completed = {}
  BY DEF SchedulerOK
<1>b. TypeOK' /\ PlansOK'
  BY TypeStep, PlansStep
<1>c. planned' = 0 <=> plan' = NoPlan
  <2>1. planned' > 0 => plan'.result \in plan'.tasks
    BY <1>b DEF PlansOK, Plan, WellFormed
  <2>2. planned' \in Nat
    BY <1>b DEF TypeOK
  <2> QED
    BY <1>b, <2>1, <2>2 DEF PlansOK, NoPlan
<1>d. planned' > 0 <=> planned' # 0
  <2>1. planned' \in Nat
    BY <1>b DEF TypeOK
  <2> QED
    BY <2>1
<1>1. ASSUME NEW f, Enter(plan', f), fallback' = f, UNCHANGED <<pool, accepted, completed>>,
             main # "pool", completed = {}
      PROVE  SchedulerOK'
  <2>1. pool' = {} /\ completed' = {}
    BY <1>1 DEF SchedulerOK
  <2>2. main' \in {"plan", "schedule"}
    BY <1>1 DEF Enter
  <2> QED
    BY <1>1, <1>c, <1>d, <2>1, <2>2, EnterOK
<1>2. CASE Resume
  BY <1>1, <1>2 DEF Resume, plans, route, results
<1>3. CASE Fallback
  BY <1>1, <1>3, <1>a DEF Fallback, plans, results
<1>4. ASSUME NEW covers \in BOOLEAN, StartDirect(covers) PROVE SchedulerOK'
  BY <1>1, <1>4, <1>a DEF StartDirect, Recorded, results
<1>5. ASSUME NEW p \in Plan, MakePlan(p) PROVE SchedulerOK'
  BY <1>1, <1>5, <1>a DEF MakePlan, Recorded, results
<1>6. ASSUME NEW p \in Plan, Recover(p) PROVE SchedulerOK'
  BY <1>1, <1>6, <1>a DEF Recover, Recorded, results, route
<1>7. CASE Leave
  BY <1>7 DEF Leave, SchedulerOK, plans, route, results
<1>8. CASE GoalReuse \/ \E pass \in BOOLEAN : GoalVerify(pass)
  <2>1. plan.result \in Task
    BY <1>8 DEF GoalReuse, GoalVerify, SchedulerOK, PlansOK, Plan
  <2>2. main = "goal" /\ main' \in {"complete", "recover"}
        /\ UNCHANGED <<plans, route, attempts, accepted, completed, adopted, pool>>
    BY <1>8 DEF GoalReuse, GoalVerify
  <2>3. main' = "complete" =>
          \/ verdict'[plan.result] = "passed"
          \/ verdict'[plan.result] = "reused" /\ Joint
    BY <1>8, <2>1 DEF GoalReuse, GoalVerify, TypeOK
  <2>4. Joint => Joint'
    BY <2>2 DEF Joint, IsDirect, Final, plans, route, attempts
  <2> QED
    BY <1>a, <2>2, <2>3, <2>4 DEF SchedulerOK, plans, route, attempts
<1>9. CASE Complete
  BY <1>9 DEF Complete, SchedulerOK
<1>10. CASE ScheduleEnds
  <2>1. \A t \in plan.tasks : adopted[t] # 0
    BY <1>10 DEF ScheduleEnds, Pending
  <2>2. pool = {} /\ planned > 0 /\ plan.tasks \subseteq Task
    BY <1>10 DEF ScheduleEnds, SchedulerOK, PlansOK, Plan
  <2>3. \A t \in plan.tasks : accepted[t] > 0
    BY <1>10, <2>1, <2>2 DEF ScheduleEnds, SchedulerOK, TypeOK, PlanAssumption
  <2> QED
    BY <1>10, <1>a, <2>3 DEF ScheduleEnds, SchedulerOK, plans, route, attempts, results
<1>11. ASSUME NEW S \in SUBSET Ready, Submit(S) PROVE SchedulerOK'
  <2>1. S \subseteq plan.tasks /\ \A t \in S : adopted[t] = 0
    BY DEF Ready, Pending
  <2>2. main = "schedule" /\ main' = "pool" /\ pool' = S
        /\ UNCHANGED <<plans, route, attempts, results, adopted>>
    BY <1>11 DEF Submit
  <2> QED
    BY <1>a, <2>1, <2>2 DEF SchedulerOK, plans, route, attempts, results
<1>12. ASSUME NEW t \in Task, Collect(t) PROVE SchedulerOK'
  <2>1. main = "pool" /\ t \in pool /\ pool' = pool \ {t}
        /\ UNCHANGED <<plans, route, attempts, accepted, verdict, completed>>
    BY <1>12 DEF Collect
  <2>2. main' \in {"pool", "recover", "schedule"} /\ (main' # "pool" => pool' = {})
    BY <1>12 DEF Collect
  <2>3. \A u \in Task : adopted'[u] = IF u = t THEN accepted[t] ELSE adopted[u]
    <3>1. CASE pc[t] = "returned"
      BY <1>12, <2>1, <3>1 DEF Collect, ThreadsOK, TypeOK
    <3>2. CASE pc[t] # "returned"
      <4>1. adopted[t] = 0 /\ accepted[t] = 0
        BY <2>1, <3>2 DEF ThreadsOK, SchedulerOK
      <4> QED
        BY <1>12, <3>2, <4>1 DEF Collect
    <3> QED
      BY <3>1, <3>2
  <2> QED
    BY <1>a, <2>1, <2>2, <2>3 DEF SchedulerOK, plans, route, attempts
<1>13. ASSUME NEW t \in Task, GiveUp(t) PROVE SchedulerOK'
  <2>1. IsDirect(t) /\ tries[t] > 0 /\ accepted[t] = 0 /\ t \in pool
    BY <1>13 DEF GiveUp, ThreadsOK
  <2>2. t = Direct /\ Directing /\ fallback = "none"
    BY <2>1 DEF IsDirect, Directing, DirectPlan
  <2>3. pool = {t}
    BY <1>13, <2>1, <2>2 DEF SchedulerOK, Directing, DirectPlan
  <2>4. main = "pool" /\ main' = "fallback" /\ pool' = {}
        /\ UNCHANGED <<plans, route, attempts, results, adopted>>
    BY <1>13, <2>3 DEF GiveUp
  <2>5. \A u \in Task : adopted[u] = IF u \in plan.tasks THEN accepted[u] ELSE 0
    BY <1>13, <2>1, <2>3, <2>4 DEF SchedulerOK
  <2> QED
    BY <1>a, <2>1, <2>2, <2>4, <2>5
       DEF SchedulerOK, Directing, plans, route, attempts, results
<1>14. ASSUME NEW t \in Task, Thread(t) PROVE SchedulerOK'
  <2>1. main = "pool" /\ t \in pool
        /\ UNCHANGED <<plans, route, verdict, completed, scheduler>>
    BY <1>14, ThreadKeeps
  <2>2. \A u \in Task : u # t => accepted'[u] = accepted[u]
    BY <1>14 DEF Thread, Begin, Start, Exhausted, Worker, WorkerGivesUp, Freeze, Verify,
         VerifyRaises, Refuse, Accept, TypeOK, results
  <2> QED
    BY <1>a, <2>1, <2>2 DEF SchedulerOK, plans, route, scheduler
<1>15. CASE UNCHANGED vars
  BY <1>15 DEF vars, plans, route, attempts, results, scheduler, threads, SchedulerOK, Directing,
       Joint, IsDirect, Final
<1> QED
  BY <1>2, <1>3, <1>4, <1>5, <1>6, <1>7, <1>8, <1>9, <1>10, <1>11, <1>12, <1>13, <1>14, <1>15
     DEF Next

LEMMA ThreadOthers ==
  ASSUME TypeOK, NEW t \in Task, Thread(t)
  PROVE  /\ \A u \in Task : u # t => /\ pc'[u] = pc[u] /\ tries'[u] = tries[u]
                                    /\ accepted'[u] = accepted[u] /\ stage'[u] = stage[u]
         /\ passed \subseteq passed'
<1>1. UNCHANGED pc \/ \E place \in Place : Goto(t, place)
  <2>1. CASE Begin(t) \/ Start(t) \/ Exhausted(t) \/ WorkerGivesUp(t) \/ Accept(t)
    BY <2>1 DEF Begin, Start, Exhausted, WorkerGivesUp, Accept, GivenUp, Place
  <2>2. CASE VerifyRaises(t) \/ Refuse(t) \/ \E value \in {"complete", "failed"} : Worker(t, value)
    BY <2>2 DEF VerifyRaises, Refuse, Worker, Place
  <2>3. CASE Freeze(t) \/ \E pass \in BOOLEAN : Verify(t, pass)
    BY <2>3 DEF Freeze, Verify, threads
  <2> QED
    BY <2>1, <2>2, <2>3 DEF Thread
<1>2. UNCHANGED tries \/ tries' = [tries EXCEPT ![t] = @ + 1]
  BY DEF Thread, Begin, Start, Exhausted, Worker, WorkerGivesUp, Freeze, Verify,
     VerifyRaises, Refuse, Accept, attempts
<1>3. UNCHANGED accepted \/ accepted' = [accepted EXCEPT ![t] = tries[t]]
  BY DEF Thread, Begin, Start, Exhausted, Worker, WorkerGivesUp, Freeze, Verify,
     VerifyRaises, Refuse, Accept, results
<1>4. UNCHANGED stage \/ \E value : Mark(t, value)
  <2>1. CASE Begin(t) \/ Exhausted(t) \/ WorkerGivesUp(t) \/ Accept(t)
    BY <2>1 DEF Begin, Exhausted, WorkerGivesUp, Accept, attempts
  <2>2. CASE Start(t) \/ Freeze(t) \/ Refuse(t)
    BY <2>2 DEF Start, Freeze, Refuse
  <2>3. ASSUME NEW value \in {"complete", "failed"}, Worker(t, value)
        PROVE  UNCHANGED stage \/ \E marked : Mark(t, marked)
    BY <2>3 DEF Worker
  <2>4. ASSUME NEW pass \in BOOLEAN, Verify(t, pass)
        PROVE  UNCHANGED stage \/ \E marked : Mark(t, marked)
    BY <2>4 DEF Verify
  <2>5. CASE VerifyRaises(t)
    BY <2>5 DEF VerifyRaises
  <2> QED
    BY <2>1, <2>2, <2>3, <2>4, <2>5 DEF Thread
<1>5. passed \subseteq passed'
  BY DEF Thread, Begin, Start, Exhausted, Worker, WorkerGivesUp, Freeze, Verify,
     VerifyRaises, Refuse, Accept, attempts
<1>6. ASSUME NEW u \in Task, u # t
      PROVE  pc'[u] = pc[u] /\ tries'[u] = tries[u] /\ accepted'[u] = accepted[u]
             /\ stage'[u] = stage[u]
  <2>1. pc'[u] = pc[u]
    BY <1>1, <1>6 DEF Goto, TypeOK
  <2>2. tries'[u] = tries[u] /\ accepted'[u] = accepted[u]
    BY <1>2, <1>3, <1>6 DEF TypeOK
  <2>3. stage'[u] = stage[u]
    BY <1>4, <1>6 DEF Mark, TypeOK
  <2> QED
    BY <2>1, <2>2, <2>3
<1> QED
  BY <1>5, <1>6

LEMMA ThreadsStep ==
  ASSUME PlanAssumption, TypeOK, PlansOK, RouteOK, SchedulerOK, ThreadsOK, [Next]_vars
  PROVE  ThreadsOK'
<1> USE DEF ThreadsOK
<1>1. ASSUME UNCHANGED <<tries, stage, passed, accepted, plan, direct, fallback>>,
             pool' \subseteq pool, \A u \in pool' : pc'[u] = pc[u]
      PROVE  ThreadsOK'
  BY <1>1 DEF IsDirect
<1>2. ASSUME UNCHANGED <<tries, stage, passed>>, pool' = {} PROVE ThreadsOK'
  BY <1>2
<1>3. CASE \/ Resume \/ GoalReuse \/ Complete \/ ScheduleEnds \/ UNCHANGED vars
           \/ \E pass \in BOOLEAN : GoalVerify(pass)
  BY <1>1, <1>3 DEF Resume, GoalReuse, Complete, ScheduleEnds, GoalVerify, vars, plans, route,
     attempts, results, threads, scheduler
<1>4. ASSUME NEW t \in Task, Collect(t) \/ GiveUp(t) PROVE ThreadsOK'
  BY <1>1, <1>4 DEF Collect, GiveUp, plans, route, attempts, results, TypeOK
<1>5. CASE \/ Leave \/ Fallback \/ (\E covers \in BOOLEAN : StartDirect(covers))
           \/ \E p \in Plan : MakePlan(p) \/ Recover(p)
  BY <1>2, <1>5 DEF Leave, Fallback, StartDirect, MakePlan, Recover, SchedulerOK, attempts
<1>6. ASSUME NEW S \in SUBSET Ready, Submit(S) PROVE ThreadsOK'
  <2>1. \A t \in S : t \in plan.tasks /\ adopted[t] = 0 /\ t \in Task
    BY <1>6 DEF Submit, Ready, Pending, SchedulerOK, PlansOK, Plan
  <2>2. pool = {} /\ pool' = S /\ main = "schedule"
    BY <1>6 DEF Submit, SchedulerOK
  <2>3. \A t \in S : accepted[t] = 0 /\ pc'[t] = "begin"
    BY <1>6, <2>1, <2>2 DEF Submit, SchedulerOK
  <2> QED
    BY <1>6, <2>2, <2>3 DEF Submit, attempts, results
<1>7. ASSUME NEW t \in Task, Thread(t) PROVE ThreadsOK'
  <2>1. /\ t \in pool /\ pool' = pool /\ accepted[t] = 0 /\ tries[t] \in Nat
        /\ UNCHANGED <<plan, direct, fallback>>
    BY <1>7, ThreadKeeps, ThreadTask DEF plans, route, scheduler, PlanAssumption
  <2>2. /\ \A u \in Task : u # t => /\ pc'[u] = pc[u] /\ tries'[u] = tries[u]
                                   /\ accepted'[u] = accepted[u] /\ stage'[u] = stage[u]
        /\ passed \subseteq passed'
    BY <1>7, ThreadOthers
  <2>3. ASSUME /\ pc'[t] = "returned" => accepted'[t] = tries'[t] /\ tries'[t] > 0
               /\ pc'[t] # "returned" => accepted'[t] = 0
               /\ pc'[t] \in {"worker", "attempt", "resume"} => tries'[t] > 0
               /\ pc'[t] = "fallback" => tries'[t] > 0 /\ IsDirect(t)
               /\ stage'[t] \in Unfinished => tries'[t] > 0
               /\ stage'[t] = "verified" => <<t, tries'[t]>> \in passed'
        PROVE  ThreadsOK'
    <3>1. pool \subseteq Task
      BY DEF TypeOK
    <3> QED
      BY <2>1, <2>2, <2>3, <3>1 DEF IsDirect
  <2>4. CASE Begin(t)
    BY <2>1, <2>3, <2>4 DEF Begin, Goto, TypeOK, attempts, results
  <2>5. CASE Start(t)
    BY <2>1, <2>3, <2>5 DEF Start, Goto, Mark, TypeOK, results
  <2>6. CASE Exhausted(t)
    <3>1. Limit(t) \in Nat \ {0}
      BY DEF Limit, PlanAssumption
    <3>2. tries[t] > 0
      BY <2>1, <2>6, <3>1 DEF Exhausted
    <3> QED
      BY <2>1, <2>3, <2>6, <3>2 DEF Exhausted, Goto, GivenUp, TypeOK, attempts, results
  <2>7. ASSUME NEW value \in {"complete", "failed"}, Worker(t, value) PROVE ThreadsOK'
    BY <2>1, <2>3, <2>7 DEF Worker, Running, Goto, Mark, TypeOK, results
  <2>8. CASE WorkerGivesUp(t)
    BY <2>1, <2>3, <2>8 DEF WorkerGivesUp, Running, Goto, TypeOK, attempts, results
  <2>9. CASE Freeze(t)
    BY <2>1, <2>3, <2>9 DEF Freeze, At, Running, Mark, TypeOK, results, threads
  <2>10. ASSUME NEW pass \in BOOLEAN, Verify(t, pass) PROVE ThreadsOK'
    BY <2>1, <2>3, <2>10 DEF Verify, At, Running, Mark, TypeOK, results, threads
  <2>11. CASE VerifyRaises(t)
    BY <2>1, <2>3, <2>11 DEF VerifyRaises, At, Running, Goto, Mark, TypeOK, results
  <2>12. CASE Refuse(t)
    BY <2>1, <2>3, <2>12 DEF Refuse, At, Running, Goto, Mark, TypeOK, results
  <2>13. CASE Accept(t)
    BY <2>1, <2>3, <2>13 DEF Accept, At, Running, Goto, TypeOK, attempts
  <2> HIDE DEF ThreadsOK
  <2> QED
    BY <1>7, <2>4, <2>5, <2>6, <2>7, <2>8, <2>9, <2>10, <2>11, <2>12, <2>13 DEF Thread
<1> HIDE DEF ThreadsOK
<1> QED
  BY <1>3, <1>4, <1>5, <1>6, <1>7 DEF Next

-----------------------------------------------------------------------------
(* Lineage.                                                                  *)

LEMMA LineageStep ==
  ASSUME PlanAssumption, TypeOK, PlansOK, RouteOK, SchedulerOK, ThreadsOK, LineageOK,
         [Next]_vars
  PROVE  LineageOK'
<1> USE DEF LineageOK
<1>n. \A t \in Task : tries[t] \in Nat /\ accepted[t] \in Nat
  BY DEF TypeOK, PlanAssumption
<1>k. known \subseteq Task
  BY DEF TypeOK
<1>1. ASSUME UNCHANGED <<known, tries, upstream, passed, accepted>>,
             pool' \subseteq pool, \A u \in pool' : given'[u] = given[u]
      PROVE  LineageOK'
  BY <1>1 DEF Sources, Upstream
<1>2. CASE \/ Resume \/ GoalReuse \/ Complete \/ ScheduleEnds \/ UNCHANGED vars
           \/ (\E pass \in BOOLEAN : GoalVerify(pass)) \/ Leave \/ Fallback
  <2> HIDE DEF LineageOK
  <2> QED
    BY <1>1, <1>2 DEF Resume, GoalReuse, Complete, ScheduleEnds, GoalVerify, vars, plans, route,
       attempts, results, threads, scheduler, Leave, Fallback
<1>3. ASSUME NEW t \in Task, Collect(t) \/ GiveUp(t) PROVE LineageOK'
  <2> HIDE DEF LineageOK
  <2> QED
    BY <1>1, <1>3 DEF Collect, GiveUp, plans, route, attempts, results, TypeOK
<1>4. ASSUME \/ \E covers \in BOOLEAN : StartDirect(covers)
             \/ \E p \in Plan : MakePlan(p)
      PROVE  LineageOK'
  <2>1. main = "plan" /\ pool = {} /\ pool' = {} /\ (planned = 0 \/ fallback = "open")
        /\ UNCHANGED <<attempts, accepted>>
    BY <1>4 DEF StartDirect, MakePlan, SchedulerOK, results
  <2>2. \A t \in Task : accepted[t] = 0 /\ (tries[t] > 0 => t = Direct)
    <3>1. CASE planned = 0
      <4>1. known = {} /\ fallback = "none"
        BY <3>1 DEF PlansOK, RouteOK
      <4>2. \A t \in Task : tries[t] = 0
        BY <4>1, <1>n DEF RouteOK
      <4> QED
        BY <4>1, <4>2, <1>n
    <3>2. CASE fallback = "open"
      <4>1. Directing
        BY <3>2 DEF RouteOK, Directing
      <4> QED
        BY <3>2, <4>1, <1>n DEF RouteOK
    <3> QED
      BY <2>1, <3>1, <3>2
  <2>3. \A n \in 1..tries[Direct] : upstream[Direct][n] = {}
    <3>1. Direct \in known => Sources(Direct) = {}
      BY DEF Sources, Upstream, PlanAssumption
    <3>2. Direct \in Task /\ (tries[Direct] = 0 => 1..tries[Direct] = {})
      BY DEF PlanAssumption
    <3> QED
      BY <1>n, <3>1, <3>2
  <2>4. Upstream(Direct)' = {} /\ Sources(Direct)' = {}
    BY DEF Sources, Upstream, PlanAssumption
  <2>5. \A t \in Task : accepted'[t] = 0 /\ (tries'[t] > 0 => t = Direct)
    BY <2>1, <2>2 DEF attempts
  <2>6. \A n \in 1..tries'[Direct] : upstream'[Direct][n] = {}
    BY <2>1, <2>3 DEF attempts
  <2>7. known' \subseteq Task
    BY TypeStep DEF TypeOK
  <2>8. ASSUME NEW t \in known', tries'[t] > 0
        PROVE  /\ \A u \in Upstream(t)' : accepted'[u] > 0
               /\ \A n \in 1..tries'[t] : upstream'[t][n] = Sources(t)'
    <3>1. t = Direct
      BY <2>5, <2>7, <2>8
    <3> QED
      BY <2>4, <2>6, <3>1 DEF Upstream, Sources
  <2> QED
    BY <2>1, <2>5, <2>6, <2>8
<1>5. ASSUME NEW p \in Plan, Recover(p) PROVE LineageOK'
  <2>1. known \subseteq known' /\ \A t \in known' \ known : Id[t] \notin Ids(known)
    BY <1>5, RepairKeeps DEF Recover
  <2>2. pool = {} /\ pool' = {} /\ UNCHANGED <<tries, upstream, passed, accepted>>
    BY <1>5 DEF Recover, SchedulerOK, attempts, results
  <2>3. ASSUME NEW t \in known PROVE Upstream(t)' = Upstream(t) /\ Sources(t)' = Sources(t)
    <3>1. Deps[t] \subseteq Ids(known)
      BY DEF PlansOK
    <3>2. Upstream(t)' = Upstream(t)
      BY <2>1, <3>1 DEF Upstream
    <3> QED
      BY <2>2, <3>2 DEF Sources
  <2>4. ASSUME NEW t \in known' \ known, tries[t] > 0
        PROVE  Upstream(t)' = {} /\ Sources(t)' = {} /\ \A n \in 1..tries[t] : upstream[t][n] = {}
    <3>1. t \in Task
      BY TypeStep DEF TypeOK
    <3>2. t = Direct
      BY <2>4, <3>1 DEF RouteOK
    <3> QED
      BY <2>4, <3>1, <3>2 DEF Upstream, Sources, PlanAssumption
  <2>5. \A t \in Task : accepted'[t] > 0 =>
          t \in known' /\ accepted'[t] <= tries'[t] /\ <<t, accepted'[t]>> \in passed'
    BY <2>1, <2>2
  <2>6. \A t \in Task : tries'[t] > 0 /\ t \notin known' =>
          \A n \in 1..tries'[t] : upstream'[t][n] = {}
    BY <2>1, <2>2
  <2>7. ASSUME NEW t \in known', tries'[t] > 0
        PROVE  /\ \A u \in Upstream(t)' : accepted'[u] > 0
               /\ \A n \in 1..tries'[t] : upstream'[t][n] = Sources(t)'
    <3>1. CASE t \in known
      BY <2>2, <2>3, <2>7, <3>1
    <3>2. CASE t \notin known
      BY <2>2, <2>4, <2>7, <3>2
    <3> QED
      BY <3>1, <3>2
  <2> QED
    BY <2>2, <2>5, <2>6, <2>7
<1>6. ASSUME NEW S \in SUBSET Ready, Submit(S) PROVE LineageOK'
  <2>1. /\ main = "schedule" /\ pool = {} /\ pool' = S /\ planned > 0
        /\ UNCHANGED <<known, tries, upstream, passed, accepted>>
    BY <1>6 DEF Submit, SchedulerOK, plans, attempts, results
  <2>2. ASSUME NEW t \in S
        PROVE  given'[t] = Sources(t) /\ \A u \in Upstream(t) : accepted[u] > 0
    <3>1. t \in plan.tasks /\ (\A u \in Parents(plan, t) : u \in plan.tasks /\ adopted[u] > 0)
      BY <2>1, ReadyInputs
    <3>2. Parents(plan, t) = Upstream(t)
      BY <2>1, <3>1, ParentsKnown
    <3>3. \A u \in Upstream(t) : adopted[u] = accepted[u] /\ accepted[u] > 0
      BY <1>k, <2>1, <3>1, <3>2 DEF SchedulerOK, Upstream
    <3>4. given'[t] = Inputs(plan, adopted, t)
      BY <1>6, <2>1, <3>1 DEF Submit, PlansOK, Plan
    <3> QED
      BY <3>2, <3>3, <3>4 DEF Inputs, Sources
  <2>3. \A t \in Task : Upstream(t)' = Upstream(t) /\ Sources(t)' = Sources(t)
    BY <2>1 DEF Upstream, Sources
  <2>4. ASSUME NEW t \in known', tries'[t] > 0 \/ t \in pool'
        PROVE  /\ \A u \in Upstream(t)' : accepted'[u] > 0
               /\ \A n \in 1..tries'[t] : upstream'[t][n] = Sources(t)'
               /\ t \in pool' => given'[t] = Sources(t)'
    <3>1. t \in known /\ t \in Task /\ Upstream(t)' = Upstream(t) /\ Sources(t)' = Sources(t)
      BY <1>k, <2>1, <2>3
    <3>2. \A n \in 1..tries[t] : upstream[t][n] = Sources(t)
      BY <1>n, <3>1
    <3>3. \A u \in Upstream(t) : accepted[u] > 0
      BY <2>1, <2>2, <2>4, <3>1
    <3> QED
      BY <2>1, <2>2, <3>1, <3>2, <3>3
  <2> QED
    BY <2>1, <2>4
<1>7. ASSUME NEW t \in Task, Start(t) PROVE LineageOK'
  <2>1. Thread(t)
    BY <1>7 DEF Thread
  <2>2. t \in known /\ t \in pool /\ tries[t] < TaskAttempts /\ TaskAttempts \in Nat
    <3>1. Limit(t) <= TaskAttempts
      BY DEF Limit, PlanAssumption
    <3>2. t \in known /\ t \in pool
      BY <2>1, ThreadTask, ThreadKeeps
    <3>3. tries[t] < Limit(t) /\ Limit(t) \in Nat /\ TaskAttempts \in Nat
      BY <1>7 DEF Start, Limit, PlanAssumption
    <3> QED
      BY <1>n, <3>1, <3>2, <3>3
  <2>3. UNCHANGED <<known, passed, accepted, given, pool>>
    BY <1>7 DEF Start, plans, results, scheduler
  <2>4. tries' = [tries EXCEPT ![t] = tries[t] + 1]
        /\ upstream' = [upstream EXCEPT ![t] = [upstream[t] EXCEPT ![tries'[t]] = given[t]]]
    BY <1>7 DEF Start
  <2>5. tries'[t] = tries[t] + 1 /\ \A u \in Task : u # t => tries'[u] = tries[u]
                                                         /\ upstream'[u] = upstream[u]
    BY <2>4 DEF TypeOK
  <2>6. \A u \in Task : Upstream(u)' = Upstream(u) /\ Sources(u)' = Sources(u)
    BY <2>3 DEF Upstream, Sources
  <2>7. given[t] = Sources(t) /\ (\A u \in Upstream(t) : accepted[u] > 0)
        /\ \A n \in 1..tries[t] : upstream[t][n] = Sources(t)
    BY <2>2
  <2>8. \A n \in 1..tries'[t] : upstream'[t][n] = Sources(t)
    <3>1. upstream \in [Task -> [1..TaskAttempts -> SUBSET Candidate]]
      BY DEF TypeOK
    <3>2. \A n \in 1..TaskAttempts : upstream'[t][n] = IF n = tries'[t] THEN given[t]
                                                       ELSE upstream[t][n]
      BY <2>4, <3>1
    <3> QED
      BY <1>n, <2>2, <2>5, <2>7, <3>2
  <2>9. \A u \in Task : accepted'[u] > 0 =>
          u \in known' /\ accepted'[u] <= tries'[u] /\ <<u, accepted'[u]>> \in passed'
    BY <1>n, <2>3, <2>5
  <2>10. \A u \in Task : tries'[u] > 0 /\ u \notin known' =>
           \A n \in 1..tries'[u] : upstream'[u][n] = {}
    BY <2>2, <2>3, <2>5
  <2>11. ASSUME NEW u \in known', tries'[u] > 0 \/ u \in pool'
        PROVE  /\ \A v \in Upstream(u)' : accepted'[v] > 0
               /\ \A n \in 1..tries'[u] : upstream'[u][n] = Sources(u)'
               /\ u \in pool' => given'[u] = Sources(u)'
    <3>1. CASE u = t
      BY <2>3, <2>6, <2>7, <2>8, <3>1
    <3>2. CASE u # t
      BY <1>k, <2>3, <2>5, <2>6, <2>11, <3>2
    <3> QED
      BY <3>1, <3>2
  <2> QED
    BY <2>9, <2>10, <2>11
<1>8. ASSUME NEW t \in Task, NEW pass \in BOOLEAN, Verify(t, pass) PROVE LineageOK'
  <2>1. UNCHANGED <<known, tries, upstream, accepted, given, pool>> /\ passed \subseteq passed'
    BY <1>8 DEF Verify, plans, results, scheduler, threads
  <2>2. \A u \in Task : Upstream(u)' = Upstream(u) /\ Sources(u)' = Sources(u)
    BY <2>1 DEF Upstream, Sources
  <2> QED
    BY <1>k, <2>1, <2>2
<1>9. ASSUME NEW t \in Task, Accept(t) PROVE LineageOK'
  <2>1. Thread(t)
    BY <1>9 DEF Thread
  <2>2. t \in known /\ accepted[t] = 0 /\ tries[t] > 0 /\ <<t, tries[t]>> \in passed
    <3>1. tries[t] > 0 /\ <<t, tries[t]>> \in passed
      BY <1>9 DEF Accept, At, ThreadsOK
    <3> QED
      BY <2>1, <3>1, ThreadTask
  <2>3. UNCHANGED <<known, tries, upstream, passed, given, pool>>
    BY <1>9 DEF Accept, plans, attempts, scheduler
  <2>4. accepted'[t] = tries[t] /\ \A u \in Task : u # t => accepted'[u] = accepted[u]
    BY <1>9 DEF Accept, TypeOK
  <2>5. ASSUME NEW u \in known, tries[u] > 0 \/ u \in pool
        PROVE  /\ Upstream(u)' = Upstream(u) /\ Sources(u)' = Sources(u)
               /\ \A v \in Upstream(u)' : accepted'[v] > 0
    <3>1. \A v \in Upstream(u) : v \in Task /\ accepted[v] > 0 /\ v # t
      BY <1>k, <2>2, <2>5 DEF Upstream
    <3>2. Upstream(u)' = Upstream(u)
      BY <2>3 DEF Upstream
    <3>3. \A v \in Upstream(u) : accepted'[v] = accepted[v]
      BY <2>4, <3>1
    <3> QED
      BY <3>1, <3>2, <3>3 DEF Sources
  <2>6. \A u \in Task : accepted'[u] > 0 =>
          u \in known' /\ accepted'[u] <= tries'[u] /\ <<u, accepted'[u]>> \in passed'
    BY <1>n, <2>2, <2>3, <2>4
  <2> QED
    BY <2>3, <2>5, <2>6
<1>10. ASSUME NEW t \in Task, Thread(t), ~Start(t), ~Accept(t),
              ~\E pass \in BOOLEAN : Verify(t, pass)
       PROVE  LineageOK'
  <2>1. UNCHANGED <<tries, upstream, passed, accepted>>
    BY <1>10 DEF Thread, Begin, Exhausted, Worker, WorkerGivesUp, Freeze, VerifyRaises, Refuse,
         attempts, results
  <2>2. UNCHANGED <<known, given, pool>>
    BY <1>10, ThreadKeeps DEF plans, scheduler
  <2> HIDE DEF LineageOK
  <2> QED
    BY <1>1, <2>1, <2>2
<1> HIDE DEF LineageOK
<1> QED
  BY <1>2, <1>3, <1>4, <1>5, <1>6, <1>7, <1>8, <1>9, <1>10 DEF Next

-----------------------------------------------------------------------------
(* Completion, and the invariant.                                            *)

LEMMA CompletionStep ==
  ASSUME TypeOK, PlansOK, SchedulerOK, CompletionHolds, [Next]_vars
  PROVE  CompletionHolds'
<1>1. CASE Complete
  <2>1. /\ main = "complete" /\ completed' = {Final}
        /\ UNCHANGED <<plan, direct, fallback, accepted, verdict, passed>>
    BY <1>1 DEF Complete, plans, route, attempts
  <2>2. planned > 0 /\ pool = {} /\ plan.tasks \subseteq Task /\ plan.result \in plan.tasks
    BY <2>1 DEF SchedulerOK, PlansOK, Plan, WellFormed
  <2>3. \A t \in plan.tasks : adopted[t] = accepted[t] /\ accepted[t] > 0
    BY <2>1, <2>2 DEF SchedulerOK
  <2>4. Final = <<plan.result, accepted[plan.result]>>
    BY <2>2, <2>3 DEF Final
  <2>5. verdict[plan.result] \in {"passed", "reused"}
        /\ (verdict[plan.result] = "reused" =>
              direct = "joint" /\ fallback = "none" /\ plan = DirectPlan /\ Final \in passed)
    BY <2>1 DEF SchedulerOK, Joint, IsDirect
  <2>6. \A c \in completed' : c = Final /\ c[1] = plan.result
    BY <2>1, <2>4
  <2> QED
    BY <2>1, <2>3, <2>4, <2>5, <2>6 DEF CompletionHolds
<1>2. CASE main # "down" /\ ~Complete
  <2>1. completed = {}
    BY <1>2 DEF SchedulerOK
  <2>2. UNCHANGED completed
    BY <1>2 DEF Next, vars, results, Resume, Leave, Fallback, GoalReuse, ScheduleEnds, StartDirect,
       GoalVerify, MakePlan, Recover, Submit, Collect, GiveUp, Thread, Begin, Start, Exhausted,
       Worker, WorkerGivesUp, Freeze, Verify, VerifyRaises, Refuse, Accept
  <2> QED
    BY <2>1, <2>2 DEF CompletionHolds
<1>3. CASE main = "down"
  <2>1. Resume \/ UNCHANGED vars
    <3>1. ~\E t \in Task : Thread(t)
      BY <1>3, ThreadKeeps
    <3> QED
      BY <1>3, <3>1 DEF Next, Leave, Fallback, GoalReuse, Complete, ScheduleEnds, StartDirect,
         GoalVerify, MakePlan, Recover, Submit, Collect, GiveUp
  <2>2. CASE Resume
    BY <2>2 DEF Resume, CompletionHolds, results
  <2>3. CASE UNCHANGED vars
    BY <2>3 DEF vars, plans, route, attempts, results, CompletionHolds, DirectPlan
  <2> QED
    BY <2>1, <2>2, <2>3
<1> QED
  BY <1>1, <1>2, <1>3

LEMMA StepInv == ASSUME PlanAssumption, IInv, [Next]_vars PROVE IInv'
BY TypeStep, PlansStep, RouteStep, SchedulerStep, ThreadsStep, LineageStep, CompletionStep
   DEF IInv

(* Everything the theorems below rest on is an invariant.                    *)
THEOREM Invariance == ASSUME PlanAssumption PROVE Spec => []IInv
<1>1. Init => IInv
  BY InitInv
<1>2. IInv /\ [Next]_vars => IInv'
  BY StepInv
<1> QED
  BY <1>1, <1>2, PTL DEF Spec

(* The state of execution keeps its types.                                   *)
THEOREM TypeCorrect == ASSUME PlanAssumption PROVE Spec => []TypeOK
<1>1. IInv => TypeOK
  BY DEF IInv
<1> QED
  BY <1>1, Invariance, PTL

(* No completed Run rests on anything but the last plan, accepted and        *)
(* verified as a whole (_execute, _joint_record, _completion).               *)
THEOREM CompletedSoundly == ASSUME PlanAssumption PROVE Spec => []CompletionHolds
<1>1. IInv => CompletionHolds
  BY DEF IInv
<1> QED
  BY <1>1, Invariance, PTL

LEMMA InvLineage == ASSUME PlanAssumption, IInv PROVE LineageHolds
<1> USE DEF IInv
<1>1. ASSUME NEW t \in Task, accepted[t] > 0
      PROVE  /\ Id[t] \in Ids(plan.tasks) => t \in plan.tasks
             /\ accepted[t] <= tries[t] /\ <<t, accepted[t]>> \in passed
  <2>1. t \in known /\ accepted[t] <= tries[t] /\ <<t, accepted[t]>> \in passed
    BY <1>1 DEF LineageOK
  <2>2. planned > 0 /\ plan.tasks \subseteq known
    BY <2>1 DEF PlansOK, TypeOK
  <2>3. ASSUME Id[t] \in Ids(plan.tasks) PROVE t \in plan.tasks
    <3>1. PICK u \in plan.tasks : Id[u] = Id[t]
      BY <2>3 DEF Ids
    <3> QED
      BY <2>1, <2>2, <3>1 DEF PlansOK
  <2> QED
    BY <2>1, <2>3
<1>2. ASSUME NEW t \in plan.tasks, tries[t] > 0 \/ t \in pool
      PROVE  /\ \A u \in Parents(plan, t) : accepted[u] > 0
             /\ \A n \in 1..tries[t] : upstream[t][n] = Inputs(plan, accepted, t)
             /\ t \in pool => given[t] = Inputs(plan, accepted, t)
  <2>1. planned > 0
    BY <1>2 DEF PlansOK, NoPlan, TypeOK
  <2>2. t \in known
    BY <1>2, <2>1 DEF PlansOK
  <2>3. Parents(plan, t) = Upstream(t)
    BY <2>1, ParentsKnown
  <2>4. Inputs(plan, accepted, t) = Sources(t)
    BY <2>3 DEF Inputs, Sources
  <2> QED
    BY <1>2, <2>2, <2>3, <2>4 DEF LineageOK
<1>3. ASSUME NEW t \in Task, adopted[t] > 0 PROVE t \in plan.tasks /\ adopted[t] = accepted[t]
  <2>1. main \notin {"down", "plan"}
    BY <1>3 DEF SchedulerOK, Nothing
  <2> QED
    BY <1>3, <2>1 DEF SchedulerOK
<1> QED
  BY <1>1, <1>2, <1>3 DEF LineageHolds

(* Whatever repairs, fallbacks and restarts a Run goes through, the errors   *)
(* of _accepted and of _execute_task about lineage cannot occur.             *)
THEOREM LineageKept == ASSUME PlanAssumption PROVE Spec => []LineageHolds
<1>1. IInv => LineageHolds
  BY InvLineage
<1> QED
  BY <1>1, Invariance, PTL

LEMMA InvHandoff == ASSUME PlanAssumption, IInv PROVE HandoffHolds
<1> USE DEF IInv
<1>1. directRuns <= 1 /\ (fallback # "none" => directRuns = 1 /\ handoff = "partial")
  BY DEF RouteOK
<1>2. ASSUME fallback # "none", NEW t \in Task, t # Direct PROVE origin[t] # "input"
  BY <1>2 DEF RouteOK
<1>3. ASSUME fallback = "open"
      PROVE  main \in {"down", "plan"} /\ \A t \in Task : accepted[t] = 0
  BY <1>3 DEF RouteOK, SchedulerOK
<1> QED
  BY <1>1, <1>2, <1>3 DEF HandoffHolds

(* Direct work is tried once, and what it leaves is where planning starts    *)
(* (_execute_task, _fallback_direct, _execute).                              *)
THEOREM HandoffKept == ASSUME PlanAssumption PROVE Spec => []HandoffHolds
<1>1. IInv => HandoffHolds
  BY InvHandoff
<1> QED
  BY <1>1, Invariance, PTL

LEMMA InvProgress == ASSUME PlanAssumption, IInv PROVE GraphProgresses
<1> USE DEF IInv
<1>1. ASSUME main = "schedule", Pending # {} PROVE Ready # {}
  <2>1. planned > 0 /\ WellFormed(plan) /\ Pending \subseteq plan.tasks /\ plan.tasks \subseteq Task
    BY <1>1 DEF SchedulerOK, PlansOK, Plan, Pending
  <2>2. Pending \in (SUBSET plan.tasks) \ {{}}
    BY <1>1, <2>1
  <2>3. PICK t \in Pending : Deps[t] \subseteq Ids(plan.tasks \ Pending)
    BY <2>1, <2>2 DEF WellFormed
  <2>4. plan.tasks \ Pending \subseteq {u \in plan.tasks : adopted[u] > 0}
    BY <2>1 DEF Pending, TypeOK, PlanAssumption
  <2>5. Deps[t] \subseteq Ids({u \in plan.tasks : adopted[u] > 0})
    BY <2>3, <2>4 DEF Ids
  <2> QED
    BY <2>5 DEF Ready
<1>2. ASSUME main \in {"goal", "complete"} PROVE adopted[plan.result] > 0
  BY <1>2 DEF SchedulerOK, PlansOK, Plan, WellFormed
<1> QED
  BY <1>1, <1>2 DEF GraphProgresses

(* The scheduler never finds pending tasks of which none can run.            *)
THEOREM GraphNeverStuck == ASSUME PlanAssumption PROVE Spec => []GraphProgresses
<1>1. IInv => GraphProgresses
  BY InvProgress
<1> QED
  BY <1>1, Invariance, PTL

(* A well-formed extension holds no failed task: not as a dependency, which  *)
(* is refused, and not as the result, which would leave the new tasks        *)
(* outside of the graph of the result.                                       *)
LEMMA ExtensionLeaves ==
  ASSUME PlansOK, NEW p \in Plan, NEW done, Extension(p, done),
         NEW f \in p.tasks, Id[f] \in broken
  PROVE  f \in known /\ Id[f] \in done
<1>1. /\ \A t \in p.tasks : Id[t] \in Ids(known) => t \in known
      /\ \A t \in p.tasks : Deps[t] \cap (broken \ done) = {}
      /\ Ids(p.tasks) \ Ids(known) # {}
  BY DEF Extension
<1>2. /\ p.result \in p.tasks
      /\ \A S \in SUBSET p.tasks :
           p.result \in S /\ (\A t \in S : Parents(p, t) \subseteq S) => S = p.tasks
  BY DEF Plan, WellFormed
<1>3. f \in known
  BY <1>1 DEF PlansOK
<1>4. ASSUME Id[f] \notin done, f # p.result PROVE FALSE
  <2>1. \A t \in p.tasks \ {f} : Parents(p, t) \subseteq p.tasks \ {f}
    BY <1>1, <1>4 DEF Parents
  <2>2. p.tasks \ {f} = p.tasks
    BY <1>2, <1>4, <2>1
  <2> QED
    BY <2>2
<1>5. ASSUME f = p.result PROVE FALSE
  <2>1. p.result \in p.tasks \cap known
    BY <1>2, <1>3, <1>5
  <2>2. ASSUME NEW t \in p.tasks \cap known PROVE Parents(p, t) \subseteq p.tasks \cap known
    <3>1. Deps[t] \subseteq Ids(known)
      BY DEF PlansOK
    <3> QED
      BY <1>1, <3>1 DEF Parents
  <2>3. p.tasks \cap known = p.tasks
    BY <1>2, <2>1, <2>2
  <2> QED
    BY <1>1, <2>3 DEF Ids
<1> QED
  BY <1>3, <1>4, <1>5

LEMMA FailedStep ==
  ASSUME PlanAssumption, IInv, [Next]_vars, main = "recover", plan' # plan
  PROVE  \A t \in plan'.tasks : Id[t] \in broken => accepted[t] > 0
<1> USE DEF IInv
<1>1. PICK p \in Plan : Recover(p)
  <2>1. ~\E t \in Task : Thread(t)
    BY ThreadKeeps
  <2> QED
    BY <2>1 DEF Next, vars, plans, Resume, Leave, Fallback, GoalReuse, Complete, ScheduleEnds,
       StartDirect, GoalVerify, MakePlan, Submit, Collect, GiveUp
<1>2. plan' = p /\ Extension(p, Ids({t \in plan.tasks : adopted[t] > 0}))
  BY <1>1 DEF Recover, Recorded
<1>3. ASSUME NEW f \in p.tasks, Id[f] \in broken PROVE accepted[f] > 0
  <2>1. f \in known /\ Id[f] \in Ids({t \in plan.tasks : adopted[t] > 0})
    BY <1>2, <1>3, ExtensionLeaves
  <2>2. PICK g \in plan.tasks : adopted[g] > 0 /\ Id[g] = Id[f]
    BY <2>1 DEF Ids
  <2>3. planned > 0 /\ plan.tasks \subseteq known /\ known \subseteq Task
    BY DEF SchedulerOK, PlansOK, TypeOK
  <2>4. g = f
    BY <2>1, <2>2, <2>3 DEF PlansOK
  <2> QED
    BY <2>2, <2>3, <2>4 DEF SchedulerOK
<1> QED
  BY <1>2, <1>3

(* Repair leaves every failed task behind, whatever the plan it answers.     *)
THEOREM FailedLeft == ASSUME PlanAssumption PROVE Spec => FailedStaysOut
<1>1. IInv /\ [Next]_vars =>
        [main = "recover" /\ plan' # plan =>
           \A t \in plan'.tasks : Id[t] \in broken => accepted[t] > 0]_vars
  BY FailedStep
<1> QED
  BY <1>1, Invariance, PTL DEF Spec, FailedStaysOut

-----------------------------------------------------------------------------
(* The contract with whoever adopts the result.                              *)

(* What changes no accepted candidate, none of its sources and no result is  *)
(* nothing to the contract.                                                  *)
LEMMA LineageUnmoved ==
  ASSUME UNCHANGED <<accepted, completed>>,
         \A t \in Task : accepted[t] > 0 => upstream'[t][accepted[t]] = upstream[t][accepted[t]]
  PROVE  [Lineage!Next]_(Lineage!vars)
<1>1. AcceptedCandidate' = AcceptedCandidate
  BY DEF AcceptedCandidate
<1>2. MadeFrom' = MadeFrom
  <2>1. \A c \in AcceptedCandidate : upstream'[c[1]][c[2]] = upstream[c[1]][c[2]]
    BY DEF AcceptedCandidate
  <2> QED
    BY <1>1, <2>1 DEF MadeFrom
<1> QED
  BY <1>2 DEF Lineage!vars

(* The acceptance of a task is that of its last attempt, which started from  *)
(* the accepted candidates of its dependencies.                              *)
LEMMA LineageAccepts ==
  ASSUME PlanAssumption, IInv, NEW t \in Task, Accept(t)
  PROVE  [Lineage!Next]_(Lineage!vars)
<1> USE DEF IInv
<1> DEFINE n == tries[t]  c == <<t, n>>
<1>1. Thread(t)
  BY DEF Thread
<1>2. /\ t \in known /\ accepted[t] = 0 /\ known \subseteq Task
      /\ n \in Attempt /\ TaskAttempts \in Nat
  <2>1. tries[t] > 0
    BY DEF Accept, At, ThreadsOK
  <2> QED
    BY <1>1, <2>1, ThreadTask DEF PlanAssumption, TypeOK
<1>3. /\ completed = {} /\ t \in pool
      /\ UNCHANGED <<upstream, completed>>
  BY <1>1, ThreadKeeps DEF Accept, SchedulerOK, attempts
<1>4. /\ accepted'[t] = n /\ n > 0
      /\ \A u \in Task : accepted[u] \in Nat /\ (u # t => accepted'[u] = accepted[u])
  BY <1>2 DEF Accept, TypeOK, PlanAssumption
<1>5. AcceptedCandidate' = AcceptedCandidate \cup {c} /\ c \notin AcceptedCandidate
  <2> HIDE DEF n
  <2> QED
    BY <1>2, <1>4 DEF AcceptedCandidate
<1>6. \A d \in AcceptedCandidate : d[1] \in known /\ d[1] # t /\ d = <<d[1], accepted[d[1]]>>
                                   /\ accepted[d[1]] > 0
  BY <1>2 DEF AcceptedCandidate, LineageOK
<1>7. \A d \in AcceptedCandidate : Id[d[1]] # Id[t]
  BY <1>2, <1>6 DEF PlansOK
<1>8. Sources(t) = {d \in AcceptedCandidate : Id[d[1]] \in Deps[t]}
  <2>1. \A u \in Upstream(t) : u \in Task /\ accepted[u] > 0
    BY <1>2, <1>3 DEF LineageOK, Upstream
  <2>2. Sources(t) \subseteq {d \in AcceptedCandidate : Id[d[1]] \in Deps[t]}
    BY <2>1 DEF Sources, Upstream, AcceptedCandidate
  <2>3. {d \in AcceptedCandidate : Id[d[1]] \in Deps[t]} \subseteq Sources(t)
    BY <1>6 DEF Sources, Upstream
  <2> QED
    BY <2>2, <2>3
<1>9. Deps[t] \subseteq {Id[d[1]] : d \in AcceptedCandidate}
  <2> SUFFICES ASSUME NEW i \in Deps[t] PROVE \E d \in AcceptedCandidate : Id[d[1]] = i
    OBVIOUS
  <2>1. PICK u \in known : Id[u] = i
    BY <1>2 DEF PlansOK, Ids
  <2>2. accepted[u] > 0
    BY <1>2, <1>3, <2>1 DEF LineageOK, Upstream
  <2>3. <<u, accepted[u]>> \in AcceptedCandidate
    BY <1>2, <2>2 DEF AcceptedCandidate
  <2> QED
    BY <2>1, <2>3
<1>10. upstream[t][n] = Sources(t)
  BY <1>2, <1>3 DEF LineageOK
<1>11. DOMAIN MadeFrom = AcceptedCandidate
  BY DEF MadeFrom
<1>12. MadeFrom' = [d \in AcceptedCandidate \cup {c} |->
                      IF d = c THEN {e \in AcceptedCandidate : Id[e[1]] \in Deps[t]} ELSE MadeFrom[d]]
  <2>1. MadeFrom' = [d \in AcceptedCandidate \cup {c} |-> upstream[d[1]][d[2]]]
    BY <1>3, <1>5 DEF MadeFrom
  <2>2. \A d \in AcceptedCandidate : MadeFrom[d] = upstream[d[1]][d[2]]
    BY DEF MadeFrom
  <2>3. upstream[c[1]][c[2]] = {e \in AcceptedCandidate : Id[e[1]] \in Deps[t]}
    BY <1>8, <1>10
  <2> HIDE DEF c
  <2> QED
    BY <2>1, <2>2, <2>3
<1>13. Lineage!Accept(t, n)
  BY <1>3, <1>7, <1>9, <1>11, <1>12 DEF Lineage!Accept, Lineage!Accepted
<1> QED
  BY <1>2, <1>13 DEF Lineage!Next

(* Completion delivers the accepted candidate of the result.                 *)
LEMMA LineageDelivers ==
  ASSUME PlanAssumption, IInv, Complete PROVE [Lineage!Next]_(Lineage!vars)
<1> USE DEF IInv
<1>1. /\ main = "complete" /\ completed = {} /\ completed' = {Final}
      /\ UNCHANGED <<accepted, upstream>>
  BY DEF Complete, SchedulerOK, attempts
<1>2. plan.result \in plan.tasks /\ plan.tasks \subseteq Task /\ pool = {}
  BY <1>1 DEF SchedulerOK, PlansOK, Plan, WellFormed
<1>3. adopted[plan.result] = accepted[plan.result] /\ accepted[plan.result] > 0
  BY <1>1, <1>2 DEF SchedulerOK
<1>4. Final \in AcceptedCandidate
  BY <1>2, <1>3 DEF Final, AcceptedCandidate
<1>5. MadeFrom' = MadeFrom /\ DOMAIN MadeFrom = AcceptedCandidate
  BY <1>1 DEF MadeFrom, AcceptedCandidate
<1>6. Lineage!Deliver(Final) /\ Final \in Lineage!Accepted
  BY <1>1, <1>4, <1>5 DEF Lineage!Deliver, Lineage!Accepted
<1> QED
  BY <1>6 DEF Lineage!Next

LEMMA LineageNext ==
  ASSUME PlanAssumption, IInv, [Next]_vars PROVE [Lineage!Next]_(Lineage!vars)
<1>1. CASE UNCHANGED <<accepted, upstream, completed>>
  BY <1>1, LineageUnmoved
<1>2. ASSUME NEW t \in Task, Start(t) PROVE [Lineage!Next]_(Lineage!vars)
  <2>1. Thread(t)
    BY <1>2 DEF Thread
  <2>2. accepted[t] = 0
    BY <2>1, ThreadTask DEF IInv
  <2>3. UNCHANGED <<accepted, completed>> /\ \A u \in Task : u # t => upstream'[u] = upstream[u]
    BY <1>2 DEF Start, results, IInv, TypeOK
  <2> QED
    BY <2>2, <2>3, LineageUnmoved
<1>3. ASSUME NEW t \in Task, Thread(t), ~Start(t), ~Accept(t)
      PROVE  UNCHANGED <<accepted, upstream, completed>>
  BY <1>3 DEF Thread, Begin, Exhausted, Worker, WorkerGivesUp, Freeze, Verify, VerifyRaises,
     Refuse, attempts, results
<1> QED
  BY <1>1, <1>2, <1>3, LineageAccepts, LineageDelivers
     DEF Next, vars, attempts, results, Resume, Leave, Fallback, GoalReuse, ScheduleEnds,
         StartDirect, GoalVerify, MakePlan, Recover, Submit, Collect, GiveUp

(* Over every history of repairs, fallbacks, crashes and restarts the Run    *)
(* builds one lineage: what it delivers was made from accepted candidates    *)
(* only, of exactly the dependencies, each accepted before what was made of  *)
(* it and none ever replaced (_accepted, _execute_task, _recover).           *)
THEOREM Refinement == ASSUME PlanAssumption PROVE Spec => LineageGrows
<1>1. Init => Lineage!Init
  <2> SUFFICES ASSUME Init PROVE Lineage!Init
    OBVIOUS
  <2>1. AcceptedCandidate = {} /\ completed = {}
    BY DEF Init, Nothing, AcceptedCandidate
  <2> QED
    BY <2>1 DEF Lineage!Init, MadeFrom
<1>2. IInv /\ [Next]_vars => [Lineage!Next]_(Lineage!vars)
  BY LineageNext
<1> QED
  BY <1>1, <1>2, Invariance, PTL DEF Spec, LineageGrows, Lineage!Spec

-----------------------------------------------------------------------------
(* Plan.dag, loop by loop.  A loop replaces a set of tasks again and again   *)
(* until nothing is left to do; its body is a relation between the set       *)
(* before and the set after.                                                 *)

Passes(n, set, body) == \A k \in 1..n : <<set[k - 1], set[k]>> \in body
EndsWith(body, first, last) ==
  /\ \E n \in Nat : \E set \in [0..n -> SUBSET Task] :
       set[0] = first /\ set[n] = last /\ Passes(n, set, body)
  /\ \A next \in SUBSET Task : <<last, next>> \notin body

(* The first loop: what is ready joins what is resolved.                     *)
Unresolved(p, resolved) == {t \in p.tasks \ resolved : Deps[t] \subseteq Ids(resolved)}
Resolving(p) ==
  {sets \in (SUBSET p.tasks) \X (SUBSET p.tasks) :
     /\ Unresolved(p, sets[1]) # {}
     /\ sets[2] = sets[1] \cup Unresolved(p, sets[1])}

(* The second loop: the parents of a task of the frontier join the ancestors.*)
Collecting(p) ==
  {sets \in (SUBSET p.tasks) \X (SUBSET p.tasks) :
     \E t \in sets[1] : /\ ~(Parents(p, t) \subseteq sets[1])
                        /\ sets[2] = sets[1] \cup Parents(p, t)}

Dag(p) ==
  /\ p.result \in p.tasks /\ \A t, u \in p.tasks : Id[t] = Id[u] => t = u
  /\ EndsWith(Resolving(p), {}, p.tasks)
  /\ EndsWith(Collecting(p), {p.result}, p.tasks)

(* What holds before a loop and is kept by its body holds behind it: look at *)
(* the first pass behind which it does not.                                  *)
LEMMA LoopKeeps ==
  ASSUME NEW body, NEW first, NEW last, EndsWith(body, first, last),
         NEW F, first \in F, \A sets \in body : sets[1] \in F => sets[2] \in F
  PROVE  last \in F
<1>1. PICK n \in Nat : \E set \in [0..n -> SUBSET Task] :
              set[0] = first /\ set[n] = last /\ Passes(n, set, body)
  BY DEF EndsWith
<1>2. PICK set \in [0..n -> SUBSET Task] :
              set[0] = first /\ set[n] = last /\ Passes(n, set, body)
  BY <1>1
<1> DEFINE Bad == {k \in 0..n : set[k] \notin F}
<1> SUFFICES ASSUME Bad # {} PROVE FALSE
  BY <1>2
<1>3. PICK k \in Bad : \A l \in Bad : <<l, k>> \notin OpToRel(<, Nat)
  <2>1. Bad \subseteq Nat
    OBVIOUS
  <2> HIDE DEF Bad
  <2> QED
    BY <2>1, NatLessThanWellFounded, WFMin
<1>4. k \in 1..n
  BY <1>2
<1>5. k - 1 \in 0..n /\ k - 1 \in Nat /\ <<k - 1, k>> \in OpToRel(<, Nat)
  BY <1>4 DEF OpToRel
<1>6. set[k - 1] \in F
  BY <1>3, <1>5
<1>7. <<set[k - 1], set[k]>> \in body
  BY <1>2, <1>4 DEF Passes
<1> QED
  BY <1>3, <1>6, <1>7

(* A loop that only adds tasks of a finite set ends: of all sets it can      *)
(* reach, look at one that leaves least out.                                 *)
LEMMA LoopEnds ==
  ASSUME PlanAssumption, NEW S \in SUBSET Task, NEW first \in SUBSET S, NEW body,
         body \subseteq (SUBSET S) \X (SUBSET S),
         \A sets \in body : sets[1] \subseteq sets[2] /\ sets[1] # sets[2]
  PROVE  \E last \in SUBSET S : EndsWith(body, first, last)
<1> DEFINE Reach(A) == \E n \in Nat : \E set \in [0..n -> SUBSET Task] :
                         set[0] = first /\ set[n] = A /\ Passes(n, set, body)
           Left == {B \in FiniteSubsetsOf(Task) : B \subseteq S /\ Reach(S \ B)}
<1>1. Reach(first)
  <2> DEFINE set == [k \in 0..0 |-> first]
  <2>1. set \in [0..0 -> SUBSET Task] /\ set[0] = first /\ Passes(0, set, body)
    BY DEF Passes
  <2> HIDE DEF set
  <2> QED
    BY <2>1
<1>2. ASSUME NEW A \in SUBSET S, Reach(A), NEW B, <<A, B>> \in body PROVE B \in SUBSET S /\ Reach(B)
  <2>1. PICK n \in Nat : \E set \in [0..n -> SUBSET Task] :
              set[0] = first /\ set[n] = A /\ Passes(n, set, body)
    BY <1>2
  <2>2. PICK set \in [0..n -> SUBSET Task] :
              set[0] = first /\ set[n] = A /\ Passes(n, set, body)
    BY <2>1
  <2>3. B \in SUBSET S /\ B \in SUBSET Task
    BY <1>2
  <2> DEFINE m == n + 1  more == [k \in 0..m |-> IF k = m THEN B ELSE set[k]]
  <2>4. m \in Nat /\ more \in [0..m -> SUBSET Task] /\ more[0] = first /\ more[m] = B
    BY <2>2, <2>3
  <2>5. ASSUME NEW k \in 1..m PROVE <<more[k - 1], more[k]>> \in body
    <3>1. CASE k = m
      BY <1>2, <2>2, <3>1
    <3>2. CASE k # m
      <4>1. k \in 1..n /\ k \in 0..m /\ k - 1 \in 0..m /\ k - 1 # m
        BY <3>2
      <4>2. <<set[k - 1], set[k]>> \in body
        BY <2>2, <4>1 DEF Passes
      <4>3. more[k - 1] = set[k - 1] /\ more[k] = set[k]
        BY <3>2, <4>1
      <4> QED
        BY <4>2, <4>3
    <3> QED
      BY <3>1, <3>2
  <2>6. Passes(m, more, body)
    BY <2>5 DEF Passes
  <2> HIDE DEF m, more
  <2> QED
    BY <2>3, <2>4, <2>6
<1> HIDE DEF Reach
<1>3. IsFiniteSet(S) /\ IsFiniteSet(S \ first) /\ S \ (S \ first) = first
  BY FS_Subset DEF PlanAssumption
<1>4. Left # {}
  BY <1>1, <1>3 DEF FiniteSubsetsOf
<1>5. PICK B \in Left : \A C \in Left : <<C, B>> \notin StrictSubsetOrdering(Task)
  <2>1. Left \subseteq FiniteSubsetsOf(Task)
    OBVIOUS
  <2> HIDE DEF Left
  <2> QED
    BY <1>4, <2>1, FS_StrictSubsetOrderingWellFounded, WFMin
<1>6. S \ B \in SUBSET S /\ Reach(S \ B)
  BY <1>5
<1>7. ASSUME NEW next, <<S \ B, next>> \in body PROVE FALSE
  <2>1. next \in SUBSET S /\ Reach(next)
    BY <1>2, <1>6, <1>7
  <2>2. S \ B \subseteq next /\ S \ B # next
    BY <1>7
  <2>3. S \ next \subseteq B /\ S \ next # B
    BY <1>5, <2>1, <2>2
  <2>4. S \ (S \ next) = next /\ IsFiniteSet(S \ next)
    BY <1>3, <2>1, FS_Subset
  <2>5. S \ next \in Left
    BY <2>1, <2>4 DEF FiniteSubsetsOf
  <2>6. <<S \ next, B>> \in StrictSubsetOrdering(Task)
    BY <2>3, <1>5 DEF StrictSubsetOrdering
  <2> QED
    BY <1>5, <2>5, <2>6
<1> QED
  BY <1>6, <1>7 DEF EndsWith, Reach

(* The validator of plans accepts exactly the well-formed ones.              *)
THEOREM DagIsWellFormed ==
  ASSUME PlanAssumption, NEW p \in [tasks: SUBSET Task, result: Task]
  PROVE  Dag(p) <=> WellFormed(p)
<1> DEFINE NoCycle == \A S \in (SUBSET p.tasks) \ {{}} : \E t \in S : Deps[t] \subseteq Ids(p.tasks \ S)
           Connected == \A S \in SUBSET p.tasks :
             p.result \in S /\ (\A t \in S : Parents(p, t) \subseteq S) => S = p.tasks
<1>1. EndsWith(Resolving(p), {}, p.tasks) <=> NoCycle
  <2>1. ASSUME EndsWith(Resolving(p), {}, p.tasks),
               NEW S \in SUBSET p.tasks, \A t \in S : ~(Deps[t] \subseteq Ids(p.tasks \ S))
        PROVE  S = {}
    <3> DEFINE F == SUBSET (p.tasks \ S)
    <3>1. ASSUME NEW sets \in Resolving(p), sets[1] \in F PROVE sets[2] \in F
      <4>1. sets[2] = sets[1] \cup Unresolved(p, sets[1])
        BY DEF Resolving
      <4>2. Unresolved(p, sets[1]) \subseteq p.tasks \ S
        BY <2>1, <3>1 DEF Unresolved, Ids
      <4> QED
        BY <3>1, <4>1, <4>2
    <3>2. p.tasks \in F
      <4>1. {} \in F
        OBVIOUS
      <4> HIDE DEF F
      <4> QED
        BY <2>1, <3>1, <4>1, LoopKeeps
    <3> QED
      BY <3>2
  <2>2. ASSUME NoCycle PROVE EndsWith(Resolving(p), {}, p.tasks)
    <3>1. Resolving(p) \subseteq (SUBSET p.tasks) \X (SUBSET p.tasks)
      BY DEF Resolving
    <3>2. \A sets \in Resolving(p) : sets[1] \subseteq sets[2] /\ sets[1] # sets[2]
      BY DEF Resolving, Unresolved
    <3>3. PICK last \in SUBSET p.tasks : EndsWith(Resolving(p), {}, last)
      <4>1. p.tasks \in SUBSET Task /\ {} \in SUBSET p.tasks
        OBVIOUS
      <4> QED
        BY <3>1, <3>2, <4>1, LoopEnds
    <3>4. ASSUME last # p.tasks PROVE FALSE
      <4>1. PICK t \in p.tasks \ last : Deps[t] \subseteq Ids(p.tasks \ (p.tasks \ last))
        BY <2>2, <3>4
      <4>2. p.tasks \ (p.tasks \ last) = last
        OBVIOUS
      <4>3. t \in Unresolved(p, last)
        BY <4>1, <4>2 DEF Unresolved
      <4>4. <<last, last \cup Unresolved(p, last)>> \in Resolving(p)
        BY <4>3 DEF Resolving, Unresolved
      <4>5. last \cup Unresolved(p, last) \in SUBSET Task
        BY DEF Unresolved
      <4> QED
        BY <3>3, <4>4, <4>5 DEF EndsWith
    <3> QED
      BY <3>3, <3>4
  <2> QED
    BY <2>1, <2>2
<1>2. ASSUME p.result \in p.tasks
      PROVE  EndsWith(Collecting(p), {p.result}, p.tasks) <=> Connected
  <2>1. ASSUME EndsWith(Collecting(p), {p.result}, p.tasks),
               NEW S \in SUBSET p.tasks, p.result \in S, \A t \in S : Parents(p, t) \subseteq S
        PROVE  S = p.tasks
    <3> DEFINE F == SUBSET S
    <3>1. ASSUME NEW sets \in Collecting(p), sets[1] \in F PROVE sets[2] \in F
      BY <2>1, <3>1 DEF Collecting
    <3>2. p.tasks \in F
      <4>1. {p.result} \in F
        BY <2>1
      <4> HIDE DEF F
      <4> QED
        BY <2>1, <3>1, <4>1, LoopKeeps
    <3> QED
      BY <3>2
  <2>2. ASSUME Connected PROVE EndsWith(Collecting(p), {p.result}, p.tasks)
    <3>1. Collecting(p) \subseteq (SUBSET p.tasks) \X (SUBSET p.tasks)
      BY DEF Collecting
    <3>2. \A sets \in Collecting(p) : sets[1] \subseteq sets[2] /\ sets[1] # sets[2]
      BY DEF Collecting
    <3>3. PICK last \in SUBSET p.tasks : EndsWith(Collecting(p), {p.result}, last)
      <4>1. p.tasks \in SUBSET Task /\ {p.result} \in SUBSET p.tasks
        BY <1>2
      <4> QED
        BY <3>1, <3>2, <4>1, LoopEnds
    <3>4. p.result \in last
      <4> DEFINE F == {A \in SUBSET p.tasks : p.result \in A}
      <4>1. {p.result} \in F
        BY <1>2
      <4>2. \A sets \in Collecting(p) : sets[1] \in F => sets[2] \in F
        BY DEF Collecting
      <4>3. last \in F
        <5> HIDE DEF F
        <5> QED
          BY <3>3, <4>1, <4>2, LoopKeeps
      <4> QED
        BY <4>3
    <3>5. ASSUME NEW t \in last PROVE Parents(p, t) \subseteq last
      <4>1. last \cup Parents(p, t) \in SUBSET p.tasks /\ last \cup Parents(p, t) \in SUBSET Task
        BY DEF Parents
      <4>2. <<last, last \cup Parents(p, t)>> \notin Collecting(p)
        BY <3>3, <4>1 DEF EndsWith
      <4> QED
        BY <4>1, <4>2, <3>5 DEF Collecting
    <3> QED
      BY <2>2, <3>3, <3>4, <3>5
  <2> QED
    BY <2>1, <2>2
<1> QED
  BY <1>1, <1>2 DEF Dag, WellFormed

=============================================================================
