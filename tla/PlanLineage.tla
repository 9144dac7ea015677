------------------------------ MODULE PlanLineage ------------------------------
(* Plans and the lineage of candidates (engine.py): what a Run executes      *)
(* after its goal is known.  A plan is direct, planned or repaired; its      *)
(* tasks run in a pool, each on the candidates of its dependencies; what a   *)
(* dead controller left is resumed from the journal; direct work that does   *)
(* not complete is handed to planning; the candidate of the result task is   *)
(* verified against the goal, where the joint verification of direct work    *)
(* may be used again.                                                        *)
(*                                                                           *)
(* A Task is a definition: two definitions may have one id.  Models answer   *)
(* anything their contract accepts.  Death, cancellation, an exception that  *)
(* ends execute and a wait for the operator are all the step Leave, after    *)
(* which a controller may start again.  External grants and reservations are *)
(* the subject of ExternalEffects and Reservations.                          *)

EXTENDS Integers, FiniteSets

CONSTANTS
  Key,          \* task ids
  Task,         \* task definitions (digests)
  Id,           \* task.id of each
  Deps,         \* task.dependencies of each
  Direct,       \* the task _start_direct builds of the goal
  None,         \* no task
  TaskAttempts, \* limits.task_attempts
  Replans,      \* limits.replans
  AddedTasks,   \* limits.added_tasks
  Concurrency   \* limits.concurrency

ASSUME PlanAssumption ==
  /\ Id \in [Task -> Key] /\ Deps \in [Task -> SUBSET Key]
  /\ Direct \in Task /\ Deps[Direct] = {} /\ None \notin Task
  /\ TaskAttempts \in Nat \ {0} /\ Replans \in Nat /\ AddedTasks \in Nat
  /\ Concurrency \in Nat \ {0}
  /\ IsFiniteSet(Task)

VARIABLES
  plan,      \* the last plan event
  planned,   \* the number of plan events
  original,  \* the ids of the first plan
  known,     \* the last definition of every id any plan had
  direct,    \* "no", "yes", or "joint": started, its criteria cover the goal
  fallback,  \* "none", "open" (newer than every plan) or "planned"
  handoff,   \* the tree of direct_fallback
  tries,     \* attempt_started events of a task
  stage,     \* what the journal says of its last attempt
  upstream,  \* the candidates each of its attempts started from
  origin,    \* what the workspace of its attempts was made of
  passed,    \* candidates with a passing verification of their task
  accepted,  \* the attempt whose candidate is accepted, or 0
  broken,    \* ids with a task_failed event
  verdict,   \* the last verification of a result task against the goal
  completed, \* the candidate of the completed event
  main,      \* where _execute stands; "down" without a controller
  adopted,   \* its dictionary accepted
  pool,      \* tasks submitted and not collected
  failure,   \* whether a task of this pool failed
  pc,        \* where the thread of a task stands
  given,     \* the argument upstream of that thread
  directRuns \* attempts ever started as direct execution (history)

plans == <<plan, planned, original, known>>
route == <<direct, fallback, handoff>>
attempts == <<tries, stage, upstream, origin, passed>>
results == <<accepted, broken, verdict, completed>>
threads == <<pc, given>>
scheduler == <<main, adopted, pool, failure>>
vars == <<plans, route, attempts, results, threads, scheduler, directRuns>>

Attempt == 1..TaskAttempts
Candidate == Task \X Attempt
Tree == {"none", "input", "partial"}
Stage == {"none", "started", "complete", "frozen", "verified", "rejected", "failed"}
Place == {"idle", "begin", "work", "worker", "attempt", "resume", "returned", "raised", "fallback"}
Main == {"down", "plan", "schedule", "pool", "fallback", "recover", "goal", "complete"}

TypeOK ==
  /\ plan \in [tasks: SUBSET Task, result: Task \cup {None}]
  /\ planned \in Nat /\ original \subseteq Key /\ known \subseteq Task
  /\ direct \in {"no", "yes", "joint"} /\ fallback \in {"none", "open", "planned"}
  /\ handoff \in Tree
  /\ tries \in [Task -> 0..TaskAttempts] /\ stage \in [Task -> Stage]
  /\ upstream \in [Task -> [Attempt -> SUBSET Candidate]]
  /\ origin \in [Task -> Tree \cup {"upstream"}]
  /\ passed \subseteq Candidate
  /\ accepted \in [Task -> 0..TaskAttempts] /\ broken \subseteq Key
  /\ verdict \in [Task -> {"none", "reused", "passed", "rejected"}]
  /\ completed \subseteq Candidate
  /\ main \in Main /\ adopted \in [Task -> 0..TaskAttempts]
  /\ pool \subseteq Task /\ failure \in BOOLEAN
  /\ pc \in [Task -> Place] /\ given \in [Task -> SUBSET Candidate]
  /\ directRuns \in Nat

NoPlan == [tasks |-> {}, result |-> None]
Nothing == [t \in Task |-> 0]

Init ==
  /\ plan = NoPlan /\ planned = 0 /\ original = {} /\ known = {}
  /\ direct = "no" /\ fallback = "none" /\ handoff = "none"
  /\ tries = Nothing /\ stage = [t \in Task |-> "none"]
  /\ upstream = [t \in Task |-> [n \in Attempt |-> {}]]
  /\ origin = [t \in Task |-> "none"] /\ passed = {}
  /\ accepted = Nothing /\ broken = {} /\ verdict = [t \in Task |-> "none"]
  /\ completed = {}
  /\ main = "down" /\ adopted = Nothing /\ pool = {} /\ failure = FALSE
  /\ pc = [t \in Task |-> "idle"] /\ given = [t \in Task |-> {}]
  /\ directRuns = 0

-----------------------------------------------------------------------------
(* Plans.                                                                    *)

Ids(S) == {Id[t] : t \in S}
Parents(p, t) == {u \in p.tasks : Id[u] \in Deps[t]}

(* Plan.dag.  Its first loop ends unless a set of pending tasks has none     *)
(* whose dependencies are resolved; its second collects the smallest set     *)
(* that holds the result and the dependencies of its members.                *)
WellFormed(p) ==
  /\ p.result \in p.tasks
  /\ \A t, u \in p.tasks : Id[t] = Id[u] => t = u
  /\ \A S \in (SUBSET p.tasks) \ {{}} : \E t \in S : Deps[t] \subseteq Ids(p.tasks \ S)
  /\ \A S \in SUBSET p.tasks :
       p.result \in S /\ (\A t \in S : Parents(p, t) \subseteq S) => S = p.tasks

Plan == {p \in [tasks: SUBSET Task, result: Task] : WellFormed(p)}

DirectPlan == [tasks |-> {Direct}, result |-> Direct]

(* _direct_task, for a task of the current plan.                             *)
IsDirect(t) == direct # "no" /\ fallback = "none" /\ plan = DirectPlan /\ t = plan.result

(* Mutated form: repair may define an old task anew.                         *)
ExtensionRewriting(p, done) ==
  LET new == Ids(p.tasks) \ Ids(known) IN
  /\ p \in Plan
  /\ new # {} /\ Cardinality(new) <= AddedTasks - Cardinality(Ids(known) \ original)
  /\ \A t \in p.tasks : Deps[t] \cap (broken \ done) = {}

(* What the stage contract accepts of a repair: some but not too many new    *)
(* tasks, the old ones as they were, and none that needs a failed one.       *)
Extension(p, done) ==
  LET new == Ids(p.tasks) \ Ids(known) IN
  /\ p \in Plan
  /\ new # {} /\ Cardinality(new) <= AddedTasks - Cardinality(Ids(known) \ original)
  /\ \A t \in p.tasks : /\ Id[t] \in Ids(known) => t \in known
                        /\ Deps[t] \cap (broken \ done) = {}

Recorded(p) ==
  /\ plan' = p /\ planned' = planned + 1
  /\ original' = IF planned = 0 THEN Ids(p.tasks) ELSE original
  /\ known' = {t \in known : Id[t] \notin Ids(p.tasks)} \cup p.tasks

(* _accepted: the candidates of the current plan.  The errors it may raise   *)
(* are no steps of this module: LineageHolds says that they do not occur.    *)
AcceptedIn(p) == [t \in Task |-> IF t \in p.tasks THEN accepted[t] ELSE 0]
Inputs(p, acc, t) == {<<u, acc[u]>> : u \in Parents(p, t)}

(* _execute from the plan on: direct work that was given up is planned       *)
(* first, else the tasks of the plan are scheduled.                          *)
Enter(p, fall) ==
  IF p = NoPlan \/ fall = "open"
  THEN main' = "plan" /\ adopted' = Nothing
  ELSE main' = "schedule" /\ adopted' = AcceptedIn(p)

-----------------------------------------------------------------------------
(* The controller.                                                           *)

(* Mutated form: the last plan is executed, whatever was recorded after it.  *)
ResumeOldPlan ==
  /\ main = "down" /\ completed = {}
  /\ Enter(plan, "none")
  /\ UNCHANGED <<plans, route, attempts, results, threads, pool, failure, directRuns>>

Resume ==
  /\ main = "down" /\ completed = {}
  /\ Enter(plan, fallback)
  /\ UNCHANGED <<plans, route, attempts, results, threads, pool, failure, directRuns>>

Leave ==
  /\ main # "down"
  /\ main' = "down" /\ adopted' = Nothing /\ pool' = {} /\ failure' = FALSE
  /\ pc' = [t \in Task |-> "idle"] /\ given' = [t \in Task |-> {}]
  /\ UNCHANGED <<plans, route, attempts, results, directRuns>>

(* _start_direct: both events in one transaction.  Whether the criteria of   *)
(* the goal name its mandatory checks is known from the start.               *)
StartDirect(covers) ==
  /\ main = "plan" /\ planned = 0
  /\ direct' = IF covers THEN "joint" ELSE "yes"
  /\ Recorded(DirectPlan)
  /\ Enter(DirectPlan, fallback)
  /\ UNCHANGED <<fallback, handoff, attempts, results, threads, pool, failure, directRuns>>

(* _plan, of the input or of what direct work left.                          *)
MakePlan(p) ==
  /\ main = "plan"
  /\ fallback' = IF fallback = "open" THEN "planned" ELSE fallback
  /\ Recorded(p)
  /\ Enter(p, fallback')
  /\ UNCHANGED <<direct, handoff, attempts, results, threads, pool, failure, directRuns>>

Pending == {t \in plan.tasks : adopted[t] = 0}
Ready == {t \in Pending : Deps[t] \subseteq Ids({u \in plan.tasks : adopted[u] > 0})}

(* The next tasks go to the pool, each with the candidates it depends on.    *)
Submit(S) ==
  /\ main = "schedule"
  /\ S # {}
  /\ IF Cardinality(Ready) <= Concurrency THEN S = Ready ELSE Cardinality(S) = Concurrency
  /\ main' = "pool" /\ pool' = S
  /\ pc' = [t \in Task |-> IF t \in S THEN "begin" ELSE pc[t]]
  /\ given' = [t \in Task |-> IF t \in S THEN Inputs(plan, adopted, t) ELSE given[t]]
  /\ UNCHANGED <<plans, route, attempts, results, adopted, failure, directRuns>>

(* Mutated form: the result alone decides that the work is done.             *)
ScheduleEndsAtResult ==
  /\ main = "schedule" /\ plan.result \notin Ready
  /\ main' = "goal"
  /\ UNCHANGED <<plans, route, attempts, results, threads, adopted, pool, failure, directRuns>>

ScheduleEnds ==
  /\ main = "schedule" /\ Pending = {}
  /\ main' = "goal"
  /\ UNCHANGED <<plans, route, attempts, results, threads, adopted, pool, failure, directRuns>>

(* as_completed: the pool is left when its last task is collected.           *)
Collect(t) ==
  /\ main = "pool" /\ t \in pool /\ pc[t] \in {"returned", "raised"}
  /\ IF pc[t] = "returned"
     THEN adopted' = [adopted EXCEPT ![t] = tries[t]] /\ UNCHANGED <<broken, failure>>
     ELSE broken' = broken \cup {Id[t]} /\ failure' = TRUE /\ UNCHANGED adopted
  /\ pool' = pool \ {t}
  /\ main' = IF pool' # {} THEN "pool" ELSE IF failure' THEN "recover" ELSE "schedule"
  /\ pc' = [pc EXCEPT ![t] = "idle"] /\ given' = [given EXCEPT ![t] = {}]
  /\ UNCHANGED <<plans, route, attempts, accepted, verdict, completed, directRuns>>

(* DirectFallback reaches _execute, and _fallback_direct captures what the   *)
(* last direct attempt left in its workspace.                                *)
GiveUp(t) ==
  /\ main = "pool" /\ t \in pool /\ pc[t] = "fallback"
  /\ main' = "fallback" /\ pool' = pool \ {t}
  /\ pc' = [pc EXCEPT ![t] = "idle"] /\ given' = [given EXCEPT ![t] = {}]
  /\ UNCHANGED <<plans, route, attempts, results, adopted, failure, directRuns>>

Fallback ==
  /\ main = "fallback"
  /\ handoff' = IF tries[plan.result] > 0 THEN "partial" ELSE "input"
  /\ fallback' = "open"
  /\ Enter(plan, "open")
  /\ UNCHANGED <<plans, direct, attempts, results, threads, pool, failure, directRuns>>

(* _recover.  A limit reached or no accepted repair is an exception (Leave). *)
Recover(p) ==
  /\ main = "recover" /\ planned - 1 < Replans
  /\ Extension(p, Ids({t \in plan.tasks : adopted[t] > 0}))
  /\ Recorded(p)
  /\ Enter(p, fallback) /\ failure' = FALSE
  /\ UNCHANGED <<route, attempts, results, threads, pool, directRuns>>

-----------------------------------------------------------------------------
(* The goal.                                                                 *)

Final == <<plan.result, adopted[plan.result]>>

(* Mutated form: any passing task verification serves.                       *)
JointOfAnyPlan == Final \in passed

(* _joint_record: a passing joint verification of exactly this candidate.    *)
Joint == direct = "joint" /\ IsDirect(plan.result) /\ Final \in passed

GoalReuse ==
  /\ main = "goal" /\ Joint
  /\ verdict' = [verdict EXCEPT ![plan.result] = "reused"] /\ main' = "complete"
  /\ UNCHANGED <<plans, route, attempts, accepted, broken, completed, threads, adopted, pool,
                 failure, directRuns>>

(* _verify of the goal, and goal_rejected.                                   *)
GoalVerify(pass) ==
  /\ main = "goal" /\ ~Joint
  /\ verdict' = [verdict EXCEPT ![plan.result] = IF pass THEN "passed" ELSE "rejected"]
  /\ main' = IF pass THEN "complete" ELSE "recover"
  /\ UNCHANGED <<plans, route, attempts, accepted, broken, completed, threads, adopted, pool,
                 failure, directRuns>>

Complete ==
  /\ main = "complete"
  /\ completed' = {Final}
  /\ main' = "down" /\ adopted' = Nothing
  /\ UNCHANGED <<plans, route, attempts, accepted, broken, verdict, threads, pool, failure,
                 directRuns>>

-----------------------------------------------------------------------------
(* The thread of a task: _execute_task.                                      *)

Running(t, place) == main = "pool" /\ t \in pool /\ pc[t] = place
Goto(t, place) == pc' = [pc EXCEPT ![t] = place]
Mark(t, value) == stage' = [stage EXCEPT ![t] = value]

Unfinished == {"complete", "frozen", "verified", "rejected"}

(* A completed attempt is taken up where the journal leaves it; direct work  *)
(* that was interrupted is given up.                                         *)
Begin(t) ==
  /\ Running(t, "begin")
  /\ Goto(t, CASE stage[t] \in Unfinished -> "resume"
               [] stage[t] \notin Unfinished /\ tries[t] > 0 /\ IsDirect(t) -> "fallback"
               [] OTHER -> "work")
  /\ UNCHANGED <<plans, route, attempts, results, given, scheduler, directRuns>>

Limit(t) == IF IsDirect(t) THEN 1 ELSE TaskAttempts
GivenUp(t) == IF IsDirect(t) THEN "fallback" ELSE "raised"

(* The workspace of the first attempt is made of the only candidate the task *)
(* depends on, else of the base; later attempts go on in it.                 *)
Source(t) ==
  IF Cardinality(given[t]) = 1 THEN "upstream" ELSE IF fallback = "none" THEN "input" ELSE handoff

Start(t) ==
  /\ Running(t, "work") /\ tries[t] < Limit(t)
  /\ tries' = [tries EXCEPT ![t] = @ + 1]
  /\ Mark(t, "started")
  /\ upstream' = [upstream EXCEPT ![t][tries'[t]] = given[t]]
  /\ origin' = IF tries[t] = 0 THEN [origin EXCEPT ![t] = Source(t)] ELSE origin
  /\ directRuns' = IF IsDirect(t) THEN directRuns + 1 ELSE directRuns
  /\ Goto(t, "worker")
  /\ UNCHANGED <<passed, plans, route, results, given, scheduler>>

(* TASK_ATTEMPTS_EXHAUSTED, or direct_not_completed.                         *)
Exhausted(t) ==
  /\ Running(t, "work") /\ tries[t] >= Limit(t)
  /\ Goto(t, GivenUp(t))
  /\ UNCHANGED <<plans, route, attempts, results, given, scheduler, directRuns>>

(* The worker completes, or fails, or its call does.                         *)
Worker(t, value) ==
  /\ Running(t, "worker")
  /\ Mark(t, value) /\ Goto(t, IF value = "complete" THEN "attempt" ELSE "work")
  /\ UNCHANGED <<tries, upstream, origin, passed, plans, route, results, given, scheduler,
                 directRuns>>

(* The local allowance is used up, or direct work asks for authority.        *)
WorkerGivesUp(t) ==
  /\ Running(t, "worker") /\ IsDirect(t)
  /\ Goto(t, "fallback")
  /\ UNCHANGED <<plans, route, attempts, results, given, scheduler, directRuns>>

At(t, value) == (Running(t, "attempt") \/ Running(t, "resume")) /\ stage[t] = value

Freeze(t) ==
  /\ At(t, "complete")
  /\ Mark(t, "frozen")
  /\ UNCHANGED <<tries, upstream, origin, passed, plans, route, results, threads, scheduler,
                 directRuns>>

(* Independent review and verification of the candidate: one event.          *)
Verify(t, pass) ==
  /\ At(t, "frozen")
  /\ Mark(t, IF pass THEN "verified" ELSE "rejected")
  /\ passed' = IF pass THEN passed \cup {<<t, tries[t]>>} ELSE passed
  /\ UNCHANGED <<tries, upstream, origin, plans, route, results, threads, scheduler, directRuns>>

(* The review or the verification raises: of a new attempt that is one more  *)
(* failed attempt, of a resumed one it is the failure of the task.           *)
VerifyRaises(t) ==
  /\ At(t, "frozen")
  /\ IF pc[t] = "attempt"
     THEN Mark(t, "failed") /\ Goto(t, "work")
     ELSE Goto(t, "raised") /\ UNCHANGED stage
  /\ UNCHANGED <<tries, upstream, origin, passed, plans, route, results, given, scheduler,
                 directRuns>>

(* attempt_failed: the review or the verification refused the candidate.     *)
Refuse(t) ==
  /\ At(t, "frozen") \/ At(t, "rejected")
  /\ Mark(t, "failed")
  /\ Goto(t, IF pc[t] = "resume" /\ IsDirect(t) THEN "fallback" ELSE "work")
  /\ UNCHANGED <<tries, upstream, origin, passed, plans, route, results, given, scheduler,
                 directRuns>>

Accept(t) ==
  /\ At(t, "verified")
  /\ accepted' = [accepted EXCEPT ![t] = tries[t]]
  /\ Goto(t, "returned")
  /\ UNCHANGED <<plans, route, attempts, broken, verdict, completed, given, scheduler, directRuns>>

Thread(t) ==
  \/ Begin(t) \/ Start(t) \/ Exhausted(t)
  \/ \E value \in {"complete", "failed"} : Worker(t, value)
  \/ WorkerGivesUp(t) \/ Freeze(t)
  \/ \E pass \in BOOLEAN : Verify(t, pass)
  \/ VerifyRaises(t) \/ Refuse(t) \/ Accept(t)

Next ==
  \/ Resume \/ Leave \/ Fallback \/ GoalReuse \/ Complete \/ ScheduleEnds
  \/ \E flag \in BOOLEAN : StartDirect(flag) \/ GoalVerify(flag)
  \/ \E p \in Plan : MakePlan(p) \/ Recover(p)
  \/ \E S \in SUBSET Ready : Submit(S)
  \/ \E t \in Task : Collect(t) \/ GiveUp(t) \/ Thread(t)

Spec == Init /\ [][Next]_vars

-----------------------------------------------------------------------------
(* Properties.                                                               *)

(* What _accepted and _execute_task check and raise STALE_UPSTREAM_LINEAGE,  *)
(* FOREIGN_TASK_CANDIDATE, UNATTESTED_CANDIDATE or CANDIDATE_NOT_VERIFIED    *)
(* for: over repairs, fallbacks and restarts every accepted candidate keeps  *)
(* its definition in the current plan, was made from the accepted candidates *)
(* of exactly its dependencies and verified; a thread and the attempts it    *)
(* continues hold those very candidates, and so does the scheduler.          *)
LineageHolds ==
  /\ \A t \in Task : accepted[t] > 0 =>
       /\ Id[t] \in Ids(plan.tasks) => t \in plan.tasks
       /\ accepted[t] <= tries[t] /\ <<t, accepted[t]>> \in passed
  /\ \A t \in plan.tasks : tries[t] > 0 \/ t \in pool =>
       /\ \A u \in Parents(plan, t) : accepted[u] > 0
       /\ \A n \in 1..tries[t] : upstream[t][n] = Inputs(plan, accepted, t)
       /\ t \in pool => given[t] = Inputs(plan, accepted, t)
  /\ \A t \in Task : adopted[t] > 0 => t \in plan.tasks /\ adopted[t] = accepted[t]

(* What whoever adopts the result is promised (CandidateLineage): whatever   *)
(* is repaired, given up or resumed, an accepted candidate was made from     *)
(* candidates accepted before it, one for each dependency, and neither it    *)
(* nor its sources change again (_accepted, _execute_task, _recover).        *)
AcceptedCandidate == {<<t, accepted[t]>> : t \in {u \in Task : accepted[u] > 0}}
MadeFrom == [c \in AcceptedCandidate |-> upstream[c[1]][c[2]]]
Lineage == INSTANCE CandidateLineage WITH sources <- MadeFrom, delivered <- completed
LineageGrows == Lineage!Spec

(* What _completion requires when a completed Run is published, for ever: a  *)
(* candidate of the result task of the last plan, every task of that plan    *)
(* accepted, the goal verified for it, and evidence used twice only for      *)
(* direct work that covers the goal and was not given up.                    *)
CompletionHolds ==
  \A c \in completed :
    /\ c = <<plan.result, accepted[plan.result]>>
    /\ \A t \in plan.tasks : accepted[t] > 0
    /\ verdict[c[1]] \in {"passed", "reused"}
    /\ verdict[c[1]] = "reused" =>
         direct = "joint" /\ fallback = "none" /\ plan = DirectPlan /\ c \in passed

(* Direct work is tried once in the life of the Run; once it is given up     *)
(* nothing runs before a newer plan exists, what it left is handed on, and   *)
(* no other task starts from the original input.                             *)
HandoffHolds ==
  /\ directRuns <= 1
  /\ fallback # "none" =>
       /\ directRuns = 1 /\ handoff = "partial"
       /\ \A t \in Task : t # Direct => origin[t] # "input"
  /\ fallback = "open" => main \in {"down", "plan"} /\ \A t \in Task : accepted[t] = 0

(* GRAPH_CANNOT_PROGRESS is never raised, and the goal is verified for a     *)
(* candidate that exists.                                                    *)
GraphProgresses ==
  /\ main = "schedule" /\ Pending # {} => Ready # {}
  /\ main \in {"goal", "complete"} => adopted[plan.result] > 0

(* A repair leaves every failed task behind: the contract forbids to depend  *)
(* on one (FAILED_DEPENDENCY), and none can be the new result.               *)
FailedStaysOut ==
  [][main = "recover" /\ plan' # plan =>
       \A t \in plan'.tasks : Id[t] \in broken => accepted[t] > 0]_vars

=============================================================================
