---------------------------- MODULE RunLifecycle ----------------------------
(* One Run: its append-only journal (history.py), the controller lock, the   *)
(* processes that issue Run commands (engine.py), the worker threads of an   *)
(* executing controller and the environments their invocations own.          *)
(*                                                                           *)
(* Every journal transaction is one action, so a command issued without the  *)
(* lock (cancel, the request of cleanup and revoke) falls between any two of *)
(* a controller's transactions, and a process may die between any two steps. *)
(* Tasks have local authority here; external writes are ExternalEffects'.    *)

EXTENDS Naturals, FiniteSets

CONSTANTS
  Proc,         \* operating-system processes that may issue commands
  NoProc,       \* the value of an unowned lock
  Task,         \* task identities plans may use
  NoTask,       \* the subject of a command that concerns no task
  Main,         \* the controller's own thread, beside one thread per task
  Commands,     \* commands the operator uses
  MaxAttempts,  \* limits.task_attempts
  MaxReplans,   \* limits.replans
  Concurrency   \* limits.concurrency

AllCommands ==
  {"execute", "cancel", "cleanup", "revoke", "approve", "reject", "answer",
   "promote", "revise"}

ASSUME LifecycleAssumption ==
  /\ NoProc \notin Proc
  /\ NoTask \notin Task
  /\ Main \notin Task
  /\ Commands \subseteq AllCommands
  /\ MaxAttempts \in Nat \ {0}
  /\ MaxReplans \in Nat
  /\ Concurrency \in Nat \ {0}

Caller == Task \cup {Main}

VARIABLES
  journal,   \* kinds of the events recorded, those that are tested for existence
  clar,      \* the last clarification event
  plan,      \* tasks of the latest plan event
  past,      \* tasks of every plan event
  failed,    \* tasks with a task_failed event
  replans,   \* plan events beyond the first
  verified,  \* the plan whose result passed Goal verification
  attempts,  \* attempt_started events of a task
  progress,  \* how far the task's last attempt is recorded
  grant,     \* the authority request of the task's last attempt
  open,      \* callers with an unsettled reservation
  env,       \* the environment each caller's last invocation owns
  lock,      \* owner of the controller lock
  op, at,    \* the command a process runs and where it stands
  subject,   \* the task an approval or rejection is about
  thread     \* thread of each caller in the executing controller

attempt == <<attempts, progress, grant>>
graph == <<plan, past, failed, replans, verified>>
process == <<lock, op, at, subject>>
vars == <<journal, clar, graph, attempt, open, env, process, thread>>

Kind ==
  {"goal", "completed", "stopped", "authority_revocation_requested", "uncertain",
   "cleanup_requested", "cleanup_confirmed", "authority_revoked", "promoted",
   "goal_superseded"}
Place ==
  {"idle", "request", "request_revocation", "lock", "reconcile", "recover", "dispatch",
   "goal", "plan", "pool", "verify", "replan", "complete", "confirm", "approve",
   "apply", "applying", "applied", "rejected", "check", "export", "record", "supersede"}
MainPlaces == {"goal", "plan", "verify", "replan"}
WorkPlaces == MainPlaces \cup {"pool", "complete"}
Reply == {"completed", "failed", "request", "uncertain", "limit", "pass", "fail", "ask"}
Ended == {"ok", "waiting", "stopped", "exhausted", "error"}
ThreadState ==
  {"off", "start", "ready", "reserved", "running", "doubt", "accept"} \cup Reply \cup Ended

TypeOK ==
  /\ journal \subseteq Kind
  /\ clar \in {"none", "wait", "answer"}
  /\ plan \subseteq Task /\ past \subseteq Task /\ failed \subseteq Task
  /\ verified \subseteq Task
  /\ replans \in 0..MaxReplans
  /\ attempts \in [Task -> 0..MaxAttempts]
  /\ progress \in [Task -> {"none", "doubt", "worked", "verified", "accepted"}]
  /\ grant \in [Task -> {"none", "pending", "approved", "applied", "rejected"}]
  /\ open \subseteq Caller
  /\ env \in [Caller -> {"none", "owned", "orphan", "stale"}]
  /\ lock \in Proc \cup {NoProc}
  /\ op \in [Proc -> AllCommands \cup {"none"}]
  /\ at \in [Proc -> Place]
  /\ subject \in [Proc -> Task \cup {NoTask}]
  /\ thread \in [Caller -> ThreadState]

Init ==
  /\ journal = {} /\ clar = "none"
  /\ plan = {} /\ past = {} /\ failed = {} /\ replans = 0 /\ verified = {}
  /\ attempts = [t \in Task |-> 0]
  /\ progress = [t \in Task |-> "none"]
  /\ grant = [t \in Task |-> "none"]
  /\ open = {} /\ env = [c \in Caller |-> "none"]
  /\ lock = NoProc
  /\ op = [p \in Proc |-> "none"]
  /\ at = [p \in Proc |-> "idle"]
  /\ subject = [p \in Proc |-> NoTask]
  /\ thread = [c \in Caller |-> "off"]

-----------------------------------------------------------------------------
(* The journal.                                                              *)

Stopped == "stopped" \in journal

(* _decision_guard: evaluated in the transaction that appends the decision.  *)
MayDecide == journal \cap {"stopped", "authority_revocation_requested"} = {}

Record(kinds) == journal' = journal \cup kinds

Pending(t) == grant[t] \in {"pending", "approved"}

Accepted == {t \in Task : progress[t] = "accepted"}

Moves(p, place) == at' = [at EXCEPT ![p] = place]

Becomes(c, state) == thread' = [thread EXCEPT ![c] = state]

AllOff == [c \in Caller |-> "off"]

(* Leaving the controller context, by return or by exception: the pool has   *)
(* joined its threads and the lock is released.                              *)
Leave(p) ==
  /\ lock' = NoProc
  /\ op' = [op EXCEPT ![p] = "none"]
  /\ subject' = [subject EXCEPT ![p] = NoTask]
  /\ Moves(p, "idle")
  /\ thread' = AllOff

-----------------------------------------------------------------------------
(* Commands up to the controller lock.                                       *)

FirstPlace(c) == IF c \in {"cleanup", "revoke"} THEN "request" ELSE "lock"

Begin(p, c, t) ==
  /\ at[p] = "idle" /\ c \in Commands \ {"cancel"}
  /\ (t # NoTask) <=> c \in {"approve", "reject"}
  /\ op' = [op EXCEPT ![p] = c]
  /\ subject' = [subject EXCEPT ![p] = t]
  /\ Moves(p, FirstPlace(c))
  /\ UNCHANGED <<journal, clar, graph, attempt, open, env, lock, thread>>

(* cancel persists a stop and takes no lock.                                 *)
Cancel(p) ==
  /\ at[p] = "idle" /\ "cancel" \in Commands
  /\ Record({"stopped"})
  /\ UNCHANGED <<clar, graph, attempt, open, env, process, thread>>

(* Mutated form: cleanup of an unfinished Run that does not fence it.         *)
RequestCleanupUnfenced(p) ==
  /\ at[p] = "request" /\ op[p] = "cleanup"
  /\ Record({"cleanup_requested"})
  /\ Moves(p, "lock")
  /\ UNCHANGED <<clar, graph, attempt, open, env, lock, op, subject, thread>>

(* request_cleanup: one transaction, which fences unfinished work only.      *)
RequestCleanup(p) ==
  /\ at[p] = "request" /\ op[p] = "cleanup"
  /\ Record({"cleanup_requested"} \cup
            (IF journal \cap {"completed", "stopped"} = {} THEN {"stopped"} ELSE {}))
  /\ Moves(p, "lock")
  /\ UNCHANGED <<clar, graph, attempt, open, env, lock, op, subject, thread>>

(* revoke_authority: the stop, then the request, in two transactions.        *)
RevokeStop(p) ==
  /\ at[p] = "request" /\ op[p] = "revoke"
  /\ Record({"stopped"})
  /\ Moves(p, "request_revocation")
  /\ UNCHANGED <<clar, graph, attempt, open, env, lock, op, subject, thread>>

RevokeRequest(p) ==
  /\ at[p] = "request_revocation"
  /\ Record({"authority_revocation_requested"})
  /\ Moves(p, "lock")
  /\ UNCHANGED <<clar, graph, attempt, open, env, lock, op, subject, thread>>

(* What a command requires of the journal once it owns the lock.             *)
Admitted(p) ==
  CASE op[p] \in {"approve", "reject"} -> ~Stopped /\ Pending(subject[p])
    [] op[p] = "answer" -> clar = "wait" /\ "goal" \notin journal
    [] op[p] = "revise" -> journal \cap {"stopped", "uncertain"} = {}
    [] OTHER -> TRUE

(* Mutated form: continuation without reconciling the old environments.      *)
EntryPlaceUnreconciled(c) == IF c = "reject" THEN "rejected" ELSE "recover"

EntryPlace(c) == IF c = "reject" THEN "rejected" ELSE "reconcile"

TakeLock(p) ==
  /\ at[p] = "lock" /\ lock = NoProc /\ op[p] # "answer"
  /\ Admitted(p)
  /\ lock' = p
  /\ Moves(p, EntryPlace(op[p]))
  /\ grant' = IF op[p] = "reject" THEN [grant EXCEPT ![subject[p]] = "rejected"] ELSE grant
  /\ UNCHANGED <<journal, clar, graph, attempts, progress, open, env, op, subject, thread>>

(* RUN_ALREADY_OWNED, or the command is refused under the lock.              *)
Refused(p) ==
  /\ at[p] = "lock" /\ (lock # NoProc \/ ~Admitted(p))
  /\ op' = [op EXCEPT ![p] = "none"]
  /\ subject' = [subject EXCEPT ![p] = NoTask]
  /\ Moves(p, "idle")
  /\ UNCHANGED <<journal, clar, graph, attempt, open, env, lock, thread>>

Answer(p) ==
  /\ at[p] = "lock" /\ lock = NoProc /\ op[p] = "answer"
  /\ Admitted(p)
  /\ clar' = "answer"
  /\ op' = [op EXCEPT ![p] = "none"]
  /\ Moves(p, "idle")
  /\ UNCHANGED <<journal, graph, attempt, open, env, lock, subject, thread>>

-----------------------------------------------------------------------------
(* Under the lock, before the command's own work.                            *)

BodyPlace(c) ==
  CASE c = "execute" -> "dispatch"
    [] c \in {"cleanup", "revoke"} -> "confirm"
    [] c = "approve" -> "approve"
    [] c = "promote" -> "check"
    [] OTHER -> "supersede"                        \* revise

(* model.reconcile: every environment the Run's ledgers name is removed.     *)
Reconcile(p) ==
  /\ at[p] = "reconcile"
  /\ env' = [c \in Caller |-> "none"]
  /\ Moves(p, "recover")
  /\ UNCHANGED <<journal, clar, graph, attempt, open, lock, op, subject, thread>>

(* Mutated form: reservations are closed although reconciliation failed.     *)
ReconcileFailsAndRecovers(p) ==
  /\ at[p] = "reconcile"
  /\ open' = {}
  /\ Leave(p)
  /\ UNCHANGED <<journal, clar, graph, attempt, env>>

(* A removal that cannot be confirmed ends the command.                      *)
ReconcileFails(p) ==
  /\ at[p] = "reconcile"
  /\ Leave(p)
  /\ UNCHANGED <<journal, clar, graph, attempt, open, env>>

(* recover_reservations closes the calls a dead controller left open.        *)
RecoverReservations(p) ==
  /\ at[p] = "recover"
  /\ open' = {}
  /\ Moves(p, BodyPlace(op[p]))
  /\ UNCHANGED <<journal, clar, graph, attempt, env, lock, op, subject, thread>>

(* cleanup_confirmed and authority_revoked.                                  *)
Confirm(p) ==
  /\ at[p] = "confirm"
  /\ Record({IF op[p] = "cleanup" THEN "cleanup_confirmed" ELSE "authority_revoked"})
  /\ Leave(p)
  /\ UNCHANGED <<clar, graph, attempt, open, env>>

(* revise_goal: the successor and the predecessor's stop in one transaction. *)
Supersede(p) ==
  /\ at[p] = "supersede"
  /\ IF Stopped THEN UNCHANGED journal ELSE Record({"goal_superseded", "stopped"})
  /\ Leave(p)
  /\ UNCHANGED <<clar, graph, attempt, open, env>>

(* promote: the checks, the export, the event.                               *)
PromoteCheck(p) ==
  /\ at[p] = "check"
  /\ IF /\ journal \cap {"stopped", "uncertain", "authority_revoked"} = {}
        /\ "completed" \in journal
     THEN Moves(p, "export") /\ UNCHANGED <<lock, op, subject, thread>>
     ELSE Leave(p)
  /\ UNCHANGED <<journal, clar, graph, attempt, open, env>>

Export(p) ==
  /\ at[p] = "export"
  /\ \/ Moves(p, "record") /\ UNCHANGED <<lock, op, subject, thread>>
     \/ Leave(p)                                   \* DESTINATION_EXISTS and the like
  /\ UNCHANGED <<journal, clar, graph, attempt, open, env>>

(* promoted is not a decision: nothing is rechecked when it is appended.     *)
RecordPromotion(p) ==
  /\ at[p] = "record"
  /\ Record({"promoted"})
  /\ Leave(p)
  /\ UNCHANGED <<clar, graph, attempt, open, env>>

(* approve_authority after its checks: rejection is two appends.             *)
RejectStop(p) ==
  /\ at[p] = "rejected"
  /\ Record({"stopped"})
  /\ Leave(p)
  /\ UNCHANGED <<clar, graph, attempt, open, env>>

(* Mutated form: an approval that is taken for the application.              *)
ApproveAsApplied(p) ==
  /\ at[p] = "approve" /\ MayDecide
  /\ grant' = [grant EXCEPT ![subject[p]] = "applied"]
  /\ Leave(p)
  /\ UNCHANGED <<journal, clar, graph, attempts, progress, open, env>>

(* The decision to approve, refused behind a stop; the lease may be held by  *)
(* another Run, which leaves the grant approved and not applied.             *)
Approve(p) ==
  /\ at[p] = "approve"
  /\ IF MayDecide
     THEN /\ grant' = [grant EXCEPT ![subject[p]] = "approved"]
          /\ \/ Moves(p, "apply") /\ UNCHANGED <<lock, op, subject, thread>>
             \/ Leave(p)
     ELSE Leave(p) /\ UNCHANGED grant
  /\ UNCHANGED <<journal, clar, graph, attempts, progress, open, env>>

(* The reservation of the application, then a native session that checks it. *)
ReserveApplication(p) ==
  /\ at[p] = "apply"
  /\ IF MayDecide
     THEN /\ open' = open \cup {Main}
          /\ env' = [env EXCEPT ![Main] = "owned"]
          /\ Moves(p, "applying")
          /\ UNCHANGED <<lock, op, subject, thread>>
     ELSE Leave(p) /\ UNCHANGED <<open, env>>
  /\ UNCHANGED <<journal, clar, graph, attempt>>

(* The session ends: confirmed, refused, or its disposal left unconfirmed.   *)
ApplicationReturns(p) ==
  /\ at[p] = "applying"
  /\ open' = open \ {Main}
  /\ \/ /\ env' = [env EXCEPT ![Main] = "none"]
        /\ \/ Moves(p, "applied") /\ UNCHANGED <<lock, op, subject, thread>>
           \/ Leave(p)
     \/ env' = [env EXCEPT ![Main] = "stale"] /\ Leave(p)
  /\ UNCHANGED <<journal, clar, graph, attempt>>

RecordApplied(p) ==
  /\ at[p] = "applied"
  /\ grant' = IF MayDecide THEN [grant EXCEPT ![subject[p]] = "applied"] ELSE grant
  /\ Leave(p)
  /\ UNCHANGED <<journal, clar, graph, attempts, progress, open, env>>

-----------------------------------------------------------------------------
(* execute: the controller's own thread.                                     *)

(* A stage of the controller's own thread begins with a fresh invocation.    *)
Stage(p, place) ==
  /\ Moves(p, place)
  /\ Becomes(Main, IF place \in MainPlaces THEN "ready" ELSE "off")
  /\ UNCHANGED <<lock, op, subject>>

(* Mutated forms: an entry that overlooks an uncertain effect, and one that  *)
(* overlooks that the Run is completed.                                      *)
DispatchWithout(p, kind) ==
  /\ at[p] = "dispatch"
  /\ IF \/ (journal \ {kind}) \cap {"stopped", "completed", "uncertain"} # {}
        \/ clar = "wait"
        \/ \E t \in Task : Pending(t)
     THEN Leave(p)
     ELSE Stage(p, IF "goal" \notin journal THEN "goal"
                   ELSE IF plan = {} THEN "plan" ELSE "pool")
  /\ UNCHANGED <<journal, clar, graph, attempt, open, env>>

DispatchOverUncertain(p) == DispatchWithout(p, "uncertain")
DispatchOverCompleted(p) == DispatchWithout(p, "completed")

(* _execute: what the events found on entry allow.                           *)
Dispatch(p) ==
  /\ at[p] = "dispatch"
  /\ IF \/ journal \cap {"stopped", "completed", "uncertain"} # {}
        \/ clar = "wait"
        \/ \E t \in Task : Pending(t)
     THEN Leave(p)
     ELSE Stage(p, IF "goal" \notin journal THEN "goal"
                   ELSE IF plan = {} THEN "plan" ELSE "pool")
  /\ UNCHANGED <<journal, clar, graph, attempt, open, env>>

Settled(c) == open' = open \ {c} /\ UNCHANGED env

(* _clarify: a question and a goal are decisions; a rejection ends the call. *)
Clarified(p) ==
  /\ at[p] = "goal" /\ thread[Main] \in {"pass", "ask", "fail"} /\ MayDecide
  /\ Settled(Main)
  /\ \/ thread[Main] = "pass" /\ Record({"goal"}) /\ Stage(p, "plan") /\ UNCHANGED clar
     \/ thread[Main] = "ask" /\ clar' = "wait" /\ Leave(p) /\ UNCHANGED journal
     \/ thread[Main] = "fail" /\ Leave(p) /\ UNCHANGED <<journal, clar>>
  /\ UNCHANGED <<graph, attempt>>

Planned(p) ==
  /\ at[p] = "plan" /\ thread[Main] \in {"pass", "fail"} /\ MayDecide
  /\ Settled(Main)
  /\ \/ /\ thread[Main] = "pass"
        /\ plan' \in (SUBSET Task) \ {{}}
        /\ past' = plan'
        /\ Stage(p, "pool")
     \/ thread[Main] = "fail" /\ Leave(p) /\ UNCHANGED <<plan, past>>
  /\ UNCHANGED <<journal, clar, failed, replans, verified, attempt>>

(* The scheduler checks the Run and submits at most Concurrency tasks.       *)
Submit(p) ==
  /\ at[p] = "pool" /\ thread = AllOff /\ ~Stopped
  /\ \E batch \in SUBSET (plan \ Accepted) :
        /\ batch # {} /\ Cardinality(batch) <= Concurrency
        /\ thread' = [c \in Caller |-> IF c \in batch THEN "start" ELSE "off"]
  /\ UNCHANGED <<journal, clar, graph, attempt, open, env, process>>

(* The pool is left when every thread has ended.                             *)
Joined == thread # AllOff /\ \A c \in Caller : thread[c] \in Ended \cup {"off"}
Raising == {c \in Caller : thread[c] \in {"waiting", "stopped", "error"}}
Exhausted == {t \in Task : thread[t] = "exhausted"}

(* The first wait, stop or error leaves the controller; the exhausted tasks  *)
(* that completed before it are recorded.                                    *)
JoinRaises(p) ==
  /\ at[p] = "pool" /\ Joined /\ Raising # {}
  /\ \E seen \in SUBSET Exhausted : failed' = failed \cup seen
  /\ Leave(p)
  /\ UNCHANGED <<journal, clar, plan, past, replans, verified, attempt, open, env>>

(* Exhausted tasks call for a repair of the graph within the replan limit.   *)
JoinFails(p) ==
  /\ at[p] = "pool" /\ Joined /\ Raising = {} /\ Exhausted # {}
  /\ failed' = failed \cup Exhausted
  /\ IF replans < MaxReplans THEN Stage(p, "replan") ELSE Leave(p)
  /\ UNCHANGED <<journal, clar, plan, past, replans, verified, attempt, open, env>>

JoinAccepts(p) ==
  /\ at[p] = "pool" /\ Joined /\ Raising = {} /\ Exhausted = {}
  /\ thread' = AllOff
  /\ UNCHANGED <<journal, clar, graph, attempt, open, env, process>>

(* Every planned task is accepted: the Goal is verified.                     *)
ToVerification(p) ==
  /\ at[p] = "pool" /\ thread = AllOff
  /\ plan \subseteq Accepted
  /\ Stage(p, "verify")
  /\ UNCHANGED <<journal, clar, graph, attempt, open, env>>

PoolStopped(p) ==
  /\ at[p] = "pool" /\ thread = AllOff /\ Stopped
  /\ Leave(p)
  /\ UNCHANGED <<journal, clar, graph, attempt, open, env>>

(* The Goal-level verification event is a decision; a rejection calls for    *)
(* repair of the graph while the replan limit allows one.                    *)
GoalVerified(p) ==
  /\ at[p] = "verify" /\ thread[Main] \in {"pass", "fail"} /\ MayDecide
  /\ Settled(Main)
  /\ \/ thread[Main] = "pass" /\ verified' = plan /\ Stage(p, "complete")
     \/ /\ thread[Main] = "fail" /\ UNCHANGED verified
        /\ IF replans < MaxReplans THEN Stage(p, "replan") ELSE Leave(p)
  /\ UNCHANGED <<journal, clar, plan, past, failed, replans, attempt>>

(* _recover: the extension holds a new task and none that failed, keeps the  *)
(* tasks of history as they were, and execution starts over.                 *)
Replanned(p) ==
  /\ at[p] = "replan" /\ thread[Main] \in {"pass", "fail"} /\ MayDecide
  /\ Settled(Main)
  /\ \/ /\ thread[Main] = "pass"
        /\ plan' \in SUBSET (Task \ (failed \ Accepted))
        /\ plan' \ past # {}
        /\ past' = past \cup plan'
        /\ replans' = replans + 1
        /\ Moves(p, "dispatch") /\ thread' = AllOff
        /\ UNCHANGED <<lock, op, subject>>
     \/ thread[Main] = "fail" /\ Leave(p) /\ UNCHANGED <<plan, past, replans>>
  /\ UNCHANGED <<journal, clar, failed, verified, attempt>>

(* Mutated form: completion relies on the check before it.                   *)
CompleteUnguarded(p) ==
  /\ at[p] = "complete"
  /\ Record({"completed"})
  /\ Leave(p)
  /\ UNCHANGED <<clar, graph, attempt, open, env>>

Complete(p) ==
  /\ at[p] = "complete"
  /\ IF MayDecide THEN Record({"completed"}) ELSE UNCHANGED journal
  /\ Leave(p)
  /\ UNCHANGED <<clar, graph, attempt, open, env>>

(* The controller's own thread ended by a stop or an error.                  *)
MainEnds(p) ==
  /\ at[p] \in MainPlaces /\ thread[Main] \in {"stopped", "error"}
  /\ Leave(p)
  /\ UNCHANGED <<journal, clar, graph, attempt, open, env>>

-----------------------------------------------------------------------------
(* The threads of an executing controller: invocations and what they decide. *)

(* Mutated forms: a loop that allows one attempt too many, and a resume that *)
(* does not look for the result of the interrupted attempt.                  *)
StartAttempt(t, limit) ==
  /\ thread[t] = "start" /\ MayDecide
  /\ IF attempts[t] < limit
     THEN /\ attempts' = [attempts EXCEPT ![t] = @ + 1]
          /\ progress' = [progress EXCEPT ![t] = "none"]
          /\ Becomes(t, "ready")
          /\ UNCHANGED grant
     ELSE Becomes(t, "exhausted") /\ UNCHANGED attempt
  /\ UNCHANGED <<journal, clar, graph, open, env, process>>

StartTaskOnceMore(t) == StartAttempt(t, MaxAttempts + 1)
StartTaskAfresh(t) == StartAttempt(t, MaxAttempts)

(* _execute_task: a recorded result is verified, a recorded verification is  *)
(* accepted, and only otherwise is another attempt of the task started.      *)
StartTask(t) ==
  /\ thread[t] = "start" /\ MayDecide
  /\ CASE progress[t] = "worked" -> Becomes(t, "ready") /\ UNCHANGED attempt
       [] progress[t] = "verified" -> Becomes(t, "accept") /\ UNCHANGED attempt
       [] OTHER ->
            IF attempts[t] < MaxAttempts
            THEN /\ attempts' = [attempts EXCEPT ![t] = @ + 1]
                 /\ progress' = [progress EXCEPT ![t] = "none"]
                 /\ Becomes(t, "ready")
                 /\ UNCHANGED grant
            ELSE Becomes(t, "exhausted") /\ UNCHANGED attempt
  /\ UNCHANGED <<journal, clar, graph, open, env, process>>

(* Admission: Journal.reserve checks the Run again in its own transaction.   *)
Reserve(c) ==
  /\ thread[c] = "ready" /\ MayDecide
  /\ open' = open \cup {c}
  /\ Becomes(c, "reserved")
  /\ UNCHANGED <<journal, clar, graph, attempt, env, process>>

(* The preflight event is a decision; the session starts after it.           *)
Launch(c) ==
  /\ thread[c] = "reserved" /\ MayDecide
  /\ env' = [env EXCEPT ![c] = "owned"]
  /\ Becomes(c, "running")
  /\ UNCHANGED <<journal, clar, graph, attempt, open, process>>

(* ENVIRONMENT_UNAVAILABLE stops the Run.                                    *)
PreflightFails(c) ==
  /\ thread[c] = "reserved" /\ ~Stopped
  /\ Record({"stopped"})
  /\ UNCHANGED <<clar, graph, attempt, open, env, process, thread>>

Replies(c) ==
  IF c = Main
  THEN {"pass", "fail"} \cup (IF "goal" \in journal THEN {} ELSE {"ask"})
  ELSE IF progress[c] = "worked" THEN {"pass", "fail"}
       ELSE {"completed", "failed", "request", "uncertain", "limit"}

(* Mutated form: a session that waits for its approval instead of ending.    *)
ReturnHoldingSession(c, r) ==
  /\ thread[c] = "running" /\ r \in Replies(c)
  /\ env' = IF r = "request" THEN env ELSE [env EXCEPT ![c] = "none"]
  /\ Becomes(c, r)
  /\ UNCHANGED <<journal, clar, graph, attempt, open, process>>

(* The session returns an answer and its environment is gone.                *)
Return(c, r) ==
  /\ thread[c] = "running" /\ r \in Replies(c)
  /\ env' = [env EXCEPT ![c] = "none"]
  /\ Becomes(c, r)
  /\ UNCHANGED <<journal, clar, graph, attempt, open, process>>

(* The answer is unusable, a review asks for another, or the transport       *)
(* failed: the invocation is settled and the thread invokes again, within    *)
(* the revisions and retries of its stage.                                   *)
Retry(c) ==
  /\ thread[c] = "running"
  /\ env' = [env EXCEPT ![c] = "none"]
  /\ open' = open \ {c}
  /\ Becomes(c, "ready")
  /\ UNCHANGED <<journal, clar, graph, attempt, process>>

(* The session fails for good: retries used up, an adapter error, or a       *)
(* cancellation observed.  Its disposal may be left unconfirmed.             *)
Break(c) ==
  /\ thread[c] = "running"
  /\ \E rest \in {"none", "stale"} : env' = [env EXCEPT ![c] = rest]
  /\ open' = open \ {c}
  /\ \E end \in {"error"} \cup (IF Stopped THEN {"stopped"} ELSE {}) : Becomes(c, end)
  /\ UNCHANGED <<journal, clar, graph, attempt, process>>

(* Mutated form: a running session is not polled.                            *)
KillNothing(c) == FALSE /\ Break(c)

(* _cancelled: a running session is polled and ended by a stop.              *)
Kill(c) == Stopped /\ Break(c)

(* Mutated form: a refused preflight event does not unwind the thread.       *)
StopThreadUnlessReserved(c) ==
  /\ thread[c] \in {"start", "ready", "accept"} \cup Reply /\ ~MayDecide
  /\ Settled(c)
  /\ Becomes(c, "stopped")
  /\ UNCHANGED <<journal, clar, graph, attempt, process>>

(* A decision refused behind a stop: Stopped unwinds the thread, and the     *)
(* invocation is settled on the way.                                         *)
StopThread(c) ==
  /\ thread[c] \in {"start", "ready", "reserved", "accept"} \cup Reply /\ ~MayDecide
  /\ Settled(c)
  /\ Becomes(c, "stopped")
  /\ UNCHANGED <<journal, clar, graph, attempt, process>>

WorkerCompleted(t) ==
  /\ thread[t] = "completed" /\ MayDecide
  /\ Settled(t)
  /\ progress' = [progress EXCEPT ![t] = "worked"]
  /\ Becomes(t, "ready")
  /\ UNCHANGED <<journal, clar, graph, attempts, grant, process>>

Again(t) == Becomes(t, IF attempts[t] < MaxAttempts THEN "start" ELSE "exhausted")

WorkerFailed(t) ==
  /\ thread[t] = "failed" /\ MayDecide
  /\ Settled(t)
  /\ Again(t)
  /\ UNCHANGED <<journal, clar, graph, attempt, process>>

(* worker_result, authority_requested and approval_wait in one transaction.  *)
WorkerRequests(t) ==
  /\ thread[t] = "request" /\ MayDecide
  /\ Settled(t)
  /\ grant' = [grant EXCEPT ![t] = "pending"]
  /\ Becomes(t, "waiting")
  /\ UNCHANGED <<journal, clar, graph, attempts, progress, process>>

(* worker_result, then uncertain, in two transactions.                       *)
WorkerUncertain(t) ==
  /\ thread[t] = "uncertain" /\ MayDecide
  /\ Settled(t)
  /\ progress' = [progress EXCEPT ![t] = "doubt"]
  /\ Becomes(t, "doubt")
  /\ UNCHANGED <<journal, clar, graph, attempts, grant, process>>

RecordUncertain(t) ==
  /\ thread[t] = "doubt"
  /\ Record({"uncertain"})
  /\ Becomes(t, "waiting")
  /\ UNCHANGED <<clar, graph, attempt, open, env, process>>

(* usage_limit: the invocation is settled, then the Run is stopped.          *)
LimitSettled(t) ==
  /\ thread[t] = "limit" /\ MayDecide /\ t \in open
  /\ Settled(t)
  /\ UNCHANGED <<journal, clar, graph, attempt, process, thread>>

LimitStop(t) ==
  /\ thread[t] = "limit" /\ t \notin open
  /\ Record({"stopped"})
  /\ Becomes(t, "stopped")
  /\ UNCHANGED <<clar, graph, attempt, open, env, process>>

(* The task-level verification event.                                        *)
TaskVerified(t) ==
  /\ thread[t] \in {"pass", "fail"} /\ MayDecide
  /\ Settled(t)
  /\ IF thread[t] = "pass"
     THEN progress' = [progress EXCEPT ![t] = "verified"] /\ Becomes(t, "accept")
     ELSE progress' = [progress EXCEPT ![t] = "none"] /\ Again(t)
  /\ UNCHANGED <<journal, clar, graph, attempts, grant, process>>

AcceptTask(t) ==
  /\ thread[t] = "accept" /\ MayDecide
  /\ progress' = [progress EXCEPT ![t] = "accepted"]
  /\ Becomes(t, "ok")
  /\ UNCHANGED <<journal, clar, graph, attempts, grant, open, env, process>>

-----------------------------------------------------------------------------
(* What happens to a controller and around it.                               *)

(* A check finds a budget exhausted, a provider limit is observed in the     *)
(* stream, a reservation is refused, or the operator interrupts the process. *)
ControllerStops(p) ==
  /\ op[p] \in {"execute", "approve"} /\ lock = p /\ ~Stopped
  /\ Record({"stopped"})
  /\ UNCHANGED <<clar, graph, attempt, open, env, process, thread>>

(* The process dies: its lock goes with it, its environments stay behind.    *)
Crash(p) ==
  /\ at[p] # "idle"
  /\ IF lock = p
     THEN /\ Leave(p)
          /\ env' = [c \in Caller |-> IF env[c] = "owned" THEN "orphan" ELSE env[c]]
     ELSE /\ op' = [op EXCEPT ![p] = "none"]
          /\ subject' = [subject EXCEPT ![p] = NoTask]
          /\ Moves(p, "idle")
          /\ UNCHANGED <<lock, thread, env>>
  /\ UNCHANGED <<journal, clar, graph, attempt, open>>

(* The ownership watcher removes what its owner left behind.                 *)
WatcherRemoves(c) ==
  /\ env[c] \in {"orphan", "stale"}
  /\ env' = [env EXCEPT ![c] = "none"]
  /\ UNCHANGED <<journal, clar, graph, attempt, open, process, thread>>

CommandStep(p) ==
  \/ RequestCleanup(p) \/ RevokeStop(p) \/ RevokeRequest(p)
  \/ TakeLock(p) \/ Refused(p) \/ Answer(p)
  \/ Reconcile(p) \/ ReconcileFails(p) \/ RecoverReservations(p)
  \/ Confirm(p) \/ Supersede(p)
  \/ PromoteCheck(p) \/ Export(p) \/ RecordPromotion(p)
  \/ RejectStop(p) \/ Approve(p) \/ ReserveApplication(p)
  \/ ApplicationReturns(p) \/ RecordApplied(p)

ExecuteStep(p) ==
  \/ Dispatch(p) \/ Clarified(p) \/ Planned(p)
  \/ Submit(p) \/ JoinRaises(p) \/ JoinFails(p) \/ JoinAccepts(p)
  \/ ToVerification(p) \/ PoolStopped(p) \/ GoalVerified(p)
  \/ Replanned(p) \/ Complete(p) \/ MainEnds(p)

TaskStep(t) ==
  \/ StartTask(t) \/ WorkerCompleted(t) \/ WorkerFailed(t)
  \/ WorkerRequests(t) \/ WorkerUncertain(t) \/ RecordUncertain(t)
  \/ LimitSettled(t) \/ LimitStop(t) \/ TaskVerified(t) \/ AcceptTask(t)

InvocationStep(c) == Reserve(c) \/ Launch(c) \/ Kill(c) \/ StopThread(c)

(* What nobody is obliged to do: a command, an answer of a model without a   *)
(* time limit, a failure.                                                    *)
Environment ==
  \/ \E p \in Proc : \/ \E c \in Commands, t \in Task \cup {NoTask} : Begin(p, c, t)
                    \/ Cancel(p) \/ ControllerStops(p) \/ Crash(p)
  \/ \E c \in Caller : \/ \E r \in Reply : Return(c, r)
                      \/ Retry(c) \/ Break(c) \/ PreflightFails(c)

Next ==
  \/ \E p \in Proc : CommandStep(p) \/ ExecuteStep(p)
  \/ \E t \in Task : TaskStep(t)
  \/ \E c \in Caller : InvocationStep(c) \/ WatcherRemoves(c)
  \/ Environment

Spec == Init /\ [][Next]_vars

(* A live process, its threads and the watcher keep running; operators,      *)
(* models and failures are under no obligation.                              *)
Fairness ==
  /\ \A p \in Proc : WF_vars(CommandStep(p)) /\ WF_vars(ExecuteStep(p))
  /\ \A t \in Task : WF_vars(TaskStep(t))
  /\ \A c \in Caller : WF_vars(InvocationStep(c)) /\ WF_vars(WatcherRemoves(c))

FairSpec == Spec /\ Fairness

-----------------------------------------------------------------------------
(* Safety.                                                                   *)

(* A completed Run is finished business: every task of its plan is accepted, *)
(* the Goal was verified for exactly that plan, and no effect is uncertain,  *)
(* no question and no authority request is open (_execute, _completion).     *)
CompletionIsSound ==
  "completed" \in journal =>
    /\ plan # {} /\ plan \subseteq Accepted /\ verified = plan
    /\ "uncertain" \notin journal /\ clar # "wait"
    /\ \A t \in Task : ~Pending(t)

(* Once cleanup or revocation is reported as confirmed, no environment of    *)
(* the Run exists and no reservation is open, then and for ever after.       *)
ConfirmedMeansQuiet ==
  journal \cap {"cleanup_confirmed", "authority_revoked"} # {} =>
    open = {} /\ \A c \in Caller : env[c] = "none"

(* An environment a dead controller left behind is still charged: its        *)
(* reservation stays open until reconciliation has removed the environment.  *)
OrphansAreCharged == \A c \in Caller : env[c] = "orphan" => c \in open

(* No session starts beside an environment of an earlier controller: while   *)
(* an orphan exists no thread runs and no authority is being applied.        *)
NoSessionBesideOrphans ==
  (\E c \in Caller : env[c] = "orphan") =>
    /\ \A c \in Caller : env[c] # "owned"
    /\ thread = AllOff

(* While a request for authority is undecided, no worker session of its task *)
(* is alive: the grant cannot change under a running worker.                 *)
NoWorkerWhilePending ==
  \A t \in Task : Pending(t) => env[t] # "owned" /\ env[t] # "orphan"

(* What a Run has decided.                                                   *)
Granted == {t \in Task : grant[t] \in {"approved", "applied"}}
Decided ==
  <<journal \cap {"goal", "completed"}, plan, verified, attempts, progress, Granted>>

(* After a stop nothing is decided any more, whatever was in flight when the *)
(* stop landed (_decision_guard).                                            *)
NothingDecidedAfterStop == [][Stopped => UNCHANGED Decided]_vars

(* A grant is applied only from an approval, by a command that holds the     *)
(* lock while no session of the Run is alive.                                *)
AppliedAfterApproval ==
  [][\A t \in Task :
       grant[t] # "applied" /\ grant'[t] = "applied" =>
         grant[t] = "approved" /\ \A c \in Caller : env[c] \notin {"owned", "orphan"}]_vars

(* A task whose worker result is recorded as completed is not run again      *)
(* unless its verification failed: crashes repeat no finished work.          *)
NoRepeatedWork ==
  [][\A t \in Task :
       attempts'[t] # attempts[t] => progress[t] \notin {"worked", "verified", "accepted"}]_vars

(* The promise to the operator (RunOutcome).                                 *)
Promise == INSTANCE RunOutcome WITH
  outcome <- IF "completed" \in journal THEN "completed" ELSE "open",
  fenced <- Stopped,
  busy <- open # {} \/ \E c \in Caller : env[c] # "none",
  confirmed <- journal \cap {"cleanup_confirmed", "authority_revoked"} # {}

PromiseKept == Promise!Spec

-----------------------------------------------------------------------------
(* Liveness, of FairSpec.                                                    *)

(* After a stop every environment of the Run disappears for good, even when  *)
(* controllers die: threads observe the stop, the watcher removes the rest.  *)
StopQuiesces == Stopped ~> [](\A c \in Caller : env[c] = "none")

(* After a stop whoever owns the Run lets it go, so that the command that    *)
(* confirms the cleanup can have the lock.                                   *)
StopFreesLock == \A p \in Proc : (Stopped /\ lock = p) ~> lock # p

-----------------------------------------------------------------------------
(* What the documents say and the code does not ensure.                      *)

(* docs/run-interface.md: promotion refuses stopped Runs.                    *)
PromotedOnlyUnstopped ==
  [][Stopped /\ "promoted" \notin journal => "promoted" \notin journal']_vars

(* docs/autonomous-runtime.md: rejection is a durable state, as cancellation *)
(* is: a Run with a rejected request takes no further step of its own.       *)
RejectionIsFinal ==
  [][(\E t \in Task : grant[t] = "rejected") => UNCHANGED Decided]_vars

(* semantics.py: a worker that reports an uncertain outcome makes the Run    *)
(* record durable uncertainty and wait; the attempt is not repeated.         *)
NoRetryAfterDoubt ==
  [][\A t \in Task : attempts'[t] # attempts[t] => progress[t] # "doubt"]_vars
=============================================================================
