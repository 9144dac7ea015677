---------------------------- MODULE IsolatedWork ----------------------------
(* One worker invocation in its container: the probe and the model session,  *)
(* each under a guard that must stop every task process before it reports,   *)
(* the stop and survey of the container before its workspace is packed, the  *)
(* replacement of the workspace of the attempt, and the partial workspace    *)
(* that is kept of an invocation that failed (isolated_worker.py,            *)
(* native_process_guard.py, container.py and _retain_partial).               *)
(*                                                                           *)
(* The kernel is as unhelpful as it may be: a process that is being killed   *)
(* may finish the write or the fork it is in.  A tree is the number of       *)
(* writes it has in it.  "Cancelled" is a cancel, a deadline that passed or  *)
(* a lost ownership watcher, whichever the controller polls.                 *)

EXTENDS Integers

CONSTANTS
  Proc,      \* task processes: pids of the worker's user, none used twice
  Guard,     \* the supervisor, and
  PidOne,    \* the first process of the container, as parents
  MaxWrites  \* bound: writes to the workspace in the container

ASSUME WorkAssumption == Guard \notin Proc /\ PidOne \notin Proc /\ Guard # PidOne
                         /\ MaxWrites \in Nat

VARIABLES
  state,       \* of a process
  parent,      \* who is told of its end
  root,        \* the child the guard started
  guard,       \* where the guard stands
  report,      \* whether its report confirms the cleanup
  written,     \* the workspace in the container
  container,   \* "up", "lost", or "removed" by the controller
  ctl,         \* where the controller stands
  phase,       \* candidate.phase
  completion,  \* native_completion confirms the cleanup
  returned,    \* workspace_returned, a fact of the execution
  aim,         \* what the copy is for: the workspace or a partial one
  packed,      \* what was packed last
  local,       \* the workspace of the attempt
  partial,     \* the outcome of the partial extraction
  extracted,   \* the tree the engine made of it
  cancelled,
  error,       \* an exception is on its way out
  artifact     \* the partial_artifact event, and the result of the invocation

kernel == <<state, parent, root>>
inside == <<kernel, guard, report, written>>
facts == <<phase, completion, returned>>
copies == <<aim, packed, local, partial, extracted>>
vars == <<inside, container, ctl, facts, copies, cancelled, error, artifact>>

Base == -1
Torn == -2
None == -3
Tree == Nat \cup {Base, Torn, None}

Process == {"unborn", "alive", "killed", "zombie", "gone"}
Living == {p \in Proc : state[p] \in {"alive", "killed"}}
Known == {p \in Proc : state[p] \in {"alive", "killed", "zombie"}}
Active == {"waiting", "ending", "asking", "reporting"}
Place == {"begin", "prepare", "running", "reading", "examine", "stop", "survey", "pack",
          "transfer", "clear", "fill", "keep", "failing", "dispose", "result", "over"}
Status == {"none", "unavailable", "capture_failed"}
Final == {"saved", "returned"}

TypeOK ==
  /\ state \in [Proc -> Process] /\ parent \in [Proc -> Proc \cup {Guard, PidOne}]
  /\ root \in Proc \cup {PidOne}
  /\ guard \in Active \cup {"none", "over", "dead"}
  /\ report \in BOOLEAN /\ written \in 0..MaxWrites
  /\ container \in {"up", "lost", "removed"}
  /\ ctl \in Place /\ phase \in {"setup", "probe", "model"} /\ completion \in BOOLEAN
  /\ returned \in {"unset", "no", "yes"} /\ aim \in {"workspace", "partial"}
  /\ packed \in Tree /\ local \in Tree \ {None} /\ extracted \in Tree
  /\ partial \in {"none", "ready", "unavailable", "capture_failed"}
  /\ cancelled \in BOOLEAN /\ error \in BOOLEAN
  /\ artifact \in [status: Final, tree: Tree \ {None}] \cup [status: Status, tree: {None}]

Init ==
  /\ state = [p \in Proc |-> "unborn"] /\ parent = [p \in Proc |-> PidOne] /\ root = PidOne
  /\ guard = "none" /\ report = FALSE /\ written = 0 /\ container = "up"
  /\ ctl = "begin" /\ phase = "setup" /\ completion = FALSE /\ returned = "unset"
  /\ aim = "workspace" /\ packed = None /\ local = Base /\ partial = "none"
  /\ extracted = None /\ cancelled = FALSE /\ error = FALSE
  /\ artifact = [status |-> "none", tree |-> None]

-----------------------------------------------------------------------------
(* The container: task processes and the kernel.                             *)

outside == <<container, ctl, facts, copies, cancelled, error, artifact>>

Fork(p, q) ==
  /\ p \in Living /\ state[q] = "unborn"
  /\ state' = [state EXCEPT ![q] = "alive"] /\ parent' = [parent EXCEPT ![q] = p]
  /\ UNCHANGED <<root, guard, report, written, outside>>

Write(p) ==
  /\ p \in Living /\ written < MaxWrites
  /\ written' = written + 1
  /\ UNCHANGED <<kernel, guard, report, outside>>

(* The guard adopts what loses its parent; the first process does when the   *)
(* guard is no more.                                                         *)
Heir == IF guard \in Active THEN Guard ELSE PidOne

Die(p) ==
  /\ p \in Living
  /\ state' = [state EXCEPT ![p] = "zombie"]
  /\ parent' = [q \in Proc |-> IF parent[q] = p THEN Heir ELSE parent[q]]
  /\ UNCHANGED <<root, guard, report, written, outside>>

(* A task process, or the first process, asks for its dead child.            *)
Reap(p) ==
  /\ state[p] = "zombie" /\ parent[p] # Guard
  /\ state' = [state EXCEPT ![p] = "gone"]
  /\ UNCHANGED <<parent, root, guard, report, written, outside>>

Killed == [p \in Proc |-> IF state[p] = "alive" THEN "killed" ELSE state[p]]

-----------------------------------------------------------------------------
(* The guard.                                                                *)

Child == {p \in Known : parent[p] = Guard}

(* waitpid of the process it started.                                        *)
RootEnds ==
  /\ guard = "waiting" /\ state[root] = "zombie"
  /\ state' = [state EXCEPT ![root] = "gone"] /\ guard' = "ending"
  /\ UNCHANGED <<parent, root, report, written, outside>>

(* kill(-1, SIGKILL)                                                         *)
Terminate ==
  /\ guard = "ending"
  /\ state' = Killed /\ guard' = "asking"
  /\ UNCHANGED <<parent, root, report, written, outside>>

(* Mutated form: one signal is thought to reach everything.                  *)
AskPatiently ==
  /\ guard = "asking"
  /\ \/ \E p \in Child : state[p] = "zombie" /\ state' = [state EXCEPT ![p] = "gone"]
        /\ guard' = guard
     \/ Child = {} /\ guard' = "reporting" /\ UNCHANGED state
  /\ UNCHANGED <<parent, root, report, written, outside>>

(* Mutated form: the process it started is all the guard waits for.          *)
AskOnce ==
  /\ guard = "asking"
  /\ guard' = "reporting"
  /\ UNCHANGED <<kernel, report, written, outside>>

(* waitpid(-1, WNOHANG): a child that is dead, children that still live, or  *)
(* no child at all.                                                          *)
Ask ==
  /\ guard = "asking"
  /\ \/ \E p \in Child : state[p] = "zombie" /\ state' = [state EXCEPT ![p] = "gone"]
        /\ guard' = guard
     \/ /\ Child # {} /\ \A p \in Child : state[p] # "zombie"
        /\ guard' = "ending" /\ UNCHANGED state
     \/ Child = {} /\ guard' = "reporting" /\ UNCHANGED state
  /\ UNCHANGED <<parent, root, report, written, outside>>

Report ==
  /\ guard = "reporting"
  /\ report' = TRUE /\ guard' = "over"
  /\ UNCHANGED <<kernel, written, outside>>

GuardDies ==
  /\ guard \in Active
  /\ guard' = "dead"
  /\ parent' = [p \in Proc |-> IF parent[p] = Guard THEN PidOne ELSE parent[p]]
  /\ UNCHANGED <<state, root, report, written, outside>>

(* The container is no more, and nothing in it.                              *)
Destroyed ==
  /\ state' = [p \in Proc |-> IF state[p] = "unborn" THEN "unborn" ELSE "gone"]
  /\ guard' = IF guard \in Active THEN "dead" ELSE guard
  /\ UNCHANGED <<parent, root, report, written>>

Vanish ==
  /\ container = "up"
  /\ container' = "lost" /\ Destroyed
  /\ UNCHANGED <<ctl, facts, copies, cancelled, error, artifact>>

Cancel ==
  /\ ~cancelled /\ ctl # "over"
  /\ cancelled' = TRUE
  /\ UNCHANGED <<inside, container, ctl, facts, copies, error, artifact>>

-----------------------------------------------------------------------------
(* The controller: guarded executions.                                       *)

Goto(place) == ctl' = place

(* close: the container is removed, or its removal is not confirmed.         *)
Close ==
  \/ container' = "removed" /\ Destroyed
  \/ UNCHANGED <<inside, container>>

(* An exception, with what a failed Docker call leaves of the container; in  *)
(* the extraction of a partial workspace it is not the first one.            *)
Raise ==
  /\ Close /\ error' = TRUE
  /\ IF aim = "partial"
     THEN partial' = "capture_failed" /\ Goto("dispose")
     ELSE partial' = partial /\ Goto("failing")
  /\ UNCHANGED <<facts, aim, packed, local, extracted, cancelled, artifact>>

(* Mutated form: what is known of the probe is kept for the model.           *)
BeginKeeping ==
  /\ ctl = "begin"
  /\ phase' = IF phase = "setup" THEN "probe" ELSE "model"
  /\ Goto("prepare")
  /\ UNCHANGED <<inside, container, completion, returned, copies, cancelled, error, artifact>>

(* begin_execution, of the probe and then of the model session.              *)
Begin ==
  /\ ctl = "begin"
  /\ phase' = IF phase = "setup" THEN "probe" ELSE "model"
  /\ completion' = FALSE /\ returned' = "unset"
  /\ Goto("prepare")
  /\ UNCHANGED <<inside, container, copies, cancelled, error, artifact>>

(* A report file of its own, and the guard with its first child.             *)
Launch(p) ==
  /\ ctl = "prepare" /\ container = "up" /\ ~cancelled
  /\ state[p] = "unborn"
  /\ state' = [state EXCEPT ![p] = "alive"] /\ parent' = [parent EXCEPT ![p] = Guard]
  /\ root' = p /\ guard' = "waiting" /\ report' = FALSE
  /\ Goto("running")
  /\ UNCHANGED <<written, container, facts, copies, cancelled, error, artifact>>

(* The output has ended and the guard with it.                               *)
RunReturns ==
  /\ ctl = "running" /\ guard \in {"over", "dead"}
  /\ IF guard = "over" THEN Goto("reading") /\ error' = error
                       ELSE Goto("failing") /\ error' = TRUE
  /\ UNCHANGED <<inside, container, facts, copies, cancelled, artifact>>

(* A quota line, the output limit, an exception of an observer.              *)
RunInterrupted == ctl = "running" /\ Raise

(* Mutated form: only an execution with a timeout of its own polls.          *)
RunCancelledOfProbe == ctl = "running" /\ phase = "probe" /\ cancelled /\ Raise

RunCancelled == ctl = "running" /\ cancelled /\ Raise

ReadReport ==
  /\ ctl = "reading" /\ container = "up" /\ report
  /\ completion' = TRUE /\ Goto("examine")
  /\ UNCHANGED <<inside, container, phase, returned, copies, cancelled, error, artifact>>

(* Mutated form: the workspace is marked as returned when its copy begins.   *)
ExamineEarly ==
  /\ ctl = "examine"
  /\ IF phase = "probe"
     THEN Goto("begin") /\ UNCHANGED returned
     ELSE Goto("stop") /\ returned' = "yes"
  /\ UNCHANGED <<inside, container, phase, completion, copies, cancelled, error, artifact>>

(* The exit code and the response are good; else an exception (Fails).       *)
Examine ==
  /\ ctl = "examine"
  /\ IF phase = "probe"
     THEN Goto("begin") /\ UNCHANGED returned
     ELSE Goto("stop") /\ returned' = "no"
  /\ UNCHANGED <<inside, container, phase, completion, copies, cancelled, error, artifact>>

-----------------------------------------------------------------------------
(* The controller: _copy_workspace.                                          *)

(* quiesce: every process of the worker's user is signalled ...              *)
Stop ==
  /\ ctl = "stop" /\ container = "up"
  /\ state' = Killed
  /\ Goto("survey")
  /\ UNCHANGED <<parent, root, guard, report, written, container, facts, copies, cancelled,
                 error, artifact>>

(* ... and none may be left in /proc; one that is left fails the call.       *)
Survey ==
  /\ ctl = "survey" /\ container = "up" /\ Known = {}
  /\ Goto("pack")
  /\ UNCHANGED <<inside, container, facts, copies, cancelled, error, artifact>>

Pack ==
  /\ ctl = "pack" /\ container = "up"
  /\ packed' = written
  /\ Goto("transfer")
  /\ UNCHANGED <<inside, container, facts, aim, local, partial, extracted, cancelled, error,
                 artifact>>

(* The archive and the identity of its tree are valid; what follows replaces *)
(* the workspace, or hands a partial one to the engine.                      *)
Transfer ==
  /\ ctl = "transfer"
  /\ Goto(IF aim = "partial" THEN "keep" ELSE "clear")
  /\ UNCHANGED <<inside, container, facts, copies, cancelled, error, artifact>>

Clear ==
  /\ ctl = "clear"
  /\ local' = Torn
  /\ Goto("fill")
  /\ UNCHANGED <<inside, container, facts, aim, packed, partial, extracted, cancelled, error,
                 artifact>>

Fill ==
  /\ ctl = "fill"
  /\ local' = packed /\ returned' = "yes"
  /\ Goto("dispose")
  /\ UNCHANGED <<inside, container, phase, completion, aim, packed, partial, extracted,
                 cancelled, error, artifact>>

(* Every call above may fail, also because the container is lost, a process  *)
(* is left, or the exit code or the response is bad.                         *)
Fails ==
  /\ ctl \in {"begin", "prepare", "reading", "examine", "stop", "survey", "pack", "transfer",
              "clear", "fill"}
  /\ Raise

-----------------------------------------------------------------------------
(* The controller: a partial workspace, the end of the container.            *)

(* retention_status                                                          *)
Eligible == completion /\ container # "removed" /\ ~cancelled

(* _retain_workspace, while the container still exists.                      *)
Retain ==
  /\ ctl = "failing"
  /\ IF phase # "model" \/ returned # "unset" \/ ~Eligible
     THEN /\ partial' = IF phase = "model" /\ returned = "yes" THEN "ready"
                        ELSE IF phase = "model" /\ returned = "no" THEN "capture_failed"
                        ELSE "unavailable"
          /\ Goto("dispose") /\ UNCHANGED aim
     ELSE aim' = "partial" /\ Goto("stop") /\ UNCHANGED partial
  /\ UNCHANGED <<inside, container, facts, packed, local, extracted, cancelled, error, artifact>>

(* The engine stores the extracted tree at once, or cannot.                  *)
Keep ==
  /\ ctl = "keep"
  /\ \/ Eligible /\ extracted' = packed /\ partial' = "ready"
     \/ extracted' = extracted /\ partial' = "capture_failed"
  /\ Goto("dispose")
  /\ UNCHANGED <<inside, container, facts, aim, packed, local, cancelled, error, artifact>>

(* The environment is closed on every path; that may fail.                   *)
Dispose ==
  /\ ctl = "dispose"
  /\ Close
  /\ error' \in {TRUE, error}
  /\ Goto("result")
  /\ UNCHANGED <<facts, copies, cancelled, artifact>>

(* _invoke: the response may be refused after all.                           *)
Refuse ==
  /\ ctl = "result" /\ ~error
  /\ error' = TRUE
  /\ UNCHANGED <<inside, container, ctl, facts, copies, cancelled, artifact>>

Return ==
  /\ ctl = "result" /\ ~error
  /\ artifact' = [status |-> "returned", tree |-> local]
  /\ Goto("over")
  /\ UNCHANGED <<inside, container, facts, copies, cancelled, error>>

(* _retain_partial: the extracted tree, or a capture of the workspace that   *)
(* was returned; either may fail.                                            *)
Ready == partial = "ready" \/ (partial = "none" /\ returned = "yes")
RetainPartial ==
  /\ ctl = "result" /\ error
  /\ artifact' \in
       IF Ready /\ phase = "model" /\ completion
       THEN {[status |-> "saved", tree |-> IF aim = "partial" THEN extracted ELSE local],
             [status |-> "capture_failed", tree |-> None]}
       ELSE {[status |-> IF partial = "capture_failed" THEN partial ELSE "unavailable",
              tree |-> None]}
  /\ Goto("over")
  /\ UNCHANGED <<inside, container, facts, copies, cancelled, error>>

-----------------------------------------------------------------------------
Supervise == RootEnds \/ Terminate \/ Ask \/ Report

Control ==
  \/ Begin \/ RunReturns \/ RunCancelled \/ ReadReport \/ Examine \/ Stop \/ Survey \/ Pack
  \/ Transfer \/ Clear \/ Fill \/ Fails \/ Retain \/ Keep \/ Dispose \/ Refuse \/ Return
  \/ RetainPartial \/ \E p \in Proc : Launch(p)

Next ==
  \/ Supervise \/ Control \/ GuardDies \/ Vanish \/ Cancel \/ RunInterrupted
  \/ \E p \in Proc : Write(p) \/ Die(p) \/ Reap(p) \/ \E q \in Proc : Fork(p, q)

(* The guard and the controller go on, and what was killed ends.  Nothing    *)
(* makes a task process end by itself.                                       *)
Fairness ==
  /\ WF_vars(Supervise) /\ WF_vars(Control)
  /\ \A p \in Proc : WF_vars(Die(p) /\ state[p] = "killed")

Spec == Init /\ [][Next]_vars
FairSpec == Spec /\ Fairness

-----------------------------------------------------------------------------
(* Properties.                                                               *)

(* run_guarded, begin_execution: while the controller holds a completion no  *)
(* task process lives, detached descendants included; that of the probe says *)
(* nothing of the model session that follows.                                *)
ConfirmedMeansStopped == completion => Living = {}

(* native_process_guard: no process writes after the report, whatever it     *)
(* forked and whoever its parent was.                                        *)
NothingWrittenAfterReport == [][report /\ report' => written' = written]_vars

(* _copy_workspace, _retain_partial: what an invocation returns or leaves as *)
(* a partial artifact is the last state of the workspace of its model        *)
(* session, never the baseline, a probe's, an older or a mixed one.          *)
WorkIsWhole ==
  artifact.status \in Final => phase = "model" /\ artifact.tree = written

(* What the engine is promised (WorkerInvocation): one workspace at most,    *)
(* whole, of the model session, handed over when its processes are known to  *)
(* have stopped, and final (run_guarded, _copy_workspace, _retain_partial).  *)
Invocation == INSTANCE WorkerInvocation WITH
  NoTree <- None, session <- phase, stopped <- completion, workspace <- written,
  outcome <- artifact
InvocationKept == Invocation!Spec

(* The guard ends what outlives its child, also when something escapes the   *)
(* first signals.                                                            *)
GuardEnds == guard \in {"ending", "asking", "reporting"} ~> guard \in {"over", "dead"}

(* A cancel ends the invocation, although the model session would not.       *)
CancelEnds == cancelled ~> ctl = "over"

=============================================================================
