-------------------------- MODULE ExternalEffects ---------------------------
(* Tasks with external-write authority: their attempts, the coarse leases    *)
(* that serialize overlapping grants across Runs, and the uncertainty a Run  *)
(* records when it cannot tell what an attempt did (_execute_task, _invoke,  *)
(* _transport_retry, acquire_resources, release_resources).                  *)
(*                                                                           *)
(* A unit is one task of one Run.  Controllers die, Runs are cancelled, and  *)
(* a worker ends in every way its invocation can end.                        *)

EXTENDS Naturals, FiniteSets

CONSTANTS
  Run,
  Unit,          \* (run, task) pairs
  RunOf,         \* the Run a unit belongs to
  Overlaps,      \* pairs of units whose grants name a common host
  External,      \* units planned with external-write authority
  TaskAttempts   \* limits.task_attempts

ASSUME EffectsAssumption ==
  /\ RunOf \in [Unit -> Run]
  /\ Overlaps \subseteq Unit \X Unit
  /\ \A u, v \in Unit : <<u, v>> \in Overlaps => <<v, u>> \in Overlaps
  /\ External \subseteq Unit
  /\ TaskAttempts \in Nat \ {0}

VARIABLES
  stopped,    \* Runs with a stopped event
  uncertain,  \* Runs with an uncertain event
  doubted,    \* units an uncertain event is about
  controller, \* of each Run: "up", "exited" (it left by itself) or "died"
  leases,     \* rows of resource_leases
  external,   \* units whose current authority writes externally
  request,    \* the authority request of a unit's last attempt
  tries,      \* attempt_started events of a unit
  wrote,      \* whether the last attempt was granted external writes
  last,       \* what the journal says of the last attempt
  thread,     \* the unit's thread in its Run's controller
  launches,   \* external sessions ever started for a unit (history)
  effect      \* what is known of the unit's external effect (history)

runVars == <<stopped, uncertain, doubted, controller>>
grantVars == <<leases, external, request>>
attemptVars == <<tries, wrote, last>>
history == <<launches, effect>>
vars == <<runVars, grantVars, attemptVars, thread, history>>

Last == {"none", "started", "failed", "requested", "reported", "completed", "accepted"}
Ended == {"waiting", "ended", "error", "exhausted", "done"}
ThreadState ==
  {"off", "acquired", "loop", "invoke", "running", "doubtful", "limited", "verify",
   "accepted"} \cup Ended

TypeOK ==
  /\ stopped \subseteq Run /\ uncertain \subseteq Run /\ doubted \subseteq Unit
  /\ controller \in [Run -> {"up", "exited", "died"}]
  /\ leases \subseteq Unit /\ external \subseteq Unit
  /\ request \in [Unit -> {"none", "pending", "leased"}]
  /\ tries \in [Unit -> 0..TaskAttempts]
  /\ wrote \in [Unit -> BOOLEAN]
  /\ last \in [Unit -> Last]
  /\ thread \in [Unit -> ThreadState]
  /\ launches \in [Unit -> Nat]
  /\ effect \in [Unit -> {"none", "unknown", "known"}]

Init ==
  /\ stopped = {} /\ uncertain = {} /\ doubted = {}
  /\ controller = [r \in Run |-> "exited"]
  /\ leases = {} /\ external = External
  /\ request = [u \in Unit |-> "none"]
  /\ tries = [u \in Unit |-> 0]
  /\ wrote = [u \in Unit |-> FALSE]
  /\ last = [u \in Unit |-> "none"]
  /\ thread = [u \in Unit |-> "off"]
  /\ launches = [u \in Unit |-> 0]
  /\ effect = [u \in Unit |-> "none"]

Units(r) == {u \in Unit : RunOf[u] = r}
MayDecide(u) == RunOf[u] \notin stopped
Becomes(u, state) == thread' = [thread EXCEPT ![u] = state]

(* The uncertain event: appended whatever else the journal says.             *)
Doubt(u) == uncertain' = uncertain \cup {RunOf[u]} /\ doubted' = doubted \cup {u}

(* acquire_resources: refused while another unit holds an overlapping grant. *)
Free(u) == \A v \in leases : v # u => <<u, v>> \notin Overlaps

-----------------------------------------------------------------------------
(* The Run's controller.                                                     *)

(* Mutated form: execution continues with an uncertain effect.               *)
ResumeOverUncertain(r) ==
  /\ controller[r] # "up" /\ r \notin stopped
  /\ \A u \in Units(r) : request[u] = "none"
  /\ controller' = [controller EXCEPT ![r] = "up"]
  /\ leases' = leases \ {u \in Units(r) : last[u] = "accepted"}
  /\ UNCHANGED <<stopped, uncertain, doubted, external, request, attemptVars, thread, history>>

(* execute up to the scheduler: nothing continues behind a stop, an          *)
(* uncertain effect or an undecided request; leases of accepted tasks go.    *)
Resume(r) ==
  /\ controller[r] # "up" /\ r \notin stopped \cup uncertain
  /\ \A u \in Units(r) : request[u] = "none"
  /\ controller' = [controller EXCEPT ![r] = "up"]
  /\ leases' = leases \ {u \in Units(r) : last[u] = "accepted"}
  /\ UNCHANGED <<stopped, uncertain, doubted, external, request, attemptVars, thread, history>>

(* Mutated form: a controller that leaves gives up what its Run holds.       *)
ExitReleasing(r) ==
  /\ controller[r] = "up"
  /\ \A u \in Units(r) : thread[u] \in Ended \cup {"off"}
  /\ controller' = [controller EXCEPT ![r] = "exited"]
  /\ thread' = [u \in Unit |-> IF RunOf[u] = r THEN "off" ELSE thread[u]]
  /\ leases' = leases \ Units(r)
  /\ UNCHANGED <<stopped, uncertain, doubted, external, request, attemptVars, history>>

(* The pool is left when every submitted thread has ended.                   *)
Exit(r) ==
  /\ controller[r] = "up"
  /\ \A u \in Units(r) : thread[u] \in Ended \cup {"off"}
  /\ controller' = [controller EXCEPT ![r] = "exited"]
  /\ thread' = [u \in Unit |-> IF RunOf[u] = r THEN "off" ELSE thread[u]]
  /\ UNCHANGED <<stopped, uncertain, doubted, grantVars, attemptVars, history>>

Crash(r) ==
  /\ controller[r] = "up"
  /\ controller' = [controller EXCEPT ![r] = "died"]
  /\ thread' = [u \in Unit |-> IF RunOf[u] = r THEN "off" ELSE thread[u]]
  /\ UNCHANGED <<stopped, uncertain, doubted, grantVars, attemptVars, history>>

(* cancel, an exhausted budget or an interrupt: a stop at any moment.        *)
Stop(r) ==
  /\ r \notin stopped
  /\ stopped' = stopped \cup {r}
  /\ UNCHANGED <<uncertain, doubted, controller, grantVars, attemptVars, thread, history>>

(* approve_authority of a grant that writes externally: the lease, then the  *)
(* native application.  Both need the controller lock.                       *)
ApproveLease(u) ==
  /\ controller[RunOf[u]] # "up" /\ MayDecide(u)
  /\ request[u] \in {"pending", "leased"} /\ Free(u)
  /\ leases' = leases \cup {u}
  /\ request' = [request EXCEPT ![u] = "leased"]
  /\ UNCHANGED <<runVars, external, attemptVars, thread, history>>

ApproveApply(u) ==
  /\ controller[RunOf[u]] # "up" /\ MayDecide(u)
  /\ request[u] = "leased"
  /\ external' = external \cup {u}
  /\ request' = [request EXCEPT ![u] = "none"]
  /\ UNCHANGED <<runVars, leases, attemptVars, thread, history>>

-----------------------------------------------------------------------------
(* _execute_task.                                                            *)

Acquire(u) ==
  /\ controller[RunOf[u]] = "up" /\ thread[u] = "off" /\ last[u] # "accepted"
  /\ IF u \in external
     THEN \/ Free(u) /\ leases' = leases \cup {u} /\ Becomes(u, "acquired")
          \/ ~Free(u) /\ Becomes(u, "waiting") /\ UNCHANGED leases
     ELSE Becomes(u, "acquired") /\ UNCHANGED leases
  /\ UNCHANGED <<runVars, external, request, attemptVars, history>>

(* Mutated form: an interrupted external attempt is started over.            *)
ExamineAndRetry(u) ==
  /\ thread[u] = "acquired"
  /\ Becomes(u, IF last[u] = "completed" THEN "verify" ELSE "loop")
  /\ UNCHANGED <<runVars, grantVars, attemptVars, history>>

(* The attempts before this controller: a completed one is verified, an      *)
(* external one without an accepted result is uncertain.                     *)
Examine(u) ==
  /\ thread[u] = "acquired"
  /\ IF last[u] # "completed" /\ wrote[u]
     THEN Doubt(u) /\ Becomes(u, "waiting")
     ELSE /\ Becomes(u, IF last[u] = "completed" THEN "verify" ELSE "loop")
          /\ UNCHANGED <<uncertain, doubted>>
  /\ UNCHANGED <<stopped, controller, grantVars, attemptVars, history>>

(* The attempt is durable before anything of it runs.                        *)
StartAttempt(u) ==
  /\ thread[u] = "loop" /\ MayDecide(u)
  /\ IF tries[u] < TaskAttempts
     THEN /\ tries' = [tries EXCEPT ![u] = @ + 1]
          /\ wrote' = [wrote EXCEPT ![u] = u \in external]
          /\ last' = [last EXCEPT ![u] = "started"]
          /\ Becomes(u, "invoke")
     ELSE Becomes(u, "exhausted") /\ UNCHANGED attemptVars
  /\ UNCHANGED <<runVars, grantVars, history>>

(* Reservation and preflight succeeded: the native session starts.           *)
Launch(u) ==
  /\ thread[u] = "invoke" /\ MayDecide(u)
  /\ Becomes(u, "running")
  /\ IF wrote[u]
     THEN /\ launches' = [launches EXCEPT ![u] = @ + 1]
          /\ effect' = [effect EXCEPT ![u] = "unknown"]
     ELSE UNCHANGED history
  /\ UNCHANGED <<runVars, grantVars, attemptVars>>

(* What follows an invocation that gave no usable answer: an external one is *)
(* uncertain, a local one ends the thread.                                   *)
Unusable(u) ==
  /\ IF wrote[u] THEN Doubt(u) ELSE UNCHANGED <<uncertain, doubted>>
  /\ UNCHANGED <<stopped, controller, grantVars, attemptVars, history>>

(* A timeout or a lost connection, before or after the session did anything, *)
(* and a malformed answer: a local call is repeated within its own limits.   *)
TransportFails(u) ==
  /\ thread[u] \in {"invoke", "running"} /\ MayDecide(u)
  /\ \/ wrote[u] /\ Becomes(u, "waiting")
     \/ ~wrote[u] /\ \E next \in {"invoke", "error"} : Becomes(u, next)
  /\ Unusable(u)

(* A failure the adapter raises as RuntimeError: supervisor, disposal.       *)
AdapterFails(u) ==
  /\ thread[u] \in {"invoke", "running"}
  /\ Becomes(u, "error")
  /\ Unusable(u)

(* A ValueError or OSError out of the adapter, such as a native process that *)
(* exits nonzero: stage_failed and RuntimeError, whatever the authority.     *)
EnvironmentFails(u) ==
  /\ thread[u] = "running"
  /\ Becomes(u, "error")
  /\ UNCHANGED <<runVars, grantVars, attemptVars, history>>

(* Stopped inside the attempt: an external attempt is uncertain all the same.*)
StopAttempt(u) ==
  /\ thread[u] \in {"invoke", "running", "verify"} /\ ~MayDecide(u)
  /\ Becomes(u, "ended")
  /\ Unusable(u)

(* Stopped outside an attempt of this controller.                            *)
StopThread(u) ==
  /\ thread[u] \in {"loop", "verify", "accepted"} /\ ~MayDecide(u)
  /\ Becomes(u, "ended")
  /\ UNCHANGED <<runVars, grantVars, attemptVars, history>>

WorkerCompletes(u) ==
  /\ thread[u] = "running" /\ MayDecide(u)
  /\ last' = [last EXCEPT ![u] = "completed"]
  /\ Becomes(u, "verify")
  /\ UNCHANGED <<runVars, grantVars, tries, wrote, history>>

(* A reported failure is a retry for a local worker; a failure of an         *)
(* external one, and any uncertain report, is recorded and then doubted.     *)
WorkerFails(u) ==
  /\ thread[u] = "running" /\ MayDecide(u) /\ ~wrote[u]
  /\ last' = [last EXCEPT ![u] = "failed"]
  /\ Becomes(u, "loop")
  /\ UNCHANGED <<runVars, grantVars, tries, wrote, history>>

WorkerDoubts(u) ==
  /\ thread[u] = "running" /\ MayDecide(u)
  /\ last' = [last EXCEPT ![u] = "reported"]
  /\ Becomes(u, "doubtful")
  /\ UNCHANGED <<runVars, grantVars, tries, wrote, history>>

RecordDoubt(u) ==
  /\ thread[u] = "doubtful"
  /\ Doubt(u)
  /\ Becomes(u, "waiting")
  /\ UNCHANGED <<stopped, controller, grantVars, attemptVars, history>>

WorkerLimited(u) ==
  /\ thread[u] = "running"
  /\ stopped' = stopped \cup {RunOf[u]}
  /\ Becomes(u, "limited")
  /\ UNCHANGED <<uncertain, doubted, controller, grantVars, attemptVars, history>>

AfterLimit(u) ==
  /\ thread[u] = "limited"
  /\ Becomes(u, "ended")
  /\ Unusable(u)

(* worker_result, authority_requested and approval_wait in one transaction.  *)
WorkerRequests(u) ==
  /\ thread[u] = "running" /\ MayDecide(u)
  /\ last' = [last EXCEPT ![u] = "requested"]
  /\ request' = [request EXCEPT ![u] = "pending"]
  /\ Becomes(u, "waiting")
  /\ UNCHANGED <<runVars, leases, external, tries, wrote, history>>

(* Candidate, review and protected checks pass: accepted.                    *)
Verified(u) ==
  /\ thread[u] = "verify" /\ MayDecide(u)
  /\ last' = [last EXCEPT ![u] = "accepted"]
  /\ effect' = [effect EXCEPT ![u] = IF wrote[u] THEN "known" ELSE @]
  /\ Becomes(u, "accepted")
  /\ UNCHANGED <<runVars, grantVars, tries, wrote, launches>>

Rejected(u) ==
  /\ thread[u] = "verify" /\ MayDecide(u)
  /\ \/ /\ wrote[u] /\ Doubt(u)
        /\ Becomes(u, "waiting") /\ UNCHANGED last
     \/ /\ ~wrote[u] /\ UNCHANGED <<uncertain, doubted>>
        /\ last' = [last EXCEPT ![u] = "failed"]
        /\ Becomes(u, "loop")
  /\ UNCHANGED <<stopped, controller, grantVars, tries, wrote, history>>

(* The verifying invocation itself fails: the recorded result remains.       *)
VerificationUnavailable(u) ==
  /\ thread[u] = "verify"
  /\ Becomes(u, "error")
  /\ UNCHANGED <<runVars, grantVars, attemptVars, history>>

Release(u) ==
  /\ thread[u] = "accepted"
  /\ leases' = leases \ {u}
  /\ Becomes(u, "done")
  /\ UNCHANGED <<runVars, external, request, attemptVars, history>>

UnitStep(u) ==
  \/ ApproveLease(u) \/ ApproveApply(u)
  \/ Acquire(u) \/ Examine(u) \/ StartAttempt(u) \/ Launch(u)
  \/ TransportFails(u) \/ AdapterFails(u) \/ EnvironmentFails(u)
  \/ StopAttempt(u) \/ StopThread(u)
  \/ WorkerCompletes(u) \/ WorkerFails(u) \/ WorkerDoubts(u) \/ RecordDoubt(u)
  \/ WorkerLimited(u) \/ AfterLimit(u) \/ WorkerRequests(u)
  \/ Verified(u) \/ Rejected(u) \/ VerificationUnavailable(u) \/ Release(u)

Next ==
  \/ \E r \in Run : Resume(r) \/ Exit(r) \/ Crash(r) \/ Stop(r)
  \/ \E u \in Unit : UnitStep(u)

Spec == Init /\ [][Next]_vars

-----------------------------------------------------------------------------
(* An external session is started at most once for a task: neither a retry,  *)
(* a crash and restart, nor an approval in between repeats what may already  *)
(* have been committed remotely (_execute_task, _transport_retry).           *)
AtMostOneExternalLaunch == \A u \in Unit : launches[u] <= 1

(* While nobody knows what an external session did, no session whose grant   *)
(* overlaps runs, in this Run or another, however its controller ended       *)
(* (acquire_resources and the only places that release).                     *)
NoConflictingSession ==
  \A u, v \in Unit :
    /\ u # v /\ <<u, v>> \in Overlaps
    /\ effect[u] = "unknown" /\ thread[v] = "running"
    => ~wrote[v]

(* A task an uncertain event is about is not accepted by anything later.     *)
DoubtIsNeverAccepted == \A u \in doubted : last[u] # "accepted"

(* What the owner of the external systems is promised (ExternalOperation):   *)
(* one operation a task, none beside an unsettled one it overlaps, and no    *)
(* acceptance of, or further operation by, a task once it is in doubt.       *)
Verdict ==
  [u \in Unit |-> IF u \in doubted THEN "doubted"
                  ELSE IF last[u] = "accepted" THEN "accepted" ELSE "open"]
Operation == INSTANCE ExternalOperation WITH verdict <- Verdict
OperationKept == Operation!Spec

-----------------------------------------------------------------------------
(* README: unknown external outcomes retain an explicit uncertain state.  A  *)
(* controller that left by itself behind an unknown effect recorded it.      *)
ExitRecordsUncertainty ==
  \A u \in Unit :
    controller[RunOf[u]] = "exited" /\ effect[u] = "unknown" => RunOf[u] \in uncertain
=============================================================================
