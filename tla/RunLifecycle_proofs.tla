------------------------ MODULE RunLifecycle_proofs -------------------------
(* The inductive invariant of RunLifecycle, for any number of processes and  *)
(* tasks, with its proof, one lemma per part and one step per action; then   *)
(* the theorems that follow from it.                                         *)
(*                                                                           *)
(* The type invariant is not inductive by itself: that a repair stays within *)
(* MaxReplans depends on who owns the lock.  Base adds that; Quiet adds what *)
(* a confirmed cleanup rests on.                                             *)

EXTENDS RunLifecycle, TLAPS

BeforeLock == {"idle", "request", "request_revocation", "lock"}
ApplyPlaces == {"approve", "apply", "applying", "applied"}

(* The lock is owned by the process that stands behind it.                   *)
HolderOK == \A p \in Proc : at[p] \notin BeforeLock <=> lock = p

(* Which command stands at which place, and that its subject is a task.      *)
OpOK ==
  \A p \in Proc :
    /\ at[p] \in WorkPlaces \cup {"dispatch"} => op[p] = "execute"
    /\ at[p] \in ApplyPlaces => op[p] = "approve"
    /\ at[p] \in {"request", "confirm"} => op[p] \in {"cleanup", "revoke"}
    /\ at[p] = "request_revocation" => op[p] = "revoke"
    /\ op[p] \in {"approve", "reject"} => subject[p] # NoTask

ReplanOK == \A p \in Proc : at[p] = "replan" => replans < MaxReplans

Base == TypeOK /\ HolderOK /\ OpOK /\ ReplanOK

(* Threads exist only under a controller that works, those of tasks only     *)
(* where it runs the pool.                                                   *)
ThreadsOK ==
  /\ (\A p \in Proc : at[p] \notin WorkPlaces) => thread = AllOff
  /\ \A p \in Proc :
       /\ at[p] \in {"goal", "plan", "verify", "complete"} =>
            \A t \in Task : thread[t] = "off"
       /\ at[p] = "complete" => thread = AllOff
       /\ at[p] = "replan" => \A t \in Task : thread[t] \in {"off", "exhausted", "ok"}

(* A command that confirms has fenced the Run or found it completed.         *)
FenceOK ==
  \A p \in Proc :
    at[p] \notin {"idle", "request"} =>
      /\ op[p] = "cleanup" => journal \cap {"stopped", "completed"} # {}
      /\ op[p] = "revoke" => Stopped

(* While the controller works, a request is undecided only if its thread is  *)
(* about to make the controller leave.                                       *)
PendingOK ==
  \A p \in Proc : at[p] \in WorkPlaces =>
    \A t \in Task : Pending(t) => thread[t] = "waiting"

(* A completed Run has no request to decide and no work.                     *)
CompletedOK ==
  "completed" \in journal =>
    /\ \A t \in Task : ~Pending(t)
    /\ \A p \in Proc : at[p] \notin WorkPlaces /\ (lock = p => op[p] # "approve")

NoEnvironment == \A c \in Caller : env[c] = "none"
Confirmed == journal \cap {"cleanup_confirmed", "authority_revoked"} # {}

(* Reconciliation and recovery leave nothing behind for the confirmation.    *)
RecoveredOK ==
  \A p \in Proc :
    /\ at[p] \in {"recover", "confirm", "approve", "apply", "applied"} => NoEnvironment
    /\ at[p] = "applying" => \A c \in Caller \ {Main} : env[c] = "none"
    /\ at[p] = "confirm" => open = {}

ConfirmedOK ==
  Confirmed =>
    /\ open = {} /\ NoEnvironment
    /\ journal \cap {"stopped", "completed"} # {}
    /\ \A p \in Proc : at[p] \notin WorkPlaces \cup {"applying"}

Quiet == ThreadsOK /\ FenceOK /\ PendingOK /\ CompletedOK /\ RecoveredOK /\ ConfirmedOK

(* An approval stands until the command that applies it has done so.         *)
ApprovedOK ==
  \A p \in Proc :
    at[p] \in {"apply", "applying", "applied"} => grant[subject[p]] = "approved"

(* A session is charged to its caller's reservation and has a thread, or the *)
(* command that applies authority, behind it; what a dead controller left    *)
(* behind stays charged, and is gone wherever a Run continues.               *)
EnvOK ==
  /\ \A c \in Caller :
       /\ env[c] = "owned" =>
            thread[c] = "running" \/ (c = Main /\ \E p \in Proc : at[p] = "applying")
       /\ env[c] = "owned" => c \in open
       /\ env[c] = "orphan" => c \in open
       /\ thread[c] \in {"reserved", "running"} => c \in open
  /\ \A p \in Proc : at[p] = "applying" => Main \in open
  /\ \A p \in Proc : at[p] \notin BeforeLock \cup {"reconcile", "rejected"} =>
       \A c \in Caller : env[c] # "orphan"

(* A controller at work has no open reservation and no environment beyond    *)
(* those its threads stand for.                                              *)
ChargeOK ==
  /\ \A p \in Proc : at[p] = "dispatch" => open = {} /\ NoEnvironment
  /\ \A p \in Proc : at[p] \in WorkPlaces => \A c \in Caller :
       /\ c \in open => thread[c] \in {"reserved", "running"} \cup Reply
       /\ env[c] = "owned" => thread[c] = "running"
       /\ env[c] = "stale" => thread[c] \in {"error", "stopped"}

(* What the promise calls busy.                                              *)
Busy == open # {} \/ \E c \in Caller : env[c] # "none"

(* What a controller at work has established on its way to completion.       *)
WorkOK ==
  \A p \in Proc : at[p] \in WorkPlaces =>
    /\ clar # "wait"
    /\ "uncertain" \in journal => \E t \in Task : thread[t] = "waiting"
    /\ at[p] \in {"pool", "verify", "replan", "complete"} => plan # {}
    /\ at[p] \in {"verify", "complete"} => plan \subseteq Accepted
    /\ at[p] = "complete" => verified = plan

IInv ==
  /\ Base /\ Quiet /\ ApprovedOK /\ EnvOK /\ ChargeOK /\ WorkOK
  /\ CompletionIsSound /\ NoWorkerWhilePending

(* The initial state: an empty journal, nobody at work.                      *)
LEMMA InitIInv == ASSUME LifecycleAssumption PROVE Init => IInv
<1> SUFFICES ASSUME Init PROVE IInv
  OBVIOUS
<1> USE DEF Init
<1>1. TypeOK
  BY DEF TypeOK, LifecycleAssumption, Caller, Kind, Place, AllCommands, ThreadState
<1>2. HolderOK /\ OpOK /\ ReplanOK
  BY DEF LifecycleAssumption, HolderOK, OpOK, ReplanOK, BeforeLock, ApplyPlaces,
    WorkPlaces, MainPlaces
<1>3. ThreadsOK /\ FenceOK /\ PendingOK
  BY DEF ThreadsOK, FenceOK, PendingOK, AllOff, WorkPlaces, MainPlaces
<1>4. /\ CompletedOK /\ RecoveredOK /\ ConfirmedOK
      /\ CompletionIsSound /\ NoWorkerWhilePending
  BY DEF CompletedOK, RecoveredOK, NoWorkerWhilePending, Pending, ConfirmedOK, Confirmed, CompletionIsSound
<1>5. ApprovedOK /\ EnvOK /\ ChargeOK /\ WorkOK
  BY DEF ApprovedOK, EnvOK, ChargeOK, WorkOK, WorkPlaces, MainPlaces, BeforeLock, Caller
<1> QED
  BY <1>1, <1>2, <1>3, <1>4, <1>5 DEF IInv, Base, Quiet

(* The types, the ownership of the lock, the places of the commands and the  *)
(* repair limit are preserved by every step.                                 *)
LEMMA BaseStep ==
  ASSUME LifecycleAssumption, Base, [Next]_vars PROVE Base'
<1> USE DEF Base, TypeOK, HolderOK, OpOK, ReplanOK, LifecycleAssumption, Kind, Place, MainPlaces, WorkPlaces, ApplyPlaces, BeforeLock, ThreadState, Reply, Ended, AllCommands, Caller, attempt, graph, process
<1>1. ASSUME NEW p \in Proc, RequestCleanup(p) PROVE Base'
  BY <1>1 DEF RequestCleanup, Record, Moves
<1>2. ASSUME NEW p \in Proc, RevokeStop(p) PROVE Base'
  BY <1>2 DEF RevokeStop, Record, Moves
<1>3. ASSUME NEW p \in Proc, RevokeRequest(p) PROVE Base'
  BY <1>3 DEF RevokeRequest, Record, Moves
<1>4. ASSUME NEW p \in Proc, TakeLock(p) PROVE Base'
  <2>1. TypeOK'  BY <1>4 DEF TakeLock, Moves, EntryPlace
  <2>2. HolderOK' /\ OpOK' /\ ReplanOK'  BY <1>4 DEF TakeLock, Moves, EntryPlace
  <2> QED  BY <2>1, <2>2
<1>5. ASSUME NEW p \in Proc, Refused(p) PROVE Base'
  BY <1>5 DEF Refused, Moves
<1>6. ASSUME NEW p \in Proc, Answer(p) PROVE Base'
  BY <1>6 DEF Answer, Moves
<1>7. ASSUME NEW p \in Proc, Reconcile(p) PROVE Base'
  BY <1>7 DEF Reconcile, Moves
<1>8. ASSUME NEW p \in Proc, ReconcileFails(p) PROVE Base'
  BY <1>8 DEF ReconcileFails, Leave, Moves, AllOff
<1>9. ASSUME NEW p \in Proc, RecoverReservations(p) PROVE Base'
  BY <1>9 DEF RecoverReservations, Moves, BodyPlace
<1>10. ASSUME NEW p \in Proc, Confirm(p) PROVE Base'
  BY <1>10 DEF Confirm, Record, Leave, Moves, AllOff
<1>11. ASSUME NEW p \in Proc, Supersede(p) PROVE Base'
  <2>1. journal' \subseteq journal \cup {"goal_superseded", "stopped"}
    BY ONLY <1>11 DEF Supersede, Record
  <2>2. TypeOK'  BY <2>1, <1>11 DEF Supersede, Leave, Moves, AllOff
  <2>3. HolderOK'  BY <1>11 DEF Supersede, Leave, Moves, AllOff
  <2>4. OpOK' /\ ReplanOK'  BY <1>11 DEF Supersede, Leave, Moves, AllOff
  <2> QED  BY <2>2, <2>3, <2>4
<1>12. ASSUME NEW p \in Proc, PromoteCheck(p) PROVE Base'
  BY <1>12 DEF PromoteCheck, Moves, Leave, AllOff
<1>13. ASSUME NEW p \in Proc, Export(p) PROVE Base'
  BY <1>13 DEF Export, Moves, Leave, AllOff
<1>14. ASSUME NEW p \in Proc, RecordPromotion(p) PROVE Base'
  BY <1>14 DEF RecordPromotion, Record, Leave, Moves, AllOff
<1>15. ASSUME NEW p \in Proc, RejectStop(p) PROVE Base'
  BY <1>15 DEF RejectStop, Record, Leave, Moves, AllOff
<1>16. ASSUME NEW p \in Proc, Approve(p) PROVE Base'
  BY <1>16 DEF Approve, Moves, Leave, MayDecide, AllOff
<1>17. ASSUME NEW p \in Proc, ReserveApplication(p) PROVE Base'
  BY <1>17 DEF ReserveApplication, Moves, Leave, MayDecide, AllOff
<1>18. ASSUME NEW p \in Proc, ApplicationReturns(p) PROVE Base'
  BY <1>18 DEF ApplicationReturns, Moves, Leave, AllOff
<1>19. ASSUME NEW p \in Proc, RecordApplied(p) PROVE Base'
  <2>1. TypeOK'  BY <1>19 DEF RecordApplied, Leave, MayDecide, Moves, AllOff
  <2>2. HolderOK'  BY <1>19 DEF RecordApplied, Leave, MayDecide, Moves, AllOff
  <2>3. OpOK' /\ ReplanOK'  BY <1>19 DEF RecordApplied, Leave, MayDecide, Moves, AllOff
  <2> QED  BY <2>1, <2>2, <2>3
<1>20. ASSUME NEW p \in Proc, Dispatch(p) PROVE Base'
  BY <1>20 DEF Dispatch, Leave, Stage, Moves, Becomes, AllOff
<1>21. ASSUME NEW p \in Proc, Clarified(p) PROVE Base'
  <2> USE DEF Settled, MayDecide
  <2>1. CASE /\ thread[Main] = "pass" /\ Record({"goal"}) /\ Stage(p, "plan") /\ UNCHANGED clar
    BY <2>1, <1>21 DEF Clarified, Record, Stage, Moves, Becomes
  <2>2. CASE thread[Main] = "ask" /\ clar' = "wait" /\ Leave(p) /\ UNCHANGED journal
    BY <2>2, <1>21 DEF Clarified, Leave, Moves, AllOff
  <2>3. CASE thread[Main] = "fail" /\ Leave(p) /\ UNCHANGED <<journal, clar>>
    BY <2>3, <1>21 DEF Clarified, Leave, Moves, AllOff
  <2> QED  BY <2>1, <2>2, <2>3, <1>21 DEF Clarified
<1>22. ASSUME NEW p \in Proc, Planned(p) PROVE Base'
  BY <1>22 DEF Planned, Leave, Stage, Settled, MayDecide, Moves, Becomes, AllOff
<1>23. ASSUME NEW p \in Proc, Submit(p) PROVE Base'
  BY <1>23 DEF Submit, AllOff, Accepted, Stopped
<1>24. ASSUME NEW p \in Proc, JoinRaises(p) PROVE Base'
  BY <1>24 DEF JoinRaises, Leave, Exhausted, Moves, AllOff
<1>25. ASSUME NEW p \in Proc, JoinFails(p) PROVE Base'
  BY <1>25 DEF JoinFails, Leave, Stage, Exhausted, Moves, Becomes, AllOff
<1>26. ASSUME NEW p \in Proc, JoinAccepts(p) PROVE Base'
  BY <1>26 DEF JoinAccepts, AllOff, Exhausted
<1>27. ASSUME NEW p \in Proc, ToVerification(p) PROVE Base'
  BY <1>27 DEF ToVerification, AllOff, Stage, Accepted, Moves, Becomes
<1>28. ASSUME NEW p \in Proc, PoolStopped(p) PROVE Base'
  BY <1>28 DEF PoolStopped, AllOff, Leave, Stopped, Moves
<1>29. ASSUME NEW p \in Proc, GoalVerified(p) PROVE Base'
  BY <1>29 DEF GoalVerified, Leave, Stage, Settled, MayDecide, Moves, Becomes, AllOff
<1>30. ASSUME NEW p \in Proc, Replanned(p) PROVE Base'
  BY <1>30 DEF Replanned, Moves, AllOff, Leave, Settled, Accepted, MayDecide
<1>31. ASSUME NEW p \in Proc, Complete(p) PROVE Base'
  <2>0. journal' \subseteq journal \cup {"completed"}
    BY ONLY <1>31 DEF Complete, Record
  <2>1. journal' \subseteq Kind  BY <2>0
  <2>2. TypeOK'  BY <2>1, <1>31 DEF Complete, Leave, Moves, AllOff
  <2>3. HolderOK'  BY <1>31 DEF Complete, Leave, Moves, AllOff
  <2>4. OpOK' /\ ReplanOK'  BY <1>31 DEF Complete, Leave, Moves, AllOff
  <2> QED  BY <2>2, <2>3, <2>4
<1>32. ASSUME NEW p \in Proc, MainEnds(p) PROVE Base'
  BY <1>32 DEF MainEnds, Leave, Moves, AllOff
<1>33. ASSUME NEW t \in Task, StartTask(t) PROVE Base'
  BY <1>33 DEF StartTask, Becomes, MayDecide
<1>34. ASSUME NEW t \in Task, WorkerCompleted(t) PROVE Base'
  BY <1>34 DEF WorkerCompleted, Becomes, Settled, MayDecide
<1>35. ASSUME NEW t \in Task, WorkerFailed(t) PROVE Base'
  BY <1>35 DEF WorkerFailed, Settled, Again, MayDecide, Becomes
<1>36. ASSUME NEW t \in Task, WorkerRequests(t) PROVE Base'
  BY <1>36 DEF WorkerRequests, Becomes, Settled, MayDecide
<1>37. ASSUME NEW t \in Task, WorkerUncertain(t) PROVE Base'
  BY <1>37 DEF WorkerUncertain, Becomes, Settled, MayDecide
<1>38. ASSUME NEW t \in Task, RecordUncertain(t) PROVE Base'
  BY <1>38 DEF RecordUncertain, Record, Becomes
<1>39. ASSUME NEW t \in Task, LimitSettled(t) PROVE Base'
  BY <1>39 DEF LimitSettled, Settled, MayDecide
<1>40. ASSUME NEW t \in Task, LimitStop(t) PROVE Base'
  BY <1>40 DEF LimitStop, Record, Becomes
<1>41. ASSUME NEW t \in Task, TaskVerified(t) PROVE Base'
  BY <1>41 DEF TaskVerified, Becomes, Settled, Again, MayDecide
<1>42. ASSUME NEW t \in Task, AcceptTask(t) PROVE Base'
  BY <1>42 DEF AcceptTask, Becomes, MayDecide
<1>43. ASSUME NEW c \in Caller, Reserve(c) PROVE Base'
  BY <1>43 DEF Reserve, Becomes, MayDecide
<1>44. ASSUME NEW c \in Caller, Launch(c) PROVE Base'
  BY <1>44 DEF Launch, Becomes, MayDecide
<1>45. ASSUME NEW c \in Caller, Kill(c) PROVE Base'
  BY <1>45 DEF Kill, Break, Stopped, Becomes
<1>46. ASSUME NEW c \in Caller, StopThread(c) PROVE Base'
  BY <1>46 DEF StopThread, Becomes, Settled, MayDecide
<1>47. ASSUME NEW c \in Caller, WatcherRemoves(c) PROVE Base'
  BY <1>47 DEF WatcherRemoves
<1>48. ASSUME NEW c \in Caller, Retry(c) PROVE Base'
  BY <1>48 DEF Retry, Becomes
<1>49. ASSUME NEW c \in Caller, Break(c) PROVE Base'
  BY <1>49 DEF Break, Becomes, Stopped
<1>50. ASSUME NEW c \in Caller, PreflightFails(c) PROVE Base'
  BY <1>50 DEF PreflightFails, Record, Stopped
<1>51. ASSUME NEW p \in Proc, Cancel(p) PROVE Base'
  BY <1>51 DEF Cancel, Record
<1>52. ASSUME NEW p \in Proc, ControllerStops(p) PROVE Base'
  BY <1>52 DEF ControllerStops, Record, Stopped
<1>53. ASSUME NEW p \in Proc, Crash(p) PROVE Base'
  BY <1>53 DEF Crash, Moves, Leave, AllOff
<1>54. ASSUME NEW p \in Proc, NEW c \in Commands, NEW t \in Task \cup {NoTask}, Begin(p, c, t) PROVE Base'
  BY <1>54 DEF Begin, Moves, FirstPlace
<1>55. ASSUME NEW c \in Caller, NEW r \in Reply, Return(c, r) PROVE Base'
  BY <1>55 DEF Return, Becomes
<1>56. CASE UNCHANGED vars
  BY <1>56 DEF vars
<1> HIDE DEF Base, TypeOK, HolderOK, OpOK, ReplanOK, LifecycleAssumption, Kind, Place, MainPlaces, WorkPlaces, ApplyPlaces, BeforeLock, ThreadState, Reply, Ended, AllCommands, Caller, attempt, graph, process
<1> QED
  BY <1>1, <1>2, <1>3, <1>4, <1>5, <1>6, <1>7, <1>8, <1>9, <1>10, <1>11, <1>12, <1>13, <1>14, <1>15, <1>16, <1>17, <1>18, <1>19, <1>20, <1>21, <1>22, <1>23, <1>24, <1>25, <1>26, <1>27, <1>28, <1>29, <1>30, <1>31, <1>32, <1>33, <1>34, <1>35, <1>36, <1>37, <1>38, <1>39, <1>40, <1>41, <1>42, <1>43, <1>44, <1>45, <1>46, <1>47, <1>48, <1>49, <1>50, <1>51, <1>52, <1>53, <1>54, <1>55, <1>56 DEF Next, CommandStep, ExecuteStep, TaskStep, InvocationStep, Environment

(* No step leaves a thread behind a controller that is gone, or one of a task *)
(* behind a stage of the controller's own thread.                            *)
LEMMA ThreadsStep ==
  ASSUME LifecycleAssumption, Base, ThreadsOK, [Next]_vars PROVE ThreadsOK'
<1> USE DEF Base, TypeOK, HolderOK, OpOK, LifecycleAssumption, Place, MainPlaces, WorkPlaces, ApplyPlaces, BeforeLock, Caller, attempt, graph, process, ThreadsOK, AllOff, Reply, Ended
<1>1. ASSUME NEW p \in Proc, RequestCleanup(p) PROVE ThreadsOK'
  BY <1>1 DEF RequestCleanup, Record, Moves
<1>2. ASSUME NEW p \in Proc, RevokeStop(p) PROVE ThreadsOK'
  BY <1>2 DEF RevokeStop, Record, Moves
<1>3. ASSUME NEW p \in Proc, RevokeRequest(p) PROVE ThreadsOK'
  BY <1>3 DEF RevokeRequest, Record, Moves
<1>4. ASSUME NEW p \in Proc, TakeLock(p) PROVE ThreadsOK'
  BY <1>4 DEF TakeLock, Moves, EntryPlace, Admitted, Stopped
<1>5. ASSUME NEW p \in Proc, Refused(p) PROVE ThreadsOK'
  BY <1>5 DEF Refused, Moves, Admitted, Stopped
<1>6. ASSUME NEW p \in Proc, Answer(p) PROVE ThreadsOK'
  BY <1>6 DEF Answer, Moves, Admitted, Stopped
<1>7. ASSUME NEW p \in Proc, Reconcile(p) PROVE ThreadsOK'
  BY <1>7 DEF Reconcile, Moves
<1>8. ASSUME NEW p \in Proc, ReconcileFails(p) PROVE ThreadsOK'
  BY <1>8 DEF ReconcileFails, Leave, Moves, AllOff
<1>9. ASSUME NEW p \in Proc, RecoverReservations(p) PROVE ThreadsOK'
  BY <1>9 DEF RecoverReservations, Moves, BodyPlace
<1>10. ASSUME NEW p \in Proc, Confirm(p) PROVE ThreadsOK'
  BY <1>10 DEF Confirm, Record, Leave, Moves, AllOff
<1>11. ASSUME NEW p \in Proc, Supersede(p) PROVE ThreadsOK'
  BY <1>11 DEF Supersede, Record, Leave, Stopped, Moves, AllOff
<1>12. ASSUME NEW p \in Proc, PromoteCheck(p) PROVE ThreadsOK'
  BY <1>12 DEF PromoteCheck, Moves, Leave, AllOff
<1>13. ASSUME NEW p \in Proc, Export(p) PROVE ThreadsOK'
  BY <1>13 DEF Export, Moves, Leave, AllOff
<1>14. ASSUME NEW p \in Proc, RecordPromotion(p) PROVE ThreadsOK'
  BY <1>14 DEF RecordPromotion, Record, Leave, Moves, AllOff
<1>15. ASSUME NEW p \in Proc, RejectStop(p) PROVE ThreadsOK'
  BY <1>15 DEF RejectStop, Record, Leave, Moves, AllOff
<1>16. ASSUME NEW p \in Proc, Approve(p) PROVE ThreadsOK'
  BY <1>16 DEF Approve, Moves, Leave, MayDecide, AllOff
<1>17. ASSUME NEW p \in Proc, ReserveApplication(p) PROVE ThreadsOK'
  BY <1>17 DEF ReserveApplication, Moves, Leave, MayDecide, AllOff
<1>18. ASSUME NEW p \in Proc, ApplicationReturns(p) PROVE ThreadsOK'
  BY <1>18 DEF ApplicationReturns, Moves, Leave, AllOff
<1>19. ASSUME NEW p \in Proc, RecordApplied(p) PROVE ThreadsOK'
  BY <1>19 DEF RecordApplied, Leave, MayDecide, Moves, AllOff
<1>20. ASSUME NEW p \in Proc, Dispatch(p) PROVE ThreadsOK'
  BY <1>20 DEF Dispatch, Leave, Stage, Moves, Becomes, AllOff
<1>21. ASSUME NEW p \in Proc, Clarified(p) PROVE ThreadsOK'
  BY <1>21 DEF Clarified, Record, Leave, Stage, Settled, MayDecide, Moves, Becomes, AllOff
<1>22. ASSUME NEW p \in Proc, Planned(p) PROVE ThreadsOK'
  BY <1>22 DEF Planned, Leave, Stage, Settled, MayDecide, Moves, Becomes, AllOff
<1>23. ASSUME NEW p \in Proc, Submit(p) PROVE ThreadsOK'
  BY <1>23 DEF Submit, AllOff, Stopped
<1>24. ASSUME NEW p \in Proc, JoinRaises(p) PROVE ThreadsOK'
  BY <1>24 DEF JoinRaises, Leave, Exhausted, Joined, Raising, AllOff, Moves
<1>25. ASSUME NEW p \in Proc, JoinFails(p) PROVE ThreadsOK'
  BY <1>25 DEF JoinFails, Leave, Stage, Exhausted, Joined, Raising, AllOff, Moves, Becomes
<1>26. ASSUME NEW p \in Proc, JoinAccepts(p) PROVE ThreadsOK'
  BY <1>26 DEF JoinAccepts, AllOff, Exhausted, Joined, Raising
<1>27. ASSUME NEW p \in Proc, ToVerification(p) PROVE ThreadsOK'
  BY <1>27 DEF ToVerification, AllOff, Stage, Moves, Becomes
<1>28. ASSUME NEW p \in Proc, PoolStopped(p) PROVE ThreadsOK'
  BY <1>28 DEF PoolStopped, AllOff, Leave, Stopped, Moves
<1>29. ASSUME NEW p \in Proc, GoalVerified(p) PROVE ThreadsOK'
  <2>1. lock = p /\ \A t \in Task : thread[t] = "off"
    BY <1>29 DEF GoalVerified
  <2>2. CASE Stage(p, "complete")
    <3>1. thread' = AllOff
      BY <2>1, <2>2 DEF Stage, Becomes
    <3> QED  BY <2>1, <2>2, <3>1 DEF Stage, Moves
  <2>3. CASE Stage(p, "replan")
    BY <2>1, <2>3 DEF Stage, Moves, Becomes
  <2>4. CASE Leave(p)
    BY <2>1, <2>4 DEF Leave, Moves
  <2> QED  BY <1>29, <2>2, <2>3, <2>4 DEF GoalVerified
<1>30. ASSUME NEW p \in Proc, Replanned(p) PROVE ThreadsOK'
  BY <1>30 DEF Replanned, Moves, AllOff, Leave, Settled, MayDecide
<1>31. ASSUME NEW p \in Proc, Complete(p) PROVE ThreadsOK'
  BY <1>31 DEF Complete, Record, Leave, MayDecide, Moves, AllOff
<1>32. ASSUME NEW p \in Proc, MainEnds(p) PROVE ThreadsOK'
  BY <1>32 DEF MainEnds, Leave, Moves, AllOff
<1>33. ASSUME NEW t \in Task, StartTask(t) PROVE ThreadsOK'
  BY <1>33 DEF StartTask, Becomes, MayDecide
<1>34. ASSUME NEW t \in Task, WorkerCompleted(t) PROVE ThreadsOK'
  BY <1>34 DEF WorkerCompleted, Becomes, Settled, MayDecide
<1>35. ASSUME NEW t \in Task, WorkerFailed(t) PROVE ThreadsOK'
  BY <1>35 DEF WorkerFailed, Settled, Again, MayDecide, Becomes
<1>36. ASSUME NEW t \in Task, WorkerRequests(t) PROVE ThreadsOK'
  BY <1>36 DEF WorkerRequests, Becomes, Settled, MayDecide
<1>37. ASSUME NEW t \in Task, WorkerUncertain(t) PROVE ThreadsOK'
  BY <1>37 DEF WorkerUncertain, Becomes, Settled, MayDecide
<1>38. ASSUME NEW t \in Task, RecordUncertain(t) PROVE ThreadsOK'
  BY <1>38 DEF RecordUncertain, Record, Becomes
<1>39. ASSUME NEW t \in Task, LimitSettled(t) PROVE ThreadsOK'
  BY <1>39 DEF LimitSettled, Settled, MayDecide
<1>40. ASSUME NEW t \in Task, LimitStop(t) PROVE ThreadsOK'
  BY <1>40 DEF LimitStop, Record, Becomes
<1>41. ASSUME NEW t \in Task, TaskVerified(t) PROVE ThreadsOK'
  BY <1>41 DEF TaskVerified, Becomes, Settled, Again, MayDecide
<1>42. ASSUME NEW t \in Task, AcceptTask(t) PROVE ThreadsOK'
  BY <1>42 DEF AcceptTask, Becomes, MayDecide
<1>43. ASSUME NEW c \in Caller, Reserve(c) PROVE ThreadsOK'
  BY <1>43 DEF Reserve, Becomes, MayDecide
<1>44. ASSUME NEW c \in Caller, Launch(c) PROVE ThreadsOK'
  BY <1>44 DEF Launch, Becomes, MayDecide
<1>45. ASSUME NEW c \in Caller, Kill(c) PROVE ThreadsOK'
  BY <1>45 DEF Kill, Break, Stopped, Becomes
<1>46. ASSUME NEW c \in Caller, StopThread(c) PROVE ThreadsOK'
  BY <1>46 DEF StopThread, Becomes, Settled, MayDecide
<1>47. ASSUME NEW c \in Caller, WatcherRemoves(c) PROVE ThreadsOK'
  BY <1>47 DEF WatcherRemoves
<1>48. ASSUME NEW c \in Caller, Retry(c) PROVE ThreadsOK'
  BY <1>48 DEF Retry, Becomes
<1>49. ASSUME NEW c \in Caller, Break(c) PROVE ThreadsOK'
  BY <1>49 DEF Break, Becomes, Stopped
<1>50. ASSUME NEW c \in Caller, PreflightFails(c) PROVE ThreadsOK'
  BY <1>50 DEF PreflightFails, Record, Stopped
<1>51. ASSUME NEW p \in Proc, Cancel(p) PROVE ThreadsOK'
  BY <1>51 DEF Cancel, Record
<1>52. ASSUME NEW p \in Proc, ControllerStops(p) PROVE ThreadsOK'
  BY <1>52 DEF ControllerStops, Record, Stopped
<1>53. ASSUME NEW p \in Proc, Crash(p) PROVE ThreadsOK'
  <2>1. CASE lock = p
    BY <1>53, <2>1 DEF Crash, Leave, Moves
  <2>2. CASE lock # p
    BY <1>53, <2>2 DEF Crash, Moves
  <2> QED  BY <2>1, <2>2
<1>54. ASSUME NEW p \in Proc, NEW c \in Commands, NEW t \in Task \cup {NoTask}, Begin(p, c, t) PROVE ThreadsOK'
  BY <1>54 DEF Begin, Moves, FirstPlace
<1>55. ASSUME NEW c \in Caller, NEW r \in Reply, Return(c, r) PROVE ThreadsOK'
  BY <1>55 DEF Return, Becomes
<1>56. CASE UNCHANGED vars
  BY <1>56 DEF vars
<1> HIDE DEF Base, TypeOK, HolderOK, OpOK, LifecycleAssumption, Place, MainPlaces, WorkPlaces, ApplyPlaces, BeforeLock, Caller, attempt, graph, process, ThreadsOK, AllOff, Reply, Ended
<1> QED
  BY <1>1, <1>2, <1>3, <1>4, <1>5, <1>6, <1>7, <1>8, <1>9, <1>10, <1>11, <1>12, <1>13, <1>14, <1>15, <1>16, <1>17, <1>18, <1>19, <1>20, <1>21, <1>22, <1>23, <1>24, <1>25, <1>26, <1>27, <1>28, <1>29, <1>30, <1>31, <1>32, <1>33, <1>34, <1>35, <1>36, <1>37, <1>38, <1>39, <1>40, <1>41, <1>42, <1>43, <1>44, <1>45, <1>46, <1>47, <1>48, <1>49, <1>50, <1>51, <1>52, <1>53, <1>54, <1>55, <1>56 DEF Next, CommandStep, ExecuteStep, TaskStep, InvocationStep, Environment

(* A command on its way to confirmation stays behind its fence.              *)
LEMMA FenceStep ==
  ASSUME LifecycleAssumption, Base, FenceOK, [Next]_vars PROVE FenceOK'
<1> USE DEF Base, TypeOK, HolderOK, OpOK, LifecycleAssumption, Place, MainPlaces, WorkPlaces, ApplyPlaces, BeforeLock, Caller, attempt, graph, process, FenceOK, Stopped, Kind
<1>1. ASSUME NEW p \in Proc, RequestCleanup(p) PROVE FenceOK'
  BY <1>1 DEF RequestCleanup, Record, Moves
<1>2. ASSUME NEW p \in Proc, RevokeStop(p) PROVE FenceOK'
  BY <1>2 DEF RevokeStop, Record, Moves
<1>3. ASSUME NEW p \in Proc, RevokeRequest(p) PROVE FenceOK'
  BY <1>3 DEF RevokeRequest, Record, Moves
<1>4. ASSUME NEW p \in Proc, TakeLock(p) PROVE FenceOK'
  BY <1>4 DEF TakeLock, Moves, EntryPlace
<1>5. ASSUME NEW p \in Proc, Refused(p) PROVE FenceOK'
  BY <1>5 DEF Refused, Moves
<1>6. ASSUME NEW p \in Proc, Answer(p) PROVE FenceOK'
  BY <1>6 DEF Answer, Moves
<1>7. ASSUME NEW p \in Proc, Reconcile(p) PROVE FenceOK'
  BY <1>7 DEF Reconcile, Moves
<1>8. ASSUME NEW p \in Proc, ReconcileFails(p) PROVE FenceOK'
  BY <1>8 DEF ReconcileFails, Leave, Moves, AllOff
<1>9. ASSUME NEW p \in Proc, RecoverReservations(p) PROVE FenceOK'
  BY <1>9 DEF RecoverReservations, Moves, BodyPlace
<1>10. ASSUME NEW p \in Proc, Confirm(p) PROVE FenceOK'
  BY <1>10 DEF Confirm, Record, Leave, Moves, AllOff
<1>11. ASSUME NEW p \in Proc, Supersede(p) PROVE FenceOK'
  BY <1>11 DEF Supersede, Record, Leave, Moves, AllOff
<1>12. ASSUME NEW p \in Proc, PromoteCheck(p) PROVE FenceOK'
  BY <1>12 DEF PromoteCheck, Moves, Leave, AllOff
<1>13. ASSUME NEW p \in Proc, Export(p) PROVE FenceOK'
  BY <1>13 DEF Export, Moves, Leave, AllOff
<1>14. ASSUME NEW p \in Proc, RecordPromotion(p) PROVE FenceOK'
  BY <1>14 DEF RecordPromotion, Record, Leave, Moves, AllOff
<1>15. ASSUME NEW p \in Proc, RejectStop(p) PROVE FenceOK'
  BY <1>15 DEF RejectStop, Record, Leave, Moves, AllOff
<1>16. ASSUME NEW p \in Proc, Approve(p) PROVE FenceOK'
  BY <1>16 DEF Approve, Moves, Leave, MayDecide, AllOff
<1>17. ASSUME NEW p \in Proc, ReserveApplication(p) PROVE FenceOK'
  BY <1>17 DEF ReserveApplication, Moves, Leave, MayDecide, AllOff
<1>18. ASSUME NEW p \in Proc, ApplicationReturns(p) PROVE FenceOK'
  BY <1>18 DEF ApplicationReturns, Moves, Leave, AllOff
<1>19. ASSUME NEW p \in Proc, RecordApplied(p) PROVE FenceOK'
  BY <1>19 DEF RecordApplied, Leave, MayDecide, Moves, AllOff
<1>20. ASSUME NEW p \in Proc, Dispatch(p) PROVE FenceOK'
  BY <1>20 DEF Dispatch, Leave, Stage, Moves, Becomes, AllOff
<1>21. ASSUME NEW p \in Proc, Clarified(p) PROVE FenceOK'
  BY <1>21 DEF Clarified, Record, Leave, Stage, Settled, MayDecide, Moves, Becomes, AllOff
<1>22. ASSUME NEW p \in Proc, Planned(p) PROVE FenceOK'
  BY <1>22 DEF Planned, Leave, Stage, Settled, MayDecide, Moves, Becomes, AllOff
<1>23. ASSUME NEW p \in Proc, Submit(p) PROVE FenceOK'
  BY <1>23 DEF Submit, AllOff
<1>24. ASSUME NEW p \in Proc, JoinRaises(p) PROVE FenceOK'
  BY <1>24 DEF JoinRaises, Leave, Moves, AllOff
<1>25. ASSUME NEW p \in Proc, JoinFails(p) PROVE FenceOK'
  BY <1>25 DEF JoinFails, Leave, Stage, Moves, Becomes, AllOff
<1>26. ASSUME NEW p \in Proc, JoinAccepts(p) PROVE FenceOK'
  BY <1>26 DEF JoinAccepts, AllOff
<1>27. ASSUME NEW p \in Proc, ToVerification(p) PROVE FenceOK'
  BY <1>27 DEF ToVerification, AllOff, Stage, Moves, Becomes
<1>28. ASSUME NEW p \in Proc, PoolStopped(p) PROVE FenceOK'
  BY <1>28 DEF PoolStopped, AllOff, Leave, Moves
<1>29. ASSUME NEW p \in Proc, GoalVerified(p) PROVE FenceOK'
  BY <1>29 DEF GoalVerified, Leave, Stage, Settled, MayDecide, Moves, Becomes, AllOff
<1>30. ASSUME NEW p \in Proc, Replanned(p) PROVE FenceOK'
  BY <1>30 DEF Replanned, Moves, AllOff, Leave, Settled, MayDecide
<1>31. ASSUME NEW p \in Proc, Complete(p) PROVE FenceOK'
  BY <1>31 DEF Complete, Record, Leave, MayDecide, Moves, AllOff
<1>32. ASSUME NEW p \in Proc, MainEnds(p) PROVE FenceOK'
  BY <1>32 DEF MainEnds, Leave, Moves, AllOff
<1>33. ASSUME NEW t \in Task, StartTask(t) PROVE FenceOK'
  BY <1>33 DEF StartTask, Becomes, MayDecide
<1>34. ASSUME NEW t \in Task, WorkerCompleted(t) PROVE FenceOK'
  BY <1>34 DEF WorkerCompleted, Becomes, Settled, MayDecide
<1>35. ASSUME NEW t \in Task, WorkerFailed(t) PROVE FenceOK'
  BY <1>35 DEF WorkerFailed, Settled, Again, MayDecide, Becomes
<1>36. ASSUME NEW t \in Task, WorkerRequests(t) PROVE FenceOK'
  BY <1>36 DEF WorkerRequests, Becomes, Settled, MayDecide
<1>37. ASSUME NEW t \in Task, WorkerUncertain(t) PROVE FenceOK'
  BY <1>37 DEF WorkerUncertain, Becomes, Settled, MayDecide
<1>38. ASSUME NEW t \in Task, RecordUncertain(t) PROVE FenceOK'
  BY <1>38 DEF RecordUncertain, Record, Becomes
<1>39. ASSUME NEW t \in Task, LimitSettled(t) PROVE FenceOK'
  BY <1>39 DEF LimitSettled, Settled, MayDecide
<1>40. ASSUME NEW t \in Task, LimitStop(t) PROVE FenceOK'
  BY <1>40 DEF LimitStop, Record, Becomes
<1>41. ASSUME NEW t \in Task, TaskVerified(t) PROVE FenceOK'
  BY <1>41 DEF TaskVerified, Becomes, Settled, Again, MayDecide
<1>42. ASSUME NEW t \in Task, AcceptTask(t) PROVE FenceOK'
  BY <1>42 DEF AcceptTask, Becomes, MayDecide
<1>43. ASSUME NEW c \in Caller, Reserve(c) PROVE FenceOK'
  BY <1>43 DEF Reserve, Becomes, MayDecide
<1>44. ASSUME NEW c \in Caller, Launch(c) PROVE FenceOK'
  BY <1>44 DEF Launch, Becomes, MayDecide
<1>45. ASSUME NEW c \in Caller, Kill(c) PROVE FenceOK'
  BY <1>45 DEF Kill, Break, Becomes
<1>46. ASSUME NEW c \in Caller, StopThread(c) PROVE FenceOK'
  BY <1>46 DEF StopThread, Becomes, Settled, MayDecide
<1>47. ASSUME NEW c \in Caller, WatcherRemoves(c) PROVE FenceOK'
  BY <1>47 DEF WatcherRemoves
<1>48. ASSUME NEW c \in Caller, Retry(c) PROVE FenceOK'
  BY <1>48 DEF Retry, Becomes
<1>49. ASSUME NEW c \in Caller, Break(c) PROVE FenceOK'
  BY <1>49 DEF Break, Becomes
<1>50. ASSUME NEW c \in Caller, PreflightFails(c) PROVE FenceOK'
  BY <1>50 DEF PreflightFails, Record
<1>51. ASSUME NEW p \in Proc, Cancel(p) PROVE FenceOK'
  BY <1>51 DEF Cancel, Record
<1>52. ASSUME NEW p \in Proc, ControllerStops(p) PROVE FenceOK'
  BY <1>52 DEF ControllerStops, Record
<1>53. ASSUME NEW p \in Proc, Crash(p) PROVE FenceOK'
  BY <1>53 DEF Crash, Moves, Leave, AllOff
<1>54. ASSUME NEW p \in Proc, NEW c \in Commands, NEW t \in Task \cup {NoTask}, Begin(p, c, t) PROVE FenceOK'
  BY <1>54 DEF Begin, Moves, FirstPlace
<1>55. ASSUME NEW c \in Caller, NEW r \in Reply, Return(c, r) PROVE FenceOK'
  BY <1>55 DEF Return, Becomes
<1>56. CASE UNCHANGED vars
  BY <1>56 DEF vars
<1> HIDE DEF Base, TypeOK, HolderOK, OpOK, LifecycleAssumption, Place, MainPlaces, WorkPlaces, ApplyPlaces, BeforeLock, Caller, attempt, graph, process, FenceOK, Stopped, Kind
<1> QED
  BY <1>1, <1>2, <1>3, <1>4, <1>5, <1>6, <1>7, <1>8, <1>9, <1>10, <1>11, <1>12, <1>13, <1>14, <1>15, <1>16, <1>17, <1>18, <1>19, <1>20, <1>21, <1>22, <1>23, <1>24, <1>25, <1>26, <1>27, <1>28, <1>29, <1>30, <1>31, <1>32, <1>33, <1>34, <1>35, <1>36, <1>37, <1>38, <1>39, <1>40, <1>41, <1>42, <1>43, <1>44, <1>45, <1>46, <1>47, <1>48, <1>49, <1>50, <1>51, <1>52, <1>53, <1>54, <1>55, <1>56 DEF Next, CommandStep, ExecuteStep, TaskStep, InvocationStep, Environment

(* While a controller works, a request is pending only behind a thread that  *)
(* waits for it.                                                             *)
LEMMA PendingStep ==
  ASSUME LifecycleAssumption, Base, ThreadsOK, PendingOK, [Next]_vars PROVE PendingOK'
<1> USE DEF Base, TypeOK, HolderOK, OpOK, LifecycleAssumption, Place, MainPlaces, WorkPlaces, ApplyPlaces, BeforeLock, Caller, attempt, graph, process, ThreadsOK, PendingOK, Pending, AllOff, Reply, Ended
<1>1. ASSUME NEW p \in Proc, RequestCleanup(p) PROVE PendingOK'
  BY <1>1 DEF RequestCleanup, Record, Moves
<1>2. ASSUME NEW p \in Proc, RevokeStop(p) PROVE PendingOK'
  BY <1>2 DEF RevokeStop, Record, Moves
<1>3. ASSUME NEW p \in Proc, RevokeRequest(p) PROVE PendingOK'
  BY <1>3 DEF RevokeRequest, Record, Moves
<1>4. ASSUME NEW p \in Proc, TakeLock(p) PROVE PendingOK'
  BY <1>4 DEF TakeLock, Moves, EntryPlace, Admitted, Stopped
<1>5. ASSUME NEW p \in Proc, Refused(p) PROVE PendingOK'
  BY <1>5 DEF Refused, Moves, Admitted, Stopped
<1>6. ASSUME NEW p \in Proc, Answer(p) PROVE PendingOK'
  BY <1>6 DEF Answer, Moves, Admitted, Stopped
<1>7. ASSUME NEW p \in Proc, Reconcile(p) PROVE PendingOK'
  BY <1>7 DEF Reconcile, Moves
<1>8. ASSUME NEW p \in Proc, ReconcileFails(p) PROVE PendingOK'
  BY <1>8 DEF ReconcileFails, Leave, Moves, AllOff
<1>9. ASSUME NEW p \in Proc, RecoverReservations(p) PROVE PendingOK'
  BY <1>9 DEF RecoverReservations, Moves, BodyPlace
<1>10. ASSUME NEW p \in Proc, Confirm(p) PROVE PendingOK'
  BY <1>10 DEF Confirm, Record, Leave, Moves, AllOff
<1>11. ASSUME NEW p \in Proc, Supersede(p) PROVE PendingOK'
  BY <1>11 DEF Supersede, Record, Leave, Stopped, Moves, AllOff
<1>12. ASSUME NEW p \in Proc, PromoteCheck(p) PROVE PendingOK'
  BY <1>12 DEF PromoteCheck, Moves, Leave, AllOff
<1>13. ASSUME NEW p \in Proc, Export(p) PROVE PendingOK'
  BY <1>13 DEF Export, Moves, Leave, AllOff
<1>14. ASSUME NEW p \in Proc, RecordPromotion(p) PROVE PendingOK'
  BY <1>14 DEF RecordPromotion, Record, Leave, Moves, AllOff
<1>15. ASSUME NEW p \in Proc, RejectStop(p) PROVE PendingOK'
  BY <1>15 DEF RejectStop, Record, Leave, Moves, AllOff
<1>16. ASSUME NEW p \in Proc, Approve(p) PROVE PendingOK'
  BY <1>16 DEF Approve, Moves, Leave, MayDecide, AllOff
<1>17. ASSUME NEW p \in Proc, ReserveApplication(p) PROVE PendingOK'
  BY <1>17 DEF ReserveApplication, Moves, Leave, MayDecide, AllOff
<1>18. ASSUME NEW p \in Proc, ApplicationReturns(p) PROVE PendingOK'
  BY <1>18 DEF ApplicationReturns, Moves, Leave, AllOff
<1>19. ASSUME NEW p \in Proc, RecordApplied(p) PROVE PendingOK'
  BY <1>19 DEF RecordApplied, Leave, MayDecide, Moves, AllOff
<1>20. ASSUME NEW p \in Proc, Dispatch(p) PROVE PendingOK'
  BY <1>20 DEF Dispatch, Leave, Stage, Moves, Becomes, AllOff
<1>21. ASSUME NEW p \in Proc, Clarified(p) PROVE PendingOK'
  BY <1>21 DEF Clarified, Record, Leave, Stage, Settled, MayDecide, Moves, Becomes, AllOff
<1>22. ASSUME NEW p \in Proc, Planned(p) PROVE PendingOK'
  BY <1>22 DEF Planned, Leave, Stage, Settled, MayDecide, Moves, Becomes, AllOff
<1>23. ASSUME NEW p \in Proc, Submit(p) PROVE PendingOK'
  BY <1>23 DEF Submit, AllOff, Stopped
<1>24. ASSUME NEW p \in Proc, JoinRaises(p) PROVE PendingOK'
  BY <1>24 DEF JoinRaises, Leave, Exhausted, Joined, Raising, AllOff, Moves
<1>25. ASSUME NEW p \in Proc, JoinFails(p) PROVE PendingOK'
  BY <1>25 DEF JoinFails, Leave, Stage, Exhausted, Joined, Raising, AllOff, Moves, Becomes
<1>26. ASSUME NEW p \in Proc, JoinAccepts(p) PROVE PendingOK'
  BY <1>26 DEF JoinAccepts, AllOff, Exhausted, Joined, Raising
<1>27. ASSUME NEW p \in Proc, ToVerification(p) PROVE PendingOK'
  BY <1>27 DEF ToVerification, AllOff, Stage, Moves, Becomes
<1>28. ASSUME NEW p \in Proc, PoolStopped(p) PROVE PendingOK'
  BY <1>28 DEF PoolStopped, AllOff, Leave, Stopped, Moves
<1>29. ASSUME NEW p \in Proc, GoalVerified(p) PROVE PendingOK'
  BY <1>29 DEF GoalVerified, Leave, Stage, Settled, MayDecide, Moves, Becomes, AllOff
<1>30. ASSUME NEW p \in Proc, Replanned(p) PROVE PendingOK'
  BY <1>30 DEF Replanned, Moves, AllOff, Leave, Settled, MayDecide
<1>31. ASSUME NEW p \in Proc, Complete(p) PROVE PendingOK'
  BY <1>31 DEF Complete, Record, Leave, MayDecide, Moves, AllOff
<1>32. ASSUME NEW p \in Proc, MainEnds(p) PROVE PendingOK'
  BY <1>32 DEF MainEnds, Leave, Moves, AllOff
<1>33. ASSUME NEW t \in Task, StartTask(t) PROVE PendingOK'
  BY <1>33 DEF StartTask, Becomes, MayDecide
<1>34. ASSUME NEW t \in Task, WorkerCompleted(t) PROVE PendingOK'
  BY <1>34 DEF WorkerCompleted, Becomes, Settled, MayDecide
<1>35. ASSUME NEW t \in Task, WorkerFailed(t) PROVE PendingOK'
  BY <1>35 DEF WorkerFailed, Settled, Again, MayDecide, Becomes
<1>36. ASSUME NEW t \in Task, WorkerRequests(t) PROVE PendingOK'
  BY <1>36 DEF WorkerRequests, Becomes, Settled, MayDecide
<1>37. ASSUME NEW t \in Task, WorkerUncertain(t) PROVE PendingOK'
  BY <1>37 DEF WorkerUncertain, Becomes, Settled, MayDecide
<1>38. ASSUME NEW t \in Task, RecordUncertain(t) PROVE PendingOK'
  BY <1>38 DEF RecordUncertain, Record, Becomes
<1>39. ASSUME NEW t \in Task, LimitSettled(t) PROVE PendingOK'
  BY <1>39 DEF LimitSettled, Settled, MayDecide
<1>40. ASSUME NEW t \in Task, LimitStop(t) PROVE PendingOK'
  BY <1>40 DEF LimitStop, Record, Becomes
<1>41. ASSUME NEW t \in Task, TaskVerified(t) PROVE PendingOK'
  BY <1>41 DEF TaskVerified, Becomes, Settled, Again, MayDecide
<1>42. ASSUME NEW t \in Task, AcceptTask(t) PROVE PendingOK'
  BY <1>42 DEF AcceptTask, Becomes, MayDecide
<1>43. ASSUME NEW c \in Caller, Reserve(c) PROVE PendingOK'
  BY <1>43 DEF Reserve, Becomes, MayDecide
<1>44. ASSUME NEW c \in Caller, Launch(c) PROVE PendingOK'
  BY <1>44 DEF Launch, Becomes, MayDecide
<1>45. ASSUME NEW c \in Caller, Kill(c) PROVE PendingOK'
  BY <1>45 DEF Kill, Break, Stopped, Becomes
<1>46. ASSUME NEW c \in Caller, StopThread(c) PROVE PendingOK'
  BY <1>46 DEF StopThread, Becomes, Settled, MayDecide
<1>47. ASSUME NEW c \in Caller, WatcherRemoves(c) PROVE PendingOK'
  BY <1>47 DEF WatcherRemoves
<1>48. ASSUME NEW c \in Caller, Retry(c) PROVE PendingOK'
  BY <1>48 DEF Retry, Becomes
<1>49. ASSUME NEW c \in Caller, Break(c) PROVE PendingOK'
  BY <1>49 DEF Break, Becomes, Stopped
<1>50. ASSUME NEW c \in Caller, PreflightFails(c) PROVE PendingOK'
  BY <1>50 DEF PreflightFails, Record, Stopped
<1>51. ASSUME NEW p \in Proc, Cancel(p) PROVE PendingOK'
  BY <1>51 DEF Cancel, Record
<1>52. ASSUME NEW p \in Proc, ControllerStops(p) PROVE PendingOK'
  BY <1>52 DEF ControllerStops, Record, Stopped
<1>53. ASSUME NEW p \in Proc, Crash(p) PROVE PendingOK'
  BY <1>53 DEF Crash, Moves, Leave, AllOff
<1>54. ASSUME NEW p \in Proc, NEW c \in Commands, NEW t \in Task \cup {NoTask}, Begin(p, c, t) PROVE PendingOK'
  BY <1>54 DEF Begin, Moves, FirstPlace
<1>55. ASSUME NEW c \in Caller, NEW r \in Reply, Return(c, r) PROVE PendingOK'
  BY <1>55 DEF Return, Becomes
<1>56. CASE UNCHANGED vars
  BY <1>56 DEF vars
<1> HIDE DEF Base, TypeOK, HolderOK, OpOK, LifecycleAssumption, Place, MainPlaces, WorkPlaces, ApplyPlaces, BeforeLock, Caller, attempt, graph, process, ThreadsOK, PendingOK, Pending, AllOff, Reply, Ended
<1> QED
  BY <1>1, <1>2, <1>3, <1>4, <1>5, <1>6, <1>7, <1>8, <1>9, <1>10, <1>11, <1>12, <1>13, <1>14, <1>15, <1>16, <1>17, <1>18, <1>19, <1>20, <1>21, <1>22, <1>23, <1>24, <1>25, <1>26, <1>27, <1>28, <1>29, <1>30, <1>31, <1>32, <1>33, <1>34, <1>35, <1>36, <1>37, <1>38, <1>39, <1>40, <1>41, <1>42, <1>43, <1>44, <1>45, <1>46, <1>47, <1>48, <1>49, <1>50, <1>51, <1>52, <1>53, <1>54, <1>55, <1>56 DEF Next, CommandStep, ExecuteStep, TaskStep, InvocationStep, Environment

(* Completion stays the end of requests and of work.                         *)
LEMMA CompletedStep ==
  ASSUME LifecycleAssumption, Base, ThreadsOK, PendingOK, CompletedOK, [Next]_vars PROVE CompletedOK'
<1> USE DEF Base, TypeOK, HolderOK, OpOK, LifecycleAssumption, Place, MainPlaces, WorkPlaces, ApplyPlaces, BeforeLock, Caller, attempt, graph, process, ThreadsOK, PendingOK, CompletedOK, Pending, AllOff, Reply, Ended
<1>1. ASSUME NEW p \in Proc, RequestCleanup(p) PROVE CompletedOK'
  BY <1>1 DEF RequestCleanup, Record, Moves
<1>2. ASSUME NEW p \in Proc, RevokeStop(p) PROVE CompletedOK'
  BY <1>2 DEF RevokeStop, Record, Moves
<1>3. ASSUME NEW p \in Proc, RevokeRequest(p) PROVE CompletedOK'
  BY <1>3 DEF RevokeRequest, Record, Moves
<1>4. ASSUME NEW p \in Proc, TakeLock(p) PROVE CompletedOK'
  <2>1. ASSUME NEW t \in Task, "completed" \in journal PROVE ~Pending(t)'
    BY <1>4, <2>1 DEF TakeLock
  <2>2. op[p] = "approve" => Pending(subject[p])
    BY <1>4 DEF TakeLock, Admitted, Stopped
  <2>3. op[p] = "approve" => subject[p] \in Task
    BY <1>4, <2>2 DEF TakeLock
  <2>4. ASSUME NEW q \in Proc, "completed" \in journal
        PROVE (at[q] \notin WorkPlaces /\ (lock = q => op[q] # "approve"))'
    BY <1>4, <2>2, <2>3, <2>4 DEF TakeLock, Moves, EntryPlace
  <2>5. journal' = journal
    BY <1>4 DEF TakeLock
  <2> QED  BY <2>1, <2>4, <2>5
<1>5. ASSUME NEW p \in Proc, Refused(p) PROVE CompletedOK'
  BY <1>5 DEF Refused, Moves, Admitted, Stopped
<1>6. ASSUME NEW p \in Proc, Answer(p) PROVE CompletedOK'
  BY <1>6 DEF Answer, Moves, Admitted, Stopped
<1>7. ASSUME NEW p \in Proc, Reconcile(p) PROVE CompletedOK'
  BY <1>7 DEF Reconcile, Moves
<1>8. ASSUME NEW p \in Proc, ReconcileFails(p) PROVE CompletedOK'
  BY <1>8 DEF ReconcileFails, Leave, Moves, AllOff
<1>9. ASSUME NEW p \in Proc, RecoverReservations(p) PROVE CompletedOK'
  BY <1>9 DEF RecoverReservations, Moves, BodyPlace
<1>10. ASSUME NEW p \in Proc, Confirm(p) PROVE CompletedOK'
  BY <1>10 DEF Confirm, Record, Leave, Moves, AllOff
<1>11. ASSUME NEW p \in Proc, Supersede(p) PROVE CompletedOK'
  BY <1>11 DEF Supersede, Record, Leave, Stopped, Moves, AllOff
<1>12. ASSUME NEW p \in Proc, PromoteCheck(p) PROVE CompletedOK'
  BY <1>12 DEF PromoteCheck, Moves, Leave, AllOff
<1>13. ASSUME NEW p \in Proc, Export(p) PROVE CompletedOK'
  BY <1>13 DEF Export, Moves, Leave, AllOff
<1>14. ASSUME NEW p \in Proc, RecordPromotion(p) PROVE CompletedOK'
  BY <1>14 DEF RecordPromotion, Record, Leave, Moves, AllOff
<1>15. ASSUME NEW p \in Proc, RejectStop(p) PROVE CompletedOK'
  BY <1>15 DEF RejectStop, Record, Leave, Moves, AllOff
<1>16. ASSUME NEW p \in Proc, Approve(p) PROVE CompletedOK'
  BY <1>16 DEF Approve, Moves, Leave, MayDecide, AllOff
<1>17. ASSUME NEW p \in Proc, ReserveApplication(p) PROVE CompletedOK'
  BY <1>17 DEF ReserveApplication, Moves, Leave, MayDecide, AllOff
<1>18. ASSUME NEW p \in Proc, ApplicationReturns(p) PROVE CompletedOK'
  BY <1>18 DEF ApplicationReturns, Moves, Leave, AllOff
<1>19. ASSUME NEW p \in Proc, RecordApplied(p) PROVE CompletedOK'
  BY <1>19 DEF RecordApplied, Leave, MayDecide, Moves, AllOff
<1>20. ASSUME NEW p \in Proc, Dispatch(p) PROVE CompletedOK'
  BY <1>20 DEF Dispatch, Leave, Stage, Moves, Becomes, AllOff
<1>21. ASSUME NEW p \in Proc, Clarified(p) PROVE CompletedOK'
  BY <1>21 DEF Clarified, Record, Leave, Stage, Settled, MayDecide, Moves, Becomes, AllOff
<1>22. ASSUME NEW p \in Proc, Planned(p) PROVE CompletedOK'
  BY <1>22 DEF Planned, Leave, Stage, Settled, MayDecide, Moves, Becomes, AllOff
<1>23. ASSUME NEW p \in Proc, Submit(p) PROVE CompletedOK'
  BY <1>23 DEF Submit, AllOff, Stopped
<1>24. ASSUME NEW p \in Proc, JoinRaises(p) PROVE CompletedOK'
  BY <1>24 DEF JoinRaises, Leave, Exhausted, Joined, Raising, AllOff, Moves
<1>25. ASSUME NEW p \in Proc, JoinFails(p) PROVE CompletedOK'
  BY <1>25 DEF JoinFails, Leave, Stage, Exhausted, Joined, Raising, AllOff, Moves, Becomes
<1>26. ASSUME NEW p \in Proc, JoinAccepts(p) PROVE CompletedOK'
  BY <1>26 DEF JoinAccepts, AllOff, Exhausted, Joined, Raising
<1>27. ASSUME NEW p \in Proc, ToVerification(p) PROVE CompletedOK'
  BY <1>27 DEF ToVerification, AllOff, Stage, Moves, Becomes
<1>28. ASSUME NEW p \in Proc, PoolStopped(p) PROVE CompletedOK'
  BY <1>28 DEF PoolStopped, AllOff, Leave, Stopped, Moves
<1>29. ASSUME NEW p \in Proc, GoalVerified(p) PROVE CompletedOK'
  BY <1>29 DEF GoalVerified, Leave, Stage, Settled, MayDecide, Moves, Becomes, AllOff
<1>30. ASSUME NEW p \in Proc, Replanned(p) PROVE CompletedOK'
  BY <1>30 DEF Replanned, Moves, AllOff, Leave, Settled, MayDecide
<1>31. ASSUME NEW p \in Proc, Complete(p) PROVE CompletedOK'
  BY <1>31 DEF Complete, Record, Leave, MayDecide, Moves, AllOff
<1>32. ASSUME NEW p \in Proc, MainEnds(p) PROVE CompletedOK'
  BY <1>32 DEF MainEnds, Leave, Moves, AllOff
<1>33. ASSUME NEW t \in Task, StartTask(t) PROVE CompletedOK'
  BY <1>33 DEF StartTask, Becomes, MayDecide
<1>34. ASSUME NEW t \in Task, WorkerCompleted(t) PROVE CompletedOK'
  BY <1>34 DEF WorkerCompleted, Becomes, Settled, MayDecide
<1>35. ASSUME NEW t \in Task, WorkerFailed(t) PROVE CompletedOK'
  BY <1>35 DEF WorkerFailed, Settled, Again, MayDecide, Becomes
<1>36. ASSUME NEW t \in Task, WorkerRequests(t) PROVE CompletedOK'
  BY <1>36 DEF WorkerRequests, Becomes, Settled, MayDecide
<1>37. ASSUME NEW t \in Task, WorkerUncertain(t) PROVE CompletedOK'
  BY <1>37 DEF WorkerUncertain, Becomes, Settled, MayDecide
<1>38. ASSUME NEW t \in Task, RecordUncertain(t) PROVE CompletedOK'
  BY <1>38 DEF RecordUncertain, Record, Becomes
<1>39. ASSUME NEW t \in Task, LimitSettled(t) PROVE CompletedOK'
  BY <1>39 DEF LimitSettled, Settled, MayDecide
<1>40. ASSUME NEW t \in Task, LimitStop(t) PROVE CompletedOK'
  BY <1>40 DEF LimitStop, Record, Becomes
<1>41. ASSUME NEW t \in Task, TaskVerified(t) PROVE CompletedOK'
  BY <1>41 DEF TaskVerified, Becomes, Settled, Again, MayDecide
<1>42. ASSUME NEW t \in Task, AcceptTask(t) PROVE CompletedOK'
  BY <1>42 DEF AcceptTask, Becomes, MayDecide
<1>43. ASSUME NEW c \in Caller, Reserve(c) PROVE CompletedOK'
  BY <1>43 DEF Reserve, Becomes, MayDecide
<1>44. ASSUME NEW c \in Caller, Launch(c) PROVE CompletedOK'
  BY <1>44 DEF Launch, Becomes, MayDecide
<1>45. ASSUME NEW c \in Caller, Kill(c) PROVE CompletedOK'
  BY <1>45 DEF Kill, Break, Stopped, Becomes
<1>46. ASSUME NEW c \in Caller, StopThread(c) PROVE CompletedOK'
  BY <1>46 DEF StopThread, Becomes, Settled, MayDecide
<1>47. ASSUME NEW c \in Caller, WatcherRemoves(c) PROVE CompletedOK'
  BY <1>47 DEF WatcherRemoves
<1>48. ASSUME NEW c \in Caller, Retry(c) PROVE CompletedOK'
  BY <1>48 DEF Retry, Becomes
<1>49. ASSUME NEW c \in Caller, Break(c) PROVE CompletedOK'
  BY <1>49 DEF Break, Becomes, Stopped
<1>50. ASSUME NEW c \in Caller, PreflightFails(c) PROVE CompletedOK'
  BY <1>50 DEF PreflightFails, Record, Stopped
<1>51. ASSUME NEW p \in Proc, Cancel(p) PROVE CompletedOK'
  BY <1>51 DEF Cancel, Record
<1>52. ASSUME NEW p \in Proc, ControllerStops(p) PROVE CompletedOK'
  BY <1>52 DEF ControllerStops, Record, Stopped
<1>53. ASSUME NEW p \in Proc, Crash(p) PROVE CompletedOK'
  BY <1>53 DEF Crash, Moves, Leave, AllOff
<1>54. ASSUME NEW p \in Proc, NEW c \in Commands, NEW t \in Task \cup {NoTask}, Begin(p, c, t) PROVE CompletedOK'
  BY <1>54 DEF Begin, Moves, FirstPlace
<1>55. ASSUME NEW c \in Caller, NEW r \in Reply, Return(c, r) PROVE CompletedOK'
  BY <1>55 DEF Return, Becomes
<1>56. CASE UNCHANGED vars
  BY <1>56 DEF vars
<1> HIDE DEF Base, TypeOK, HolderOK, OpOK, LifecycleAssumption, Place, MainPlaces, WorkPlaces, ApplyPlaces, BeforeLock, Caller, attempt, graph, process, ThreadsOK, PendingOK, CompletedOK, Pending, AllOff, Reply, Ended
<1> QED
  BY <1>1, <1>2, <1>3, <1>4, <1>5, <1>6, <1>7, <1>8, <1>9, <1>10, <1>11, <1>12, <1>13, <1>14, <1>15, <1>16, <1>17, <1>18, <1>19, <1>20, <1>21, <1>22, <1>23, <1>24, <1>25, <1>26, <1>27, <1>28, <1>29, <1>30, <1>31, <1>32, <1>33, <1>34, <1>35, <1>36, <1>37, <1>38, <1>39, <1>40, <1>41, <1>42, <1>43, <1>44, <1>45, <1>46, <1>47, <1>48, <1>49, <1>50, <1>51, <1>52, <1>53, <1>54, <1>55, <1>56 DEF Next, CommandStep, ExecuteStep, TaskStep, InvocationStep, Environment

(* Nothing appears between reconciliation and confirmation or application.   *)
LEMMA RecoveredStep ==
  ASSUME LifecycleAssumption, Base, ThreadsOK, RecoveredOK, [Next]_vars PROVE RecoveredOK'
<1> USE DEF Base, TypeOK, HolderOK, OpOK, LifecycleAssumption, Place, MainPlaces, WorkPlaces, ApplyPlaces, BeforeLock, Caller, attempt, graph, process, ThreadsOK, RecoveredOK, NoEnvironment, AllOff, Reply, Ended
<1>1. ASSUME NEW p \in Proc, RequestCleanup(p) PROVE RecoveredOK'
  BY <1>1 DEF RequestCleanup, Record, Moves
<1>2. ASSUME NEW p \in Proc, RevokeStop(p) PROVE RecoveredOK'
  BY <1>2 DEF RevokeStop, Record, Moves
<1>3. ASSUME NEW p \in Proc, RevokeRequest(p) PROVE RecoveredOK'
  BY <1>3 DEF RevokeRequest, Record, Moves
<1>4. ASSUME NEW p \in Proc, TakeLock(p) PROVE RecoveredOK'
  BY <1>4 DEF TakeLock, Moves, EntryPlace
<1>5. ASSUME NEW p \in Proc, Refused(p) PROVE RecoveredOK'
  BY <1>5 DEF Refused, Moves
<1>6. ASSUME NEW p \in Proc, Answer(p) PROVE RecoveredOK'
  BY <1>6 DEF Answer, Moves
<1>7. ASSUME NEW p \in Proc, Reconcile(p) PROVE RecoveredOK'
  BY <1>7 DEF Reconcile, Moves
<1>8. ASSUME NEW p \in Proc, ReconcileFails(p) PROVE RecoveredOK'
  BY <1>8 DEF ReconcileFails, Leave, Moves, AllOff
<1>9. ASSUME NEW p \in Proc, RecoverReservations(p) PROVE RecoveredOK'
  BY <1>9 DEF RecoverReservations, Moves, BodyPlace
<1>10. ASSUME NEW p \in Proc, Confirm(p) PROVE RecoveredOK'
  BY <1>10 DEF Confirm, Record, Leave, Moves, AllOff
<1>11. ASSUME NEW p \in Proc, Supersede(p) PROVE RecoveredOK'
  BY <1>11 DEF Supersede, Record, Leave, Stopped, Moves, AllOff
<1>12. ASSUME NEW p \in Proc, PromoteCheck(p) PROVE RecoveredOK'
  BY <1>12 DEF PromoteCheck, Moves, Leave, AllOff
<1>13. ASSUME NEW p \in Proc, Export(p) PROVE RecoveredOK'
  BY <1>13 DEF Export, Moves, Leave, AllOff
<1>14. ASSUME NEW p \in Proc, RecordPromotion(p) PROVE RecoveredOK'
  BY <1>14 DEF RecordPromotion, Record, Leave, Moves, AllOff
<1>15. ASSUME NEW p \in Proc, RejectStop(p) PROVE RecoveredOK'
  BY <1>15 DEF RejectStop, Record, Leave, Moves, AllOff
<1>16. ASSUME NEW p \in Proc, Approve(p) PROVE RecoveredOK'
  BY <1>16 DEF Approve, Moves, Leave, MayDecide, AllOff
<1>17. ASSUME NEW p \in Proc, ReserveApplication(p) PROVE RecoveredOK'
  BY <1>17 DEF ReserveApplication, Moves, Leave, MayDecide, AllOff
<1>18. ASSUME NEW p \in Proc, ApplicationReturns(p) PROVE RecoveredOK'
  BY <1>18 DEF ApplicationReturns, Moves, Leave, AllOff
<1>19. ASSUME NEW p \in Proc, RecordApplied(p) PROVE RecoveredOK'
  BY <1>19 DEF RecordApplied, Leave, MayDecide, Moves, AllOff
<1>20. ASSUME NEW p \in Proc, Dispatch(p) PROVE RecoveredOK'
  BY <1>20 DEF Dispatch, Leave, Stage, Moves, Becomes, AllOff
<1>21. ASSUME NEW p \in Proc, Clarified(p) PROVE RecoveredOK'
  BY <1>21 DEF Clarified, Record, Leave, Stage, Settled, MayDecide, Moves, Becomes, AllOff
<1>22. ASSUME NEW p \in Proc, Planned(p) PROVE RecoveredOK'
  BY <1>22 DEF Planned, Leave, Stage, Settled, MayDecide, Moves, Becomes, AllOff
<1>23. ASSUME NEW p \in Proc, Submit(p) PROVE RecoveredOK'
  BY <1>23 DEF Submit, AllOff, Stopped
<1>24. ASSUME NEW p \in Proc, JoinRaises(p) PROVE RecoveredOK'
  BY <1>24 DEF JoinRaises, Leave, Moves, AllOff
<1>25. ASSUME NEW p \in Proc, JoinFails(p) PROVE RecoveredOK'
  BY <1>25 DEF JoinFails, Leave, Stage, Moves, Becomes, AllOff
<1>26. ASSUME NEW p \in Proc, JoinAccepts(p) PROVE RecoveredOK'
  BY <1>26 DEF JoinAccepts, AllOff
<1>27. ASSUME NEW p \in Proc, ToVerification(p) PROVE RecoveredOK'
  BY <1>27 DEF ToVerification, AllOff, Stage, Moves, Becomes
<1>28. ASSUME NEW p \in Proc, PoolStopped(p) PROVE RecoveredOK'
  BY <1>28 DEF PoolStopped, AllOff, Leave, Stopped, Moves
<1>29. ASSUME NEW p \in Proc, GoalVerified(p) PROVE RecoveredOK'
  BY <1>29 DEF GoalVerified, Leave, Stage, Settled, MayDecide, Moves, Becomes, AllOff
<1>30. ASSUME NEW p \in Proc, Replanned(p) PROVE RecoveredOK'
  BY <1>30 DEF Replanned, Moves, AllOff, Leave, Settled, MayDecide
<1>31. ASSUME NEW p \in Proc, Complete(p) PROVE RecoveredOK'
  BY <1>31 DEF Complete, Record, Leave, MayDecide, Moves, AllOff
<1>32. ASSUME NEW p \in Proc, MainEnds(p) PROVE RecoveredOK'
  BY <1>32 DEF MainEnds, Leave, Moves, AllOff
<1>33. ASSUME NEW t \in Task, StartTask(t) PROVE RecoveredOK'
  BY <1>33 DEF StartTask, Becomes, MayDecide
<1>34. ASSUME NEW t \in Task, WorkerCompleted(t) PROVE RecoveredOK'
  BY <1>34 DEF WorkerCompleted, Becomes, Settled, MayDecide
<1>35. ASSUME NEW t \in Task, WorkerFailed(t) PROVE RecoveredOK'
  BY <1>35 DEF WorkerFailed, Settled, Again, MayDecide, Becomes
<1>36. ASSUME NEW t \in Task, WorkerRequests(t) PROVE RecoveredOK'
  BY <1>36 DEF WorkerRequests, Becomes, Settled, MayDecide
<1>37. ASSUME NEW t \in Task, WorkerUncertain(t) PROVE RecoveredOK'
  BY <1>37 DEF WorkerUncertain, Becomes, Settled, MayDecide
<1>38. ASSUME NEW t \in Task, RecordUncertain(t) PROVE RecoveredOK'
  BY <1>38 DEF RecordUncertain, Record, Becomes
<1>39. ASSUME NEW t \in Task, LimitSettled(t) PROVE RecoveredOK'
  BY <1>39 DEF LimitSettled, Settled, MayDecide
<1>40. ASSUME NEW t \in Task, LimitStop(t) PROVE RecoveredOK'
  BY <1>40 DEF LimitStop, Record, Becomes
<1>41. ASSUME NEW t \in Task, TaskVerified(t) PROVE RecoveredOK'
  BY <1>41 DEF TaskVerified, Becomes, Settled, Again, MayDecide
<1>42. ASSUME NEW t \in Task, AcceptTask(t) PROVE RecoveredOK'
  BY <1>42 DEF AcceptTask, Becomes, MayDecide
<1>43. ASSUME NEW c \in Caller, Reserve(c) PROVE RecoveredOK'
  BY <1>43 DEF Reserve, Becomes, MayDecide
<1>44. ASSUME NEW c \in Caller, Launch(c) PROVE RecoveredOK'
  BY <1>44 DEF Launch, Becomes, MayDecide
<1>45. ASSUME NEW c \in Caller, Kill(c) PROVE RecoveredOK'
  BY <1>45 DEF Kill, Break, Stopped, Becomes
<1>46. ASSUME NEW c \in Caller, StopThread(c) PROVE RecoveredOK'
  BY <1>46 DEF StopThread, Becomes, Settled, MayDecide
<1>47. ASSUME NEW c \in Caller, WatcherRemoves(c) PROVE RecoveredOK'
  BY <1>47 DEF WatcherRemoves
<1>48. ASSUME NEW c \in Caller, Retry(c) PROVE RecoveredOK'
  BY <1>48 DEF Retry, Becomes
<1>49. ASSUME NEW c \in Caller, Break(c) PROVE RecoveredOK'
  BY <1>49 DEF Break, Becomes, Stopped
<1>50. ASSUME NEW c \in Caller, PreflightFails(c) PROVE RecoveredOK'
  BY <1>50 DEF PreflightFails, Record, Stopped
<1>51. ASSUME NEW p \in Proc, Cancel(p) PROVE RecoveredOK'
  BY <1>51 DEF Cancel, Record
<1>52. ASSUME NEW p \in Proc, ControllerStops(p) PROVE RecoveredOK'
  BY <1>52 DEF ControllerStops, Record, Stopped
<1>53. ASSUME NEW p \in Proc, Crash(p) PROVE RecoveredOK'
  BY <1>53 DEF Crash, Moves, Leave, AllOff
<1>54. ASSUME NEW p \in Proc, NEW c \in Commands, NEW t \in Task \cup {NoTask}, Begin(p, c, t) PROVE RecoveredOK'
  BY <1>54 DEF Begin, Moves, FirstPlace
<1>55. ASSUME NEW c \in Caller, NEW r \in Reply, Return(c, r) PROVE RecoveredOK'
  BY <1>55 DEF Return, Becomes
<1>56. CASE UNCHANGED vars
  BY <1>56 DEF vars
<1> HIDE DEF Base, TypeOK, HolderOK, OpOK, LifecycleAssumption, Place, MainPlaces, WorkPlaces, ApplyPlaces, BeforeLock, Caller, attempt, graph, process, ThreadsOK, RecoveredOK, NoEnvironment, AllOff, Reply, Ended
<1> QED
  BY <1>1, <1>2, <1>3, <1>4, <1>5, <1>6, <1>7, <1>8, <1>9, <1>10, <1>11, <1>12, <1>13, <1>14, <1>15, <1>16, <1>17, <1>18, <1>19, <1>20, <1>21, <1>22, <1>23, <1>24, <1>25, <1>26, <1>27, <1>28, <1>29, <1>30, <1>31, <1>32, <1>33, <1>34, <1>35, <1>36, <1>37, <1>38, <1>39, <1>40, <1>41, <1>42, <1>43, <1>44, <1>45, <1>46, <1>47, <1>48, <1>49, <1>50, <1>51, <1>52, <1>53, <1>54, <1>55, <1>56 DEF Next, CommandStep, ExecuteStep, TaskStep, InvocationStep, Environment

(* Behind a confirmation nothing starts again.                               *)
LEMMA ConfirmedStep ==
  ASSUME LifecycleAssumption, Base, ThreadsOK, FenceOK, CompletedOK, RecoveredOK, ConfirmedOK, [Next]_vars PROVE ConfirmedOK'
<1> USE DEF Base, TypeOK, HolderOK, OpOK, LifecycleAssumption, Place, MainPlaces, WorkPlaces, ApplyPlaces, BeforeLock, Caller, attempt, graph, process, ThreadsOK, FenceOK, CompletedOK, RecoveredOK, ConfirmedOK, Confirmed, NoEnvironment, AllOff, Stopped
<1>1. ASSUME NEW p \in Proc, RequestCleanup(p) PROVE ConfirmedOK'
  BY <1>1 DEF RequestCleanup, Record, Moves
<1>2. ASSUME NEW p \in Proc, RevokeStop(p) PROVE ConfirmedOK'
  BY <1>2 DEF RevokeStop, Record, Moves
<1>3. ASSUME NEW p \in Proc, RevokeRequest(p) PROVE ConfirmedOK'
  BY <1>3 DEF RevokeRequest, Record, Moves
<1>4. ASSUME NEW p \in Proc, TakeLock(p) PROVE ConfirmedOK'
  BY <1>4 DEF TakeLock, Moves, EntryPlace, Admitted, Pending
<1>5. ASSUME NEW p \in Proc, Refused(p) PROVE ConfirmedOK'
  BY <1>5 DEF Refused, Moves, Admitted, Pending
<1>6. ASSUME NEW p \in Proc, Answer(p) PROVE ConfirmedOK'
  BY <1>6 DEF Answer, Moves, Admitted, Pending
<1>7. ASSUME NEW p \in Proc, Reconcile(p) PROVE ConfirmedOK'
  BY <1>7 DEF Reconcile, Moves
<1>8. ASSUME NEW p \in Proc, ReconcileFails(p) PROVE ConfirmedOK'
  BY <1>8 DEF ReconcileFails, Leave, Moves, AllOff
<1>9. ASSUME NEW p \in Proc, RecoverReservations(p) PROVE ConfirmedOK'
  BY <1>9 DEF RecoverReservations, Moves, BodyPlace
<1>10. ASSUME NEW p \in Proc, Confirm(p) PROVE ConfirmedOK'
  BY <1>10 DEF Confirm, Record, Leave, Moves, AllOff
<1>11. ASSUME NEW p \in Proc, Supersede(p) PROVE ConfirmedOK'
  BY <1>11 DEF Supersede, Record, Leave, Moves, AllOff
<1>12. ASSUME NEW p \in Proc, PromoteCheck(p) PROVE ConfirmedOK'
  BY <1>12 DEF PromoteCheck, Moves, Leave, AllOff
<1>13. ASSUME NEW p \in Proc, Export(p) PROVE ConfirmedOK'
  BY <1>13 DEF Export, Moves, Leave, AllOff
<1>14. ASSUME NEW p \in Proc, RecordPromotion(p) PROVE ConfirmedOK'
  BY <1>14 DEF RecordPromotion, Record, Leave, Moves, AllOff
<1>15. ASSUME NEW p \in Proc, RejectStop(p) PROVE ConfirmedOK'
  BY <1>15 DEF RejectStop, Record, Leave, Moves, AllOff
<1>16. ASSUME NEW p \in Proc, Approve(p) PROVE ConfirmedOK'
  BY <1>16 DEF Approve, Moves, Leave, MayDecide, AllOff
<1>17. ASSUME NEW p \in Proc, ReserveApplication(p) PROVE ConfirmedOK'
  BY <1>17 DEF ReserveApplication, Moves, Leave, MayDecide, AllOff
<1>18. ASSUME NEW p \in Proc, ApplicationReturns(p) PROVE ConfirmedOK'
  BY <1>18 DEF ApplicationReturns, Moves, Leave, AllOff
<1>19. ASSUME NEW p \in Proc, RecordApplied(p) PROVE ConfirmedOK'
  BY <1>19 DEF RecordApplied, Leave, MayDecide, Moves, AllOff
<1>20. ASSUME NEW p \in Proc, Dispatch(p) PROVE ConfirmedOK'
  BY <1>20 DEF Dispatch, Leave, Stage, Pending, Moves, Becomes, AllOff
<1>21. ASSUME NEW p \in Proc, Clarified(p) PROVE ConfirmedOK'
  BY <1>21 DEF Clarified, Record, Leave, Stage, Settled, MayDecide, Moves, Becomes, AllOff
<1>22. ASSUME NEW p \in Proc, Planned(p) PROVE ConfirmedOK'
  BY <1>22 DEF Planned, Leave, Stage, Settled, MayDecide, Moves, Becomes, AllOff
<1>23. ASSUME NEW p \in Proc, Submit(p) PROVE ConfirmedOK'
  BY <1>23 DEF Submit, AllOff
<1>24. ASSUME NEW p \in Proc, JoinRaises(p) PROVE ConfirmedOK'
  BY <1>24 DEF JoinRaises, Leave, Moves, AllOff
<1>25. ASSUME NEW p \in Proc, JoinFails(p) PROVE ConfirmedOK'
  BY <1>25 DEF JoinFails, Leave, Stage, Moves, Becomes, AllOff
<1>26. ASSUME NEW p \in Proc, JoinAccepts(p) PROVE ConfirmedOK'
  BY <1>26 DEF JoinAccepts, AllOff
<1>27. ASSUME NEW p \in Proc, ToVerification(p) PROVE ConfirmedOK'
  BY <1>27 DEF ToVerification, AllOff, Stage, Moves, Becomes
<1>28. ASSUME NEW p \in Proc, PoolStopped(p) PROVE ConfirmedOK'
  BY <1>28 DEF PoolStopped, AllOff, Leave, Moves
<1>29. ASSUME NEW p \in Proc, GoalVerified(p) PROVE ConfirmedOK'
  BY <1>29 DEF GoalVerified, Leave, Stage, Settled, MayDecide, Moves, Becomes, AllOff
<1>30. ASSUME NEW p \in Proc, Replanned(p) PROVE ConfirmedOK'
  BY <1>30 DEF Replanned, Moves, AllOff, Leave, Settled, MayDecide
<1>31. ASSUME NEW p \in Proc, Complete(p) PROVE ConfirmedOK'
  BY <1>31 DEF Complete, Record, Leave, MayDecide, Moves, AllOff
<1>32. ASSUME NEW p \in Proc, MainEnds(p) PROVE ConfirmedOK'
  BY <1>32 DEF MainEnds, Leave, Moves, AllOff
<1>33. ASSUME NEW t \in Task, StartTask(t) PROVE ConfirmedOK'
  BY <1>33 DEF StartTask, Becomes, MayDecide
<1>34. ASSUME NEW t \in Task, WorkerCompleted(t) PROVE ConfirmedOK'
  BY <1>34 DEF WorkerCompleted, Becomes, Settled, MayDecide
<1>35. ASSUME NEW t \in Task, WorkerFailed(t) PROVE ConfirmedOK'
  BY <1>35 DEF WorkerFailed, Settled, Again, MayDecide, Becomes
<1>36. ASSUME NEW t \in Task, WorkerRequests(t) PROVE ConfirmedOK'
  BY <1>36 DEF WorkerRequests, Becomes, Settled, MayDecide
<1>37. ASSUME NEW t \in Task, WorkerUncertain(t) PROVE ConfirmedOK'
  BY <1>37 DEF WorkerUncertain, Becomes, Settled, MayDecide
<1>38. ASSUME NEW t \in Task, RecordUncertain(t) PROVE ConfirmedOK'
  BY <1>38 DEF RecordUncertain, Record, Becomes
<1>39. ASSUME NEW t \in Task, LimitSettled(t) PROVE ConfirmedOK'
  BY <1>39 DEF LimitSettled, Settled, MayDecide
<1>40. ASSUME NEW t \in Task, LimitStop(t) PROVE ConfirmedOK'
  BY <1>40 DEF LimitStop, Record, Becomes
<1>41. ASSUME NEW t \in Task, TaskVerified(t) PROVE ConfirmedOK'
  BY <1>41 DEF TaskVerified, Becomes, Settled, Again, MayDecide
<1>42. ASSUME NEW t \in Task, AcceptTask(t) PROVE ConfirmedOK'
  BY <1>42 DEF AcceptTask, Becomes, MayDecide
<1>43. ASSUME NEW c \in Caller, Reserve(c) PROVE ConfirmedOK'
  BY <1>43 DEF Reserve, Becomes, MayDecide
<1>44. ASSUME NEW c \in Caller, Launch(c) PROVE ConfirmedOK'
  BY <1>44 DEF Launch, Becomes, MayDecide
<1>45. ASSUME NEW c \in Caller, Kill(c) PROVE ConfirmedOK'
  BY <1>45 DEF Kill, Break, Becomes
<1>46. ASSUME NEW c \in Caller, StopThread(c) PROVE ConfirmedOK'
  BY <1>46 DEF StopThread, Becomes, Settled, MayDecide
<1>47. ASSUME NEW c \in Caller, WatcherRemoves(c) PROVE ConfirmedOK'
  BY <1>47 DEF WatcherRemoves
<1>48. ASSUME NEW c \in Caller, Retry(c) PROVE ConfirmedOK'
  BY <1>48 DEF Retry, Becomes
<1>49. ASSUME NEW c \in Caller, Break(c) PROVE ConfirmedOK'
  BY <1>49 DEF Break, Becomes
<1>50. ASSUME NEW c \in Caller, PreflightFails(c) PROVE ConfirmedOK'
  BY <1>50 DEF PreflightFails, Record
<1>51. ASSUME NEW p \in Proc, Cancel(p) PROVE ConfirmedOK'
  BY <1>51 DEF Cancel, Record
<1>52. ASSUME NEW p \in Proc, ControllerStops(p) PROVE ConfirmedOK'
  BY <1>52 DEF ControllerStops, Record
<1>53. ASSUME NEW p \in Proc, Crash(p) PROVE ConfirmedOK'
  BY <1>53 DEF Crash, Moves, Leave, AllOff
<1>54. ASSUME NEW p \in Proc, NEW c \in Commands, NEW t \in Task \cup {NoTask}, Begin(p, c, t) PROVE ConfirmedOK'
  BY <1>54 DEF Begin, Moves, FirstPlace
<1>55. ASSUME NEW c \in Caller, NEW r \in Reply, Return(c, r) PROVE ConfirmedOK'
  BY <1>55 DEF Return, Becomes
<1>56. CASE UNCHANGED vars
  BY <1>56 DEF vars
<1> HIDE DEF Base, TypeOK, HolderOK, OpOK, LifecycleAssumption, Place, MainPlaces, WorkPlaces, ApplyPlaces, BeforeLock, Caller, attempt, graph, process, ThreadsOK, FenceOK, CompletedOK, RecoveredOK, ConfirmedOK, Confirmed, NoEnvironment, AllOff, Stopped
<1> QED
  BY <1>1, <1>2, <1>3, <1>4, <1>5, <1>6, <1>7, <1>8, <1>9, <1>10, <1>11, <1>12, <1>13, <1>14, <1>15, <1>16, <1>17, <1>18, <1>19, <1>20, <1>21, <1>22, <1>23, <1>24, <1>25, <1>26, <1>27, <1>28, <1>29, <1>30, <1>31, <1>32, <1>33, <1>34, <1>35, <1>36, <1>37, <1>38, <1>39, <1>40, <1>41, <1>42, <1>43, <1>44, <1>45, <1>46, <1>47, <1>48, <1>49, <1>50, <1>51, <1>52, <1>53, <1>54, <1>55, <1>56 DEF Next, CommandStep, ExecuteStep, TaskStep, InvocationStep, Environment

(* Nothing takes an approval back under the command that applies it.         *)
LEMMA ApprovedStep ==
  ASSUME LifecycleAssumption, Base, ThreadsOK, ApprovedOK, [Next]_vars PROVE ApprovedOK'
<1> USE DEF Base, TypeOK, HolderOK, OpOK, LifecycleAssumption, Place, MainPlaces, WorkPlaces, ApplyPlaces, BeforeLock, Caller, attempt, graph, process, ThreadsOK, ApprovedOK, AllOff, Reply, Ended
<1>1. ASSUME NEW p \in Proc, RequestCleanup(p) PROVE ApprovedOK'
  BY <1>1 DEF RequestCleanup, Record, Moves
<1>2. ASSUME NEW p \in Proc, RevokeStop(p) PROVE ApprovedOK'
  BY <1>2 DEF RevokeStop, Record, Moves
<1>3. ASSUME NEW p \in Proc, RevokeRequest(p) PROVE ApprovedOK'
  BY <1>3 DEF RevokeRequest, Record, Moves
<1>4. ASSUME NEW p \in Proc, TakeLock(p) PROVE ApprovedOK'
  BY <1>4 DEF TakeLock, Moves, EntryPlace, Admitted, Stopped, Pending
<1>5. ASSUME NEW p \in Proc, Refused(p) PROVE ApprovedOK'
  BY <1>5 DEF Refused, Moves, Admitted, Stopped, Pending
<1>6. ASSUME NEW p \in Proc, Answer(p) PROVE ApprovedOK'
  BY <1>6 DEF Answer, Moves, Admitted, Stopped, Pending
<1>7. ASSUME NEW p \in Proc, Reconcile(p) PROVE ApprovedOK'
  BY <1>7 DEF Reconcile, Moves
<1>8. ASSUME NEW p \in Proc, ReconcileFails(p) PROVE ApprovedOK'
  BY <1>8 DEF ReconcileFails, Leave, Moves, AllOff
<1>9. ASSUME NEW p \in Proc, RecoverReservations(p) PROVE ApprovedOK'
  BY <1>9 DEF RecoverReservations, Moves, BodyPlace
<1>10. ASSUME NEW p \in Proc, Confirm(p) PROVE ApprovedOK'
  BY <1>10 DEF Confirm, Record, Leave, Moves, AllOff
<1>11. ASSUME NEW p \in Proc, Supersede(p) PROVE ApprovedOK'
  BY <1>11 DEF Supersede, Record, Leave, Stopped, Moves, AllOff
<1>12. ASSUME NEW p \in Proc, PromoteCheck(p) PROVE ApprovedOK'
  BY <1>12 DEF PromoteCheck, Moves, Leave, AllOff
<1>13. ASSUME NEW p \in Proc, Export(p) PROVE ApprovedOK'
  BY <1>13 DEF Export, Moves, Leave, AllOff
<1>14. ASSUME NEW p \in Proc, RecordPromotion(p) PROVE ApprovedOK'
  BY <1>14 DEF RecordPromotion, Record, Leave, Moves, AllOff
<1>15. ASSUME NEW p \in Proc, RejectStop(p) PROVE ApprovedOK'
  BY <1>15 DEF RejectStop, Record, Leave, Moves, AllOff
<1>16. ASSUME NEW p \in Proc, Approve(p) PROVE ApprovedOK'
  BY <1>16 DEF Approve, Moves, Leave, MayDecide, AllOff
<1>17. ASSUME NEW p \in Proc, ReserveApplication(p) PROVE ApprovedOK'
  BY <1>17 DEF ReserveApplication, Moves, Leave, MayDecide, AllOff
<1>18. ASSUME NEW p \in Proc, ApplicationReturns(p) PROVE ApprovedOK'
  BY <1>18 DEF ApplicationReturns, Moves, Leave, AllOff
<1>19. ASSUME NEW p \in Proc, RecordApplied(p) PROVE ApprovedOK'
  BY <1>19 DEF RecordApplied, Leave, MayDecide, Moves, AllOff
<1>20. ASSUME NEW p \in Proc, Dispatch(p) PROVE ApprovedOK'
  BY <1>20 DEF Dispatch, Leave, Stage, Pending, Moves, Becomes, AllOff
<1>21. ASSUME NEW p \in Proc, Clarified(p) PROVE ApprovedOK'
  BY <1>21 DEF Clarified, Record, Leave, Stage, Settled, MayDecide, Moves, Becomes, AllOff
<1>22. ASSUME NEW p \in Proc, Planned(p) PROVE ApprovedOK'
  BY <1>22 DEF Planned, Leave, Stage, Settled, MayDecide, Moves, Becomes, AllOff
<1>23. ASSUME NEW p \in Proc, Submit(p) PROVE ApprovedOK'
  BY <1>23 DEF Submit, AllOff, Stopped
<1>24. ASSUME NEW p \in Proc, JoinRaises(p) PROVE ApprovedOK'
  BY <1>24 DEF JoinRaises, Leave, Exhausted, Joined, Raising, AllOff, Moves
<1>25. ASSUME NEW p \in Proc, JoinFails(p) PROVE ApprovedOK'
  BY <1>25 DEF JoinFails, Leave, Stage, Exhausted, Joined, Raising, AllOff, Moves, Becomes
<1>26. ASSUME NEW p \in Proc, JoinAccepts(p) PROVE ApprovedOK'
  BY <1>26 DEF JoinAccepts, AllOff, Exhausted, Joined, Raising
<1>27. ASSUME NEW p \in Proc, ToVerification(p) PROVE ApprovedOK'
  BY <1>27 DEF ToVerification, AllOff, Stage, Moves, Becomes
<1>28. ASSUME NEW p \in Proc, PoolStopped(p) PROVE ApprovedOK'
  BY <1>28 DEF PoolStopped, AllOff, Leave, Stopped, Moves
<1>29. ASSUME NEW p \in Proc, GoalVerified(p) PROVE ApprovedOK'
  BY <1>29 DEF GoalVerified, Leave, Stage, Settled, MayDecide, Moves, Becomes, AllOff
<1>30. ASSUME NEW p \in Proc, Replanned(p) PROVE ApprovedOK'
  BY <1>30 DEF Replanned, Moves, AllOff, Leave, Settled, MayDecide
<1>31. ASSUME NEW p \in Proc, Complete(p) PROVE ApprovedOK'
  BY <1>31 DEF Complete, Record, Leave, MayDecide, Moves, AllOff
<1>32. ASSUME NEW p \in Proc, MainEnds(p) PROVE ApprovedOK'
  BY <1>32 DEF MainEnds, Leave, Moves, AllOff
<1>33. ASSUME NEW t \in Task, StartTask(t) PROVE ApprovedOK'
  BY <1>33 DEF StartTask, Becomes, MayDecide
<1>34. ASSUME NEW t \in Task, WorkerCompleted(t) PROVE ApprovedOK'
  BY <1>34 DEF WorkerCompleted, Becomes, Settled, MayDecide
<1>35. ASSUME NEW t \in Task, WorkerFailed(t) PROVE ApprovedOK'
  BY <1>35 DEF WorkerFailed, Settled, Again, MayDecide, Becomes
<1>36. ASSUME NEW t \in Task, WorkerRequests(t) PROVE ApprovedOK'
  BY <1>36 DEF WorkerRequests, Becomes, Settled, MayDecide
<1>37. ASSUME NEW t \in Task, WorkerUncertain(t) PROVE ApprovedOK'
  BY <1>37 DEF WorkerUncertain, Becomes, Settled, MayDecide
<1>38. ASSUME NEW t \in Task, RecordUncertain(t) PROVE ApprovedOK'
  BY <1>38 DEF RecordUncertain, Record, Becomes
<1>39. ASSUME NEW t \in Task, LimitSettled(t) PROVE ApprovedOK'
  BY <1>39 DEF LimitSettled, Settled, MayDecide
<1>40. ASSUME NEW t \in Task, LimitStop(t) PROVE ApprovedOK'
  BY <1>40 DEF LimitStop, Record, Becomes
<1>41. ASSUME NEW t \in Task, TaskVerified(t) PROVE ApprovedOK'
  BY <1>41 DEF TaskVerified, Becomes, Settled, Again, MayDecide
<1>42. ASSUME NEW t \in Task, AcceptTask(t) PROVE ApprovedOK'
  BY <1>42 DEF AcceptTask, Becomes, MayDecide
<1>43. ASSUME NEW c \in Caller, Reserve(c) PROVE ApprovedOK'
  BY <1>43 DEF Reserve, Becomes, MayDecide
<1>44. ASSUME NEW c \in Caller, Launch(c) PROVE ApprovedOK'
  BY <1>44 DEF Launch, Becomes, MayDecide
<1>45. ASSUME NEW c \in Caller, Kill(c) PROVE ApprovedOK'
  BY <1>45 DEF Kill, Break, Stopped, Becomes
<1>46. ASSUME NEW c \in Caller, StopThread(c) PROVE ApprovedOK'
  BY <1>46 DEF StopThread, Becomes, Settled, MayDecide
<1>47. ASSUME NEW c \in Caller, WatcherRemoves(c) PROVE ApprovedOK'
  BY <1>47 DEF WatcherRemoves
<1>48. ASSUME NEW c \in Caller, Retry(c) PROVE ApprovedOK'
  BY <1>48 DEF Retry, Becomes
<1>49. ASSUME NEW c \in Caller, Break(c) PROVE ApprovedOK'
  BY <1>49 DEF Break, Becomes, Stopped
<1>50. ASSUME NEW c \in Caller, PreflightFails(c) PROVE ApprovedOK'
  BY <1>50 DEF PreflightFails, Record, Stopped
<1>51. ASSUME NEW p \in Proc, Cancel(p) PROVE ApprovedOK'
  BY <1>51 DEF Cancel, Record
<1>52. ASSUME NEW p \in Proc, ControllerStops(p) PROVE ApprovedOK'
  BY <1>52 DEF ControllerStops, Record, Stopped
<1>53. ASSUME NEW p \in Proc, Crash(p) PROVE ApprovedOK'
  BY <1>53 DEF Crash, Moves, Leave, AllOff
<1>54. ASSUME NEW p \in Proc, NEW c \in Commands, NEW t \in Task \cup {NoTask}, Begin(p, c, t) PROVE ApprovedOK'
  BY <1>54 DEF Begin, Moves, FirstPlace
<1>55. ASSUME NEW c \in Caller, NEW r \in Reply, Return(c, r) PROVE ApprovedOK'
  BY <1>55 DEF Return, Becomes
<1>56. CASE UNCHANGED vars
  BY <1>56 DEF vars
<1> HIDE DEF Base, TypeOK, HolderOK, OpOK, LifecycleAssumption, Place, MainPlaces, WorkPlaces, ApplyPlaces, BeforeLock, Caller, attempt, graph, process, ThreadsOK, ApprovedOK, AllOff, Reply, Ended
<1> QED
  BY <1>1, <1>2, <1>3, <1>4, <1>5, <1>6, <1>7, <1>8, <1>9, <1>10, <1>11, <1>12, <1>13, <1>14, <1>15, <1>16, <1>17, <1>18, <1>19, <1>20, <1>21, <1>22, <1>23, <1>24, <1>25, <1>26, <1>27, <1>28, <1>29, <1>30, <1>31, <1>32, <1>33, <1>34, <1>35, <1>36, <1>37, <1>38, <1>39, <1>40, <1>41, <1>42, <1>43, <1>44, <1>45, <1>46, <1>47, <1>48, <1>49, <1>50, <1>51, <1>52, <1>53, <1>54, <1>55, <1>56 DEF Next, CommandStep, ExecuteStep, TaskStep, InvocationStep, Environment

(* No step frees an environment from its charge, or continues beside one that *)
(* a dead controller left behind.                                            *)
LEMMA EnvStep ==
  ASSUME LifecycleAssumption, Base, ThreadsOK, RecoveredOK, EnvOK, [Next]_vars PROVE EnvOK'
<1> USE DEF Base, TypeOK, HolderOK, OpOK, LifecycleAssumption, Place, MainPlaces, WorkPlaces, ApplyPlaces, BeforeLock, Caller, attempt, graph, process, ThreadsOK, RecoveredOK, EnvOK, NoEnvironment, AllOff, Reply, Ended
<1>1. ASSUME NEW p \in Proc, RequestCleanup(p) PROVE EnvOK'
  BY <1>1 DEF RequestCleanup, Record, Moves
<1>2. ASSUME NEW p \in Proc, RevokeStop(p) PROVE EnvOK'
  BY <1>2 DEF RevokeStop, Record, Moves
<1>3. ASSUME NEW p \in Proc, RevokeRequest(p) PROVE EnvOK'
  BY <1>3 DEF RevokeRequest, Record, Moves
<1>4. ASSUME NEW p \in Proc, TakeLock(p) PROVE EnvOK'
  BY <1>4 DEF TakeLock, Moves, EntryPlace
<1>5. ASSUME NEW p \in Proc, Refused(p) PROVE EnvOK'
  BY <1>5 DEF Refused, Moves
<1>6. ASSUME NEW p \in Proc, Answer(p) PROVE EnvOK'
  BY <1>6 DEF Answer, Moves
<1>7. ASSUME NEW p \in Proc, Reconcile(p) PROVE EnvOK'
  BY <1>7 DEF Reconcile, Moves
<1>8. ASSUME NEW p \in Proc, ReconcileFails(p) PROVE EnvOK'
  BY <1>8 DEF ReconcileFails, Leave, Moves, AllOff
<1>9. ASSUME NEW p \in Proc, RecoverReservations(p) PROVE EnvOK'
  BY <1>9 DEF RecoverReservations, Moves, BodyPlace
<1>10. ASSUME NEW p \in Proc, Confirm(p) PROVE EnvOK'
  BY <1>10 DEF Confirm, Record, Leave, Moves, AllOff
<1>11. ASSUME NEW p \in Proc, Supersede(p) PROVE EnvOK'
  BY <1>11 DEF Supersede, Record, Leave, Stopped, Moves, AllOff
<1>12. ASSUME NEW p \in Proc, PromoteCheck(p) PROVE EnvOK'
  BY <1>12 DEF PromoteCheck, Moves, Leave, AllOff
<1>13. ASSUME NEW p \in Proc, Export(p) PROVE EnvOK'
  BY <1>13 DEF Export, Moves, Leave, AllOff
<1>14. ASSUME NEW p \in Proc, RecordPromotion(p) PROVE EnvOK'
  BY <1>14 DEF RecordPromotion, Record, Leave, Moves, AllOff
<1>15. ASSUME NEW p \in Proc, RejectStop(p) PROVE EnvOK'
  BY <1>15 DEF RejectStop, Record, Leave, Moves, AllOff
<1>16. ASSUME NEW p \in Proc, Approve(p) PROVE EnvOK'
  BY <1>16 DEF Approve, Moves, Leave, MayDecide, AllOff
<1>17. ASSUME NEW p \in Proc, ReserveApplication(p) PROVE EnvOK'
  BY <1>17 DEF ReserveApplication, Moves, Leave, MayDecide, AllOff
<1>18. ASSUME NEW p \in Proc, ApplicationReturns(p) PROVE EnvOK'
  BY <1>18 DEF ApplicationReturns, Moves, Leave, AllOff
<1>19. ASSUME NEW p \in Proc, RecordApplied(p) PROVE EnvOK'
  BY <1>19 DEF RecordApplied, Leave, MayDecide, Moves, AllOff
<1>20. ASSUME NEW p \in Proc, Dispatch(p) PROVE EnvOK'
  BY <1>20 DEF Dispatch, Leave, Stage, Moves, Becomes, AllOff
<1>21. ASSUME NEW p \in Proc, Clarified(p) PROVE EnvOK'
  BY <1>21 DEF Clarified, Record, Leave, Stage, Settled, MayDecide, Moves, Becomes, AllOff
<1>22. ASSUME NEW p \in Proc, Planned(p) PROVE EnvOK'
  BY <1>22 DEF Planned, Leave, Stage, Settled, MayDecide, Moves, Becomes, AllOff
<1>23. ASSUME NEW p \in Proc, Submit(p) PROVE EnvOK'
  BY <1>23 DEF Submit, AllOff, Stopped
<1>24. ASSUME NEW p \in Proc, JoinRaises(p) PROVE EnvOK'
  BY <1>24 DEF JoinRaises, Leave, Exhausted, Joined, Raising, AllOff, Moves
<1>25. ASSUME NEW p \in Proc, JoinFails(p) PROVE EnvOK'
  BY <1>25 DEF JoinFails, Leave, Stage, Exhausted, Joined, Raising, AllOff, Moves, Becomes
<1>26. ASSUME NEW p \in Proc, JoinAccepts(p) PROVE EnvOK'
  BY <1>26 DEF JoinAccepts, AllOff, Exhausted, Joined, Raising
<1>27. ASSUME NEW p \in Proc, ToVerification(p) PROVE EnvOK'
  BY <1>27 DEF ToVerification, AllOff, Stage, Moves, Becomes
<1>28. ASSUME NEW p \in Proc, PoolStopped(p) PROVE EnvOK'
  BY <1>28 DEF PoolStopped, AllOff, Leave, Stopped, Moves
<1>29. ASSUME NEW p \in Proc, GoalVerified(p) PROVE EnvOK'
  BY <1>29 DEF GoalVerified, Leave, Stage, Settled, MayDecide, Moves, Becomes, AllOff
<1>30. ASSUME NEW p \in Proc, Replanned(p) PROVE EnvOK'
  BY <1>30 DEF Replanned, Moves, AllOff, Leave, Settled, MayDecide
<1>31. ASSUME NEW p \in Proc, Complete(p) PROVE EnvOK'
  <2>1. \A c \in Caller : env[c] # "owned"
    BY <1>31 DEF Complete
  <2>2. UNCHANGED <<env, open>> /\ thread' = AllOff
    BY <1>31 DEF Complete, Leave
  <2>3. \A q \in Proc : at'[q] = at[q] \/ at'[q] = "idle"
    BY <1>31 DEF Complete, Leave, Moves
  <2> QED  BY <2>1, <2>2, <2>3
<1>32. ASSUME NEW p \in Proc, MainEnds(p) PROVE EnvOK'
  BY <1>32 DEF MainEnds, Leave, Moves, AllOff
<1>33. ASSUME NEW t \in Task, StartTask(t) PROVE EnvOK'
  BY <1>33 DEF StartTask, Becomes, MayDecide
<1>34. ASSUME NEW t \in Task, WorkerCompleted(t) PROVE EnvOK'
  BY <1>34 DEF WorkerCompleted, Becomes, Settled, MayDecide
<1>35. ASSUME NEW t \in Task, WorkerFailed(t) PROVE EnvOK'
  BY <1>35 DEF WorkerFailed, Settled, Again, MayDecide, Becomes
<1>36. ASSUME NEW t \in Task, WorkerRequests(t) PROVE EnvOK'
  BY <1>36 DEF WorkerRequests, Becomes, Settled, MayDecide
<1>37. ASSUME NEW t \in Task, WorkerUncertain(t) PROVE EnvOK'
  BY <1>37 DEF WorkerUncertain, Becomes, Settled, MayDecide
<1>38. ASSUME NEW t \in Task, RecordUncertain(t) PROVE EnvOK'
  BY <1>38 DEF RecordUncertain, Record, Becomes
<1>39. ASSUME NEW t \in Task, LimitSettled(t) PROVE EnvOK'
  BY <1>39 DEF LimitSettled, Settled, MayDecide
<1>40. ASSUME NEW t \in Task, LimitStop(t) PROVE EnvOK'
  BY <1>40 DEF LimitStop, Record, Becomes
<1>41. ASSUME NEW t \in Task, TaskVerified(t) PROVE EnvOK'
  BY <1>41 DEF TaskVerified, Becomes, Settled, Again, MayDecide
<1>42. ASSUME NEW t \in Task, AcceptTask(t) PROVE EnvOK'
  BY <1>42 DEF AcceptTask, Becomes, MayDecide
<1>43. ASSUME NEW c \in Caller, Reserve(c) PROVE EnvOK'
  BY <1>43 DEF Reserve, Becomes, MayDecide
<1>44. ASSUME NEW c \in Caller, Launch(c) PROVE EnvOK'
  BY <1>44 DEF Launch, Becomes, MayDecide
<1>45. ASSUME NEW c \in Caller, Kill(c) PROVE EnvOK'
  BY <1>45 DEF Kill, Break, Stopped, Becomes
<1>46. ASSUME NEW c \in Caller, StopThread(c) PROVE EnvOK'
  BY <1>46 DEF StopThread, Becomes, Settled, MayDecide
<1>47. ASSUME NEW c \in Caller, WatcherRemoves(c) PROVE EnvOK'
  BY <1>47 DEF WatcherRemoves
<1>48. ASSUME NEW c \in Caller, Retry(c) PROVE EnvOK'
  BY <1>48 DEF Retry, Becomes
<1>49. ASSUME NEW c \in Caller, Break(c) PROVE EnvOK'
  BY <1>49 DEF Break, Becomes, Stopped
<1>50. ASSUME NEW c \in Caller, PreflightFails(c) PROVE EnvOK'
  BY <1>50 DEF PreflightFails, Record, Stopped
<1>51. ASSUME NEW p \in Proc, Cancel(p) PROVE EnvOK'
  BY <1>51 DEF Cancel, Record
<1>52. ASSUME NEW p \in Proc, ControllerStops(p) PROVE EnvOK'
  BY <1>52 DEF ControllerStops, Record, Stopped
<1>53. ASSUME NEW p \in Proc, Crash(p) PROVE EnvOK'
  BY <1>53 DEF Crash, Moves, Leave, AllOff
<1>54. ASSUME NEW p \in Proc, NEW c \in Commands, NEW t \in Task \cup {NoTask}, Begin(p, c, t) PROVE EnvOK'
  BY <1>54 DEF Begin, Moves, FirstPlace
<1>55. ASSUME NEW c \in Caller, NEW r \in Reply, Return(c, r) PROVE EnvOK'
  BY <1>55 DEF Return, Becomes
<1>56. CASE UNCHANGED vars
  BY <1>56 DEF vars
<1> HIDE DEF Base, TypeOK, HolderOK, OpOK, LifecycleAssumption, Place, MainPlaces, WorkPlaces, ApplyPlaces, BeforeLock, Caller, attempt, graph, process, ThreadsOK, RecoveredOK, EnvOK, NoEnvironment, AllOff, Reply, Ended
<1> QED
  BY <1>1, <1>2, <1>3, <1>4, <1>5, <1>6, <1>7, <1>8, <1>9, <1>10, <1>11, <1>12, <1>13, <1>14, <1>15, <1>16, <1>17, <1>18, <1>19, <1>20, <1>21, <1>22, <1>23, <1>24, <1>25, <1>26, <1>27, <1>28, <1>29, <1>30, <1>31, <1>32, <1>33, <1>34, <1>35, <1>36, <1>37, <1>38, <1>39, <1>40, <1>41, <1>42, <1>43, <1>44, <1>45, <1>46, <1>47, <1>48, <1>49, <1>50, <1>51, <1>52, <1>53, <1>54, <1>55, <1>56 DEF Next, CommandStep, ExecuteStep, TaskStep, InvocationStep, Environment

(* A controller at work is charged for its threads and for nothing else.     *)
LEMMA ChargeStep ==
  ASSUME LifecycleAssumption, Base, ThreadsOK, RecoveredOK, EnvOK, ChargeOK, [Next]_vars PROVE ChargeOK'
<1> USE DEF Base, TypeOK, HolderOK, OpOK, LifecycleAssumption, Place, MainPlaces, WorkPlaces, ApplyPlaces, BeforeLock, Caller, attempt, graph, process, ThreadsOK, RecoveredOK, EnvOK, ChargeOK, NoEnvironment, AllOff, Reply, Ended
<1>1. ASSUME NEW p \in Proc, RequestCleanup(p) PROVE ChargeOK'
  BY <1>1 DEF RequestCleanup, Record, Moves
<1>2. ASSUME NEW p \in Proc, RevokeStop(p) PROVE ChargeOK'
  BY <1>2 DEF RevokeStop, Record, Moves
<1>3. ASSUME NEW p \in Proc, RevokeRequest(p) PROVE ChargeOK'
  BY <1>3 DEF RevokeRequest, Record, Moves
<1>4. ASSUME NEW p \in Proc, TakeLock(p) PROVE ChargeOK'
  BY <1>4 DEF TakeLock, Moves, EntryPlace
<1>5. ASSUME NEW p \in Proc, Refused(p) PROVE ChargeOK'
  BY <1>5 DEF Refused, Moves
<1>6. ASSUME NEW p \in Proc, Answer(p) PROVE ChargeOK'
  BY <1>6 DEF Answer, Moves
<1>7. ASSUME NEW p \in Proc, Reconcile(p) PROVE ChargeOK'
  BY <1>7 DEF Reconcile, Moves
<1>8. ASSUME NEW p \in Proc, ReconcileFails(p) PROVE ChargeOK'
  BY <1>8 DEF ReconcileFails, Leave, Moves, AllOff
<1>9. ASSUME NEW p \in Proc, RecoverReservations(p) PROVE ChargeOK'
  BY <1>9 DEF RecoverReservations, Moves, BodyPlace
<1>10. ASSUME NEW p \in Proc, Confirm(p) PROVE ChargeOK'
  BY <1>10 DEF Confirm, Record, Leave, Moves, AllOff
<1>11. ASSUME NEW p \in Proc, Supersede(p) PROVE ChargeOK'
  BY <1>11 DEF Supersede, Record, Leave, Stopped, Moves, AllOff
<1>12. ASSUME NEW p \in Proc, PromoteCheck(p) PROVE ChargeOK'
  BY <1>12 DEF PromoteCheck, Moves, Leave, AllOff
<1>13. ASSUME NEW p \in Proc, Export(p) PROVE ChargeOK'
  BY <1>13 DEF Export, Moves, Leave, AllOff
<1>14. ASSUME NEW p \in Proc, RecordPromotion(p) PROVE ChargeOK'
  BY <1>14 DEF RecordPromotion, Record, Leave, Moves, AllOff
<1>15. ASSUME NEW p \in Proc, RejectStop(p) PROVE ChargeOK'
  BY <1>15 DEF RejectStop, Record, Leave, Moves, AllOff
<1>16. ASSUME NEW p \in Proc, Approve(p) PROVE ChargeOK'
  BY <1>16 DEF Approve, Moves, Leave, MayDecide, AllOff
<1>17. ASSUME NEW p \in Proc, ReserveApplication(p) PROVE ChargeOK'
  BY <1>17 DEF ReserveApplication, Moves, Leave, MayDecide, AllOff
<1>18. ASSUME NEW p \in Proc, ApplicationReturns(p) PROVE ChargeOK'
  BY <1>18 DEF ApplicationReturns, Moves, Leave, AllOff
<1>19. ASSUME NEW p \in Proc, RecordApplied(p) PROVE ChargeOK'
  BY <1>19 DEF RecordApplied, Leave, MayDecide, Moves, AllOff
<1>20. ASSUME NEW p \in Proc, Dispatch(p) PROVE ChargeOK'
  BY <1>20 DEF Dispatch, Leave, Stage, Moves, Becomes, AllOff
<1>21. ASSUME NEW p \in Proc, Clarified(p) PROVE ChargeOK'
  BY <1>21 DEF Clarified, Record, Leave, Stage, Settled, MayDecide, Moves, Becomes, AllOff
<1>22. ASSUME NEW p \in Proc, Planned(p) PROVE ChargeOK'
  BY <1>22 DEF Planned, Leave, Stage, Settled, MayDecide, Moves, Becomes, AllOff
<1>23. ASSUME NEW p \in Proc, Submit(p) PROVE ChargeOK'
  BY <1>23 DEF Submit, AllOff, Stopped
<1>24. ASSUME NEW p \in Proc, JoinRaises(p) PROVE ChargeOK'
  BY <1>24 DEF JoinRaises, Leave, Exhausted, Joined, Raising, AllOff, Moves
<1>25. ASSUME NEW p \in Proc, JoinFails(p) PROVE ChargeOK'
  BY <1>25 DEF JoinFails, Leave, Stage, Exhausted, Joined, Raising, AllOff, Moves, Becomes
<1>26. ASSUME NEW p \in Proc, JoinAccepts(p) PROVE ChargeOK'
  BY <1>26 DEF JoinAccepts, AllOff, Exhausted, Joined, Raising
<1>27. ASSUME NEW p \in Proc, ToVerification(p) PROVE ChargeOK'
  BY <1>27 DEF ToVerification, AllOff, Stage, Moves, Becomes
<1>28. ASSUME NEW p \in Proc, PoolStopped(p) PROVE ChargeOK'
  BY <1>28 DEF PoolStopped, AllOff, Leave, Stopped, Moves
<1>29. ASSUME NEW p \in Proc, GoalVerified(p) PROVE ChargeOK'
  BY <1>29 DEF GoalVerified, Leave, Stage, Settled, MayDecide, Moves, Becomes, AllOff
<1>30. ASSUME NEW p \in Proc, Replanned(p) PROVE ChargeOK'
  BY <1>30 DEF Replanned, Moves, AllOff, Leave, Settled, MayDecide
<1>31. ASSUME NEW p \in Proc, Complete(p) PROVE ChargeOK'
  BY <1>31 DEF Complete, Record, Leave, MayDecide, Moves, AllOff
<1>32. ASSUME NEW p \in Proc, MainEnds(p) PROVE ChargeOK'
  BY <1>32 DEF MainEnds, Leave, Moves, AllOff
<1>33. ASSUME NEW t \in Task, StartTask(t) PROVE ChargeOK'
  BY <1>33 DEF StartTask, Becomes, MayDecide
<1>34. ASSUME NEW t \in Task, WorkerCompleted(t) PROVE ChargeOK'
  BY <1>34 DEF WorkerCompleted, Becomes, Settled, MayDecide
<1>35. ASSUME NEW t \in Task, WorkerFailed(t) PROVE ChargeOK'
  BY <1>35 DEF WorkerFailed, Settled, Again, MayDecide, Becomes
<1>36. ASSUME NEW t \in Task, WorkerRequests(t) PROVE ChargeOK'
  BY <1>36 DEF WorkerRequests, Becomes, Settled, MayDecide
<1>37. ASSUME NEW t \in Task, WorkerUncertain(t) PROVE ChargeOK'
  BY <1>37 DEF WorkerUncertain, Becomes, Settled, MayDecide
<1>38. ASSUME NEW t \in Task, RecordUncertain(t) PROVE ChargeOK'
  BY <1>38 DEF RecordUncertain, Record, Becomes
<1>39. ASSUME NEW t \in Task, LimitSettled(t) PROVE ChargeOK'
  BY <1>39 DEF LimitSettled, Settled, MayDecide
<1>40. ASSUME NEW t \in Task, LimitStop(t) PROVE ChargeOK'
  BY <1>40 DEF LimitStop, Record, Becomes
<1>41. ASSUME NEW t \in Task, TaskVerified(t) PROVE ChargeOK'
  BY <1>41 DEF TaskVerified, Becomes, Settled, Again, MayDecide
<1>42. ASSUME NEW t \in Task, AcceptTask(t) PROVE ChargeOK'
  BY <1>42 DEF AcceptTask, Becomes, MayDecide
<1>43. ASSUME NEW c \in Caller, Reserve(c) PROVE ChargeOK'
  BY <1>43 DEF Reserve, Becomes, MayDecide
<1>44. ASSUME NEW c \in Caller, Launch(c) PROVE ChargeOK'
  BY <1>44 DEF Launch, Becomes, MayDecide
<1>45. ASSUME NEW c \in Caller, Kill(c) PROVE ChargeOK'
  BY <1>45 DEF Kill, Break, Stopped, Becomes
<1>46. ASSUME NEW c \in Caller, StopThread(c) PROVE ChargeOK'
  BY <1>46 DEF StopThread, Becomes, Settled, MayDecide
<1>47. ASSUME NEW c \in Caller, WatcherRemoves(c) PROVE ChargeOK'
  BY <1>47 DEF WatcherRemoves
<1>48. ASSUME NEW c \in Caller, Retry(c) PROVE ChargeOK'
  BY <1>48 DEF Retry, Becomes
<1>49. ASSUME NEW c \in Caller, Break(c) PROVE ChargeOK'
  BY <1>49 DEF Break, Becomes, Stopped
<1>50. ASSUME NEW c \in Caller, PreflightFails(c) PROVE ChargeOK'
  BY <1>50 DEF PreflightFails, Record, Stopped
<1>51. ASSUME NEW p \in Proc, Cancel(p) PROVE ChargeOK'
  BY <1>51 DEF Cancel, Record
<1>52. ASSUME NEW p \in Proc, ControllerStops(p) PROVE ChargeOK'
  BY <1>52 DEF ControllerStops, Record, Stopped
<1>53. ASSUME NEW p \in Proc, Crash(p) PROVE ChargeOK'
  BY <1>53 DEF Crash, Moves, Leave, AllOff
<1>54. ASSUME NEW p \in Proc, NEW c \in Commands, NEW t \in Task \cup {NoTask}, Begin(p, c, t) PROVE ChargeOK'
  BY <1>54 DEF Begin, Moves, FirstPlace
<1>55. ASSUME NEW c \in Caller, NEW r \in Reply, Return(c, r) PROVE ChargeOK'
  BY <1>55 DEF Return, Becomes
<1>56. CASE UNCHANGED vars
  BY <1>56 DEF vars
<1> HIDE DEF Base, TypeOK, HolderOK, OpOK, LifecycleAssumption, Place, MainPlaces, WorkPlaces, ApplyPlaces, BeforeLock, Caller, attempt, graph, process, ThreadsOK, RecoveredOK, EnvOK, ChargeOK, NoEnvironment, AllOff, Reply, Ended
<1> QED
  BY <1>1, <1>2, <1>3, <1>4, <1>5, <1>6, <1>7, <1>8, <1>9, <1>10, <1>11, <1>12, <1>13, <1>14, <1>15, <1>16, <1>17, <1>18, <1>19, <1>20, <1>21, <1>22, <1>23, <1>24, <1>25, <1>26, <1>27, <1>28, <1>29, <1>30, <1>31, <1>32, <1>33, <1>34, <1>35, <1>36, <1>37, <1>38, <1>39, <1>40, <1>41, <1>42, <1>43, <1>44, <1>45, <1>46, <1>47, <1>48, <1>49, <1>50, <1>51, <1>52, <1>53, <1>54, <1>55, <1>56 DEF Next, CommandStep, ExecuteStep, TaskStep, InvocationStep, Environment

(* No step of a controller at work undoes what completion will rest on.      *)
LEMMA WorkStep ==
  ASSUME LifecycleAssumption, Base, ThreadsOK, WorkOK, [Next]_vars PROVE WorkOK'
<1> USE DEF Base, TypeOK, HolderOK, OpOK, LifecycleAssumption, Place, MainPlaces, WorkPlaces, ApplyPlaces, BeforeLock, Caller, attempt, graph, process, ThreadsOK, WorkOK, AllOff, Reply, Ended, Accepted
<1>1. ASSUME NEW p \in Proc, RequestCleanup(p) PROVE WorkOK'
  BY <1>1 DEF RequestCleanup, Record, Moves
<1>2. ASSUME NEW p \in Proc, RevokeStop(p) PROVE WorkOK'
  BY <1>2 DEF RevokeStop, Record, Moves
<1>3. ASSUME NEW p \in Proc, RevokeRequest(p) PROVE WorkOK'
  BY <1>3 DEF RevokeRequest, Record, Moves
<1>4. ASSUME NEW p \in Proc, TakeLock(p) PROVE WorkOK'
  BY <1>4 DEF TakeLock, Moves, EntryPlace, Admitted, Stopped
<1>5. ASSUME NEW p \in Proc, Refused(p) PROVE WorkOK'
  BY <1>5 DEF Refused, Moves, Admitted, Stopped
<1>6. ASSUME NEW p \in Proc, Answer(p) PROVE WorkOK'
  BY <1>6 DEF Answer, Moves, Admitted, Stopped
<1>7. ASSUME NEW p \in Proc, Reconcile(p) PROVE WorkOK'
  BY <1>7 DEF Reconcile, Moves
<1>8. ASSUME NEW p \in Proc, ReconcileFails(p) PROVE WorkOK'
  BY <1>8 DEF ReconcileFails, Leave, Moves, AllOff
<1>9. ASSUME NEW p \in Proc, RecoverReservations(p) PROVE WorkOK'
  BY <1>9 DEF RecoverReservations, Moves, BodyPlace
<1>10. ASSUME NEW p \in Proc, Confirm(p) PROVE WorkOK'
  BY <1>10 DEF Confirm, Record, Leave, Moves, AllOff
<1>11. ASSUME NEW p \in Proc, Supersede(p) PROVE WorkOK'
  BY <1>11 DEF Supersede, Record, Leave, Stopped, Moves, AllOff
<1>12. ASSUME NEW p \in Proc, PromoteCheck(p) PROVE WorkOK'
  BY <1>12 DEF PromoteCheck, Moves, Leave, AllOff
<1>13. ASSUME NEW p \in Proc, Export(p) PROVE WorkOK'
  BY <1>13 DEF Export, Moves, Leave, AllOff
<1>14. ASSUME NEW p \in Proc, RecordPromotion(p) PROVE WorkOK'
  BY <1>14 DEF RecordPromotion, Record, Leave, Moves, AllOff
<1>15. ASSUME NEW p \in Proc, RejectStop(p) PROVE WorkOK'
  BY <1>15 DEF RejectStop, Record, Leave, Moves, AllOff
<1>16. ASSUME NEW p \in Proc, Approve(p) PROVE WorkOK'
  BY <1>16 DEF Approve, Moves, Leave, MayDecide, AllOff
<1>17. ASSUME NEW p \in Proc, ReserveApplication(p) PROVE WorkOK'
  BY <1>17 DEF ReserveApplication, Moves, Leave, MayDecide, AllOff
<1>18. ASSUME NEW p \in Proc, ApplicationReturns(p) PROVE WorkOK'
  BY <1>18 DEF ApplicationReturns, Moves, Leave, AllOff
<1>19. ASSUME NEW p \in Proc, RecordApplied(p) PROVE WorkOK'
  BY <1>19 DEF RecordApplied, Leave, MayDecide, Moves, AllOff
<1>20. ASSUME NEW p \in Proc, Dispatch(p) PROVE WorkOK'
  BY <1>20 DEF Dispatch, Leave, Stage, Moves, Becomes, AllOff
<1>21. ASSUME NEW p \in Proc, Clarified(p) PROVE WorkOK'
  BY <1>21 DEF Clarified, Record, Leave, Stage, Settled, MayDecide, Moves, Becomes, AllOff
<1>22. ASSUME NEW p \in Proc, Planned(p) PROVE WorkOK'
  <2>1. CASE thread[Main] = "pass"
    <3>1. plan' # {} /\ UNCHANGED <<clar, journal>>
      BY <1>22, <2>1 DEF Planned
    <3>2. clar # "wait" /\ "uncertain" \notin journal
      BY <1>22 DEF Planned
    <3>3. \A q \in Proc : at'[q] \in WorkPlaces => at'[q] = "pool"
      BY <1>22, <2>1 DEF Planned, Stage, Moves
    <3> QED  BY <3>1, <3>2, <3>3
  <2>2. CASE thread[Main] = "fail"
    BY <1>22, <2>2 DEF Planned, Leave, Settled, Moves
  <2> QED  BY <1>22, <2>1, <2>2 DEF Planned
<1>23. ASSUME NEW p \in Proc, Submit(p) PROVE WorkOK'
  BY <1>23 DEF Submit, AllOff, Stopped
<1>24. ASSUME NEW p \in Proc, JoinRaises(p) PROVE WorkOK'
  BY <1>24 DEF JoinRaises, Leave, Exhausted, Joined, Raising, AllOff, Moves
<1>25. ASSUME NEW p \in Proc, JoinFails(p) PROVE WorkOK'
  BY <1>25 DEF JoinFails, Leave, Stage, Exhausted, Joined, Raising, AllOff, Moves, Becomes
<1>26. ASSUME NEW p \in Proc, JoinAccepts(p) PROVE WorkOK'
  BY <1>26 DEF JoinAccepts, AllOff, Exhausted, Joined, Raising
<1>27. ASSUME NEW p \in Proc, ToVerification(p) PROVE WorkOK'
  BY <1>27 DEF ToVerification, AllOff, Stage, Moves, Becomes
<1>28. ASSUME NEW p \in Proc, PoolStopped(p) PROVE WorkOK'
  BY <1>28 DEF PoolStopped, AllOff, Leave, Stopped, Moves
<1>29. ASSUME NEW p \in Proc, GoalVerified(p) PROVE WorkOK'
  BY <1>29 DEF GoalVerified, Leave, Stage, Settled, MayDecide, Moves, Becomes, AllOff
<1>30. ASSUME NEW p \in Proc, Replanned(p) PROVE WorkOK'
  BY <1>30 DEF Replanned, Moves, AllOff, Leave, Settled, MayDecide
<1>31. ASSUME NEW p \in Proc, Complete(p) PROVE WorkOK'
  BY <1>31 DEF Complete, Record, Leave, MayDecide, Moves, AllOff
<1>32. ASSUME NEW p \in Proc, MainEnds(p) PROVE WorkOK'
  BY <1>32 DEF MainEnds, Leave, Moves, AllOff
<1>33. ASSUME NEW t \in Task, StartTask(t) PROVE WorkOK'
  BY <1>33 DEF StartTask, Becomes, MayDecide
<1>34. ASSUME NEW t \in Task, WorkerCompleted(t) PROVE WorkOK'
  BY <1>34 DEF WorkerCompleted, Becomes, Settled, MayDecide
<1>35. ASSUME NEW t \in Task, WorkerFailed(t) PROVE WorkOK'
  BY <1>35 DEF WorkerFailed, Settled, Again, MayDecide, Becomes
<1>36. ASSUME NEW t \in Task, WorkerRequests(t) PROVE WorkOK'
  BY <1>36 DEF WorkerRequests, Becomes, Settled, MayDecide
<1>37. ASSUME NEW t \in Task, WorkerUncertain(t) PROVE WorkOK'
  BY <1>37 DEF WorkerUncertain, Becomes, Settled, MayDecide
<1>38. ASSUME NEW t \in Task, RecordUncertain(t) PROVE WorkOK'
  BY <1>38 DEF RecordUncertain, Record, Becomes
<1>39. ASSUME NEW t \in Task, LimitSettled(t) PROVE WorkOK'
  BY <1>39 DEF LimitSettled, Settled, MayDecide
<1>40. ASSUME NEW t \in Task, LimitStop(t) PROVE WorkOK'
  BY <1>40 DEF LimitStop, Record, Becomes
<1>41. ASSUME NEW t \in Task, TaskVerified(t) PROVE WorkOK'
  BY <1>41 DEF TaskVerified, Becomes, Settled, Again, MayDecide
<1>42. ASSUME NEW t \in Task, AcceptTask(t) PROVE WorkOK'
  BY <1>42 DEF AcceptTask, Becomes, MayDecide
<1>43. ASSUME NEW c \in Caller, Reserve(c) PROVE WorkOK'
  BY <1>43 DEF Reserve, Becomes, MayDecide
<1>44. ASSUME NEW c \in Caller, Launch(c) PROVE WorkOK'
  BY <1>44 DEF Launch, Becomes, MayDecide
<1>45. ASSUME NEW c \in Caller, Kill(c) PROVE WorkOK'
  BY <1>45 DEF Kill, Break, Stopped, Becomes
<1>46. ASSUME NEW c \in Caller, StopThread(c) PROVE WorkOK'
  BY <1>46 DEF StopThread, Becomes, Settled, MayDecide
<1>47. ASSUME NEW c \in Caller, WatcherRemoves(c) PROVE WorkOK'
  BY <1>47 DEF WatcherRemoves
<1>48. ASSUME NEW c \in Caller, Retry(c) PROVE WorkOK'
  BY <1>48 DEF Retry, Becomes
<1>49. ASSUME NEW c \in Caller, Break(c) PROVE WorkOK'
  BY <1>49 DEF Break, Becomes, Stopped
<1>50. ASSUME NEW c \in Caller, PreflightFails(c) PROVE WorkOK'
  BY <1>50 DEF PreflightFails, Record, Stopped
<1>51. ASSUME NEW p \in Proc, Cancel(p) PROVE WorkOK'
  BY <1>51 DEF Cancel, Record
<1>52. ASSUME NEW p \in Proc, ControllerStops(p) PROVE WorkOK'
  BY <1>52 DEF ControllerStops, Record, Stopped
<1>53. ASSUME NEW p \in Proc, Crash(p) PROVE WorkOK'
  BY <1>53 DEF Crash, Moves, Leave, AllOff
<1>54. ASSUME NEW p \in Proc, NEW c \in Commands, NEW t \in Task \cup {NoTask}, Begin(p, c, t) PROVE WorkOK'
  BY <1>54 DEF Begin, Moves, FirstPlace
<1>55. ASSUME NEW c \in Caller, NEW r \in Reply, Return(c, r) PROVE WorkOK'
  BY <1>55 DEF Return, Becomes
<1>56. CASE UNCHANGED vars
  BY <1>56 DEF vars
<1> HIDE DEF Base, TypeOK, HolderOK, OpOK, LifecycleAssumption, Place, MainPlaces, WorkPlaces, ApplyPlaces, BeforeLock, Caller, attempt, graph, process, ThreadsOK, WorkOK, AllOff, Reply, Ended, Accepted
<1> QED
  BY <1>1, <1>2, <1>3, <1>4, <1>5, <1>6, <1>7, <1>8, <1>9, <1>10, <1>11, <1>12, <1>13, <1>14, <1>15, <1>16, <1>17, <1>18, <1>19, <1>20, <1>21, <1>22, <1>23, <1>24, <1>25, <1>26, <1>27, <1>28, <1>29, <1>30, <1>31, <1>32, <1>33, <1>34, <1>35, <1>36, <1>37, <1>38, <1>39, <1>40, <1>41, <1>42, <1>43, <1>44, <1>45, <1>46, <1>47, <1>48, <1>49, <1>50, <1>51, <1>52, <1>53, <1>54, <1>55, <1>56 DEF Next, CommandStep, ExecuteStep, TaskStep, InvocationStep, Environment

(* A completed Run stays sound: its tasks, its verification and its silence  *)
(* about uncertainty, questions and requests.                                *)
LEMMA CompletionStep ==
  ASSUME LifecycleAssumption, Base, Quiet, WorkOK, CompletionIsSound, [Next]_vars PROVE CompletionIsSound'
<1> USE DEF Base, TypeOK, HolderOK, OpOK, LifecycleAssumption, Place, MainPlaces, WorkPlaces, ApplyPlaces, BeforeLock, Caller, attempt, graph, process, ThreadsOK, PendingOK, CompletedOK, WorkOK, CompletionIsSound, Quiet, Pending, AllOff, Reply, Ended, Accepted
<1>1. ASSUME NEW p \in Proc, RequestCleanup(p) PROVE CompletionIsSound'
  BY <1>1 DEF RequestCleanup, Record, Moves
<1>2. ASSUME NEW p \in Proc, RevokeStop(p) PROVE CompletionIsSound'
  BY <1>2 DEF RevokeStop, Record, Moves
<1>3. ASSUME NEW p \in Proc, RevokeRequest(p) PROVE CompletionIsSound'
  BY <1>3 DEF RevokeRequest, Record, Moves
<1>4. ASSUME NEW p \in Proc, TakeLock(p) PROVE CompletionIsSound'
  BY <1>4 DEF TakeLock, Moves, EntryPlace, Admitted, Stopped
<1>5. ASSUME NEW p \in Proc, Refused(p) PROVE CompletionIsSound'
  BY <1>5 DEF Refused, Moves, Admitted, Stopped
<1>6. ASSUME NEW p \in Proc, Answer(p) PROVE CompletionIsSound'
  BY <1>6 DEF Answer, Moves, Admitted, Stopped
<1>7. ASSUME NEW p \in Proc, Reconcile(p) PROVE CompletionIsSound'
  BY <1>7 DEF Reconcile, Moves
<1>8. ASSUME NEW p \in Proc, ReconcileFails(p) PROVE CompletionIsSound'
  BY <1>8 DEF ReconcileFails, Leave, Moves, AllOff
<1>9. ASSUME NEW p \in Proc, RecoverReservations(p) PROVE CompletionIsSound'
  BY <1>9 DEF RecoverReservations, Moves, BodyPlace
<1>10. ASSUME NEW p \in Proc, Confirm(p) PROVE CompletionIsSound'
  BY <1>10 DEF Confirm, Record, Leave, Moves, AllOff
<1>11. ASSUME NEW p \in Proc, Supersede(p) PROVE CompletionIsSound'
  BY <1>11 DEF Supersede, Record, Leave, Stopped, Moves, AllOff
<1>12. ASSUME NEW p \in Proc, PromoteCheck(p) PROVE CompletionIsSound'
  BY <1>12 DEF PromoteCheck, Moves, Leave, AllOff
<1>13. ASSUME NEW p \in Proc, Export(p) PROVE CompletionIsSound'
  BY <1>13 DEF Export, Moves, Leave, AllOff
<1>14. ASSUME NEW p \in Proc, RecordPromotion(p) PROVE CompletionIsSound'
  BY <1>14 DEF RecordPromotion, Record, Leave, Moves, AllOff
<1>15. ASSUME NEW p \in Proc, RejectStop(p) PROVE CompletionIsSound'
  BY <1>15 DEF RejectStop, Record, Leave, Moves, AllOff
<1>16. ASSUME NEW p \in Proc, Approve(p) PROVE CompletionIsSound'
  BY <1>16 DEF Approve, Moves, Leave, MayDecide, AllOff
<1>17. ASSUME NEW p \in Proc, ReserveApplication(p) PROVE CompletionIsSound'
  BY <1>17 DEF ReserveApplication, Moves, Leave, MayDecide, AllOff
<1>18. ASSUME NEW p \in Proc, ApplicationReturns(p) PROVE CompletionIsSound'
  BY <1>18 DEF ApplicationReturns, Moves, Leave, AllOff
<1>19. ASSUME NEW p \in Proc, RecordApplied(p) PROVE CompletionIsSound'
  BY <1>19 DEF RecordApplied, Leave, MayDecide, Moves, AllOff
<1>20. ASSUME NEW p \in Proc, Dispatch(p) PROVE CompletionIsSound'
  BY <1>20 DEF Dispatch, Leave, Stage, Moves, Becomes, AllOff
<1>21. ASSUME NEW p \in Proc, Clarified(p) PROVE CompletionIsSound'
  BY <1>21 DEF Clarified, Record, Leave, Stage, Settled, MayDecide, Moves, Becomes, AllOff
<1>22. ASSUME NEW p \in Proc, Planned(p) PROVE CompletionIsSound'
  BY <1>22 DEF Planned, Leave, Stage, Settled, MayDecide, Moves, Becomes, AllOff
<1>23. ASSUME NEW p \in Proc, Submit(p) PROVE CompletionIsSound'
  BY <1>23 DEF Submit, AllOff, Stopped
<1>24. ASSUME NEW p \in Proc, JoinRaises(p) PROVE CompletionIsSound'
  BY <1>24 DEF JoinRaises, Leave, Exhausted, Joined, Raising, AllOff, Moves
<1>25. ASSUME NEW p \in Proc, JoinFails(p) PROVE CompletionIsSound'
  BY <1>25 DEF JoinFails, Leave, Stage, Exhausted, Joined, Raising, AllOff, Moves, Becomes
<1>26. ASSUME NEW p \in Proc, JoinAccepts(p) PROVE CompletionIsSound'
  BY <1>26 DEF JoinAccepts, AllOff, Exhausted, Joined, Raising
<1>27. ASSUME NEW p \in Proc, ToVerification(p) PROVE CompletionIsSound'
  BY <1>27 DEF ToVerification, AllOff, Stage, Moves, Becomes
<1>28. ASSUME NEW p \in Proc, PoolStopped(p) PROVE CompletionIsSound'
  BY <1>28 DEF PoolStopped, AllOff, Leave, Stopped, Moves
<1>29. ASSUME NEW p \in Proc, GoalVerified(p) PROVE CompletionIsSound'
  BY <1>29 DEF GoalVerified, Leave, Stage, Settled, MayDecide, Moves, Becomes, AllOff
<1>30. ASSUME NEW p \in Proc, Replanned(p) PROVE CompletionIsSound'
  BY <1>30 DEF Replanned, Moves, AllOff, Leave, Settled, MayDecide
<1>31. ASSUME NEW p \in Proc, Complete(p) PROVE CompletionIsSound'
  BY <1>31 DEF Complete, Record, Leave, MayDecide, Moves, AllOff
<1>32. ASSUME NEW p \in Proc, MainEnds(p) PROVE CompletionIsSound'
  BY <1>32 DEF MainEnds, Leave, Moves, AllOff
<1>33. ASSUME NEW t \in Task, StartTask(t) PROVE CompletionIsSound'
  BY <1>33 DEF StartTask, Becomes, MayDecide
<1>34. ASSUME NEW t \in Task, WorkerCompleted(t) PROVE CompletionIsSound'
  BY <1>34 DEF WorkerCompleted, Becomes, Settled, MayDecide
<1>35. ASSUME NEW t \in Task, WorkerFailed(t) PROVE CompletionIsSound'
  BY <1>35 DEF WorkerFailed, Settled, Again, MayDecide, Becomes
<1>36. ASSUME NEW t \in Task, WorkerRequests(t) PROVE CompletionIsSound'
  BY <1>36 DEF WorkerRequests, Becomes, Settled, MayDecide
<1>37. ASSUME NEW t \in Task, WorkerUncertain(t) PROVE CompletionIsSound'
  BY <1>37 DEF WorkerUncertain, Becomes, Settled, MayDecide
<1>38. ASSUME NEW t \in Task, RecordUncertain(t) PROVE CompletionIsSound'
  BY <1>38 DEF RecordUncertain, Record, Becomes
<1>39. ASSUME NEW t \in Task, LimitSettled(t) PROVE CompletionIsSound'
  BY <1>39 DEF LimitSettled, Settled, MayDecide
<1>40. ASSUME NEW t \in Task, LimitStop(t) PROVE CompletionIsSound'
  BY <1>40 DEF LimitStop, Record, Becomes
<1>41. ASSUME NEW t \in Task, TaskVerified(t) PROVE CompletionIsSound'
  BY <1>41 DEF TaskVerified, Becomes, Settled, Again, MayDecide
<1>42. ASSUME NEW t \in Task, AcceptTask(t) PROVE CompletionIsSound'
  BY <1>42 DEF AcceptTask, Becomes, MayDecide
<1>43. ASSUME NEW c \in Caller, Reserve(c) PROVE CompletionIsSound'
  BY <1>43 DEF Reserve, Becomes, MayDecide
<1>44. ASSUME NEW c \in Caller, Launch(c) PROVE CompletionIsSound'
  BY <1>44 DEF Launch, Becomes, MayDecide
<1>45. ASSUME NEW c \in Caller, Kill(c) PROVE CompletionIsSound'
  BY <1>45 DEF Kill, Break, Stopped, Becomes
<1>46. ASSUME NEW c \in Caller, StopThread(c) PROVE CompletionIsSound'
  BY <1>46 DEF StopThread, Becomes, Settled, MayDecide
<1>47. ASSUME NEW c \in Caller, WatcherRemoves(c) PROVE CompletionIsSound'
  BY <1>47 DEF WatcherRemoves
<1>48. ASSUME NEW c \in Caller, Retry(c) PROVE CompletionIsSound'
  BY <1>48 DEF Retry, Becomes
<1>49. ASSUME NEW c \in Caller, Break(c) PROVE CompletionIsSound'
  BY <1>49 DEF Break, Becomes, Stopped
<1>50. ASSUME NEW c \in Caller, PreflightFails(c) PROVE CompletionIsSound'
  BY <1>50 DEF PreflightFails, Record, Stopped
<1>51. ASSUME NEW p \in Proc, Cancel(p) PROVE CompletionIsSound'
  BY <1>51 DEF Cancel, Record
<1>52. ASSUME NEW p \in Proc, ControllerStops(p) PROVE CompletionIsSound'
  BY <1>52 DEF ControllerStops, Record, Stopped
<1>53. ASSUME NEW p \in Proc, Crash(p) PROVE CompletionIsSound'
  BY <1>53 DEF Crash, Moves, Leave, AllOff
<1>54. ASSUME NEW p \in Proc, NEW c \in Commands, NEW t \in Task \cup {NoTask}, Begin(p, c, t) PROVE CompletionIsSound'
  BY <1>54 DEF Begin, Moves, FirstPlace
<1>55. ASSUME NEW c \in Caller, NEW r \in Reply, Return(c, r) PROVE CompletionIsSound'
  BY <1>55 DEF Return, Becomes
<1>56. CASE UNCHANGED vars
  BY <1>56 DEF vars
<1> HIDE DEF Base, TypeOK, HolderOK, OpOK, LifecycleAssumption, Place, MainPlaces, WorkPlaces, ApplyPlaces, BeforeLock, Caller, attempt, graph, process, ThreadsOK, PendingOK, CompletedOK, WorkOK, CompletionIsSound, Quiet, Pending, AllOff, Reply, Ended, Accepted
<1> QED
  BY <1>1, <1>2, <1>3, <1>4, <1>5, <1>6, <1>7, <1>8, <1>9, <1>10, <1>11, <1>12, <1>13, <1>14, <1>15, <1>16, <1>17, <1>18, <1>19, <1>20, <1>21, <1>22, <1>23, <1>24, <1>25, <1>26, <1>27, <1>28, <1>29, <1>30, <1>31, <1>32, <1>33, <1>34, <1>35, <1>36, <1>37, <1>38, <1>39, <1>40, <1>41, <1>42, <1>43, <1>44, <1>45, <1>46, <1>47, <1>48, <1>49, <1>50, <1>51, <1>52, <1>53, <1>54, <1>55, <1>56 DEF Next, CommandStep, ExecuteStep, TaskStep, InvocationStep, Environment

(* A request never becomes pending, nor a session alive, beside the other.   *)
LEMMA NoWorkerStep ==
  ASSUME LifecycleAssumption, Base, ThreadsOK, PendingOK, EnvOK, NoWorkerWhilePending, [Next]_vars PROVE NoWorkerWhilePending'
<1> USE DEF Base, TypeOK, HolderOK, OpOK, LifecycleAssumption, Place, MainPlaces, WorkPlaces, ApplyPlaces, BeforeLock, Caller, attempt, graph, process, ThreadsOK, PendingOK, EnvOK, NoWorkerWhilePending, Pending, AllOff, Reply, Ended
<1>1. ASSUME NEW p \in Proc, RequestCleanup(p) PROVE NoWorkerWhilePending'
  BY <1>1 DEF RequestCleanup, Record, Moves
<1>2. ASSUME NEW p \in Proc, RevokeStop(p) PROVE NoWorkerWhilePending'
  BY <1>2 DEF RevokeStop, Record, Moves
<1>3. ASSUME NEW p \in Proc, RevokeRequest(p) PROVE NoWorkerWhilePending'
  BY <1>3 DEF RevokeRequest, Record, Moves
<1>4. ASSUME NEW p \in Proc, TakeLock(p) PROVE NoWorkerWhilePending'
  BY <1>4 DEF TakeLock, Moves, EntryPlace, Admitted, Stopped
<1>5. ASSUME NEW p \in Proc, Refused(p) PROVE NoWorkerWhilePending'
  BY <1>5 DEF Refused, Moves, Admitted, Stopped
<1>6. ASSUME NEW p \in Proc, Answer(p) PROVE NoWorkerWhilePending'
  BY <1>6 DEF Answer, Moves, Admitted, Stopped
<1>7. ASSUME NEW p \in Proc, Reconcile(p) PROVE NoWorkerWhilePending'
  BY <1>7 DEF Reconcile, Moves
<1>8. ASSUME NEW p \in Proc, ReconcileFails(p) PROVE NoWorkerWhilePending'
  BY <1>8 DEF ReconcileFails, Leave, Moves, AllOff
<1>9. ASSUME NEW p \in Proc, RecoverReservations(p) PROVE NoWorkerWhilePending'
  BY <1>9 DEF RecoverReservations, Moves, BodyPlace
<1>10. ASSUME NEW p \in Proc, Confirm(p) PROVE NoWorkerWhilePending'
  BY <1>10 DEF Confirm, Record, Leave, Moves, AllOff
<1>11. ASSUME NEW p \in Proc, Supersede(p) PROVE NoWorkerWhilePending'
  BY <1>11 DEF Supersede, Record, Leave, Stopped, Moves, AllOff
<1>12. ASSUME NEW p \in Proc, PromoteCheck(p) PROVE NoWorkerWhilePending'
  BY <1>12 DEF PromoteCheck, Moves, Leave, AllOff
<1>13. ASSUME NEW p \in Proc, Export(p) PROVE NoWorkerWhilePending'
  BY <1>13 DEF Export, Moves, Leave, AllOff
<1>14. ASSUME NEW p \in Proc, RecordPromotion(p) PROVE NoWorkerWhilePending'
  BY <1>14 DEF RecordPromotion, Record, Leave, Moves, AllOff
<1>15. ASSUME NEW p \in Proc, RejectStop(p) PROVE NoWorkerWhilePending'
  BY <1>15 DEF RejectStop, Record, Leave, Moves, AllOff
<1>16. ASSUME NEW p \in Proc, Approve(p) PROVE NoWorkerWhilePending'
  BY <1>16 DEF Approve, Moves, Leave, MayDecide, AllOff
<1>17. ASSUME NEW p \in Proc, ReserveApplication(p) PROVE NoWorkerWhilePending'
  BY <1>17 DEF ReserveApplication, Moves, Leave, MayDecide, AllOff
<1>18. ASSUME NEW p \in Proc, ApplicationReturns(p) PROVE NoWorkerWhilePending'
  BY <1>18 DEF ApplicationReturns, Moves, Leave, AllOff
<1>19. ASSUME NEW p \in Proc, RecordApplied(p) PROVE NoWorkerWhilePending'
  BY <1>19 DEF RecordApplied, Leave, MayDecide, Moves, AllOff
<1>20. ASSUME NEW p \in Proc, Dispatch(p) PROVE NoWorkerWhilePending'
  BY <1>20 DEF Dispatch, Leave, Stage, Moves, Becomes, AllOff
<1>21. ASSUME NEW p \in Proc, Clarified(p) PROVE NoWorkerWhilePending'
  BY <1>21 DEF Clarified, Record, Leave, Stage, Settled, MayDecide, Moves, Becomes, AllOff
<1>22. ASSUME NEW p \in Proc, Planned(p) PROVE NoWorkerWhilePending'
  BY <1>22 DEF Planned, Leave, Stage, Settled, MayDecide, Moves, Becomes, AllOff
<1>23. ASSUME NEW p \in Proc, Submit(p) PROVE NoWorkerWhilePending'
  BY <1>23 DEF Submit, AllOff, Stopped
<1>24. ASSUME NEW p \in Proc, JoinRaises(p) PROVE NoWorkerWhilePending'
  BY <1>24 DEF JoinRaises, Leave, Exhausted, Joined, Raising, AllOff, Moves
<1>25. ASSUME NEW p \in Proc, JoinFails(p) PROVE NoWorkerWhilePending'
  BY <1>25 DEF JoinFails, Leave, Stage, Exhausted, Joined, Raising, AllOff, Moves, Becomes
<1>26. ASSUME NEW p \in Proc, JoinAccepts(p) PROVE NoWorkerWhilePending'
  BY <1>26 DEF JoinAccepts, AllOff, Exhausted, Joined, Raising
<1>27. ASSUME NEW p \in Proc, ToVerification(p) PROVE NoWorkerWhilePending'
  BY <1>27 DEF ToVerification, AllOff, Stage, Moves, Becomes
<1>28. ASSUME NEW p \in Proc, PoolStopped(p) PROVE NoWorkerWhilePending'
  BY <1>28 DEF PoolStopped, AllOff, Leave, Stopped, Moves
<1>29. ASSUME NEW p \in Proc, GoalVerified(p) PROVE NoWorkerWhilePending'
  BY <1>29 DEF GoalVerified, Leave, Stage, Settled, MayDecide, Moves, Becomes, AllOff
<1>30. ASSUME NEW p \in Proc, Replanned(p) PROVE NoWorkerWhilePending'
  BY <1>30 DEF Replanned, Moves, AllOff, Leave, Settled, MayDecide
<1>31. ASSUME NEW p \in Proc, Complete(p) PROVE NoWorkerWhilePending'
  BY <1>31 DEF Complete, Record, Leave, MayDecide, Moves, AllOff
<1>32. ASSUME NEW p \in Proc, MainEnds(p) PROVE NoWorkerWhilePending'
  BY <1>32 DEF MainEnds, Leave, Moves, AllOff
<1>33. ASSUME NEW t \in Task, StartTask(t) PROVE NoWorkerWhilePending'
  BY <1>33 DEF StartTask, Becomes, MayDecide
<1>34. ASSUME NEW t \in Task, WorkerCompleted(t) PROVE NoWorkerWhilePending'
  BY <1>34 DEF WorkerCompleted, Becomes, Settled, MayDecide
<1>35. ASSUME NEW t \in Task, WorkerFailed(t) PROVE NoWorkerWhilePending'
  BY <1>35 DEF WorkerFailed, Settled, Again, MayDecide, Becomes
<1>36. ASSUME NEW t \in Task, WorkerRequests(t) PROVE NoWorkerWhilePending'
  BY <1>36 DEF WorkerRequests, Becomes, Settled, MayDecide
<1>37. ASSUME NEW t \in Task, WorkerUncertain(t) PROVE NoWorkerWhilePending'
  BY <1>37 DEF WorkerUncertain, Becomes, Settled, MayDecide
<1>38. ASSUME NEW t \in Task, RecordUncertain(t) PROVE NoWorkerWhilePending'
  BY <1>38 DEF RecordUncertain, Record, Becomes
<1>39. ASSUME NEW t \in Task, LimitSettled(t) PROVE NoWorkerWhilePending'
  BY <1>39 DEF LimitSettled, Settled, MayDecide
<1>40. ASSUME NEW t \in Task, LimitStop(t) PROVE NoWorkerWhilePending'
  BY <1>40 DEF LimitStop, Record, Becomes
<1>41. ASSUME NEW t \in Task, TaskVerified(t) PROVE NoWorkerWhilePending'
  BY <1>41 DEF TaskVerified, Becomes, Settled, Again, MayDecide
<1>42. ASSUME NEW t \in Task, AcceptTask(t) PROVE NoWorkerWhilePending'
  BY <1>42 DEF AcceptTask, Becomes, MayDecide
<1>43. ASSUME NEW c \in Caller, Reserve(c) PROVE NoWorkerWhilePending'
  BY <1>43 DEF Reserve, Becomes, MayDecide
<1>44. ASSUME NEW c \in Caller, Launch(c) PROVE NoWorkerWhilePending'
  BY <1>44 DEF Launch, Becomes, MayDecide
<1>45. ASSUME NEW c \in Caller, Kill(c) PROVE NoWorkerWhilePending'
  BY <1>45 DEF Kill, Break, Stopped, Becomes
<1>46. ASSUME NEW c \in Caller, StopThread(c) PROVE NoWorkerWhilePending'
  BY <1>46 DEF StopThread, Becomes, Settled, MayDecide
<1>47. ASSUME NEW c \in Caller, WatcherRemoves(c) PROVE NoWorkerWhilePending'
  BY <1>47 DEF WatcherRemoves
<1>48. ASSUME NEW c \in Caller, Retry(c) PROVE NoWorkerWhilePending'
  BY <1>48 DEF Retry, Becomes
<1>49. ASSUME NEW c \in Caller, Break(c) PROVE NoWorkerWhilePending'
  BY <1>49 DEF Break, Becomes, Stopped
<1>50. ASSUME NEW c \in Caller, PreflightFails(c) PROVE NoWorkerWhilePending'
  BY <1>50 DEF PreflightFails, Record, Stopped
<1>51. ASSUME NEW p \in Proc, Cancel(p) PROVE NoWorkerWhilePending'
  BY <1>51 DEF Cancel, Record
<1>52. ASSUME NEW p \in Proc, ControllerStops(p) PROVE NoWorkerWhilePending'
  BY <1>52 DEF ControllerStops, Record, Stopped
<1>53. ASSUME NEW p \in Proc, Crash(p) PROVE NoWorkerWhilePending'
  BY <1>53 DEF Crash, Moves, Leave, AllOff
<1>54. ASSUME NEW p \in Proc, NEW c \in Commands, NEW t \in Task \cup {NoTask}, Begin(p, c, t) PROVE NoWorkerWhilePending'
  BY <1>54 DEF Begin, Moves, FirstPlace
<1>55. ASSUME NEW c \in Caller, NEW r \in Reply, Return(c, r) PROVE NoWorkerWhilePending'
  BY <1>55 DEF Return, Becomes
<1>56. CASE UNCHANGED vars
  BY <1>56 DEF vars
<1> HIDE DEF Base, TypeOK, HolderOK, OpOK, LifecycleAssumption, Place, MainPlaces, WorkPlaces, ApplyPlaces, BeforeLock, Caller, attempt, graph, process, ThreadsOK, PendingOK, EnvOK, NoWorkerWhilePending, Pending, AllOff, Reply, Ended
<1> QED
  BY <1>1, <1>2, <1>3, <1>4, <1>5, <1>6, <1>7, <1>8, <1>9, <1>10, <1>11, <1>12, <1>13, <1>14, <1>15, <1>16, <1>17, <1>18, <1>19, <1>20, <1>21, <1>22, <1>23, <1>24, <1>25, <1>26, <1>27, <1>28, <1>29, <1>30, <1>31, <1>32, <1>33, <1>34, <1>35, <1>36, <1>37, <1>38, <1>39, <1>40, <1>41, <1>42, <1>43, <1>44, <1>45, <1>46, <1>47, <1>48, <1>49, <1>50, <1>51, <1>52, <1>53, <1>54, <1>55, <1>56 DEF Next, CommandStep, ExecuteStep, TaskStep, InvocationStep, Environment

(* Together the parts are inductive.                                         *)
LEMMA IInvStep == ASSUME LifecycleAssumption, IInv, [Next]_vars PROVE IInv'
BY BaseStep, ThreadsStep, FenceStep, PendingStep, CompletedStep, RecoveredStep, ConfirmedStep, ApprovedStep, EnvStep, ChargeStep, WorkStep, CompletionStep, NoWorkerStep
DEF IInv, Quiet

(* The invariant holds of every behaviour of the Run.                        *)
THEOREM Invariance == Spec => []IInv
<1>1. Init => IInv
  BY InitIInv, LifecycleAssumption
<1>2. IInv /\ [Next]_vars => IInv'
  BY IInvStep, LifecycleAssumption
<1> QED  BY <1>1, <1>2, PTL DEF Spec

-----------------------------------------------------------------------------
(* Invariants.                                                               *)

(* Attempts and repairs stay within their limits, whatever crashes and       *)
(* resumes happen (_execute_task, _recover).                                 *)
THEOREM TypeCorrect == Spec => []TypeOK
<1>1. IInv => TypeOK
  BY DEF IInv, Base
<1> QED  BY Invariance, <1>1, PTL

(* A completed Run has every task of its plan accepted, that plan verified,   *)
(* and nothing uncertain, asked or pending (_execute, _completion).          *)
THEOREM CompletedSoundly == Spec => []CompletionIsSound
<1>1. IInv => CompletionIsSound
  BY DEF IInv
<1> QED  BY Invariance, <1>1, PTL

(* A confirmed cleanup or revocation stays true: no environment and no open  *)
(* reservation ever after (request_cleanup, cleanup, revoke_authority).      *)
THEOREM ConfirmedStaysQuiet == Spec => []ConfirmedMeansQuiet
<1>1. IInv => ConfirmedMeansQuiet
  BY DEF IInv, Quiet, ConfirmedOK, Confirmed, NoEnvironment, ConfirmedMeansQuiet
<1> QED  BY Invariance, <1>1, PTL

(* What a dead controller left running stays charged to its reservation      *)
(* until it is removed (reconcile before recover_reservations).              *)
THEOREM OrphansStayCharged == Spec => []OrphansAreCharged
<1>1. IInv => OrphansAreCharged
  BY DEF IInv, EnvOK, OrphansAreCharged
<1> QED  BY Invariance, <1>1, PTL

(* No session runs beside an environment of a dead controller.               *)
THEOREM SessionsStandAlone == Spec => []NoSessionBesideOrphans
<1>1. IInv => NoSessionBesideOrphans
  <2> SUFFICES ASSUME IInv, NEW c \in Caller, env[c] = "orphan"
               PROVE  (\A d \in Caller : env[d] # "owned") /\ thread = AllOff
    BY DEF NoSessionBesideOrphans
  <2>1. \A p \in Proc : at[p] \notin WorkPlaces \cup {"applying"}
    BY DEF IInv, EnvOK, BeforeLock, WorkPlaces, MainPlaces
  <2>2. thread = AllOff
    BY <2>1 DEF IInv, Quiet, ThreadsOK
  <2>3. \A d \in Caller : env[d] # "owned"
    BY <2>1, <2>2 DEF IInv, EnvOK, AllOff
  <2> QED  BY <2>2, <2>3
<1> QED  BY Invariance, <1>1, PTL

(* No worker session of a task is alive while its request is undecided.      *)
THEOREM PendingStandsAlone == Spec => []NoWorkerWhilePending
<1>1. IInv => NoWorkerWhilePending
  BY DEF IInv
<1> QED  BY Invariance, <1>1, PTL

-----------------------------------------------------------------------------
(* Steps.                                                                    *)

(* No step decides anything in a stopped Run.                                *)
LEMMA DecidedStep ==
  ASSUME LifecycleAssumption, Base, Stopped, [Next]_vars PROVE UNCHANGED Decided
<1> USE DEF Base, TypeOK, HolderOK, OpOK, LifecycleAssumption, Place, MainPlaces, WorkPlaces, ApplyPlaces, BeforeLock, Caller, attempt, graph, process, Decided, Granted, Stopped, MayDecide
<1>1. ASSUME NEW p \in Proc, RequestCleanup(p) PROVE UNCHANGED Decided
  BY <1>1 DEF RequestCleanup, Record, Moves
<1>2. ASSUME NEW p \in Proc, RevokeStop(p) PROVE UNCHANGED Decided
  BY <1>2 DEF RevokeStop, Record, Moves
<1>3. ASSUME NEW p \in Proc, RevokeRequest(p) PROVE UNCHANGED Decided
  BY <1>3 DEF RevokeRequest, Record, Moves
<1>4. ASSUME NEW p \in Proc, TakeLock(p) PROVE UNCHANGED Decided
  <2>1. op[p] # "reject"
    BY <1>4 DEF TakeLock, Admitted
  <2> QED  BY <1>4, <2>1 DEF TakeLock
<1>5. ASSUME NEW p \in Proc, Refused(p) PROVE UNCHANGED Decided
  BY <1>5 DEF Refused, Moves
<1>6. ASSUME NEW p \in Proc, Answer(p) PROVE UNCHANGED Decided
  BY <1>6 DEF Answer, Moves
<1>7. ASSUME NEW p \in Proc, Reconcile(p) PROVE UNCHANGED Decided
  BY <1>7 DEF Reconcile, Moves
<1>8. ASSUME NEW p \in Proc, ReconcileFails(p) PROVE UNCHANGED Decided
  BY <1>8 DEF ReconcileFails, Leave, Moves, AllOff
<1>9. ASSUME NEW p \in Proc, RecoverReservations(p) PROVE UNCHANGED Decided
  BY <1>9 DEF RecoverReservations, Moves, BodyPlace
<1>10. ASSUME NEW p \in Proc, Confirm(p) PROVE UNCHANGED Decided
  BY <1>10 DEF Confirm, Record, Leave, Moves, AllOff
<1>11. ASSUME NEW p \in Proc, Supersede(p) PROVE UNCHANGED Decided
  BY <1>11 DEF Supersede, Record, Leave, Moves, AllOff
<1>12. ASSUME NEW p \in Proc, PromoteCheck(p) PROVE UNCHANGED Decided
  BY <1>12 DEF PromoteCheck, Moves, Leave, AllOff
<1>13. ASSUME NEW p \in Proc, Export(p) PROVE UNCHANGED Decided
  BY <1>13 DEF Export, Moves, Leave, AllOff
<1>14. ASSUME NEW p \in Proc, RecordPromotion(p) PROVE UNCHANGED Decided
  BY <1>14 DEF RecordPromotion, Record, Leave, Moves, AllOff
<1>15. ASSUME NEW p \in Proc, RejectStop(p) PROVE UNCHANGED Decided
  BY <1>15 DEF RejectStop, Record, Leave, Moves, AllOff
<1>16. ASSUME NEW p \in Proc, Approve(p) PROVE UNCHANGED Decided
  BY <1>16 DEF Approve, Moves, Leave, AllOff
<1>17. ASSUME NEW p \in Proc, ReserveApplication(p) PROVE UNCHANGED Decided
  BY <1>17 DEF ReserveApplication, Moves, Leave, AllOff
<1>18. ASSUME NEW p \in Proc, ApplicationReturns(p) PROVE UNCHANGED Decided
  BY <1>18 DEF ApplicationReturns, Moves, Leave, AllOff
<1>19. ASSUME NEW p \in Proc, RecordApplied(p) PROVE UNCHANGED Decided
  BY <1>19 DEF RecordApplied, Leave, Moves, AllOff
<1>20. ASSUME NEW p \in Proc, Dispatch(p) PROVE UNCHANGED Decided
  BY <1>20 DEF Dispatch, Leave, Stage, Moves, Becomes, AllOff
<1>21. ASSUME NEW p \in Proc, Clarified(p) PROVE UNCHANGED Decided
  BY <1>21 DEF Clarified, Record, Leave, Stage, Settled, Moves, Becomes, AllOff
<1>22. ASSUME NEW p \in Proc, Planned(p) PROVE UNCHANGED Decided
  BY <1>22 DEF Planned, Leave, Stage, Settled, Moves, Becomes, AllOff
<1>23. ASSUME NEW p \in Proc, Submit(p) PROVE UNCHANGED Decided
  BY <1>23 DEF Submit, AllOff
<1>24. ASSUME NEW p \in Proc, JoinRaises(p) PROVE UNCHANGED Decided
  BY <1>24 DEF JoinRaises, Leave, Exhausted, Moves, AllOff
<1>25. ASSUME NEW p \in Proc, JoinFails(p) PROVE UNCHANGED Decided
  BY <1>25 DEF JoinFails, Leave, Stage, Exhausted, Moves, Becomes, AllOff
<1>26. ASSUME NEW p \in Proc, JoinAccepts(p) PROVE UNCHANGED Decided
  BY <1>26 DEF JoinAccepts, AllOff, Exhausted
<1>27. ASSUME NEW p \in Proc, ToVerification(p) PROVE UNCHANGED Decided
  BY <1>27 DEF ToVerification, AllOff, Stage, Moves, Becomes
<1>28. ASSUME NEW p \in Proc, PoolStopped(p) PROVE UNCHANGED Decided
  BY <1>28 DEF PoolStopped, AllOff, Leave, Moves
<1>29. ASSUME NEW p \in Proc, GoalVerified(p) PROVE UNCHANGED Decided
  BY <1>29 DEF GoalVerified, Leave, Stage, Settled, Moves, Becomes, AllOff
<1>30. ASSUME NEW p \in Proc, Replanned(p) PROVE UNCHANGED Decided
  BY <1>30 DEF Replanned, Moves, AllOff, Leave, Settled
<1>31. ASSUME NEW p \in Proc, Complete(p) PROVE UNCHANGED Decided
  BY <1>31 DEF Complete, Record, Leave, Moves, AllOff
<1>32. ASSUME NEW p \in Proc, MainEnds(p) PROVE UNCHANGED Decided
  BY <1>32 DEF MainEnds, Leave, Moves, AllOff
<1>33. ASSUME NEW t \in Task, StartTask(t) PROVE UNCHANGED Decided
  BY <1>33 DEF StartTask, Becomes
<1>34. ASSUME NEW t \in Task, WorkerCompleted(t) PROVE UNCHANGED Decided
  BY <1>34 DEF WorkerCompleted, Becomes, Settled
<1>35. ASSUME NEW t \in Task, WorkerFailed(t) PROVE UNCHANGED Decided
  BY <1>35 DEF WorkerFailed, Settled, Again, Becomes
<1>36. ASSUME NEW t \in Task, WorkerRequests(t) PROVE UNCHANGED Decided
  BY <1>36 DEF WorkerRequests, Becomes, Settled
<1>37. ASSUME NEW t \in Task, WorkerUncertain(t) PROVE UNCHANGED Decided
  BY <1>37 DEF WorkerUncertain, Becomes, Settled
<1>38. ASSUME NEW t \in Task, RecordUncertain(t) PROVE UNCHANGED Decided
  BY <1>38 DEF RecordUncertain, Record, Becomes
<1>39. ASSUME NEW t \in Task, LimitSettled(t) PROVE UNCHANGED Decided
  BY <1>39 DEF LimitSettled, Settled
<1>40. ASSUME NEW t \in Task, LimitStop(t) PROVE UNCHANGED Decided
  BY <1>40 DEF LimitStop, Record, Becomes
<1>41. ASSUME NEW t \in Task, TaskVerified(t) PROVE UNCHANGED Decided
  BY <1>41 DEF TaskVerified, Becomes, Settled, Again
<1>42. ASSUME NEW t \in Task, AcceptTask(t) PROVE UNCHANGED Decided
  BY <1>42 DEF AcceptTask, Becomes
<1>43. ASSUME NEW c \in Caller, Reserve(c) PROVE UNCHANGED Decided
  BY <1>43 DEF Reserve, Becomes
<1>44. ASSUME NEW c \in Caller, Launch(c) PROVE UNCHANGED Decided
  BY <1>44 DEF Launch, Becomes
<1>45. ASSUME NEW c \in Caller, Kill(c) PROVE UNCHANGED Decided
  BY <1>45 DEF Kill, Break, Becomes
<1>46. ASSUME NEW c \in Caller, StopThread(c) PROVE UNCHANGED Decided
  BY <1>46 DEF StopThread, Becomes, Settled
<1>47. ASSUME NEW c \in Caller, WatcherRemoves(c) PROVE UNCHANGED Decided
  BY <1>47 DEF WatcherRemoves
<1>48. ASSUME NEW c \in Caller, Retry(c) PROVE UNCHANGED Decided
  BY <1>48 DEF Retry, Becomes
<1>49. ASSUME NEW c \in Caller, Break(c) PROVE UNCHANGED Decided
  BY <1>49 DEF Break, Becomes
<1>50. ASSUME NEW c \in Caller, PreflightFails(c) PROVE UNCHANGED Decided
  BY <1>50 DEF PreflightFails, Record
<1>51. ASSUME NEW p \in Proc, Cancel(p) PROVE UNCHANGED Decided
  BY <1>51 DEF Cancel, Record
<1>52. ASSUME NEW p \in Proc, ControllerStops(p) PROVE UNCHANGED Decided
  BY <1>52 DEF ControllerStops, Record
<1>53. ASSUME NEW p \in Proc, Crash(p) PROVE UNCHANGED Decided
  BY <1>53 DEF Crash, Moves, Leave, AllOff
<1>54. ASSUME NEW p \in Proc, NEW c \in Commands, NEW t \in Task \cup {NoTask}, Begin(p, c, t) PROVE UNCHANGED Decided
  BY <1>54 DEF Begin, Moves, FirstPlace
<1>55. ASSUME NEW c \in Caller, NEW r \in Reply, Return(c, r) PROVE UNCHANGED Decided
  BY <1>55 DEF Return, Becomes
<1>56. CASE UNCHANGED vars
  BY <1>56 DEF vars
<1> HIDE DEF Base, TypeOK, HolderOK, OpOK, LifecycleAssumption, Place, MainPlaces, WorkPlaces, ApplyPlaces, BeforeLock, Caller, attempt, graph, process, Decided, Granted, Stopped, MayDecide
<1> QED
  BY <1>1, <1>2, <1>3, <1>4, <1>5, <1>6, <1>7, <1>8, <1>9, <1>10, <1>11, <1>12, <1>13, <1>14, <1>15, <1>16, <1>17, <1>18, <1>19, <1>20, <1>21, <1>22, <1>23, <1>24, <1>25, <1>26, <1>27, <1>28, <1>29, <1>30, <1>31, <1>32, <1>33, <1>34, <1>35, <1>36, <1>37, <1>38, <1>39, <1>40, <1>41, <1>42, <1>43, <1>44, <1>45, <1>46, <1>47, <1>48, <1>49, <1>50, <1>51, <1>52, <1>53, <1>54, <1>55, <1>56 DEF Next, CommandStep, ExecuteStep, TaskStep, InvocationStep, Environment

(* After a stop nothing is decided, whatever was in flight (_decision_guard).*)
THEOREM NothingIsDecided == Spec => NothingDecidedAfterStop
<1>1. IInv /\ [Next]_vars => [Stopped => UNCHANGED Decided]_vars
  BY DecidedStep, LifecycleAssumption DEF IInv
<1> QED  BY Invariance, <1>1, PTL DEF Spec, NothingDecidedAfterStop

(* A grant that becomes applied was approved, and no session is alive.       *)
AppliedWell ==
  \A t \in Task :
    grant[t] # "applied" /\ grant'[t] = "applied" =>
      grant[t] = "approved" /\ \A c \in Caller : env[c] \notin {"owned", "orphan"}

(* A grant becomes applied only from an approval, with no session alive.     *)
LEMMA AppliedStep ==
  ASSUME LifecycleAssumption, Base, ApprovedOK, RecoveredOK, [Next]_vars PROVE AppliedWell
<1> USE DEF Base, TypeOK, HolderOK, OpOK, LifecycleAssumption, Place, MainPlaces, WorkPlaces, ApplyPlaces, BeforeLock, Caller, attempt, graph, process, ApprovedOK, RecoveredOK, NoEnvironment, AppliedWell
<1>1. ASSUME NEW p \in Proc, RequestCleanup(p) PROVE AppliedWell
  BY <1>1 DEF RequestCleanup, Record, Moves
<1>2. ASSUME NEW p \in Proc, RevokeStop(p) PROVE AppliedWell
  BY <1>2 DEF RevokeStop, Record, Moves
<1>3. ASSUME NEW p \in Proc, RevokeRequest(p) PROVE AppliedWell
  BY <1>3 DEF RevokeRequest, Record, Moves
<1>4. ASSUME NEW p \in Proc, TakeLock(p) PROVE AppliedWell
  BY <1>4 DEF TakeLock, Moves, EntryPlace
<1>5. ASSUME NEW p \in Proc, Refused(p) PROVE AppliedWell
  BY <1>5 DEF Refused, Moves
<1>6. ASSUME NEW p \in Proc, Answer(p) PROVE AppliedWell
  BY <1>6 DEF Answer, Moves
<1>7. ASSUME NEW p \in Proc, Reconcile(p) PROVE AppliedWell
  BY <1>7 DEF Reconcile, Moves
<1>8. ASSUME NEW p \in Proc, ReconcileFails(p) PROVE AppliedWell
  BY <1>8 DEF ReconcileFails, Leave, Moves, AllOff
<1>9. ASSUME NEW p \in Proc, RecoverReservations(p) PROVE AppliedWell
  BY <1>9 DEF RecoverReservations, Moves, BodyPlace
<1>10. ASSUME NEW p \in Proc, Confirm(p) PROVE AppliedWell
  BY <1>10 DEF Confirm, Record, Leave, Moves, AllOff
<1>11. ASSUME NEW p \in Proc, Supersede(p) PROVE AppliedWell
  BY <1>11 DEF Supersede, Record, Leave, Moves, AllOff
<1>12. ASSUME NEW p \in Proc, PromoteCheck(p) PROVE AppliedWell
  BY <1>12 DEF PromoteCheck, Moves, Leave, AllOff
<1>13. ASSUME NEW p \in Proc, Export(p) PROVE AppliedWell
  BY <1>13 DEF Export, Moves, Leave, AllOff
<1>14. ASSUME NEW p \in Proc, RecordPromotion(p) PROVE AppliedWell
  BY <1>14 DEF RecordPromotion, Record, Leave, Moves, AllOff
<1>15. ASSUME NEW p \in Proc, RejectStop(p) PROVE AppliedWell
  BY <1>15 DEF RejectStop, Record, Leave, Moves, AllOff
<1>16. ASSUME NEW p \in Proc, Approve(p) PROVE AppliedWell
  BY <1>16 DEF Approve, Moves, Leave, MayDecide, AllOff
<1>17. ASSUME NEW p \in Proc, ReserveApplication(p) PROVE AppliedWell
  BY <1>17 DEF ReserveApplication, Moves, Leave, MayDecide, AllOff
<1>18. ASSUME NEW p \in Proc, ApplicationReturns(p) PROVE AppliedWell
  BY <1>18 DEF ApplicationReturns, Moves, Leave, AllOff
<1>19. ASSUME NEW p \in Proc, RecordApplied(p) PROVE AppliedWell
  BY <1>19 DEF RecordApplied, Leave, MayDecide, Moves, AllOff
<1>20. ASSUME NEW p \in Proc, Dispatch(p) PROVE AppliedWell
  BY <1>20 DEF Dispatch, Leave, Stage, Moves, Becomes, AllOff
<1>21. ASSUME NEW p \in Proc, Clarified(p) PROVE AppliedWell
  BY <1>21 DEF Clarified, Record, Leave, Stage, Settled, MayDecide, Moves, Becomes, AllOff
<1>22. ASSUME NEW p \in Proc, Planned(p) PROVE AppliedWell
  BY <1>22 DEF Planned, Leave, Stage, Settled, MayDecide, Moves, Becomes, AllOff
<1>23. ASSUME NEW p \in Proc, Submit(p) PROVE AppliedWell
  BY <1>23 DEF Submit, AllOff
<1>24. ASSUME NEW p \in Proc, JoinRaises(p) PROVE AppliedWell
  BY <1>24 DEF JoinRaises, Leave, Exhausted, Moves, AllOff
<1>25. ASSUME NEW p \in Proc, JoinFails(p) PROVE AppliedWell
  BY <1>25 DEF JoinFails, Leave, Stage, Exhausted, Moves, Becomes, AllOff
<1>26. ASSUME NEW p \in Proc, JoinAccepts(p) PROVE AppliedWell
  BY <1>26 DEF JoinAccepts, AllOff, Exhausted
<1>27. ASSUME NEW p \in Proc, ToVerification(p) PROVE AppliedWell
  BY <1>27 DEF ToVerification, AllOff, Stage, Moves, Becomes
<1>28. ASSUME NEW p \in Proc, PoolStopped(p) PROVE AppliedWell
  BY <1>28 DEF PoolStopped, AllOff, Leave, Moves
<1>29. ASSUME NEW p \in Proc, GoalVerified(p) PROVE AppliedWell
  BY <1>29 DEF GoalVerified, Leave, Stage, Settled, MayDecide, Moves, Becomes, AllOff
<1>30. ASSUME NEW p \in Proc, Replanned(p) PROVE AppliedWell
  BY <1>30 DEF Replanned, Moves, AllOff, Leave, Settled, MayDecide
<1>31. ASSUME NEW p \in Proc, Complete(p) PROVE AppliedWell
  BY <1>31 DEF Complete, Record, Leave, MayDecide, Moves, AllOff
<1>32. ASSUME NEW p \in Proc, MainEnds(p) PROVE AppliedWell
  BY <1>32 DEF MainEnds, Leave, Moves, AllOff
<1>33. ASSUME NEW t \in Task, StartTask(t) PROVE AppliedWell
  BY <1>33 DEF StartTask, Becomes, MayDecide
<1>34. ASSUME NEW t \in Task, WorkerCompleted(t) PROVE AppliedWell
  BY <1>34 DEF WorkerCompleted, Becomes, Settled, MayDecide
<1>35. ASSUME NEW t \in Task, WorkerFailed(t) PROVE AppliedWell
  BY <1>35 DEF WorkerFailed, Settled, Again, MayDecide, Becomes
<1>36. ASSUME NEW t \in Task, WorkerRequests(t) PROVE AppliedWell
  BY <1>36 DEF WorkerRequests, Becomes, Settled, MayDecide
<1>37. ASSUME NEW t \in Task, WorkerUncertain(t) PROVE AppliedWell
  BY <1>37 DEF WorkerUncertain, Becomes, Settled, MayDecide
<1>38. ASSUME NEW t \in Task, RecordUncertain(t) PROVE AppliedWell
  BY <1>38 DEF RecordUncertain, Record, Becomes
<1>39. ASSUME NEW t \in Task, LimitSettled(t) PROVE AppliedWell
  BY <1>39 DEF LimitSettled, Settled, MayDecide
<1>40. ASSUME NEW t \in Task, LimitStop(t) PROVE AppliedWell
  BY <1>40 DEF LimitStop, Record, Becomes
<1>41. ASSUME NEW t \in Task, TaskVerified(t) PROVE AppliedWell
  BY <1>41 DEF TaskVerified, Becomes, Settled, Again, MayDecide
<1>42. ASSUME NEW t \in Task, AcceptTask(t) PROVE AppliedWell
  BY <1>42 DEF AcceptTask, Becomes, MayDecide
<1>43. ASSUME NEW c \in Caller, Reserve(c) PROVE AppliedWell
  BY <1>43 DEF Reserve, Becomes, MayDecide
<1>44. ASSUME NEW c \in Caller, Launch(c) PROVE AppliedWell
  BY <1>44 DEF Launch, Becomes, MayDecide
<1>45. ASSUME NEW c \in Caller, Kill(c) PROVE AppliedWell
  BY <1>45 DEF Kill, Break, Becomes
<1>46. ASSUME NEW c \in Caller, StopThread(c) PROVE AppliedWell
  BY <1>46 DEF StopThread, Becomes, Settled, MayDecide
<1>47. ASSUME NEW c \in Caller, WatcherRemoves(c) PROVE AppliedWell
  BY <1>47 DEF WatcherRemoves
<1>48. ASSUME NEW c \in Caller, Retry(c) PROVE AppliedWell
  BY <1>48 DEF Retry, Becomes
<1>49. ASSUME NEW c \in Caller, Break(c) PROVE AppliedWell
  BY <1>49 DEF Break, Becomes
<1>50. ASSUME NEW c \in Caller, PreflightFails(c) PROVE AppliedWell
  BY <1>50 DEF PreflightFails, Record
<1>51. ASSUME NEW p \in Proc, Cancel(p) PROVE AppliedWell
  BY <1>51 DEF Cancel, Record
<1>52. ASSUME NEW p \in Proc, ControllerStops(p) PROVE AppliedWell
  BY <1>52 DEF ControllerStops, Record
<1>53. ASSUME NEW p \in Proc, Crash(p) PROVE AppliedWell
  BY <1>53 DEF Crash, Moves, Leave, AllOff
<1>54. ASSUME NEW p \in Proc, NEW c \in Commands, NEW t \in Task \cup {NoTask}, Begin(p, c, t) PROVE AppliedWell
  BY <1>54 DEF Begin, Moves, FirstPlace
<1>55. ASSUME NEW c \in Caller, NEW r \in Reply, Return(c, r) PROVE AppliedWell
  BY <1>55 DEF Return, Becomes
<1>56. CASE UNCHANGED vars
  BY <1>56 DEF vars
<1> HIDE DEF Base, TypeOK, HolderOK, OpOK, LifecycleAssumption, Place, MainPlaces, WorkPlaces, ApplyPlaces, BeforeLock, Caller, attempt, graph, process, ApprovedOK, RecoveredOK, NoEnvironment, AppliedWell
<1> QED
  BY <1>1, <1>2, <1>3, <1>4, <1>5, <1>6, <1>7, <1>8, <1>9, <1>10, <1>11, <1>12, <1>13, <1>14, <1>15, <1>16, <1>17, <1>18, <1>19, <1>20, <1>21, <1>22, <1>23, <1>24, <1>25, <1>26, <1>27, <1>28, <1>29, <1>30, <1>31, <1>32, <1>33, <1>34, <1>35, <1>36, <1>37, <1>38, <1>39, <1>40, <1>41, <1>42, <1>43, <1>44, <1>45, <1>46, <1>47, <1>48, <1>49, <1>50, <1>51, <1>52, <1>53, <1>54, <1>55, <1>56 DEF Next, CommandStep, ExecuteStep, TaskStep, InvocationStep, Environment

(* Authority is applied from an approval and beside no session               *)
(* (approve_authority under the controller lock).                            *)
THEOREM AppliedFromApproval == Spec => AppliedAfterApproval
<1>1. IInv /\ [Next]_vars =>
        [\A t \in Task :
           grant[t] # "applied" /\ grant'[t] = "applied" =>
             grant[t] = "approved" /\ \A c \in Caller : env[c] \notin {"owned", "orphan"}]_vars
  BY AppliedStep, LifecycleAssumption DEF IInv, Quiet, AppliedWell
<1> QED  BY Invariance, <1>1, PTL DEF Spec, AppliedAfterApproval

(* An accepted task is out of the threads' hands.                            *)
AcceptedOK ==
  \A t \in Task : progress[t] = "accepted" => thread[t] \in {"off", "ok"}

(* No step takes up an accepted task.                                        *)
LEMMA AcceptedStep ==
  ASSUME LifecycleAssumption, Base, AcceptedOK, [Next]_vars PROVE AcceptedOK'
<1> USE DEF Base, TypeOK, HolderOK, OpOK, LifecycleAssumption, Place, MainPlaces, WorkPlaces, ApplyPlaces, BeforeLock, Caller, attempt, graph, process, AcceptedOK, Accepted, AllOff, Reply, Ended
<1>1. ASSUME NEW p \in Proc, RequestCleanup(p) PROVE AcceptedOK'
  BY <1>1 DEF RequestCleanup, Record, Moves
<1>2. ASSUME NEW p \in Proc, RevokeStop(p) PROVE AcceptedOK'
  BY <1>2 DEF RevokeStop, Record, Moves
<1>3. ASSUME NEW p \in Proc, RevokeRequest(p) PROVE AcceptedOK'
  BY <1>3 DEF RevokeRequest, Record, Moves
<1>4. ASSUME NEW p \in Proc, TakeLock(p) PROVE AcceptedOK'
  BY <1>4 DEF TakeLock, Moves, EntryPlace
<1>5. ASSUME NEW p \in Proc, Refused(p) PROVE AcceptedOK'
  BY <1>5 DEF Refused, Moves
<1>6. ASSUME NEW p \in Proc, Answer(p) PROVE AcceptedOK'
  BY <1>6 DEF Answer, Moves
<1>7. ASSUME NEW p \in Proc, Reconcile(p) PROVE AcceptedOK'
  BY <1>7 DEF Reconcile, Moves
<1>8. ASSUME NEW p \in Proc, ReconcileFails(p) PROVE AcceptedOK'
  BY <1>8 DEF ReconcileFails, Leave, Moves, AllOff
<1>9. ASSUME NEW p \in Proc, RecoverReservations(p) PROVE AcceptedOK'
  BY <1>9 DEF RecoverReservations, Moves, BodyPlace
<1>10. ASSUME NEW p \in Proc, Confirm(p) PROVE AcceptedOK'
  BY <1>10 DEF Confirm, Record, Leave, Moves, AllOff
<1>11. ASSUME NEW p \in Proc, Supersede(p) PROVE AcceptedOK'
  BY <1>11 DEF Supersede, Record, Leave, Stopped, Moves, AllOff
<1>12. ASSUME NEW p \in Proc, PromoteCheck(p) PROVE AcceptedOK'
  BY <1>12 DEF PromoteCheck, Moves, Leave, AllOff
<1>13. ASSUME NEW p \in Proc, Export(p) PROVE AcceptedOK'
  BY <1>13 DEF Export, Moves, Leave, AllOff
<1>14. ASSUME NEW p \in Proc, RecordPromotion(p) PROVE AcceptedOK'
  BY <1>14 DEF RecordPromotion, Record, Leave, Moves, AllOff
<1>15. ASSUME NEW p \in Proc, RejectStop(p) PROVE AcceptedOK'
  BY <1>15 DEF RejectStop, Record, Leave, Moves, AllOff
<1>16. ASSUME NEW p \in Proc, Approve(p) PROVE AcceptedOK'
  BY <1>16 DEF Approve, Moves, Leave, MayDecide, AllOff
<1>17. ASSUME NEW p \in Proc, ReserveApplication(p) PROVE AcceptedOK'
  BY <1>17 DEF ReserveApplication, Moves, Leave, MayDecide, AllOff
<1>18. ASSUME NEW p \in Proc, ApplicationReturns(p) PROVE AcceptedOK'
  BY <1>18 DEF ApplicationReturns, Moves, Leave, AllOff
<1>19. ASSUME NEW p \in Proc, RecordApplied(p) PROVE AcceptedOK'
  BY <1>19 DEF RecordApplied, Leave, MayDecide, Moves, AllOff
<1>20. ASSUME NEW p \in Proc, Dispatch(p) PROVE AcceptedOK'
  BY <1>20 DEF Dispatch, Leave, Stage, Moves, Becomes, AllOff
<1>21. ASSUME NEW p \in Proc, Clarified(p) PROVE AcceptedOK'
  BY <1>21 DEF Clarified, Record, Leave, Stage, Settled, MayDecide, Moves, Becomes, AllOff
<1>22. ASSUME NEW p \in Proc, Planned(p) PROVE AcceptedOK'
  BY <1>22 DEF Planned, Leave, Stage, Settled, MayDecide, Moves, Becomes, AllOff
<1>23. ASSUME NEW p \in Proc, Submit(p) PROVE AcceptedOK'
  BY <1>23 DEF Submit, AllOff, Stopped
<1>24. ASSUME NEW p \in Proc, JoinRaises(p) PROVE AcceptedOK'
  BY <1>24 DEF JoinRaises, Leave, Exhausted, Joined, Raising, AllOff, Moves
<1>25. ASSUME NEW p \in Proc, JoinFails(p) PROVE AcceptedOK'
  BY <1>25 DEF JoinFails, Leave, Stage, Exhausted, Joined, Raising, AllOff, Moves, Becomes
<1>26. ASSUME NEW p \in Proc, JoinAccepts(p) PROVE AcceptedOK'
  BY <1>26 DEF JoinAccepts, AllOff, Exhausted, Joined, Raising
<1>27. ASSUME NEW p \in Proc, ToVerification(p) PROVE AcceptedOK'
  BY <1>27 DEF ToVerification, AllOff, Stage, Moves, Becomes
<1>28. ASSUME NEW p \in Proc, PoolStopped(p) PROVE AcceptedOK'
  BY <1>28 DEF PoolStopped, AllOff, Leave, Stopped, Moves
<1>29. ASSUME NEW p \in Proc, GoalVerified(p) PROVE AcceptedOK'
  BY <1>29 DEF GoalVerified, Leave, Stage, Settled, MayDecide, Moves, Becomes, AllOff
<1>30. ASSUME NEW p \in Proc, Replanned(p) PROVE AcceptedOK'
  BY <1>30 DEF Replanned, Moves, AllOff, Leave, Settled, MayDecide
<1>31. ASSUME NEW p \in Proc, Complete(p) PROVE AcceptedOK'
  BY <1>31 DEF Complete, Record, Leave, MayDecide, Moves, AllOff
<1>32. ASSUME NEW p \in Proc, MainEnds(p) PROVE AcceptedOK'
  BY <1>32 DEF MainEnds, Leave, Moves, AllOff
<1>33. ASSUME NEW t \in Task, StartTask(t) PROVE AcceptedOK'
  BY <1>33 DEF StartTask, Becomes, MayDecide
<1>34. ASSUME NEW t \in Task, WorkerCompleted(t) PROVE AcceptedOK'
  BY <1>34 DEF WorkerCompleted, Becomes, Settled, MayDecide
<1>35. ASSUME NEW t \in Task, WorkerFailed(t) PROVE AcceptedOK'
  BY <1>35 DEF WorkerFailed, Settled, Again, MayDecide, Becomes
<1>36. ASSUME NEW t \in Task, WorkerRequests(t) PROVE AcceptedOK'
  BY <1>36 DEF WorkerRequests, Becomes, Settled, MayDecide
<1>37. ASSUME NEW t \in Task, WorkerUncertain(t) PROVE AcceptedOK'
  BY <1>37 DEF WorkerUncertain, Becomes, Settled, MayDecide
<1>38. ASSUME NEW t \in Task, RecordUncertain(t) PROVE AcceptedOK'
  BY <1>38 DEF RecordUncertain, Record, Becomes
<1>39. ASSUME NEW t \in Task, LimitSettled(t) PROVE AcceptedOK'
  BY <1>39 DEF LimitSettled, Settled, MayDecide
<1>40. ASSUME NEW t \in Task, LimitStop(t) PROVE AcceptedOK'
  BY <1>40 DEF LimitStop, Record, Becomes
<1>41. ASSUME NEW t \in Task, TaskVerified(t) PROVE AcceptedOK'
  BY <1>41 DEF TaskVerified, Becomes, Settled, Again, MayDecide
<1>42. ASSUME NEW t \in Task, AcceptTask(t) PROVE AcceptedOK'
  BY <1>42 DEF AcceptTask, Becomes, MayDecide
<1>43. ASSUME NEW c \in Caller, Reserve(c) PROVE AcceptedOK'
  BY <1>43 DEF Reserve, Becomes, MayDecide
<1>44. ASSUME NEW c \in Caller, Launch(c) PROVE AcceptedOK'
  BY <1>44 DEF Launch, Becomes, MayDecide
<1>45. ASSUME NEW c \in Caller, Kill(c) PROVE AcceptedOK'
  BY <1>45 DEF Kill, Break, Stopped, Becomes
<1>46. ASSUME NEW c \in Caller, StopThread(c) PROVE AcceptedOK'
  BY <1>46 DEF StopThread, Becomes, Settled, MayDecide
<1>47. ASSUME NEW c \in Caller, WatcherRemoves(c) PROVE AcceptedOK'
  BY <1>47 DEF WatcherRemoves
<1>48. ASSUME NEW c \in Caller, Retry(c) PROVE AcceptedOK'
  BY <1>48 DEF Retry, Becomes
<1>49. ASSUME NEW c \in Caller, Break(c) PROVE AcceptedOK'
  BY <1>49 DEF Break, Becomes, Stopped
<1>50. ASSUME NEW c \in Caller, PreflightFails(c) PROVE AcceptedOK'
  BY <1>50 DEF PreflightFails, Record, Stopped
<1>51. ASSUME NEW p \in Proc, Cancel(p) PROVE AcceptedOK'
  BY <1>51 DEF Cancel, Record
<1>52. ASSUME NEW p \in Proc, ControllerStops(p) PROVE AcceptedOK'
  BY <1>52 DEF ControllerStops, Record, Stopped
<1>53. ASSUME NEW p \in Proc, Crash(p) PROVE AcceptedOK'
  BY <1>53 DEF Crash, Moves, Leave, AllOff
<1>54. ASSUME NEW p \in Proc, NEW c \in Commands, NEW t \in Task \cup {NoTask}, Begin(p, c, t) PROVE AcceptedOK'
  BY <1>54 DEF Begin, Moves, FirstPlace
<1>55. ASSUME NEW c \in Caller, NEW r \in Reply, Return(c, r) PROVE AcceptedOK'
  BY <1>55 DEF Return, Becomes
<1>56. CASE UNCHANGED vars
  BY <1>56 DEF vars
<1> HIDE DEF Base, TypeOK, HolderOK, OpOK, LifecycleAssumption, Place, MainPlaces, WorkPlaces, ApplyPlaces, BeforeLock, Caller, attempt, graph, process, AcceptedOK, Accepted, AllOff, Reply, Ended
<1> QED
  BY <1>1, <1>2, <1>3, <1>4, <1>5, <1>6, <1>7, <1>8, <1>9, <1>10, <1>11, <1>12, <1>13, <1>14, <1>15, <1>16, <1>17, <1>18, <1>19, <1>20, <1>21, <1>22, <1>23, <1>24, <1>25, <1>26, <1>27, <1>28, <1>29, <1>30, <1>31, <1>32, <1>33, <1>34, <1>35, <1>36, <1>37, <1>38, <1>39, <1>40, <1>41, <1>42, <1>43, <1>44, <1>45, <1>46, <1>47, <1>48, <1>49, <1>50, <1>51, <1>52, <1>53, <1>54, <1>55, <1>56 DEF Next, CommandStep, ExecuteStep, TaskStep, InvocationStep, Environment

(* No task whose last attempt has a result gets another.                     *)
NoneRepeated ==
  \A t \in Task :
    attempts'[t] # attempts[t] => progress[t] \notin {"worked", "verified", "accepted"}

(* Only a task without a recorded result or acceptance gets a new attempt.   *)
LEMMA RepeatStep ==
  ASSUME LifecycleAssumption, Base, AcceptedOK, [Next]_vars PROVE NoneRepeated
<1> USE DEF Base, TypeOK, HolderOK, OpOK, LifecycleAssumption, Place, MainPlaces, WorkPlaces, ApplyPlaces, BeforeLock, Caller, attempt, graph, process, AcceptedOK, NoneRepeated
<1>1. ASSUME NEW p \in Proc, RequestCleanup(p) PROVE NoneRepeated
  BY <1>1 DEF RequestCleanup, Record, Moves
<1>2. ASSUME NEW p \in Proc, RevokeStop(p) PROVE NoneRepeated
  BY <1>2 DEF RevokeStop, Record, Moves
<1>3. ASSUME NEW p \in Proc, RevokeRequest(p) PROVE NoneRepeated
  BY <1>3 DEF RevokeRequest, Record, Moves
<1>4. ASSUME NEW p \in Proc, TakeLock(p) PROVE NoneRepeated
  BY <1>4 DEF TakeLock, Moves, EntryPlace
<1>5. ASSUME NEW p \in Proc, Refused(p) PROVE NoneRepeated
  BY <1>5 DEF Refused, Moves
<1>6. ASSUME NEW p \in Proc, Answer(p) PROVE NoneRepeated
  BY <1>6 DEF Answer, Moves
<1>7. ASSUME NEW p \in Proc, Reconcile(p) PROVE NoneRepeated
  BY <1>7 DEF Reconcile, Moves
<1>8. ASSUME NEW p \in Proc, ReconcileFails(p) PROVE NoneRepeated
  BY <1>8 DEF ReconcileFails, Leave, Moves, AllOff
<1>9. ASSUME NEW p \in Proc, RecoverReservations(p) PROVE NoneRepeated
  BY <1>9 DEF RecoverReservations, Moves, BodyPlace
<1>10. ASSUME NEW p \in Proc, Confirm(p) PROVE NoneRepeated
  BY <1>10 DEF Confirm, Record, Leave, Moves, AllOff
<1>11. ASSUME NEW p \in Proc, Supersede(p) PROVE NoneRepeated
  BY <1>11 DEF Supersede, Record, Leave, Moves, AllOff
<1>12. ASSUME NEW p \in Proc, PromoteCheck(p) PROVE NoneRepeated
  BY <1>12 DEF PromoteCheck, Moves, Leave, AllOff
<1>13. ASSUME NEW p \in Proc, Export(p) PROVE NoneRepeated
  BY <1>13 DEF Export, Moves, Leave, AllOff
<1>14. ASSUME NEW p \in Proc, RecordPromotion(p) PROVE NoneRepeated
  BY <1>14 DEF RecordPromotion, Record, Leave, Moves, AllOff
<1>15. ASSUME NEW p \in Proc, RejectStop(p) PROVE NoneRepeated
  BY <1>15 DEF RejectStop, Record, Leave, Moves, AllOff
<1>16. ASSUME NEW p \in Proc, Approve(p) PROVE NoneRepeated
  BY <1>16 DEF Approve, Moves, Leave, MayDecide, AllOff
<1>17. ASSUME NEW p \in Proc, ReserveApplication(p) PROVE NoneRepeated
  BY <1>17 DEF ReserveApplication, Moves, Leave, MayDecide, AllOff
<1>18. ASSUME NEW p \in Proc, ApplicationReturns(p) PROVE NoneRepeated
  BY <1>18 DEF ApplicationReturns, Moves, Leave, AllOff
<1>19. ASSUME NEW p \in Proc, RecordApplied(p) PROVE NoneRepeated
  BY <1>19 DEF RecordApplied, Leave, MayDecide, Moves, AllOff
<1>20. ASSUME NEW p \in Proc, Dispatch(p) PROVE NoneRepeated
  BY <1>20 DEF Dispatch, Leave, Stage, Moves, Becomes, AllOff
<1>21. ASSUME NEW p \in Proc, Clarified(p) PROVE NoneRepeated
  BY <1>21 DEF Clarified, Record, Leave, Stage, Settled, MayDecide, Moves, Becomes, AllOff
<1>22. ASSUME NEW p \in Proc, Planned(p) PROVE NoneRepeated
  BY <1>22 DEF Planned, Leave, Stage, Settled, MayDecide, Moves, Becomes, AllOff
<1>23. ASSUME NEW p \in Proc, Submit(p) PROVE NoneRepeated
  BY <1>23 DEF Submit, AllOff
<1>24. ASSUME NEW p \in Proc, JoinRaises(p) PROVE NoneRepeated
  BY <1>24 DEF JoinRaises, Leave, Exhausted, Moves, AllOff
<1>25. ASSUME NEW p \in Proc, JoinFails(p) PROVE NoneRepeated
  BY <1>25 DEF JoinFails, Leave, Stage, Exhausted, Moves, Becomes, AllOff
<1>26. ASSUME NEW p \in Proc, JoinAccepts(p) PROVE NoneRepeated
  BY <1>26 DEF JoinAccepts, AllOff, Exhausted
<1>27. ASSUME NEW p \in Proc, ToVerification(p) PROVE NoneRepeated
  BY <1>27 DEF ToVerification, AllOff, Stage, Moves, Becomes
<1>28. ASSUME NEW p \in Proc, PoolStopped(p) PROVE NoneRepeated
  BY <1>28 DEF PoolStopped, AllOff, Leave, Moves
<1>29. ASSUME NEW p \in Proc, GoalVerified(p) PROVE NoneRepeated
  BY <1>29 DEF GoalVerified, Leave, Stage, Settled, MayDecide, Moves, Becomes, AllOff
<1>30. ASSUME NEW p \in Proc, Replanned(p) PROVE NoneRepeated
  BY <1>30 DEF Replanned, Moves, AllOff, Leave, Settled, MayDecide
<1>31. ASSUME NEW p \in Proc, Complete(p) PROVE NoneRepeated
  BY <1>31 DEF Complete, Record, Leave, MayDecide, Moves, AllOff
<1>32. ASSUME NEW p \in Proc, MainEnds(p) PROVE NoneRepeated
  BY <1>32 DEF MainEnds, Leave, Moves, AllOff
<1>33. ASSUME NEW t \in Task, StartTask(t) PROVE NoneRepeated
  BY <1>33 DEF StartTask, Becomes, MayDecide
<1>34. ASSUME NEW t \in Task, WorkerCompleted(t) PROVE NoneRepeated
  BY <1>34 DEF WorkerCompleted, Becomes, Settled, MayDecide
<1>35. ASSUME NEW t \in Task, WorkerFailed(t) PROVE NoneRepeated
  BY <1>35 DEF WorkerFailed, Settled, Again, MayDecide, Becomes
<1>36. ASSUME NEW t \in Task, WorkerRequests(t) PROVE NoneRepeated
  BY <1>36 DEF WorkerRequests, Becomes, Settled, MayDecide
<1>37. ASSUME NEW t \in Task, WorkerUncertain(t) PROVE NoneRepeated
  BY <1>37 DEF WorkerUncertain, Becomes, Settled, MayDecide
<1>38. ASSUME NEW t \in Task, RecordUncertain(t) PROVE NoneRepeated
  BY <1>38 DEF RecordUncertain, Record, Becomes
<1>39. ASSUME NEW t \in Task, LimitSettled(t) PROVE NoneRepeated
  BY <1>39 DEF LimitSettled, Settled, MayDecide
<1>40. ASSUME NEW t \in Task, LimitStop(t) PROVE NoneRepeated
  BY <1>40 DEF LimitStop, Record, Becomes
<1>41. ASSUME NEW t \in Task, TaskVerified(t) PROVE NoneRepeated
  BY <1>41 DEF TaskVerified, Becomes, Settled, Again, MayDecide
<1>42. ASSUME NEW t \in Task, AcceptTask(t) PROVE NoneRepeated
  BY <1>42 DEF AcceptTask, Becomes, MayDecide
<1>43. ASSUME NEW c \in Caller, Reserve(c) PROVE NoneRepeated
  BY <1>43 DEF Reserve, Becomes, MayDecide
<1>44. ASSUME NEW c \in Caller, Launch(c) PROVE NoneRepeated
  BY <1>44 DEF Launch, Becomes, MayDecide
<1>45. ASSUME NEW c \in Caller, Kill(c) PROVE NoneRepeated
  BY <1>45 DEF Kill, Break, Becomes
<1>46. ASSUME NEW c \in Caller, StopThread(c) PROVE NoneRepeated
  BY <1>46 DEF StopThread, Becomes, Settled, MayDecide
<1>47. ASSUME NEW c \in Caller, WatcherRemoves(c) PROVE NoneRepeated
  BY <1>47 DEF WatcherRemoves
<1>48. ASSUME NEW c \in Caller, Retry(c) PROVE NoneRepeated
  BY <1>48 DEF Retry, Becomes
<1>49. ASSUME NEW c \in Caller, Break(c) PROVE NoneRepeated
  BY <1>49 DEF Break, Becomes
<1>50. ASSUME NEW c \in Caller, PreflightFails(c) PROVE NoneRepeated
  BY <1>50 DEF PreflightFails, Record
<1>51. ASSUME NEW p \in Proc, Cancel(p) PROVE NoneRepeated
  BY <1>51 DEF Cancel, Record
<1>52. ASSUME NEW p \in Proc, ControllerStops(p) PROVE NoneRepeated
  BY <1>52 DEF ControllerStops, Record
<1>53. ASSUME NEW p \in Proc, Crash(p) PROVE NoneRepeated
  BY <1>53 DEF Crash, Moves, Leave, AllOff
<1>54. ASSUME NEW p \in Proc, NEW c \in Commands, NEW t \in Task \cup {NoTask}, Begin(p, c, t) PROVE NoneRepeated
  BY <1>54 DEF Begin, Moves, FirstPlace
<1>55. ASSUME NEW c \in Caller, NEW r \in Reply, Return(c, r) PROVE NoneRepeated
  BY <1>55 DEF Return, Becomes
<1>56. CASE UNCHANGED vars
  BY <1>56 DEF vars
<1> HIDE DEF Base, TypeOK, HolderOK, OpOK, LifecycleAssumption, Place, MainPlaces, WorkPlaces, ApplyPlaces, BeforeLock, Caller, attempt, graph, process, AcceptedOK, NoneRepeated
<1> QED
  BY <1>1, <1>2, <1>3, <1>4, <1>5, <1>6, <1>7, <1>8, <1>9, <1>10, <1>11, <1>12, <1>13, <1>14, <1>15, <1>16, <1>17, <1>18, <1>19, <1>20, <1>21, <1>22, <1>23, <1>24, <1>25, <1>26, <1>27, <1>28, <1>29, <1>30, <1>31, <1>32, <1>33, <1>34, <1>35, <1>36, <1>37, <1>38, <1>39, <1>40, <1>41, <1>42, <1>43, <1>44, <1>45, <1>46, <1>47, <1>48, <1>49, <1>50, <1>51, <1>52, <1>53, <1>54, <1>55, <1>56 DEF Next, CommandStep, ExecuteStep, TaskStep, InvocationStep, Environment

(* A finished piece of work is not done twice: neither a crash nor a resume  *)
(* starts another attempt over a completed result (_resume_completed_attempt)*)
THEOREM WorkNotRepeated == Spec => NoRepeatedWork
<1>1. Init => AcceptedOK
  BY DEF Init, AcceptedOK
<1>2. IInv /\ AcceptedOK /\ [Next]_vars => AcceptedOK'
  BY AcceptedStep, LifecycleAssumption DEF IInv
<1>3. IInv /\ AcceptedOK /\ [Next]_vars =>
        [\A t \in Task :
           attempts'[t] # attempts[t] =>
             progress[t] \notin {"worked", "verified", "accepted"}]_vars
  BY RepeatStep, LifecycleAssumption DEF IInv, NoneRepeated
<1> QED  BY Invariance, <1>1, <1>2, <1>3, PTL DEF Spec, NoRepeatedWork

-----------------------------------------------------------------------------
(* Refinement of the promise.                                                *)

(* A step that records nothing and starts nothing keeps the promise.         *)
LEMMA QuietStep ==
  ASSUME UNCHANGED journal, Busy' => Busy PROVE [Promise!Next]_(Promise!vars)
BY DEF Busy, Stopped, Promise!Next, Promise!vars, Promise!Quiesce

(* Every step of the detailed Run is a step of its promise or a stutter.     *)
LEMMA PromiseStep ==
  ASSUME LifecycleAssumption, Base, Quiet, EnvOK, ChargeOK, [Next]_vars PROVE [Promise!Next]_(Promise!vars)
<1> USE DEF Base, TypeOK, HolderOK, OpOK, LifecycleAssumption, Place, MainPlaces, WorkPlaces, ApplyPlaces, BeforeLock, Caller, attempt, graph, process, Quiet, ThreadsOK, FenceOK, CompletedOK, RecoveredOK, ConfirmedOK, EnvOK, ChargeOK, NoEnvironment, Confirmed, Promise!Next, Promise!vars, Promise!Start, Promise!Quiesce, Promise!Complete, Promise!Fence, Promise!Confirm, AllOff, Reply, Ended, Stopped, MayDecide
<1>1. ASSUME NEW p \in Proc, RequestCleanup(p) PROVE [Promise!Next]_(Promise!vars)
  BY <1>1 DEF RequestCleanup, Record, Moves
<1>2. ASSUME NEW p \in Proc, RevokeStop(p) PROVE [Promise!Next]_(Promise!vars)
  BY <1>2 DEF RevokeStop, Record, Moves
<1>3. ASSUME NEW p \in Proc, RevokeRequest(p) PROVE [Promise!Next]_(Promise!vars)
  BY <1>3 DEF RevokeRequest, Record, Moves
<1>4. ASSUME NEW p \in Proc, TakeLock(p) PROVE [Promise!Next]_(Promise!vars)
  BY <1>4 DEF TakeLock, Moves, EntryPlace
<1>5. ASSUME NEW p \in Proc, Refused(p) PROVE [Promise!Next]_(Promise!vars)
  BY <1>5 DEF Refused, Moves
<1>6. ASSUME NEW p \in Proc, Answer(p) PROVE [Promise!Next]_(Promise!vars)
  BY <1>6 DEF Answer, Moves
<1>7. ASSUME NEW p \in Proc, Reconcile(p) PROVE [Promise!Next]_(Promise!vars)
  BY <1>7 DEF Reconcile, Moves
<1>8. ASSUME NEW p \in Proc, ReconcileFails(p) PROVE [Promise!Next]_(Promise!vars)
  BY <1>8 DEF ReconcileFails, Leave, Moves, AllOff
<1>9. ASSUME NEW p \in Proc, RecoverReservations(p) PROVE [Promise!Next]_(Promise!vars)
  BY <1>9 DEF RecoverReservations, Moves, BodyPlace
<1>10. ASSUME NEW p \in Proc, Confirm(p) PROVE [Promise!Next]_(Promise!vars)
  <2>1. NoEnvironment /\ open = {} /\ journal \cap {"stopped", "completed"} # {}
    BY <1>10 DEF Confirm
  <2>2. PICK k \in {"cleanup_confirmed", "authority_revoked"} : journal' = journal \cup {k}
    BY <1>10 DEF Confirm, Record
  <2>3. UNCHANGED <<open, env>>
    BY <1>10 DEF Confirm
  <2> QED  BY <2>1, <2>2, <2>3
<1>11. ASSUME NEW p \in Proc, Supersede(p) PROVE [Promise!Next]_(Promise!vars)
  BY <1>11 DEF Supersede, Record, Leave, Moves, AllOff
<1>12. ASSUME NEW p \in Proc, PromoteCheck(p) PROVE [Promise!Next]_(Promise!vars)
  BY <1>12 DEF PromoteCheck, Moves, Leave, AllOff
<1>13. ASSUME NEW p \in Proc, Export(p) PROVE [Promise!Next]_(Promise!vars)
  BY <1>13 DEF Export, Moves, Leave, AllOff
<1>14. ASSUME NEW p \in Proc, RecordPromotion(p) PROVE [Promise!Next]_(Promise!vars)
  BY <1>14 DEF RecordPromotion, Record, Leave, Moves, AllOff
<1>15. ASSUME NEW p \in Proc, RejectStop(p) PROVE [Promise!Next]_(Promise!vars)
  BY <1>15 DEF RejectStop, Record, Leave, Moves, AllOff
<1>16. ASSUME NEW p \in Proc, Approve(p) PROVE [Promise!Next]_(Promise!vars)
  BY <1>16 DEF Approve, Moves, Leave, AllOff
<1>17. ASSUME NEW p \in Proc, ReserveApplication(p) PROVE [Promise!Next]_(Promise!vars)
  BY <1>17 DEF ReserveApplication, Moves, Leave, AllOff
<1>18. ASSUME NEW p \in Proc, ApplicationReturns(p) PROVE [Promise!Next]_(Promise!vars)
  <2>1. UNCHANGED journal
    BY <1>18 DEF ApplicationReturns, Moves, Leave, AllOff
  <2>2. Busy' => Busy
    BY <1>18 DEF ApplicationReturns, Moves, Leave, AllOff, Busy
  <2> QED  BY <2>1, <2>2, QuietStep
<1>19. ASSUME NEW p \in Proc, RecordApplied(p) PROVE [Promise!Next]_(Promise!vars)
  BY <1>19 DEF RecordApplied, Leave, Moves, AllOff
<1>20. ASSUME NEW p \in Proc, Dispatch(p) PROVE [Promise!Next]_(Promise!vars)
  BY <1>20 DEF Dispatch, Leave, Stage, Moves, Becomes, AllOff
<1>21. ASSUME NEW p \in Proc, Clarified(p) PROVE [Promise!Next]_(Promise!vars)
  BY <1>21 DEF Clarified, Record, Leave, Stage, Settled, Moves, Becomes, AllOff
<1>22. ASSUME NEW p \in Proc, Planned(p) PROVE [Promise!Next]_(Promise!vars)
  BY <1>22 DEF Planned, Leave, Stage, Settled, Moves, Becomes, AllOff
<1>23. ASSUME NEW p \in Proc, Submit(p) PROVE [Promise!Next]_(Promise!vars)
  BY <1>23 DEF Submit, AllOff
<1>24. ASSUME NEW p \in Proc, JoinRaises(p) PROVE [Promise!Next]_(Promise!vars)
  BY <1>24 DEF JoinRaises, Leave, Exhausted, Moves, AllOff
<1>25. ASSUME NEW p \in Proc, JoinFails(p) PROVE [Promise!Next]_(Promise!vars)
  BY <1>25 DEF JoinFails, Leave, Stage, Exhausted, Moves, Becomes, AllOff
<1>26. ASSUME NEW p \in Proc, JoinAccepts(p) PROVE [Promise!Next]_(Promise!vars)
  BY <1>26 DEF JoinAccepts, AllOff, Exhausted
<1>27. ASSUME NEW p \in Proc, ToVerification(p) PROVE [Promise!Next]_(Promise!vars)
  BY <1>27 DEF ToVerification, AllOff, Stage, Moves, Becomes
<1>28. ASSUME NEW p \in Proc, PoolStopped(p) PROVE [Promise!Next]_(Promise!vars)
  BY <1>28 DEF PoolStopped, AllOff, Leave, Moves
<1>29. ASSUME NEW p \in Proc, GoalVerified(p) PROVE [Promise!Next]_(Promise!vars)
  BY <1>29 DEF GoalVerified, Leave, Stage, Settled, Moves, Becomes, AllOff
<1>30. ASSUME NEW p \in Proc, Replanned(p) PROVE [Promise!Next]_(Promise!vars)
  BY <1>30 DEF Replanned, Moves, AllOff, Leave, Settled
<1>31. ASSUME NEW p \in Proc, Complete(p) PROVE [Promise!Next]_(Promise!vars)
  <2>1. thread = AllOff /\ "completed" \notin journal
    BY <1>31 DEF Complete
  <2>2. open = {} /\ NoEnvironment
    BY <1>31, <2>1 DEF Complete
  <2>3. CASE MayDecide
    <3>1. journal' = journal \cup {"completed"} /\ UNCHANGED <<open, env>>
      BY <1>31, <2>3 DEF Complete, Record
    <3>2. Promise!Complete
      BY <2>1, <2>2, <2>3, <3>1
    <3> QED  BY <3>2
  <2>4. CASE ~MayDecide
    BY <1>31, <2>4 DEF Complete
  <2> QED  BY <2>3, <2>4
<1>32. ASSUME NEW p \in Proc, MainEnds(p) PROVE [Promise!Next]_(Promise!vars)
  BY <1>32 DEF MainEnds, Leave, Moves, AllOff
<1>33. ASSUME NEW t \in Task, StartTask(t) PROVE [Promise!Next]_(Promise!vars)
  BY <1>33 DEF StartTask, Becomes
<1>34. ASSUME NEW t \in Task, WorkerCompleted(t) PROVE [Promise!Next]_(Promise!vars)
  BY <1>34 DEF WorkerCompleted, Becomes, Settled
<1>35. ASSUME NEW t \in Task, WorkerFailed(t) PROVE [Promise!Next]_(Promise!vars)
  BY <1>35 DEF WorkerFailed, Settled, Again, Becomes
<1>36. ASSUME NEW t \in Task, WorkerRequests(t) PROVE [Promise!Next]_(Promise!vars)
  BY <1>36 DEF WorkerRequests, Becomes, Settled
<1>37. ASSUME NEW t \in Task, WorkerUncertain(t) PROVE [Promise!Next]_(Promise!vars)
  BY <1>37 DEF WorkerUncertain, Becomes, Settled
<1>38. ASSUME NEW t \in Task, RecordUncertain(t) PROVE [Promise!Next]_(Promise!vars)
  BY <1>38 DEF RecordUncertain, Record, Becomes
<1>39. ASSUME NEW t \in Task, LimitSettled(t) PROVE [Promise!Next]_(Promise!vars)
  BY <1>39 DEF LimitSettled, Settled
<1>40. ASSUME NEW t \in Task, LimitStop(t) PROVE [Promise!Next]_(Promise!vars)
  BY <1>40 DEF LimitStop, Record, Becomes
<1>41. ASSUME NEW t \in Task, TaskVerified(t) PROVE [Promise!Next]_(Promise!vars)
  BY <1>41 DEF TaskVerified, Becomes, Settled, Again
<1>42. ASSUME NEW t \in Task, AcceptTask(t) PROVE [Promise!Next]_(Promise!vars)
  BY <1>42 DEF AcceptTask, Becomes
<1>43. ASSUME NEW c \in Caller, Reserve(c) PROVE [Promise!Next]_(Promise!vars)
  BY <1>43 DEF Reserve, Becomes
<1>44. ASSUME NEW c \in Caller, Launch(c) PROVE [Promise!Next]_(Promise!vars)
  BY <1>44 DEF Launch, Becomes
<1>45. ASSUME NEW c \in Caller, Kill(c) PROVE [Promise!Next]_(Promise!vars)
  <2>1. UNCHANGED journal
    BY <1>45 DEF Kill, Break, Becomes
  <2>2. Busy' => Busy
    BY <1>45 DEF Kill, Break, Becomes, Busy
  <2> QED  BY <2>1, <2>2, QuietStep
<1>46. ASSUME NEW c \in Caller, StopThread(c) PROVE [Promise!Next]_(Promise!vars)
  BY <1>46 DEF StopThread, Becomes, Settled
<1>47. ASSUME NEW c \in Caller, WatcherRemoves(c) PROVE [Promise!Next]_(Promise!vars)
  BY <1>47 DEF WatcherRemoves
<1>48. ASSUME NEW c \in Caller, Retry(c) PROVE [Promise!Next]_(Promise!vars)
  <2>1. UNCHANGED journal
    BY <1>48 DEF Retry, Becomes
  <2>2. Busy' => Busy
    BY <1>48 DEF Retry, Becomes, Busy
  <2> QED  BY <2>1, <2>2, QuietStep
<1>49. ASSUME NEW c \in Caller, Break(c) PROVE [Promise!Next]_(Promise!vars)
  <2>1. UNCHANGED journal
    BY <1>49 DEF Break, Becomes
  <2>2. Busy' => Busy
    BY <1>49 DEF Break, Becomes, Busy
  <2> QED  BY <2>1, <2>2, QuietStep
<1>50. ASSUME NEW c \in Caller, PreflightFails(c) PROVE [Promise!Next]_(Promise!vars)
  BY <1>50 DEF PreflightFails, Record
<1>51. ASSUME NEW p \in Proc, Cancel(p) PROVE [Promise!Next]_(Promise!vars)
  BY <1>51 DEF Cancel, Record
<1>52. ASSUME NEW p \in Proc, ControllerStops(p) PROVE [Promise!Next]_(Promise!vars)
  BY <1>52 DEF ControllerStops, Record
<1>53. ASSUME NEW p \in Proc, Crash(p) PROVE [Promise!Next]_(Promise!vars)
  BY <1>53 DEF Crash, Moves, Leave, AllOff
<1>54. ASSUME NEW p \in Proc, NEW c \in Commands, NEW t \in Task \cup {NoTask}, Begin(p, c, t) PROVE [Promise!Next]_(Promise!vars)
  BY <1>54 DEF Begin, Moves, FirstPlace
<1>55. ASSUME NEW c \in Caller, NEW r \in Reply, Return(c, r) PROVE [Promise!Next]_(Promise!vars)
  BY <1>55 DEF Return, Becomes
<1>56. CASE UNCHANGED vars
  BY <1>56 DEF vars
<1> HIDE DEF Base, TypeOK, HolderOK, OpOK, LifecycleAssumption, Place, MainPlaces, WorkPlaces, ApplyPlaces, BeforeLock, Caller, attempt, graph, process, Quiet, ThreadsOK, FenceOK, CompletedOK, RecoveredOK, ConfirmedOK, EnvOK, ChargeOK, NoEnvironment, Confirmed, Promise!Next, Promise!vars, Promise!Start, Promise!Quiesce, Promise!Complete, Promise!Fence, Promise!Confirm, AllOff, Reply, Ended, Stopped, MayDecide
<1> QED
  BY <1>1, <1>2, <1>3, <1>4, <1>5, <1>6, <1>7, <1>8, <1>9, <1>10, <1>11, <1>12, <1>13, <1>14, <1>15, <1>16, <1>17, <1>18, <1>19, <1>20, <1>21, <1>22, <1>23, <1>24, <1>25, <1>26, <1>27, <1>28, <1>29, <1>30, <1>31, <1>32, <1>33, <1>34, <1>35, <1>36, <1>37, <1>38, <1>39, <1>40, <1>41, <1>42, <1>43, <1>44, <1>45, <1>46, <1>47, <1>48, <1>49, <1>50, <1>51, <1>52, <1>53, <1>54, <1>55, <1>56 DEF Next, CommandStep, ExecuteStep, TaskStep, InvocationStep, Environment

(* The Run, as detailed here, implements RunOutcome: it is fenced once,      *)
(* completes once and only unfenced and idle, starts nothing behind either,  *)
(* and its confirmed cleanup stays true.                                     *)
THEOREM Refinement == Spec => PromiseKept
<1>1. Init => Promise!Init
  BY DEF Init, Promise!Init, Stopped
<1>2. IInv /\ [Next]_vars => [Promise!Next]_(Promise!vars)
  BY PromiseStep, LifecycleAssumption DEF IInv
<1> QED  BY Invariance, <1>1, <1>2, PTL DEF Spec, PromiseKept, Promise!Spec
=============================================================================
