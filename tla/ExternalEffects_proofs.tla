------------------------ MODULE ExternalEffects_proofs ----------------------
(* Theorems of ExternalEffects, for any Runs, tasks and overlapping grants.  *)

EXTENDS ExternalEffects, TLAPS

Working == {"acquired", "loop", "invoke", "running", "doubtful", "limited", "verify"}

(* What the journal says of an attempt whose thread stands there.            *)
AttemptOK ==
  \A u \in Unit :
    /\ thread[u] # "off" => controller[RunOf[u]] = "up"
    /\ thread[u] \in Working => last[u] # "accepted"
    /\ thread[u] = "accepted" => last[u] = "accepted"
    /\ thread[u] = "loop" => ~wrote[u]

(* An external session is launched by the first external attempt, and by     *)
(* nothing after it; its effect is unknown until its task is accepted.       *)
LaunchOK ==
  \A u \in Unit :
    /\ ~wrote[u] \/ thread[u] = "invoke" => launches[u] = 0
    /\ launches[u] = 0 => effect[u] = "none"
    /\ launches[u] <= 1
    /\ last[u] = "accepted" => effect[u] # "unknown"
    /\ effect[u] = "known" => last[u] = "accepted"
    /\ thread[u] = "verify" => last[u] = "completed"
    /\ wrote[u] /\ (thread[u] = "running" \/ last[u] = "completed") => effect[u] = "unknown"

(* Leases never conflict; who writes externally, or may have done so, holds  *)
(* one.                                                                      *)
LeaseOK ==
  /\ \A u, v \in leases : u # v => <<u, v>> \notin Overlaps
  /\ \A u \in Unit :
       /\ effect[u] = "unknown" => u \in leases
       /\ u \in external /\ thread[u] \in Working => u \in leases
       /\ wrote[u] => u \in external

(* A doubted unit's thread is over and its Run does not resume.              *)
DoubtOK ==
  \A u \in doubted :
    /\ RunOf[u] \in uncertain
    /\ last[u] # "accepted"
    /\ thread[u] \in {"off", "waiting", "ended", "error"}
    /\ thread[u] = "off" => controller[RunOf[u]] # "up"

IInv == TypeOK /\ AttemptOK /\ LaunchOK /\ LeaseOK /\ DoubtOK

(* Attempts stay within their limit, whatever ends them.                     *)
LEMMA TypeStep ==
  ASSUME EffectsAssumption, TypeOK, [Next]_vars PROVE TypeOK'
<1> USE DEF EffectsAssumption, Ended, runVars, grantVars, attemptVars, history, TypeOK, ThreadState, Last
<1>1. ASSUME NEW r \in Run, Resume(r) PROVE TypeOK'
  BY <1>1 DEF Resume, Units
<1>2. ASSUME NEW r \in Run, Exit(r) PROVE TypeOK'
  BY <1>2 DEF Exit, Units
<1>3. ASSUME NEW r \in Run, Crash(r) PROVE TypeOK'
  BY <1>3 DEF Crash
<1>4. ASSUME NEW r \in Run, Stop(r) PROVE TypeOK'
  BY <1>4 DEF Stop
<1>5. ASSUME NEW u \in Unit, ApproveLease(u) PROVE TypeOK'
  BY <1>5 DEF ApproveLease, Free, MayDecide
<1>6. ASSUME NEW u \in Unit, ApproveApply(u) PROVE TypeOK'
  BY <1>6 DEF ApproveApply, MayDecide
<1>7. ASSUME NEW u \in Unit, Acquire(u) PROVE TypeOK'
  BY <1>7 DEF Acquire, Becomes, Free
<1>8. ASSUME NEW u \in Unit, Examine(u) PROVE TypeOK'
  BY <1>8 DEF Examine, Becomes, Doubt
<1>9. ASSUME NEW u \in Unit, StartAttempt(u) PROVE TypeOK'
  <2>1. CASE tries[u] < TaskAttempts
    <3>1. tries' = [tries EXCEPT ![u] = tries[u] + 1]
      BY <2>1, <1>9 DEF StartAttempt
    <3>2. tries[u] + 1 \in 0..TaskAttempts
      BY <2>1
    <3>3. tries' \in [Unit -> 0..TaskAttempts]
      BY <3>1, <3>2
    <3>4. /\ wrote' = [wrote EXCEPT ![u] = (u \in external)]
          /\ last' = [last EXCEPT ![u] = "started"]
          /\ thread' = [thread EXCEPT ![u] = "invoke"]
          /\ UNCHANGED <<runVars, grantVars, history>>
      BY <2>1, <1>9 DEF StartAttempt, Becomes
    <3>5. wrote' \in [Unit -> BOOLEAN]
      BY <3>4
    <3> QED  BY <3>3, <3>4, <3>5
  <2>2. CASE ~(tries[u] < TaskAttempts)
    BY <2>2, <1>9 DEF StartAttempt, Becomes
  <2> QED  BY <2>1, <2>2
<1>10. ASSUME NEW u \in Unit, Launch(u) PROVE TypeOK'
  BY <1>10 DEF Launch, Becomes, MayDecide
<1>11. ASSUME NEW u \in Unit, TransportFails(u) PROVE TypeOK'
  BY <1>11 DEF TransportFails, Becomes, MayDecide, Unusable, Doubt
<1>12. ASSUME NEW u \in Unit, AdapterFails(u) PROVE TypeOK'
  BY <1>12 DEF AdapterFails, Becomes, Unusable, Doubt
<1>13. ASSUME NEW u \in Unit, EnvironmentFails(u) PROVE TypeOK'
  BY <1>13 DEF EnvironmentFails, Becomes
<1>14. ASSUME NEW u \in Unit, StopAttempt(u) PROVE TypeOK'
  BY <1>14 DEF StopAttempt, Becomes, MayDecide, Unusable, Doubt
<1>15. ASSUME NEW u \in Unit, StopThread(u) PROVE TypeOK'
  BY <1>15 DEF StopThread, Becomes, MayDecide
<1>16. ASSUME NEW u \in Unit, WorkerCompletes(u) PROVE TypeOK'
  BY <1>16 DEF WorkerCompletes, Becomes, MayDecide
<1>17. ASSUME NEW u \in Unit, WorkerFails(u) PROVE TypeOK'
  BY <1>17 DEF WorkerFails, Becomes, MayDecide
<1>18. ASSUME NEW u \in Unit, WorkerDoubts(u) PROVE TypeOK'
  BY <1>18 DEF WorkerDoubts, Becomes, MayDecide
<1>19. ASSUME NEW u \in Unit, RecordDoubt(u) PROVE TypeOK'
  BY <1>19 DEF RecordDoubt, Becomes, Doubt
<1>20. ASSUME NEW u \in Unit, WorkerLimited(u) PROVE TypeOK'
  BY <1>20 DEF WorkerLimited, Becomes
<1>21. ASSUME NEW u \in Unit, AfterLimit(u) PROVE TypeOK'
  BY <1>21 DEF AfterLimit, Becomes, Unusable, Doubt
<1>22. ASSUME NEW u \in Unit, WorkerRequests(u) PROVE TypeOK'
  BY <1>22 DEF WorkerRequests, Becomes, MayDecide
<1>23. ASSUME NEW u \in Unit, Verified(u) PROVE TypeOK'
  BY <1>23 DEF Verified, Becomes, MayDecide
<1>24. ASSUME NEW u \in Unit, Rejected(u) PROVE TypeOK'
  BY <1>24 DEF Rejected, Becomes, Doubt, MayDecide
<1>25. ASSUME NEW u \in Unit, VerificationUnavailable(u) PROVE TypeOK'
  BY <1>25 DEF VerificationUnavailable, Becomes
<1>26. ASSUME NEW u \in Unit, Release(u) PROVE TypeOK'
  BY <1>26 DEF Release, Becomes
<1>27. CASE UNCHANGED vars
  BY <1>27 DEF vars
<1> HIDE DEF EffectsAssumption, Ended, runVars, grantVars, attemptVars, history, TypeOK, ThreadState, Last
<1> QED
  BY <1>1, <1>2, <1>3, <1>4, <1>5, <1>6, <1>7, <1>8, <1>9, <1>10, <1>11, <1>12, <1>13, <1>14, <1>15, <1>16, <1>17, <1>18, <1>19, <1>20, <1>21, <1>22, <1>23, <1>24, <1>25, <1>26, <1>27 DEF Next, UnitStep

(* A thread and the journal's record of its attempt stay in step.            *)
LEMMA AttemptStep ==
  ASSUME EffectsAssumption, TypeOK, AttemptOK, [Next]_vars PROVE AttemptOK'
<1> USE DEF EffectsAssumption, Ended, runVars, grantVars, attemptVars, history, TypeOK, AttemptOK, Working
<1>1. ASSUME NEW r \in Run, Resume(r) PROVE AttemptOK'
  BY <1>1 DEF Resume, Units
<1>2. ASSUME NEW r \in Run, Exit(r) PROVE AttemptOK'
  BY <1>2 DEF Exit, Units
<1>3. ASSUME NEW r \in Run, Crash(r) PROVE AttemptOK'
  BY <1>3 DEF Crash
<1>4. ASSUME NEW r \in Run, Stop(r) PROVE AttemptOK'
  BY <1>4 DEF Stop
<1>5. ASSUME NEW u \in Unit, ApproveLease(u) PROVE AttemptOK'
  BY <1>5 DEF ApproveLease, Free, MayDecide
<1>6. ASSUME NEW u \in Unit, ApproveApply(u) PROVE AttemptOK'
  BY <1>6 DEF ApproveApply, MayDecide
<1>7. ASSUME NEW u \in Unit, Acquire(u) PROVE AttemptOK'
  BY <1>7 DEF Acquire, Becomes, Free
<1>8. ASSUME NEW u \in Unit, Examine(u) PROVE AttemptOK'
  BY <1>8 DEF Examine, Becomes, Doubt
<1>9. ASSUME NEW u \in Unit, StartAttempt(u) PROVE AttemptOK'
  BY <1>9 DEF StartAttempt, Becomes, MayDecide
<1>10. ASSUME NEW u \in Unit, Launch(u) PROVE AttemptOK'
  BY <1>10 DEF Launch, Becomes, MayDecide
<1>11. ASSUME NEW u \in Unit, TransportFails(u) PROVE AttemptOK'
  BY <1>11 DEF TransportFails, Becomes, MayDecide, Unusable, Doubt
<1>12. ASSUME NEW u \in Unit, AdapterFails(u) PROVE AttemptOK'
  BY <1>12 DEF AdapterFails, Becomes, Unusable, Doubt
<1>13. ASSUME NEW u \in Unit, EnvironmentFails(u) PROVE AttemptOK'
  BY <1>13 DEF EnvironmentFails, Becomes
<1>14. ASSUME NEW u \in Unit, StopAttempt(u) PROVE AttemptOK'
  BY <1>14 DEF StopAttempt, Becomes, MayDecide, Unusable, Doubt
<1>15. ASSUME NEW u \in Unit, StopThread(u) PROVE AttemptOK'
  BY <1>15 DEF StopThread, Becomes, MayDecide
<1>16. ASSUME NEW u \in Unit, WorkerCompletes(u) PROVE AttemptOK'
  BY <1>16 DEF WorkerCompletes, Becomes, MayDecide
<1>17. ASSUME NEW u \in Unit, WorkerFails(u) PROVE AttemptOK'
  BY <1>17 DEF WorkerFails, Becomes, MayDecide
<1>18. ASSUME NEW u \in Unit, WorkerDoubts(u) PROVE AttemptOK'
  BY <1>18 DEF WorkerDoubts, Becomes, MayDecide
<1>19. ASSUME NEW u \in Unit, RecordDoubt(u) PROVE AttemptOK'
  BY <1>19 DEF RecordDoubt, Becomes, Doubt
<1>20. ASSUME NEW u \in Unit, WorkerLimited(u) PROVE AttemptOK'
  BY <1>20 DEF WorkerLimited, Becomes
<1>21. ASSUME NEW u \in Unit, AfterLimit(u) PROVE AttemptOK'
  BY <1>21 DEF AfterLimit, Becomes, Unusable, Doubt
<1>22. ASSUME NEW u \in Unit, WorkerRequests(u) PROVE AttemptOK'
  BY <1>22 DEF WorkerRequests, Becomes, MayDecide
<1>23. ASSUME NEW u \in Unit, Verified(u) PROVE AttemptOK'
  BY <1>23 DEF Verified, Becomes, MayDecide
<1>24. ASSUME NEW u \in Unit, Rejected(u) PROVE AttemptOK'
  BY <1>24 DEF Rejected, Becomes, Doubt, MayDecide
<1>25. ASSUME NEW u \in Unit, VerificationUnavailable(u) PROVE AttemptOK'
  BY <1>25 DEF VerificationUnavailable, Becomes
<1>26. ASSUME NEW u \in Unit, Release(u) PROVE AttemptOK'
  BY <1>26 DEF Release, Becomes
<1>27. CASE UNCHANGED vars
  BY <1>27 DEF vars
<1> HIDE DEF EffectsAssumption, Ended, runVars, grantVars, attemptVars, history, TypeOK, AttemptOK, Working
<1> QED
  BY <1>1, <1>2, <1>3, <1>4, <1>5, <1>6, <1>7, <1>8, <1>9, <1>10, <1>11, <1>12, <1>13, <1>14, <1>15, <1>16, <1>17, <1>18, <1>19, <1>20, <1>21, <1>22, <1>23, <1>24, <1>25, <1>26, <1>27 DEF Next, UnitStep

(* No step relaunches what was launched with external authority.             *)
LEMMA LaunchStep ==
  ASSUME EffectsAssumption, TypeOK, AttemptOK, LaunchOK, [Next]_vars PROVE LaunchOK'
<1> USE DEF EffectsAssumption, Ended, runVars, grantVars, attemptVars, history, TypeOK, AttemptOK, LaunchOK, Working
<1>1. ASSUME NEW r \in Run, Resume(r) PROVE LaunchOK'
  BY <1>1 DEF Resume, Units
<1>2. ASSUME NEW r \in Run, Exit(r) PROVE LaunchOK'
  BY <1>2 DEF Exit, Units
<1>3. ASSUME NEW r \in Run, Crash(r) PROVE LaunchOK'
  BY <1>3 DEF Crash
<1>4. ASSUME NEW r \in Run, Stop(r) PROVE LaunchOK'
  BY <1>4 DEF Stop
<1>5. ASSUME NEW u \in Unit, ApproveLease(u) PROVE LaunchOK'
  BY <1>5 DEF ApproveLease, Free, MayDecide
<1>6. ASSUME NEW u \in Unit, ApproveApply(u) PROVE LaunchOK'
  BY <1>6 DEF ApproveApply, MayDecide
<1>7. ASSUME NEW u \in Unit, Acquire(u) PROVE LaunchOK'
  BY <1>7 DEF Acquire, Becomes, Free
<1>8. ASSUME NEW u \in Unit, Examine(u) PROVE LaunchOK'
  BY <1>8 DEF Examine, Becomes, Doubt
<1>9. ASSUME NEW u \in Unit, StartAttempt(u) PROVE LaunchOK'
  BY <1>9 DEF StartAttempt, Becomes, MayDecide
<1>10. ASSUME NEW u \in Unit, Launch(u) PROVE LaunchOK'
  BY <1>10 DEF Launch, Becomes, MayDecide
<1>11. ASSUME NEW u \in Unit, TransportFails(u) PROVE LaunchOK'
  BY <1>11 DEF TransportFails, Becomes, MayDecide, Unusable, Doubt
<1>12. ASSUME NEW u \in Unit, AdapterFails(u) PROVE LaunchOK'
  BY <1>12 DEF AdapterFails, Becomes, Unusable, Doubt
<1>13. ASSUME NEW u \in Unit, EnvironmentFails(u) PROVE LaunchOK'
  BY <1>13 DEF EnvironmentFails, Becomes
<1>14. ASSUME NEW u \in Unit, StopAttempt(u) PROVE LaunchOK'
  BY <1>14 DEF StopAttempt, Becomes, MayDecide, Unusable, Doubt
<1>15. ASSUME NEW u \in Unit, StopThread(u) PROVE LaunchOK'
  BY <1>15 DEF StopThread, Becomes, MayDecide
<1>16. ASSUME NEW u \in Unit, WorkerCompletes(u) PROVE LaunchOK'
  BY <1>16 DEF WorkerCompletes, Becomes, MayDecide
<1>17. ASSUME NEW u \in Unit, WorkerFails(u) PROVE LaunchOK'
  BY <1>17 DEF WorkerFails, Becomes, MayDecide
<1>18. ASSUME NEW u \in Unit, WorkerDoubts(u) PROVE LaunchOK'
  BY <1>18 DEF WorkerDoubts, Becomes, MayDecide
<1>19. ASSUME NEW u \in Unit, RecordDoubt(u) PROVE LaunchOK'
  BY <1>19 DEF RecordDoubt, Becomes, Doubt
<1>20. ASSUME NEW u \in Unit, WorkerLimited(u) PROVE LaunchOK'
  BY <1>20 DEF WorkerLimited, Becomes
<1>21. ASSUME NEW u \in Unit, AfterLimit(u) PROVE LaunchOK'
  BY <1>21 DEF AfterLimit, Becomes, Unusable, Doubt
<1>22. ASSUME NEW u \in Unit, WorkerRequests(u) PROVE LaunchOK'
  BY <1>22 DEF WorkerRequests, Becomes, MayDecide
<1>23. ASSUME NEW u \in Unit, Verified(u) PROVE LaunchOK'
  BY <1>23 DEF Verified, Becomes, MayDecide
<1>24. ASSUME NEW u \in Unit, Rejected(u) PROVE LaunchOK'
  BY <1>24 DEF Rejected, Becomes, Doubt, MayDecide
<1>25. ASSUME NEW u \in Unit, VerificationUnavailable(u) PROVE LaunchOK'
  BY <1>25 DEF VerificationUnavailable, Becomes
<1>26. ASSUME NEW u \in Unit, Release(u) PROVE LaunchOK'
  BY <1>26 DEF Release, Becomes
<1>27. CASE UNCHANGED vars
  BY <1>27 DEF vars
<1> HIDE DEF EffectsAssumption, Ended, runVars, grantVars, attemptVars, history, TypeOK, AttemptOK, LaunchOK, Working
<1> QED
  BY <1>1, <1>2, <1>3, <1>4, <1>5, <1>6, <1>7, <1>8, <1>9, <1>10, <1>11, <1>12, <1>13, <1>14, <1>15, <1>16, <1>17, <1>18, <1>19, <1>20, <1>21, <1>22, <1>23, <1>24, <1>25, <1>26, <1>27 DEF Next, UnitStep

(* No step gives up, or takes beside another, a lease an effect still needs. *)
LEMMA LeaseStep ==
  ASSUME EffectsAssumption, TypeOK, AttemptOK, LaunchOK, LeaseOK, [Next]_vars PROVE LeaseOK'
<1> USE DEF EffectsAssumption, Ended, runVars, grantVars, attemptVars, history, TypeOK, AttemptOK, LaunchOK, LeaseOK, Working
<1>1. ASSUME NEW r \in Run, Resume(r) PROVE LeaseOK'
  BY <1>1 DEF Resume, Units
<1>2. ASSUME NEW r \in Run, Exit(r) PROVE LeaseOK'
  BY <1>2 DEF Exit, Units
<1>3. ASSUME NEW r \in Run, Crash(r) PROVE LeaseOK'
  BY <1>3 DEF Crash
<1>4. ASSUME NEW r \in Run, Stop(r) PROVE LeaseOK'
  BY <1>4 DEF Stop
<1>5. ASSUME NEW u \in Unit, ApproveLease(u) PROVE LeaseOK'
  BY <1>5 DEF ApproveLease, Free, MayDecide
<1>6. ASSUME NEW u \in Unit, ApproveApply(u) PROVE LeaseOK'
  BY <1>6 DEF ApproveApply, MayDecide
<1>7. ASSUME NEW u \in Unit, Acquire(u) PROVE LeaseOK'
  <2>1. \/ leases' = leases
        \/ leases' = leases \cup {u} /\ Free(u)
    BY <1>7 DEF Acquire
  <2>2. ASSUME NEW v \in leases', NEW w \in leases', v # w
        PROVE  <<v, w>> \notin Overlaps
    <3>1. v \in Unit /\ w \in Unit
      BY <2>1
    <3>2. CASE v \in leases /\ w \in leases
      BY <2>2, <3>2
    <3>3. CASE v = u /\ w \in leases /\ Free(u)
      BY <2>2, <3>3 DEF Free
    <3>4. CASE w = u /\ v \in leases /\ Free(u)
      BY <2>2, <3>1, <3>4 DEF Free
    <3> QED  BY <2>1, <2>2, <3>2, <3>3, <3>4
  <2>3. \A v \in Unit :
          /\ v \in external /\ thread'[v] \in Working => v \in leases'
          /\ effect[v] = "unknown" => v \in leases'
    BY <1>7 DEF Acquire, Becomes
  <2> QED  BY <2>2, <2>3, <1>7 DEF Acquire
<1>8. ASSUME NEW u \in Unit, Examine(u) PROVE LeaseOK'
  BY <1>8 DEF Examine, Becomes, Doubt
<1>9. ASSUME NEW u \in Unit, StartAttempt(u) PROVE LeaseOK'
  BY <1>9 DEF StartAttempt, Becomes, MayDecide
<1>10. ASSUME NEW u \in Unit, Launch(u) PROVE LeaseOK'
  BY <1>10 DEF Launch, Becomes, MayDecide
<1>11. ASSUME NEW u \in Unit, TransportFails(u) PROVE LeaseOK'
  BY <1>11 DEF TransportFails, Becomes, MayDecide, Unusable, Doubt
<1>12. ASSUME NEW u \in Unit, AdapterFails(u) PROVE LeaseOK'
  BY <1>12 DEF AdapterFails, Becomes, Unusable, Doubt
<1>13. ASSUME NEW u \in Unit, EnvironmentFails(u) PROVE LeaseOK'
  BY <1>13 DEF EnvironmentFails, Becomes
<1>14. ASSUME NEW u \in Unit, StopAttempt(u) PROVE LeaseOK'
  BY <1>14 DEF StopAttempt, Becomes, MayDecide, Unusable, Doubt
<1>15. ASSUME NEW u \in Unit, StopThread(u) PROVE LeaseOK'
  BY <1>15 DEF StopThread, Becomes, MayDecide
<1>16. ASSUME NEW u \in Unit, WorkerCompletes(u) PROVE LeaseOK'
  BY <1>16 DEF WorkerCompletes, Becomes, MayDecide
<1>17. ASSUME NEW u \in Unit, WorkerFails(u) PROVE LeaseOK'
  BY <1>17 DEF WorkerFails, Becomes, MayDecide
<1>18. ASSUME NEW u \in Unit, WorkerDoubts(u) PROVE LeaseOK'
  BY <1>18 DEF WorkerDoubts, Becomes, MayDecide
<1>19. ASSUME NEW u \in Unit, RecordDoubt(u) PROVE LeaseOK'
  BY <1>19 DEF RecordDoubt, Becomes, Doubt
<1>20. ASSUME NEW u \in Unit, WorkerLimited(u) PROVE LeaseOK'
  BY <1>20 DEF WorkerLimited, Becomes
<1>21. ASSUME NEW u \in Unit, AfterLimit(u) PROVE LeaseOK'
  BY <1>21 DEF AfterLimit, Becomes, Unusable, Doubt
<1>22. ASSUME NEW u \in Unit, WorkerRequests(u) PROVE LeaseOK'
  BY <1>22 DEF WorkerRequests, Becomes, MayDecide
<1>23. ASSUME NEW u \in Unit, Verified(u) PROVE LeaseOK'
  BY <1>23 DEF Verified, Becomes, MayDecide
<1>24. ASSUME NEW u \in Unit, Rejected(u) PROVE LeaseOK'
  BY <1>24 DEF Rejected, Becomes, Doubt, MayDecide
<1>25. ASSUME NEW u \in Unit, VerificationUnavailable(u) PROVE LeaseOK'
  BY <1>25 DEF VerificationUnavailable, Becomes
<1>26. ASSUME NEW u \in Unit, Release(u) PROVE LeaseOK'
  BY <1>26 DEF Release, Becomes
<1>27. CASE UNCHANGED vars
  BY <1>27 DEF vars
<1> HIDE DEF EffectsAssumption, Ended, runVars, grantVars, attemptVars, history, TypeOK, AttemptOK, LaunchOK, LeaseOK, Working
<1> QED
  BY <1>1, <1>2, <1>3, <1>4, <1>5, <1>6, <1>7, <1>8, <1>9, <1>10, <1>11, <1>12, <1>13, <1>14, <1>15, <1>16, <1>17, <1>18, <1>19, <1>20, <1>21, <1>22, <1>23, <1>24, <1>25, <1>26, <1>27 DEF Next, UnitStep

(* Behind a doubt neither its thread nor its Run goes on.                    *)
LEMMA DoubtStep ==
  ASSUME EffectsAssumption, TypeOK, AttemptOK, DoubtOK, [Next]_vars PROVE DoubtOK'
<1> USE DEF EffectsAssumption, Ended, runVars, grantVars, attemptVars, history, TypeOK, AttemptOK, DoubtOK, Working
<1>1. ASSUME NEW r \in Run, Resume(r) PROVE DoubtOK'
  BY <1>1 DEF Resume, Units
<1>2. ASSUME NEW r \in Run, Exit(r) PROVE DoubtOK'
  BY <1>2 DEF Exit, Units
<1>3. ASSUME NEW r \in Run, Crash(r) PROVE DoubtOK'
  BY <1>3 DEF Crash
<1>4. ASSUME NEW r \in Run, Stop(r) PROVE DoubtOK'
  BY <1>4 DEF Stop
<1>5. ASSUME NEW u \in Unit, ApproveLease(u) PROVE DoubtOK'
  BY <1>5 DEF ApproveLease, Free, MayDecide
<1>6. ASSUME NEW u \in Unit, ApproveApply(u) PROVE DoubtOK'
  BY <1>6 DEF ApproveApply, MayDecide
<1>7. ASSUME NEW u \in Unit, Acquire(u) PROVE DoubtOK'
  BY <1>7 DEF Acquire, Becomes, Free
<1>8. ASSUME NEW u \in Unit, Examine(u) PROVE DoubtOK'
  BY <1>8 DEF Examine, Becomes, Doubt
<1>9. ASSUME NEW u \in Unit, StartAttempt(u) PROVE DoubtOK'
  BY <1>9 DEF StartAttempt, Becomes, MayDecide
<1>10. ASSUME NEW u \in Unit, Launch(u) PROVE DoubtOK'
  BY <1>10 DEF Launch, Becomes, MayDecide
<1>11. ASSUME NEW u \in Unit, TransportFails(u) PROVE DoubtOK'
  BY <1>11 DEF TransportFails, Becomes, MayDecide, Unusable, Doubt
<1>12. ASSUME NEW u \in Unit, AdapterFails(u) PROVE DoubtOK'
  BY <1>12 DEF AdapterFails, Becomes, Unusable, Doubt
<1>13. ASSUME NEW u \in Unit, EnvironmentFails(u) PROVE DoubtOK'
  BY <1>13 DEF EnvironmentFails, Becomes
<1>14. ASSUME NEW u \in Unit, StopAttempt(u) PROVE DoubtOK'
  BY <1>14 DEF StopAttempt, Becomes, MayDecide, Unusable, Doubt
<1>15. ASSUME NEW u \in Unit, StopThread(u) PROVE DoubtOK'
  BY <1>15 DEF StopThread, Becomes, MayDecide
<1>16. ASSUME NEW u \in Unit, WorkerCompletes(u) PROVE DoubtOK'
  BY <1>16 DEF WorkerCompletes, Becomes, MayDecide
<1>17. ASSUME NEW u \in Unit, WorkerFails(u) PROVE DoubtOK'
  BY <1>17 DEF WorkerFails, Becomes, MayDecide
<1>18. ASSUME NEW u \in Unit, WorkerDoubts(u) PROVE DoubtOK'
  BY <1>18 DEF WorkerDoubts, Becomes, MayDecide
<1>19. ASSUME NEW u \in Unit, RecordDoubt(u) PROVE DoubtOK'
  BY <1>19 DEF RecordDoubt, Becomes, Doubt
<1>20. ASSUME NEW u \in Unit, WorkerLimited(u) PROVE DoubtOK'
  BY <1>20 DEF WorkerLimited, Becomes
<1>21. ASSUME NEW u \in Unit, AfterLimit(u) PROVE DoubtOK'
  BY <1>21 DEF AfterLimit, Becomes, Unusable, Doubt
<1>22. ASSUME NEW u \in Unit, WorkerRequests(u) PROVE DoubtOK'
  BY <1>22 DEF WorkerRequests, Becomes, MayDecide
<1>23. ASSUME NEW u \in Unit, Verified(u) PROVE DoubtOK'
  BY <1>23 DEF Verified, Becomes, MayDecide
<1>24. ASSUME NEW u \in Unit, Rejected(u) PROVE DoubtOK'
  BY <1>24 DEF Rejected, Becomes, Doubt, MayDecide
<1>25. ASSUME NEW u \in Unit, VerificationUnavailable(u) PROVE DoubtOK'
  BY <1>25 DEF VerificationUnavailable, Becomes
<1>26. ASSUME NEW u \in Unit, Release(u) PROVE DoubtOK'
  BY <1>26 DEF Release, Becomes
<1>27. CASE UNCHANGED vars
  BY <1>27 DEF vars
<1> HIDE DEF EffectsAssumption, Ended, runVars, grantVars, attemptVars, history, TypeOK, AttemptOK, DoubtOK, Working
<1> QED
  BY <1>1, <1>2, <1>3, <1>4, <1>5, <1>6, <1>7, <1>8, <1>9, <1>10, <1>11, <1>12, <1>13, <1>14, <1>15, <1>16, <1>17, <1>18, <1>19, <1>20, <1>21, <1>22, <1>23, <1>24, <1>25, <1>26, <1>27 DEF Next, UnitStep

(* The invariant holds of every behaviour.                                   *)
THEOREM Invariance == Spec => []IInv
<1>1. Init => IInv
  BY EffectsAssumption DEF Init, IInv, TypeOK, AttemptOK, LaunchOK, LeaseOK, DoubtOK,
    EffectsAssumption, ThreadState, Last, Working
<1>2. IInv /\ [Next]_vars => IInv'
  BY EffectsAssumption, TypeStep, AttemptStep, LaunchStep, LeaseStep, DoubtStep DEF IInv
<1> QED  BY <1>1, <1>2, PTL DEF Spec

(* Attempts, grants and recorded results are what TypeOK says, at any size.  *)
THEOREM TypeCorrect == Spec => []TypeOK
<1>1. IInv => TypeOK
  BY DEF IInv
<1> QED  BY Invariance, <1>1, PTL

(* No retry, restart or approval starts the external session of a task a     *)
(* second time (_execute_task, _transport_retry).                            *)
THEOREM LaunchedAtMostOnce == Spec => []AtMostOneExternalLaunch
<1>1. IInv => AtMostOneExternalLaunch
  BY DEF IInv, LaunchOK, AtMostOneExternalLaunch
<1> QED  BY Invariance, <1>1, PTL

(* Beside an effect nobody knows, no session with an overlapping grant runs, *)
(* in whichever Run (acquire_resources, release_resources).                  *)
THEOREM ConflictsExcluded == Spec => []NoConflictingSession
<1>1. IInv => NoConflictingSession
  <2> SUFFICES ASSUME IInv, NEW u \in Unit, NEW v \in Unit, u # v,
                      <<u, v>> \in Overlaps, effect[u] = "unknown", thread[v] = "running"
               PROVE  ~wrote[v]
    BY DEF NoConflictingSession
  <2>1. u \in leases /\ (wrote[v] => v \in leases)
    BY DEF IInv, LeaseOK, Working
  <2> QED  BY <2>1 DEF IInv, LeaseOK
<1> QED  BY Invariance, <1>1, PTL

(* What was doubted is never accepted.                                       *)
THEOREM DoubtStays == Spec => []DoubtIsNeverAccepted
<1>1. IInv => DoubtIsNeverAccepted
  BY DEF IInv, DoubtOK, DoubtIsNeverAccepted
<1> QED  BY Invariance, <1>1, PTL

(* A step that neither doubts nor accepts, nor begins an operation, is       *)
(* nothing to the owner of the external systems.                             *)
LEMMA Unnoticed ==
  ASSUME UNCHANGED <<doubted, effect>>,
         \A u \in Unit : last'[u] = "accepted" <=> last[u] = "accepted"
  PROVE  [Operation!Next]_(Operation!vars)
<1>1. UNCHANGED Verdict
  BY DEF Verdict
<1> QED  BY <1>1 DEF Operation!vars

(* A thread at work records its doubt about a task nobody has decided on.    *)
LEMMA FirstDoubt ==
  ASSUME AttemptOK, DoubtOK, NEW u \in Unit, thread[u] \in Working, Doubt(u),
         UNCHANGED <<last, effect>>
  PROVE  [Operation!Next]_(Operation!vars)
<1>1. u \notin doubted /\ last[u] # "accepted"
  BY DEF AttemptOK, DoubtOK, Working
<1>2. Verdict[u] = "open" /\ Verdict' = [Verdict EXCEPT ![u] = "doubted"]
  BY <1>1 DEF Doubt, Verdict
<1>3. Operation!Doubt(u)
  BY <1>2 DEF Operation!Doubt
<1> QED  BY <1>3 DEF Operation!Next

(* A thread whose invocation gave no usable answer doubts an external one.   *)
LEMMA UnusableNoticed ==
  ASSUME AttemptOK, DoubtOK, NEW u \in Unit, thread[u] \in Working, Unusable(u)
  PROVE  [Operation!Next]_(Operation!vars)
<1>1. UNCHANGED <<last, effect>>
  BY DEF Unusable, attemptVars, history
<1>2. CASE Doubt(u)
  BY <1>1, <1>2, FirstDoubt
<1>3. CASE UNCHANGED doubted
  BY <1>1, <1>3, Unnoticed
<1> QED  BY <1>2, <1>3 DEF Unusable

(* Every step of the Runs is a step of the contract, or nothing to it.       *)
LEMMA OperationStep ==
  ASSUME EffectsAssumption, IInv, [Next]_vars PROVE [Operation!Next]_(Operation!vars)
<1> USE DEF IInv
<1>1. ASSUME NEW r \in Run, Resume(r) \/ Exit(r) \/ Crash(r) \/ Stop(r)
      PROVE  [Operation!Next]_(Operation!vars)
  BY <1>1, Unnoticed DEF Resume, Exit, Crash, Stop, attemptVars, history
<1>2. ASSUME NEW u \in Unit, ApproveLease(u) PROVE  [Operation!Next]_(Operation!vars)
  BY <1>2, Unnoticed DEF ApproveLease, runVars, attemptVars, history
<1>3. ASSUME NEW u \in Unit, ApproveApply(u) PROVE  [Operation!Next]_(Operation!vars)
  BY <1>3, Unnoticed DEF ApproveApply, runVars, attemptVars, history
<1>4. ASSUME NEW u \in Unit, Acquire(u) PROVE  [Operation!Next]_(Operation!vars)
  BY <1>4, Unnoticed DEF Acquire, runVars, attemptVars, history
<1>5. ASSUME NEW u \in Unit, Examine(u) PROVE  [Operation!Next]_(Operation!vars)
  <2>1. CASE Doubt(u)
    BY <2>1, <1>5, FirstDoubt DEF Examine, Working, attemptVars, history
  <2>2. CASE UNCHANGED doubted
    BY <2>2, <1>5, Unnoticed DEF Examine, attemptVars, history
  <2> QED  BY <2>1, <2>2, <1>5 DEF Examine
<1>6. ASSUME NEW u \in Unit, StartAttempt(u) PROVE  [Operation!Next]_(Operation!vars)
  <2>1. \A v \in Unit : last'[v] = "accepted" <=> last[v] = "accepted"
    BY <1>6 DEF StartAttempt, AttemptOK, Working, TypeOK, attemptVars
  <2> QED  BY <2>1, <1>6, Unnoticed DEF StartAttempt, runVars, history
<1>7. ASSUME NEW u \in Unit, Launch(u) PROVE  [Operation!Next]_(Operation!vars)
  <2>1. CASE ~wrote[u]
    BY <2>1, <1>7, Unnoticed DEF Launch, runVars, attemptVars, history
  <2>2. CASE wrote[u]
    <3>1. /\ effect' = [effect EXCEPT ![u] = "unknown"]
          /\ UNCHANGED <<doubted, last>>
          /\ thread[u] = "invoke"
      BY <2>2, <1>7 DEF Launch, runVars, attemptVars
    <3>2. effect[u] = "none"
      BY <3>1 DEF LaunchOK
    <3>3. Verdict[u] = "open"
      BY <3>1 DEF AttemptOK, DoubtOK, Working, Verdict
    <3>4. u \in leases
      BY <2>2, <3>1 DEF LeaseOK, Working
    <3>5. \A v \in Operation!Unsettled : <<u, v>> \notin Overlaps
      <4> SUFFICES ASSUME NEW v \in Unit, effect[v] = "unknown" PROVE <<u, v>> \notin Overlaps
        BY DEF Operation!Unsettled
      <4>1. v \in leases /\ u # v
        BY <3>2 DEF LeaseOK
      <4> QED  BY <4>1, <3>4 DEF LeaseOK
    <3>6. UNCHANGED Verdict
      BY <3>1 DEF Verdict
    <3>7. Operation!Begin(u)
      BY <3>1, <3>2, <3>3, <3>5, <3>6 DEF Operation!Begin
    <3> QED  BY <3>7 DEF Operation!Next
  <2> QED  BY <2>1, <2>2
<1>8. ASSUME NEW u \in Unit, TransportFails(u) PROVE  [Operation!Next]_(Operation!vars)
  BY <1>8, UnusableNoticed DEF TransportFails, Working
<1>9. ASSUME NEW u \in Unit, AdapterFails(u) PROVE  [Operation!Next]_(Operation!vars)
  BY <1>9, UnusableNoticed DEF AdapterFails, Working
<1>10. ASSUME NEW u \in Unit, EnvironmentFails(u) PROVE  [Operation!Next]_(Operation!vars)
  BY <1>10, Unnoticed DEF EnvironmentFails, runVars, attemptVars, history
<1>11. ASSUME NEW u \in Unit, StopAttempt(u) PROVE  [Operation!Next]_(Operation!vars)
  BY <1>11, UnusableNoticed DEF StopAttempt, Working
<1>12. ASSUME NEW u \in Unit, StopThread(u) PROVE  [Operation!Next]_(Operation!vars)
  BY <1>12, Unnoticed DEF StopThread, runVars, attemptVars, history
<1>13. ASSUME NEW u \in Unit, WorkerCompletes(u) PROVE  [Operation!Next]_(Operation!vars)
  <2>1. \A v \in Unit : last'[v] = "accepted" <=> last[v] = "accepted"
    BY <1>13 DEF WorkerCompletes, AttemptOK, Working, TypeOK, attemptVars
  <2> QED  BY <2>1, <1>13, Unnoticed DEF WorkerCompletes, runVars, history
<1>14. ASSUME NEW u \in Unit, WorkerFails(u) PROVE  [Operation!Next]_(Operation!vars)
  <2>1. \A v \in Unit : last'[v] = "accepted" <=> last[v] = "accepted"
    BY <1>14 DEF WorkerFails, AttemptOK, Working, TypeOK, attemptVars
  <2> QED  BY <2>1, <1>14, Unnoticed DEF WorkerFails, runVars, history
<1>15. ASSUME NEW u \in Unit, WorkerDoubts(u) PROVE  [Operation!Next]_(Operation!vars)
  <2>1. \A v \in Unit : last'[v] = "accepted" <=> last[v] = "accepted"
    BY <1>15 DEF WorkerDoubts, AttemptOK, Working, TypeOK, attemptVars
  <2> QED  BY <2>1, <1>15, Unnoticed DEF WorkerDoubts, runVars, history
<1>16. ASSUME NEW u \in Unit, RecordDoubt(u) PROVE  [Operation!Next]_(Operation!vars)
  BY <1>16, FirstDoubt DEF RecordDoubt, Working, attemptVars, history
<1>17. ASSUME NEW u \in Unit, WorkerLimited(u) PROVE  [Operation!Next]_(Operation!vars)
  BY <1>17, Unnoticed DEF WorkerLimited, runVars, attemptVars, history
<1>18. ASSUME NEW u \in Unit, AfterLimit(u) PROVE  [Operation!Next]_(Operation!vars)
  BY <1>18, UnusableNoticed DEF AfterLimit, Working
<1>19. ASSUME NEW u \in Unit, WorkerRequests(u) PROVE  [Operation!Next]_(Operation!vars)
  <2>1. \A v \in Unit : last'[v] = "accepted" <=> last[v] = "accepted"
    BY <1>19 DEF WorkerRequests, AttemptOK, Working, TypeOK, attemptVars
  <2> QED  BY <2>1, <1>19, Unnoticed DEF WorkerRequests, runVars, history
<1>20. ASSUME NEW u \in Unit, Verified(u) PROVE  [Operation!Next]_(Operation!vars)
  <2>1. /\ last' = [last EXCEPT ![u] = "accepted"]
        /\ effect' = [effect EXCEPT ![u] = IF wrote[u] THEN "known" ELSE effect[u]]
        /\ UNCHANGED doubted
        /\ thread[u] = "verify"
    BY <1>20 DEF Verified, runVars
  <2>2. u \notin doubted /\ last[u] # "accepted"
    BY <2>1 DEF AttemptOK, DoubtOK, Working
  <2>3. Verdict[u] = "open" /\ Verdict' = [Verdict EXCEPT ![u] = "accepted"]
    BY <2>1, <2>2 DEF Verdict, TypeOK
  <2>4. wrote[u] <=> u \in Operation!Unsettled
    BY <2>1 DEF LaunchOK, TypeOK, Operation!Unsettled
  <2>5. Operation!Accept(u)
    BY <2>1, <2>3, <2>4 DEF Operation!Accept
  <2> QED  BY <2>5 DEF Operation!Next
<1>21. ASSUME NEW u \in Unit, Rejected(u) PROVE  [Operation!Next]_(Operation!vars)
  <2>1. CASE wrote[u] /\ Doubt(u) /\ UNCHANGED last
    BY <2>1, <1>21, FirstDoubt DEF Rejected, Working, history
  <2>2. CASE last' = [last EXCEPT ![u] = "failed"] /\ UNCHANGED doubted
    <3>1. \A v \in Unit : last'[v] = "accepted" <=> last[v] = "accepted"
      BY <2>2, <1>21 DEF Rejected, AttemptOK, Working, TypeOK
    <3> QED  BY <3>1, <2>2, <1>21, Unnoticed DEF Rejected, history
  <2> QED  BY <2>1, <2>2, <1>21 DEF Rejected
<1>22. ASSUME NEW u \in Unit, VerificationUnavailable(u) PROVE  [Operation!Next]_(Operation!vars)
  BY <1>22, Unnoticed DEF VerificationUnavailable, runVars, attemptVars, history
<1>23. ASSUME NEW u \in Unit, Release(u) PROVE  [Operation!Next]_(Operation!vars)
  BY <1>23, Unnoticed DEF Release, runVars, attemptVars, history
<1>24. CASE UNCHANGED vars
  BY <1>24, Unnoticed DEF vars, runVars, attemptVars, history
<1> HIDE DEF IInv
<1> QED
  BY <1>1, <1>2, <1>3, <1>4, <1>5, <1>6, <1>7, <1>8, <1>9, <1>10, <1>11, <1>12, <1>13, <1>14, <1>15, <1>16, <1>17, <1>18, <1>19, <1>20, <1>21, <1>22, <1>23, <1>24 DEF Next, UnitStep

(* The Runs keep the contract with the owner of the external systems: one    *)
(* operation a task, none beside an unsettled one it overlaps, and nothing   *)
(* further of a task in doubt (_execute_task, acquire_resources).            *)
THEOREM Refinement == Spec => OperationKept
<1>1. Init => Operation!Init
  BY DEF Init, Verdict, Operation!Init
<1>2. IInv /\ [Next]_vars => [Operation!Next]_(Operation!vars)
  BY EffectsAssumption, OperationStep
<1> QED  BY Invariance, <1>1, <1>2, PTL DEF Spec, OperationKept, Operation!Spec
=============================================================================
