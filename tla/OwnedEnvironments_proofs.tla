---------------------- MODULE OwnedEnvironments_proofs ----------------------
(* Theorems of OwnedEnvironments, for any number of environments and threads.*)

EXTENDS OwnedEnvironments, TLAPS

Places == {"unused", "open", "asked", "session", "closing", "closed"}

(* What the daemon has or may still create is on the ledger, as an intent    *)
(* while the request is in flight; only what the environment wants is asked  *)
(* for.                                                                      *)
LedgerOK ==
  \A e \in Env, r \in Resource :
    /\ docker[e][r] = "inflight" => ledger[e][r] = "intent"
    /\ docker[e][r] = "present" => ledger[e][r] \in {"intent", "created"}
    /\ r \in known[e] => ledger[e][r] \in {"created", "removed"}
    /\ r \notin Wanted(e) => docker[e][r] = "absent"

(* No environment is live without a controller; a sweep leaves intents and   *)
(* removed resources behind.                                                 *)
SweepOK ==
  /\ controller # "up" => \A e \in Env : ~Live(e)
  /\ controller # "reconcile" => swept = {}
  /\ \A e \in Env, r \in Resource : <<e, r>> \in swept => ledger[e][r] \in {"intent", "removed"}

(* The owner of an environment knows what it asked for: a resource it stops  *)
(* naming is gone, or still pending.                                         *)
OwnerOK ==
  \A e \in Env, r \in Resource :
    /\ at[e] = "unused" => docker[e][r] = "absent"
    /\ Live(e) /\ docker[e][r] # "absent" =>
         /\ r \in pending[e] \cup known[e]
         /\ r \in named[e] \/ (at[e] = "closing" /\ r \in pending[e])

(* A name is asked for once: whatever its owner has not asked for yet is     *)
(* unknown to the ledger, and one creation is asked for at a time.           *)
FreshOK ==
  \A e \in Env, r \in Resource :
    /\ at[e] = "unused" => ledger[e][r] = "none" /\ known[e] = {}
    /\ at[e] \in {"unused", "open"} => pending[e] = {}
    /\ at[e] = "asked" /\ r \in pending[e] => First(r, Wanted(e) \ known[e])
    /\ at[e] \in {"open", "asked"} /\ r \notin known[e] \cup pending[e] => ledger[e][r] = "none"

(* A watcher cleans behind its owner and what it has cleared is gone, or was *)
(* never confirmed.                                                          *)
WatcherOK ==
  \A e \in Env, r \in Resource :
    /\ at[e] = "unused" => watcher[e] = "none"
    /\ watcher[e] \in {"cleaning", "finished"} => at[e] \in {"closing", "closed"}
    /\ watcher[e] = "released" => at[e] = "closed" /\ docker[e][r] = "absent"
    /\ watcher[e] = "cleaning" /\ r \in clear[e] =>
         docker[e][r] = "absent" \/ ledger[e][r] = "intent"
    /\ watcher[e] \in {"none", "watching"} => clear[e] = {}
    /\ watcher[e] = "finished" => docker[e][r] = "absent" \/ ledger[e][r] = "intent"

IInv == TypeOK /\ LedgerOK /\ SweepOK /\ OwnerOK /\ WatcherOK /\ FreshOK

(* Updating one resource of one environment keeps a record of their states   *)
(* one.                                                                      *)
LEMMA NestedUpdate ==
  ASSUME NEW S, NEW f \in [Env -> [Resource -> S]], NEW e \in Env, NEW r \in Resource,
         NEW v \in S
  PROVE  [f EXCEPT ![e][r] = v] \in [Env -> [Resource -> S]]
OBVIOUS

(* Every step keeps what an owner remembers apart: pending and confirmed.     *)
LEMMA TypeStep ==
  ASSUME EnvironmentAssumption, TypeOK, [Next]_vars PROVE TypeOK'
<1> USE DEF EnvironmentAssumption, daemon, candidate, watch, Resource, Wanted, TypeOK
<1>1. ASSUME Begin PROVE TypeOK'
  BY <1>1 DEF Begin
<1>2. ASSUME ReconcileFails PROVE TypeOK'
  BY <1>2 DEF ReconcileFails
<1>3. ASSUME ReconcileEnds PROVE TypeOK'
  BY <1>3 DEF ReconcileEnds, Named
<1>4. ASSUME Exit PROVE TypeOK'
  BY <1>4 DEF Exit, Live
<1>5. ASSUME Crash PROVE TypeOK'
  BY <1>5 DEF Crash, Live
<1>6. ASSUME NEW t \in Thread, NEW e \in Env, Open(t, e) PROVE TypeOK'
  BY <1>6 DEF Open, Live, Moves
<1>7. ASSUME NEW e \in Env, Ready(e) PROVE TypeOK'
  BY <1>7 DEF Ready, Moves, Missing
<1>8. ASSUME NEW e \in Env, Close(e) PROVE TypeOK'
  BY <1>8 DEF Close, Moves
<1>9. ASSUME NEW e \in Env, CloseEnds(e) PROVE TypeOK'
  BY <1>9 DEF CloseEnds, Lets, Ends, Moves
<1>10. ASSUME NEW e \in Env, CloseFails(e) PROVE TypeOK'
  <2>1. watcher' \in [Env -> {"none", "watching", "cleaning", "released", "finished", "dead"}]
    BY <1>10 DEF CloseFails, Lets
  <2>2. CASE ClosesAgain(e)
    BY <1>10, <2>1, <2>2 DEF CloseFails, ClosesAgain
  <2>3. CASE Ends(e, "error")
    <3>1. thread' \in [Thread -> {"on", "off"}]
      BY <2>3 DEF Ends
    <3> QED  BY <1>10, <2>1, <2>3, <3>1 DEF CloseFails, Ends, Moves
  <2> QED  BY <1>10, <2>2, <2>3 DEF CloseFails
<1>11. ASSUME NEW e \in Env, WatcherDies(e) PROVE TypeOK'
  BY <1>11 DEF WatcherDies
<1>12. ASSUME NEW e \in Env, WindowPasses(e) PROVE TypeOK'
  BY <1>12 DEF WindowPasses
<1>13. ASSUME NEW e \in Env, RoundEnds(e) PROVE TypeOK'
  <2>1. CASE Finishes(e)
    BY <1>13, <2>1 DEF RoundEnds, Finishes
  <2>2. CASE NextRound(e)
    BY <1>13, <2>2 DEF RoundEnds, NextRound
  <2> QED  BY <1>13, <2>1, <2>2 DEF RoundEnds
<1>14. ASSUME NEW e \in Env, NEW r \in Resource, DaemonCreates(e, r) PROVE TypeOK'
  BY <1>14 DEF DaemonCreates
<1>15. ASSUME NEW e \in Env, NEW r \in Resource, ReconcileRemoves(e, r) PROVE TypeOK'
  <2>1. docker' \in [Env -> [Resource -> {"absent", "inflight", "present"}]]
    BY <1>15, NestedUpdate DEF ReconcileRemoves, Gone
  <2>2. ledger' \in [Env -> [Resource -> {"none", "intent", "created", "removed"}]]
    <3>1. CASE ledger[e][r] = "created"
      <4>1. ledger' = [ledger EXCEPT ![e][r] = "removed"]
        BY <1>15, <3>1 DEF ReconcileRemoves, Records
      <4> QED  BY <4>1, NestedUpdate
    <3>2. CASE ledger[e][r] # "created"
      BY <1>15, <3>2 DEF ReconcileRemoves
    <3> QED  BY <3>1, <3>2
  <2>3. swept' \in SUBSET (Env \X Resource)
    BY <1>15 DEF ReconcileRemoves
  <2>4. UNCHANGED <<controller, thread, candidate, watch>>
    BY <1>15 DEF ReconcileRemoves
  <2> QED  BY <2>1, <2>2, <2>3, <2>4
<1>16. ASSUME NEW e \in Env, NEW r \in Resource, WatcherRemoves(e, r) PROVE TypeOK'
  BY <1>16 DEF WatcherRemoves, Gone
<1>17. ASSUME NEW e \in Env, NEW r \in Resource, Ask(e, r) PROVE TypeOK'
  <2>1. docker' \in [Env -> [Resource -> {"absent", "inflight", "present"}]]
    BY <1>17, NestedUpdate DEF Ask
  <2>2. ledger' \in [Env -> [Resource -> {"none", "intent", "created", "removed"}]]
    BY <1>17, NestedUpdate DEF Ask, Records
  <2>3. /\ r \notin known[e]
        /\ pending' = [pending EXCEPT ![e] = pending[e] \cup {r}]
        /\ named' = [named EXCEPT ![e] = named[e] \cup {r}]
        /\ at' = [at EXCEPT ![e] = "asked"]
        /\ UNCHANGED <<controller, swept, thread, user, known, tried, raised, watch>>
    BY <1>17 DEF Ask, First, Missing, Moves
  <2> QED  BY <2>1, <2>2, <2>3
<1>18. ASSUME NEW e \in Env, NEW r \in Resource, Created(e, r) PROVE TypeOK'
  <2>1. ledger' \in [Env -> [Resource -> {"none", "intent", "created", "removed"}]]
    BY <1>18, NestedUpdate DEF Created, Records
  <2>2. /\ r \in Wanted(e)
        /\ known' = [known EXCEPT ![e] = known[e] \cup {r}]
        /\ pending' = [pending EXCEPT ![e] = pending[e] \ {r}]
        /\ at' = [at EXCEPT ![e] = "open"]
        /\ UNCHANGED <<controller, swept, thread, docker, user, named, tried, raised, watch>>
    BY <1>18 DEF Created, First, Missing, Moves
  <2> QED  BY <2>1, <2>2
<1>19. ASSUME NEW e \in Env, NEW r \in Resource, CloseRemoves(e, r) PROVE TypeOK'
  <2>1. docker' \in [Env -> [Resource -> {"absent", "inflight", "present"}]]
    BY <1>19, NestedUpdate DEF CloseRemoves, Gone
  <2>2. ledger' \in [Env -> [Resource -> {"none", "intent", "created", "removed"}]]
    <3>1. CASE r \in known[e]
      <4>1. ledger' = [ledger EXCEPT ![e][r] = "removed"]
        BY <1>19, <3>1 DEF CloseRemoves, Records
      <4> QED  BY <4>1, NestedUpdate
    <3>2. CASE r \notin known[e]
      BY <1>19, <3>2 DEF CloseRemoves
    <3> QED  BY <3>1, <3>2
  <2>3. /\ named' = [named EXCEPT ![e] = named[e] \ {r}]
        /\ UNCHANGED <<controller, swept, thread, at, user, pending, known, tried, raised, watch>>
    BY <1>19 DEF CloseRemoves
  <2> QED  BY <2>1, <2>2, <2>3
<1>20. ASSUME NEW e \in Env, NEW r \in Resource, CloseRemovalFails(e, r) PROVE TypeOK'
  BY <1>20 DEF CloseRemovalFails
<1>21. CASE UNCHANGED vars
  BY <1>21 DEF vars
<1> HIDE DEF EnvironmentAssumption, daemon, candidate, watch, Resource, Wanted, TypeOK
<1> QED
  BY <1>1, <1>2, <1>3, <1>4, <1>5, <1>6, <1>7, <1>8, <1>9, <1>10, <1>11, <1>12, <1>13, <1>14, <1>15, <1>16, <1>17, <1>18, <1>19, <1>20, <1>21 DEF Next, EnvStep, ResourceStep

(* No step puts a resource out of the ledger's sight.                        *)
LEMMA LedgerStep ==
  ASSUME EnvironmentAssumption, TypeOK, LedgerOK, [Next]_vars PROVE LedgerOK'
<1> USE DEF EnvironmentAssumption, daemon, candidate, watch, Resource, Wanted, TypeOK, LedgerOK
<1>1. ASSUME Begin PROVE LedgerOK'
  BY <1>1 DEF Begin
<1>2. ASSUME ReconcileFails PROVE LedgerOK'
  BY <1>2 DEF ReconcileFails
<1>3. ASSUME ReconcileEnds PROVE LedgerOK'
  BY <1>3 DEF ReconcileEnds, Named
<1>4. ASSUME Exit PROVE LedgerOK'
  BY <1>4 DEF Exit, Live
<1>5. ASSUME Crash PROVE LedgerOK'
  BY <1>5 DEF Crash, Live
<1>6. ASSUME NEW t \in Thread, NEW e \in Env, Open(t, e) PROVE LedgerOK'
  BY <1>6 DEF Open, Live, Moves
<1>7. ASSUME NEW e \in Env, Ready(e) PROVE LedgerOK'
  BY <1>7 DEF Ready, Moves, Missing
<1>8. ASSUME NEW e \in Env, Close(e) PROVE LedgerOK'
  BY <1>8 DEF Close, Moves
<1>9. ASSUME NEW e \in Env, CloseEnds(e) PROVE LedgerOK'
  BY <1>9 DEF CloseEnds, Lets, Ends, Moves
<1>10. ASSUME NEW e \in Env, CloseFails(e) PROVE LedgerOK'
  BY <1>10 DEF CloseFails, Lets, Ends, ClosesAgain, Moves
<1>11. ASSUME NEW e \in Env, WatcherDies(e) PROVE LedgerOK'
  BY <1>11 DEF WatcherDies
<1>12. ASSUME NEW e \in Env, WindowPasses(e) PROVE LedgerOK'
  BY <1>12 DEF WindowPasses
<1>13. ASSUME NEW e \in Env, RoundEnds(e) PROVE LedgerOK'
  BY <1>13 DEF RoundEnds, Finishes, NextRound
<1>14. ASSUME NEW e \in Env, NEW r \in Resource, DaemonCreates(e, r) PROVE LedgerOK'
  BY <1>14 DEF DaemonCreates
<1>15. ASSUME NEW e \in Env, NEW r \in Resource, ReconcileRemoves(e, r) PROVE LedgerOK'
  BY <1>15 DEF ReconcileRemoves, Records, Gone, Named
<1>16. ASSUME NEW e \in Env, NEW r \in Resource, WatcherRemoves(e, r) PROVE LedgerOK'
  BY <1>16 DEF WatcherRemoves, Gone
<1>17. ASSUME NEW e \in Env, NEW r \in Resource, Ask(e, r) PROVE LedgerOK'
  <2>1. r \notin known[e] /\ r \in Wanted(e)
    BY <1>17 DEF Ask, First, Missing
  <2> QED  BY <2>1, <1>17 DEF Ask, Moves, Records
<1>18. ASSUME NEW e \in Env, NEW r \in Resource, Created(e, r) PROVE LedgerOK'
  <2>1. r \in Wanted(e)
    BY <1>18 DEF Created, First, Missing
  <2> QED  BY <2>1, <1>18 DEF Created, Moves, Records
<1>19. ASSUME NEW e \in Env, NEW r \in Resource, CloseRemoves(e, r) PROVE LedgerOK'
  BY <1>19 DEF CloseRemoves, Records, Gone
<1>20. ASSUME NEW e \in Env, NEW r \in Resource, CloseRemovalFails(e, r) PROVE LedgerOK'
  BY <1>20 DEF CloseRemovalFails
<1>21. CASE UNCHANGED vars
  BY <1>21 DEF vars
<1> HIDE DEF EnvironmentAssumption, daemon, candidate, watch, Resource, Wanted, TypeOK, LedgerOK
<1> QED
  BY <1>1, <1>2, <1>3, <1>4, <1>5, <1>6, <1>7, <1>8, <1>9, <1>10, <1>11, <1>12, <1>13, <1>14, <1>15, <1>16, <1>17, <1>18, <1>19, <1>20, <1>21 DEF Next, EnvStep, ResourceStep

(* Between the sweep of a resource and the end of reconciliation nothing      *)
(* creates it again.                                                         *)
LEMMA SweepStep ==
  ASSUME EnvironmentAssumption, TypeOK, SweepOK, [Next]_vars PROVE SweepOK'
<1> USE DEF EnvironmentAssumption, daemon, candidate, watch, Resource, Wanted, TypeOK, SweepOK, Live
<1>1. ASSUME Begin PROVE SweepOK'
  BY <1>1 DEF Begin
<1>2. ASSUME ReconcileFails PROVE SweepOK'
  BY <1>2 DEF ReconcileFails
<1>3. ASSUME ReconcileEnds PROVE SweepOK'
  BY <1>3 DEF ReconcileEnds, Named
<1>4. ASSUME Exit PROVE SweepOK'
  BY <1>4 DEF Exit, Live
<1>5. ASSUME Crash PROVE SweepOK'
  BY <1>5 DEF Crash, Live
<1>6. ASSUME NEW t \in Thread, NEW e \in Env, Open(t, e) PROVE SweepOK'
  BY <1>6 DEF Open, Live, Moves
<1>7. ASSUME NEW e \in Env, Ready(e) PROVE SweepOK'
  BY <1>7 DEF Ready, Moves, Missing
<1>8. ASSUME NEW e \in Env, Close(e) PROVE SweepOK'
  BY <1>8 DEF Close, Moves
<1>9. ASSUME NEW e \in Env, CloseEnds(e) PROVE SweepOK'
  BY <1>9 DEF CloseEnds, Lets, Ends, Moves
<1>10. ASSUME NEW e \in Env, CloseFails(e) PROVE SweepOK'
  BY <1>10 DEF CloseFails, Lets, Ends, ClosesAgain, Moves
<1>11. ASSUME NEW e \in Env, WatcherDies(e) PROVE SweepOK'
  BY <1>11 DEF WatcherDies
<1>12. ASSUME NEW e \in Env, WindowPasses(e) PROVE SweepOK'
  BY <1>12 DEF WindowPasses
<1>13. ASSUME NEW e \in Env, RoundEnds(e) PROVE SweepOK'
  BY <1>13 DEF RoundEnds, Finishes, NextRound
<1>14. ASSUME NEW e \in Env, NEW r \in Resource, DaemonCreates(e, r) PROVE SweepOK'
  BY <1>14 DEF DaemonCreates
<1>15. ASSUME NEW e \in Env, NEW r \in Resource, ReconcileRemoves(e, r) PROVE SweepOK'
  BY <1>15 DEF ReconcileRemoves, Records, Gone, Named
<1>16. ASSUME NEW e \in Env, NEW r \in Resource, WatcherRemoves(e, r) PROVE SweepOK'
  BY <1>16 DEF WatcherRemoves, Gone
<1>17. ASSUME NEW e \in Env, NEW r \in Resource, Ask(e, r) PROVE SweepOK'
  BY <1>17 DEF Ask, Moves, Records, Missing
<1>18. ASSUME NEW e \in Env, NEW r \in Resource, Created(e, r) PROVE SweepOK'
  BY <1>18 DEF Created, Moves, Records, Missing
<1>19. ASSUME NEW e \in Env, NEW r \in Resource, CloseRemoves(e, r) PROVE SweepOK'
  BY <1>19 DEF CloseRemoves, Records, Gone
<1>20. ASSUME NEW e \in Env, NEW r \in Resource, CloseRemovalFails(e, r) PROVE SweepOK'
  BY <1>20 DEF CloseRemovalFails
<1>21. CASE UNCHANGED vars
  BY <1>21 DEF vars
<1> HIDE DEF EnvironmentAssumption, daemon, candidate, watch, Resource, Wanted, TypeOK, SweepOK, Live
<1> QED
  BY <1>1, <1>2, <1>3, <1>4, <1>5, <1>6, <1>7, <1>8, <1>9, <1>10, <1>11, <1>12, <1>13, <1>14, <1>15, <1>16, <1>17, <1>18, <1>19, <1>20, <1>21 DEF Next, EnvStep, ResourceStep

(* No step makes an owner forget what it asked for.                          *)
LEMMA OwnerStep ==
  ASSUME EnvironmentAssumption, TypeOK, LedgerOK, OwnerOK, [Next]_vars PROVE OwnerOK'
<1> USE DEF EnvironmentAssumption, daemon, candidate, watch, Resource, Wanted, TypeOK, LedgerOK, OwnerOK, Live
<1>1. ASSUME Begin PROVE OwnerOK'
  BY <1>1 DEF Begin
<1>2. ASSUME ReconcileFails PROVE OwnerOK'
  BY <1>2 DEF ReconcileFails
<1>3. ASSUME ReconcileEnds PROVE OwnerOK'
  BY <1>3 DEF ReconcileEnds, Named
<1>4. ASSUME Exit PROVE OwnerOK'
  BY <1>4 DEF Exit, Live
<1>5. ASSUME Crash PROVE OwnerOK'
  BY <1>5 DEF Crash, Live
<1>6. ASSUME NEW t \in Thread, NEW e \in Env, Open(t, e) PROVE OwnerOK'
  BY <1>6 DEF Open, Live, Moves
<1>7. ASSUME NEW e \in Env, Ready(e) PROVE OwnerOK'
  BY <1>7 DEF Ready, Moves, Missing
<1>8. ASSUME NEW e \in Env, Close(e) PROVE OwnerOK'
  BY <1>8 DEF Close, Moves
<1>9. ASSUME NEW e \in Env, CloseEnds(e) PROVE OwnerOK'
  BY <1>9 DEF CloseEnds, Lets, Ends, Moves
<1>10. ASSUME NEW e \in Env, CloseFails(e) PROVE OwnerOK'
  BY <1>10 DEF CloseFails, Lets, Ends, ClosesAgain, Moves
<1>11. ASSUME NEW e \in Env, WatcherDies(e) PROVE OwnerOK'
  BY <1>11 DEF WatcherDies
<1>12. ASSUME NEW e \in Env, WindowPasses(e) PROVE OwnerOK'
  BY <1>12 DEF WindowPasses
<1>13. ASSUME NEW e \in Env, RoundEnds(e) PROVE OwnerOK'
  BY <1>13 DEF RoundEnds, Finishes, NextRound
<1>14. ASSUME NEW e \in Env, NEW r \in Resource, DaemonCreates(e, r) PROVE OwnerOK'
  BY <1>14 DEF DaemonCreates
<1>15. ASSUME NEW e \in Env, NEW r \in Resource, ReconcileRemoves(e, r) PROVE OwnerOK'
  BY <1>15 DEF ReconcileRemoves, Records, Gone, Named
<1>16. ASSUME NEW e \in Env, NEW r \in Resource, WatcherRemoves(e, r) PROVE OwnerOK'
  BY <1>16 DEF WatcherRemoves, Gone
<1>17. ASSUME NEW e \in Env, NEW r \in Resource, Ask(e, r) PROVE OwnerOK'
  BY <1>17 DEF Ask, Moves, Records, Missing
<1>18. ASSUME NEW e \in Env, NEW r \in Resource, Created(e, r) PROVE OwnerOK'
  BY <1>18 DEF Created, Moves, Records, Missing
<1>19. ASSUME NEW e \in Env, NEW r \in Resource, CloseRemoves(e, r) PROVE OwnerOK'
  BY <1>19 DEF CloseRemoves, Records, Gone
<1>20. ASSUME NEW e \in Env, NEW r \in Resource, CloseRemovalFails(e, r) PROVE OwnerOK'
  BY <1>20 DEF CloseRemovalFails
<1>21. CASE UNCHANGED vars
  BY <1>21 DEF vars
<1> HIDE DEF EnvironmentAssumption, daemon, candidate, watch, Resource, Wanted, TypeOK, LedgerOK, OwnerOK, Live
<1> QED
  BY <1>1, <1>2, <1>3, <1>4, <1>5, <1>6, <1>7, <1>8, <1>9, <1>10, <1>11, <1>12, <1>13, <1>14, <1>15, <1>16, <1>17, <1>18, <1>19, <1>20, <1>21 DEF Next, EnvStep, ResourceStep

(* No step releases or finishes a watcher too early.                         *)
LEMMA WatcherStep ==
  ASSUME EnvironmentAssumption, TypeOK, LedgerOK, OwnerOK, WatcherOK, [Next]_vars PROVE WatcherOK'
<1> USE DEF EnvironmentAssumption, daemon, candidate, watch, Resource, Wanted, TypeOK, LedgerOK, OwnerOK, WatcherOK, Live
<1>1. ASSUME Begin PROVE WatcherOK'
  BY <1>1 DEF Begin
<1>2. ASSUME ReconcileFails PROVE WatcherOK'
  BY <1>2 DEF ReconcileFails
<1>3. ASSUME ReconcileEnds PROVE WatcherOK'
  BY <1>3 DEF ReconcileEnds, Named
<1>4. ASSUME Exit PROVE WatcherOK'
  BY <1>4 DEF Exit, Live
<1>5. ASSUME Crash PROVE WatcherOK'
  BY <1>5 DEF Crash, Live
<1>6. ASSUME NEW t \in Thread, NEW e \in Env, Open(t, e) PROVE WatcherOK'
  BY <1>6 DEF Open, Live, Moves
<1>7. ASSUME NEW e \in Env, Ready(e) PROVE WatcherOK'
  BY <1>7 DEF Ready, Moves, Missing
<1>8. ASSUME NEW e \in Env, Close(e) PROVE WatcherOK'
  BY <1>8 DEF Close, Moves
<1>9. ASSUME NEW e \in Env, CloseEnds(e) PROVE WatcherOK'
  <2>1. /\ at[e] = "closing" /\ named[e] = {}
        /\ at' = [at EXCEPT ![e] = "closed"]
        /\ UNCHANGED <<docker, ledger, clear>>
    BY <1>9 DEF CloseEnds, Ends, Moves
  <2>2. /\ \A f \in Env \ {e} : watcher'[f] = watcher[f]
        /\ watcher'[e] \in {"released", "cleaning"} \/ watcher'[e] = watcher[e]
        /\ watcher[e] = "watching" /\ watcher'[e] = "released" => pending[e] = {}
    BY <1>9 DEF CloseEnds, Lets
  <2>3. watcher'[e] = watcher[e] \/ watcher[e] = "watching"
    BY <1>9 DEF CloseEnds, Lets
  <2>4. ASSUME NEW r \in Resource, pending[e] = {} PROVE docker[e][r] = "absent"
    <3>1. r \notin named[e] /\ r \notin pending[e]
      BY <2>1, <2>4
    <3>2. Live(e)
      BY <2>1
    <3> QED  BY ONLY <3>1, <3>2, OwnerOK, e \in Env, r \in Resource DEF OwnerOK
  <2> QED  BY <2>1, <2>2, <2>3, <2>4
<1>10. ASSUME NEW e \in Env, CloseFails(e) PROVE WatcherOK'
  BY <1>10 DEF CloseFails, Lets, Ends, ClosesAgain, Moves
<1>11. ASSUME NEW e \in Env, WatcherDies(e) PROVE WatcherOK'
  BY <1>11 DEF WatcherDies
<1>12. ASSUME NEW e \in Env, WindowPasses(e) PROVE WatcherOK'
  BY <1>12 DEF WindowPasses
<1>13. ASSUME NEW e \in Env, RoundEnds(e) PROVE WatcherOK'
  <2>1. watcher[e] = "cleaning" /\ UNCHANGED <<docker, ledger, at>>
    BY <1>13 DEF RoundEnds
  <2>2. CASE e \in window /\ Wanted(e) \subseteq clear[e]
    <3>1. ASSUME NEW r \in Resource PROVE docker[e][r] = "absent" \/ ledger[e][r] = "intent"
      <4>1. CASE r \in Wanted(e)
        BY ONLY <2>1, <2>2, <4>1, WatcherOK, e \in Env, r \in Resource DEF WatcherOK
      <4>2. CASE r \notin Wanted(e)
        BY <4>2
      <4> QED  BY <4>1, <4>2
    <3>2. /\ watcher' = [watcher EXCEPT ![e] = "finished"]
          /\ clear' = [clear EXCEPT ![e] = {}]
      BY <1>13, <2>2 DEF RoundEnds, Finishes
    <3> QED  BY <2>1, <3>1, <3>2
  <2>3. CASE ~(e \in window /\ Wanted(e) \subseteq clear[e])
    <3>1. clear' = [clear EXCEPT ![e] = {}] /\ UNCHANGED watcher
      BY <1>13, <2>3 DEF RoundEnds, NextRound
    <3> QED  BY <2>1, <3>1
  <2> QED  BY <2>2, <2>3
<1>14. ASSUME NEW e \in Env, NEW r \in Resource, DaemonCreates(e, r) PROVE WatcherOK'
  BY <1>14 DEF DaemonCreates
<1>15. ASSUME NEW e \in Env, NEW r \in Resource, ReconcileRemoves(e, r) PROVE WatcherOK'
  BY <1>15 DEF ReconcileRemoves, Records, Gone, Named
<1>16. ASSUME NEW e \in Env, NEW r \in Resource, WatcherRemoves(e, r) PROVE WatcherOK'
  BY <1>16 DEF WatcherRemoves, Gone
<1>17. ASSUME NEW e \in Env, NEW r \in Resource, Ask(e, r) PROVE WatcherOK'
  BY <1>17 DEF Ask, Moves, Records, Missing
<1>18. ASSUME NEW e \in Env, NEW r \in Resource, Created(e, r) PROVE WatcherOK'
  BY <1>18 DEF Created, Moves, Records, Missing
<1>19. ASSUME NEW e \in Env, NEW r \in Resource, CloseRemoves(e, r) PROVE WatcherOK'
  BY <1>19 DEF CloseRemoves, Records, Gone
<1>20. ASSUME NEW e \in Env, NEW r \in Resource, CloseRemovalFails(e, r) PROVE WatcherOK'
  BY <1>20 DEF CloseRemovalFails
<1>21. CASE UNCHANGED vars
  BY <1>21 DEF vars
<1> HIDE DEF EnvironmentAssumption, daemon, candidate, watch, Resource, Wanted, TypeOK, LedgerOK, OwnerOK, WatcherOK, Live
<1> QED
  BY <1>1, <1>2, <1>3, <1>4, <1>5, <1>6, <1>7, <1>8, <1>9, <1>10, <1>11, <1>12, <1>13, <1>14, <1>15, <1>16, <1>17, <1>18, <1>19, <1>20, <1>21 DEF Next, EnvStep, ResourceStep

(* Among the resources of an environment there is one to create next.        *)
LEMMA FirstUnique ==
  ASSUME NEW S \in SUBSET Resource, NEW r, NEW q, First(r, S), First(q, S) PROVE r = q
BY DEF First, Rank, Resource

(* A step that leaves an environment where it is, or closes it, asks for     *)
(* nothing.                                                                  *)
LEMMA FreshKept ==
  ASSUME FreshOK,
         \A e \in Env :
           \/ at'[e] \notin {"unused", "open", "asked"}
           \/ /\ at'[e] = at[e] /\ pending'[e] = pending[e] /\ known'[e] = known[e]
              /\ \A r \in Resource : ledger[e][r] = "none" => ledger'[e][r] = "none"
  PROVE  FreshOK'
<1> SUFFICES ASSUME NEW e \in Env, NEW r \in Resource
             PROVE  /\ at'[e] = "unused" => ledger'[e][r] = "none" /\ known'[e] = {}
                    /\ at'[e] \in {"unused", "open"} => pending'[e] = {}
                    /\ at'[e] = "asked" /\ r \in pending'[e] =>
                         First(r, Wanted(e) \ known'[e])
                    /\ at'[e] \in {"open", "asked"} /\ r \notin known'[e] \cup pending'[e] =>
                         ledger'[e][r] = "none"
  BY DEF FreshOK
<1>1. CASE at'[e] \notin {"unused", "open", "asked"}
  BY <1>1
<1>2. CASE at'[e] = at[e] /\ pending'[e] = pending[e] /\ known'[e] = known[e]
           /\ (ledger[e][r] = "none" => ledger'[e][r] = "none")
  <2>1. Wanted(e) \ known'[e] = Wanted(e) \ known[e]
    BY <1>2
  <2> QED  BY <1>2, <2>1 DEF FreshOK
<1> QED  BY <1>1, <1>2

(* No step asks for a name again, or for two at a time.                      *)
LEMMA FreshStep ==
  ASSUME EnvironmentAssumption, TypeOK, LedgerOK, FreshOK, [Next]_vars PROVE FreshOK'
<1> USE DEF EnvironmentAssumption, daemon, candidate, watch, TypeOK, FreshOK, Live
<1>1. ASSUME Begin PROVE FreshOK'
  BY <1>1 DEF Begin
<1>2. ASSUME ReconcileFails PROVE FreshOK'
  BY <1>2 DEF ReconcileFails
<1>3. ASSUME ReconcileEnds PROVE FreshOK'
  BY <1>3 DEF ReconcileEnds, Named
<1>4. ASSUME Exit PROVE FreshOK'
  BY <1>4 DEF Exit, Live
<1>5. ASSUME Crash PROVE FreshOK'
  BY <1>5 DEF Crash, Live
<1>6. ASSUME NEW t \in Thread, NEW e \in Env, Open(t, e) PROVE FreshOK'
  BY <1>6 DEF Open, Live, Moves
<1>7. ASSUME NEW e \in Env, Ready(e) PROVE FreshOK'
  BY <1>7 DEF Ready, Moves, Missing
<1>8. ASSUME NEW e \in Env, Close(e) PROVE FreshOK'
  <2>1. at' = [at EXCEPT ![e] = "closing"] /\ UNCHANGED <<ledger, known, pending>>
    BY <1>8 DEF Close, Moves
  <2> QED  BY <2>1, FreshKept
<1>9. ASSUME NEW e \in Env, CloseEnds(e) PROVE FreshOK'
  BY <1>9 DEF CloseEnds, Lets, Ends, Moves
<1>10. ASSUME NEW e \in Env, CloseFails(e) PROVE FreshOK'
  <2>1. /\ UNCHANGED ledger
        /\ at'[e] \in {"closing", "closed"}
        /\ \A f \in Env \ {e} : at'[f] = at[f] /\ pending'[f] = pending[f] /\ known'[f] = known[f]
    BY <1>10 DEF CloseFails, ClosesAgain, Ends, Moves
  <2> QED  BY <2>1, FreshKept
<1>11. ASSUME NEW e \in Env, WatcherDies(e) PROVE FreshOK'
  BY <1>11 DEF WatcherDies
<1>12. ASSUME NEW e \in Env, WindowPasses(e) PROVE FreshOK'
  BY <1>12 DEF WindowPasses
<1>13. ASSUME NEW e \in Env, RoundEnds(e) PROVE FreshOK'
  BY <1>13 DEF RoundEnds, Finishes, NextRound
<1>14. ASSUME NEW e \in Env, NEW r \in Resource, DaemonCreates(e, r) PROVE FreshOK'
  BY <1>14 DEF DaemonCreates
<1>15. ASSUME NEW e \in Env, NEW r \in Resource, ReconcileRemoves(e, r) PROVE FreshOK'
  <2>1. /\ UNCHANGED <<at, known, pending>>
        /\ \A f \in Env, q \in Resource : ledger[f][q] = "none" => ledger'[f][q] = "none"
    <3>1. \/ UNCHANGED ledger
          \/ ledger[e][r] = "created" /\ ledger' = [ledger EXCEPT ![e][r] = "removed"]
      BY <1>15 DEF ReconcileRemoves, Records
    <3>2. UNCHANGED <<at, known, pending>>
      BY <1>15 DEF ReconcileRemoves
    <3>3. ASSUME NEW f \in Env, NEW q \in Resource, ledger[f][q] = "none"
          PROVE  ledger'[f][q] = "none"
      <4>1. CASE f = e /\ q = r
        BY <3>1, <3>3, <4>1
      <4>2. CASE ~(f = e /\ q = r)
        BY <3>1, <3>3, <4>2
      <4> QED  BY <4>1, <4>2
    <3> QED  BY <3>2, <3>3
  <2> QED  BY <2>1, FreshKept
<1>16. ASSUME NEW e \in Env, NEW r \in Resource, WatcherRemoves(e, r) PROVE FreshOK'
  BY <1>16 DEF WatcherRemoves, Gone
<1>17. ASSUME NEW e \in Env, NEW r \in Resource, Ask(e, r) PROVE FreshOK'
  <2>1. /\ at[e] = "open" /\ First(r, Wanted(e) \ known[e])
        /\ ledger' = [ledger EXCEPT ![e][r] = "intent"]
        /\ pending' = [pending EXCEPT ![e] = pending[e] \cup {r}]
        /\ at' = [at EXCEPT ![e] = "asked"]
        /\ UNCHANGED known
    BY <1>17 DEF Ask, Records, Moves, Missing
  <2> QED  BY <2>1
<1>18. ASSUME NEW e \in Env, NEW r \in Resource, Created(e, r) PROVE FreshOK'
  <2>1. /\ at[e] = "asked" /\ First(r, Wanted(e) \ known[e]) /\ docker[e][r] = "present"
        /\ ledger' = [ledger EXCEPT ![e][r] = "created"]
        /\ known' = [known EXCEPT ![e] = known[e] \cup {r}]
        /\ pending' = [pending EXCEPT ![e] = pending[e] \ {r}]
        /\ at' = [at EXCEPT ![e] = "open"]
    BY <1>18 DEF Created, Records, Moves, Missing
  <2>2. pending'[e] = {}
    <3>1. Wanted(e) \ known[e] \in SUBSET Resource
      BY DEF Wanted, Resource
    <3>2. ASSUME NEW q \in pending[e] PROVE q = r
      <4>1. q \in Resource /\ First(q, Wanted(e) \ known[e])
        BY <2>1
      <4> QED  BY <2>1, <3>1, <4>1, FirstUnique
    <3> QED  BY <2>1, <3>2
  <2>3. ASSUME NEW q \in Resource, q \notin known'[e] PROVE ledger'[e][q] = "none"
    <3>1. q # r /\ q \notin known[e] /\ q \notin pending[e]
      BY <2>1, <2>2, <2>3
    <3>2. ledger[e][q] = "none"
      BY <2>1, <3>1
    <3> QED  BY <2>1, <3>1, <3>2
  <2>4. at'[e] = "open"
    BY <2>1
  <2>5. \A f \in Env \ {e} :
          /\ at'[f] = at[f] /\ pending'[f] = pending[f] /\ known'[f] = known[f]
          /\ ledger'[f] = ledger[f]
    BY <2>1
  <2>6. ASSUME NEW f \in Env, NEW q \in Resource
        PROVE  /\ at'[f] = "unused" => ledger'[f][q] = "none" /\ known'[f] = {}
               /\ at'[f] \in {"unused", "open"} => pending'[f] = {}
               /\ at'[f] = "asked" /\ q \in pending'[f] =>
                    First(q, Wanted(f) \ known'[f])
               /\ at'[f] \in {"open", "asked"} /\ q \notin known'[f] \cup pending'[f] =>
                    ledger'[f][q] = "none"
    <3>1. CASE f = e
      BY <2>2, <2>3, <2>4, <3>1
    <3>2. CASE f # e
      <4>1. Wanted(f) \ known'[f] = Wanted(f) \ known[f]
        BY <2>5, <3>2
      <4>2. /\ at'[f] = at[f] /\ pending'[f] = pending[f] /\ known'[f] = known[f]
            /\ ledger'[f] = ledger[f]
        BY <2>5, <3>2
      <4>3. /\ at[f] = "unused" => ledger[f][q] = "none" /\ known[f] = {}
            /\ at[f] \in {"unused", "open"} => pending[f] = {}
            /\ at[f] = "asked" /\ q \in pending[f] => First(q, Wanted(f) \ known[f])
            /\ at[f] \in {"open", "asked"} /\ q \notin known[f] \cup pending[f] =>
                 ledger[f][q] = "none"
        BY ONLY FreshOK, f \in Env, q \in Resource DEF FreshOK
      <4> QED  BY ONLY <4>1, <4>2, <4>3
    <3> QED  BY <3>1, <3>2
  <2> QED  BY <2>6
<1>19. ASSUME NEW e \in Env, NEW r \in Resource, CloseRemoves(e, r) PROVE FreshOK'
  <2>1. /\ UNCHANGED <<at, known, pending>>
        /\ \A f \in Env, q \in Resource : ledger[f][q] = "none" => ledger'[f][q] = "none"
    <3>1. \/ UNCHANGED ledger
          \/ r \in known[e] /\ ledger' = [ledger EXCEPT ![e][r] = "removed"]
      BY <1>19 DEF CloseRemoves, Records
    <3>2. UNCHANGED <<at, known, pending>>
      BY <1>19 DEF CloseRemoves
    <3>3. r \in known[e] => ledger[e][r] # "none"
      BY DEF LedgerOK
    <3> QED  BY <3>1, <3>2, <3>3
  <2> QED  BY <2>1, FreshKept
<1>20. ASSUME NEW e \in Env, NEW r \in Resource, CloseRemovalFails(e, r) PROVE FreshOK'
  BY <1>20 DEF CloseRemovalFails
<1>21. CASE UNCHANGED vars
  BY <1>21 DEF vars
<1> HIDE DEF EnvironmentAssumption, daemon, candidate, watch, TypeOK, FreshOK, Live
<1> QED
  BY <1>1, <1>2, <1>3, <1>4, <1>5, <1>6, <1>7, <1>8, <1>9, <1>10, <1>11, <1>12, <1>13, <1>14, <1>15, <1>16, <1>17, <1>18, <1>19, <1>20, <1>21 DEF Next, EnvStep, ResourceStep

(* The invariant holds of every behaviour.                                   *)
THEOREM Invariance == Spec => []IInv
<1>1. Init => IInv
  BY EnvironmentAssumption DEF Init, IInv, TypeOK, LedgerOK, SweepOK, OwnerOK, WatcherOK,
    FreshOK, Live, Resource, Wanted, EnvironmentAssumption
<1>2. IInv /\ [Next]_vars => IInv'
  BY EnvironmentAssumption, TypeStep, LedgerStep, SweepStep, OwnerStep, WatcherStep, FreshStep DEF IInv
<1> QED  BY <1>1, <1>2, PTL DEF Spec

(* A creation is pending or confirmed to its owner, never both.              *)
THEOREM TypeCorrect == Spec => []TypeOK
<1>1. IInv => TypeOK
  BY DEF IInv
<1> QED  BY Invariance, <1>1, PTL

(* Nothing exists, or may come to exist, that the ledger does not name       *)
(* (append_resource_event before docker create).                             *)
THEOREM LedgerComplete == Spec => []NothingForgotten
<1>1. IInv => NothingForgotten
  <2> SUFFICES ASSUME IInv, NEW e \in Env, NEW r \in Resource, docker[e][r] # "absent"
               PROVE  Named(e, r)
    BY DEF NothingForgotten
  <2>1. docker[e][r] \in {"inflight", "present"}
    BY DEF IInv, TypeOK
  <2>2. ledger[e][r] \in {"intent", "created"}
    BY <2>1 DEF IInv, LedgerOK
  <2> QED  BY <2>2 DEF Named
<1> QED  BY Invariance, <1>1, PTL

(* A watcher is released over an environment that is gone for good (close).  *)
THEOREM ReleasedGone == Spec => []ReleasedMeansGone
<1>1. IInv => ReleasedMeansGone
  BY DEF IInv, WatcherOK, ReleasedMeansGone
<1> QED  BY Invariance, <1>1, PTL

(* A watcher that is done leaves at most unconfirmed creations (watch).      *)
THEOREM IntentsOnly == Spec => []OnlyIntentsOutliveWatcher
<1>1. IInv => OnlyIntentsOutliveWatcher
  BY DEF IInv, WatcherOK, OnlyIntentsOutliveWatcher
<1> QED  BY Invariance, <1>1, PTL

(* A Run continues with no resource of an earlier controller left, nor any   *)
(* that could still appear (reconcile).                                      *)
THEOREM ContinuationIsClean == Spec => ContinuesClean
<1>1. IInv /\ [Next]_vars =>
        [controller = "reconcile" /\ controller' = "up" =>
           \A e \in Env, r \in Resource : docker[e][r] = "absent"]_vars
  <2> SUFFICES ASSUME IInv, Next, controller = "reconcile", controller' = "up",
                      NEW e \in Env, NEW r \in Resource
               PROVE  docker[e][r] = "absent"
    BY DEF vars
  <2>1. ReconcileEnds
    BY DEF Next, Begin, ReconcileFails, Exit, Crash, Open, EnvStep, ResourceStep, Ready,
      Close, CloseEnds, CloseFails, WatcherDies, WindowPasses, RoundEnds, DaemonCreates,
      ReconcileRemoves, WatcherRemoves, Ask, Created, CloseRemoves, CloseRemovalFails
  <2>2. /\ ledger[e][r] # "intent"
        /\ ledger[e][r] = "created" => <<e, r>> \in swept
    BY <2>1 DEF ReconcileEnds, Named
  <2>3. ledger[e][r] # "created"
    BY <2>2 DEF IInv, SweepOK
  <2> QED  BY <2>2, <2>3 DEF IInv, TypeOK, LedgerOK
<1> QED  BY Invariance, <1>1, PTL DEF Spec, ContinuesClean

(* A step that changes neither the daemon nor the ledger, nor puts a         *)
(* controller up, is a halt to the host, or nothing.                         *)
LEMMA HaltOrNothing ==
  ASSUME UNCHANGED <<docker, ledger>>, controller' = "up" => controller = "up"
  PROVE  [Custody!Next]_(Custody!vars)
<1>1. UNCHANGED <<Record, Existing>>
  BY DEF Record, Existing
<1>2. CASE controller' = "up"
  BY <1>1, <1>2 DEF Custody!vars
<1>3. CASE controller' # "up"
  <2>1. Custody!Halt
    BY <1>1, <1>3 DEF Custody!Halt
  <2> QED  BY <2>1 DEF Custody!Next
<1> QED  BY <1>2, <1>3

(* The record of one name is updated when no other name's changes.           *)
LEMMA RecordUpdated ==
  ASSUME NEW n \in ResourceName, NEW v, Record'[n] = v,
         \A m \in ResourceName : m # n => Record'[m] = Record[m]
  PROVE  Record' = [Record EXCEPT ![n] = v]
<1>1. /\ Record = [m \in ResourceName |-> Record[m]]
      /\ Record' = [m \in ResourceName |-> Record'[m]]
  BY DEF Record, ResourceName
<1> QED  BY <1>1

(* One resource is taken away, or turns out not to be made, and its record   *)
(* struck or not.                                                            *)
LEMMA TakenAway ==
  ASSUME IInv, NEW e \in Env, NEW r \in Resource, UNCHANGED controller,
         Named(e, r),
         \/ docker'[e][r] = docker[e][r]
         \/ docker'[e][r] = "absent"
         \/ docker'[e][r] = "present" /\ docker[e][r] = "inflight",
         \A f \in Env, q \in Resource : <<f, q>> # <<e, r>> => docker'[f][q] = docker[f][q],
         \/ UNCHANGED ledger
         \/ ledger' = [ledger EXCEPT ![e][r] = "removed"] /\ docker'[e][r] = "absent"
  PROVE  [Custody!Next]_(Custody!vars)
<1> DEFINE n == <<e, r>>
<1>1. n \in ResourceName
  BY DEF ResourceName
<1>2. Record[n] = "recorded"
  BY <1>1 DEF Record, Named
<1>3. Record' \in {Record, [Record EXCEPT ![n] = "struck"]}
  <2>1. CASE UNCHANGED ledger
    BY <2>1 DEF Record
  <2>2. CASE ledger' = [ledger EXCEPT ![e][r] = "removed"]
    <3>1. Record'[n] = "struck"
      BY <2>2, <1>1 DEF Record, IInv, TypeOK
    <3>2. ASSUME NEW m \in ResourceName, m # n PROVE Record'[m] = Record[m]
      <4>1. m[1] \in Env /\ m[2] \in Resource /\ (m[1] # e \/ m[2] # r)
        BY <3>2 DEF ResourceName
      <4>2. ledger'[m[1]][m[2]] = ledger[m[1]][m[2]]
        BY <2>2, <4>1 DEF IInv, TypeOK
      <4> QED  BY <4>2 DEF Record
    <3> QED  BY <1>1, <3>1, <3>2, RecordUpdated
  <2> QED  BY <2>1, <2>2
<1>4. \A m \in ResourceName : m # n => (m \in Existing' <=> m \in Existing)
  <2> SUFFICES ASSUME NEW m \in ResourceName, m # n
               PROVE  m \in Existing' <=> m \in Existing
    OBVIOUS
  <2>1. m[1] \in Env /\ m[2] \in Resource /\ <<m[1], m[2]>> # <<e, r>>
    BY DEF ResourceName
  <2>2. docker'[m[1]][m[2]] = docker[m[1]][m[2]]
    BY <2>1
  <2> QED  BY <2>2 DEF Existing
<1>5. CASE docker'[e][r] = "absent"
  <2>1. Existing' = Existing \ {n}
    BY <1>1, <1>4, <1>5 DEF Existing
  <2>2. Custody!Vanish(n)
    BY <1>2, <1>3, <2>1 DEF Custody!Vanish
  <2> QED  BY <1>1, <2>2 DEF Custody!Next
<1>6. CASE docker'[e][r] # "absent"
  <2>1. Existing' = Existing
    <3>1. n \in Existing' <=> n \in Existing
      BY <1>1, <1>6 DEF Existing
    <3> QED  BY <1>4, <3>1 DEF Existing
  <2>2. UNCHANGED ledger
    BY <1>6
  <2> QED  BY <2>1, <2>2 DEF Record, Custody!vars
<1> QED  BY <1>5, <1>6

(* Removing a name takes away what exists under it.                          *)
LEMMA GoneFromDaemon ==
  ASSUME TypeOK, NEW e \in Env, NEW r \in Resource, Gone(e, r)
  PROVE  /\ docker'[e][r] = docker[e][r] \/ docker'[e][r] = "absent"
         /\ docker[e][r] # "inflight" => docker'[e][r] = "absent"
         /\ \A f \in Env, q \in Resource : <<f, q>> # <<e, r>> => docker'[f][q] = docker[f][q]
BY DEF Gone, TypeOK

(* Every step of the Run and the daemon is a step of the contract with their *)
(* host, or nothing to it.                                                   *)
LEMMA CustodyStep ==
  ASSUME EnvironmentAssumption, IInv, [Next]_vars PROVE [Custody!Next]_(Custody!vars)
<1>1. ASSUME Begin PROVE  [Custody!Next]_(Custody!vars)
  BY <1>1, HaltOrNothing DEF Begin, daemon
<1>2. ASSUME ReconcileFails PROVE  [Custody!Next]_(Custody!vars)
  BY <1>2, HaltOrNothing DEF ReconcileFails, daemon
<1>3. ASSUME ReconcileEnds PROVE  [Custody!Next]_(Custody!vars)
  <2>1. CASE controller' # "up"
    BY <2>1, <1>3, HaltOrNothing DEF ReconcileEnds, daemon
  <2>2. CASE controller' = "up"
    <3>1. \A e \in Env, r \in Resource :
            ledger[e][r] # "intent" /\ (Named(e, r) => <<e, r>> \in swept)
      BY <1>3, <2>2 DEF ReconcileEnds
    <3>2. \A e \in Env, r \in Resource : ~Named(e, r)
      BY <3>1 DEF IInv, SweepOK, Named
    <3>3. \A m \in ResourceName : Record[m] # "recorded"
      BY <3>2 DEF Record, ResourceName, Named
    <3>4. controller = "reconcile" /\ UNCHANGED <<docker, ledger>>
      BY <1>3 DEF ReconcileEnds, daemon
    <3>5. Custody!Continue
      BY <2>2, <3>3, <3>4 DEF Custody!Continue, Record, Existing
    <3> QED  BY <3>5 DEF Custody!Next
  <2> QED  BY <2>1, <2>2
<1>4. ASSUME Exit PROVE  [Custody!Next]_(Custody!vars)
  BY <1>4, HaltOrNothing DEF Exit, daemon
<1>5. ASSUME Crash PROVE  [Custody!Next]_(Custody!vars)
  BY <1>5, HaltOrNothing DEF Crash, daemon
<1>6. ASSUME NEW t \in Thread, NEW e \in Env, Open(t, e) PROVE  [Custody!Next]_(Custody!vars)
  BY <1>6, HaltOrNothing DEF Open, daemon
<1>7. ASSUME NEW e \in Env, Ready(e) PROVE  [Custody!Next]_(Custody!vars)
  BY <1>7, HaltOrNothing DEF Ready, daemon
<1>8. ASSUME NEW e \in Env, Close(e) PROVE  [Custody!Next]_(Custody!vars)
  BY <1>8, HaltOrNothing DEF Close, daemon
<1>9. ASSUME NEW e \in Env, CloseEnds(e) PROVE  [Custody!Next]_(Custody!vars)
  BY <1>9, HaltOrNothing DEF CloseEnds, daemon
<1>10. ASSUME NEW e \in Env, CloseFails(e) PROVE  [Custody!Next]_(Custody!vars)
  BY <1>10, HaltOrNothing DEF CloseFails, daemon
<1>11. ASSUME NEW e \in Env, WatcherDies(e) PROVE  [Custody!Next]_(Custody!vars)
  BY <1>11, HaltOrNothing DEF WatcherDies, daemon
<1>12. ASSUME NEW e \in Env, WindowPasses(e) PROVE  [Custody!Next]_(Custody!vars)
  BY <1>12, HaltOrNothing DEF WindowPasses, daemon
<1>13. ASSUME NEW e \in Env, RoundEnds(e) PROVE  [Custody!Next]_(Custody!vars)
  BY <1>13, HaltOrNothing DEF RoundEnds, daemon
<1>14. ASSUME NEW e \in Env, NEW r \in Resource, DaemonCreates(e, r)
      PROVE  [Custody!Next]_(Custody!vars)
  <2>1. Named(e, r)
    BY <1>14 DEF DaemonCreates, Named, IInv, LedgerOK
  <2>2. /\ docker'[e][r] = "absent" \/ (docker'[e][r] = "present" /\ docker[e][r] = "inflight")
        /\ \A f \in Env, q \in Resource : <<f, q>> # <<e, r>> => docker'[f][q] = docker[f][q]
        /\ UNCHANGED <<controller, ledger>>
    BY <1>14 DEF DaemonCreates, IInv, TypeOK
  <2> QED  BY <2>1, <2>2, TakenAway
<1>15. ASSUME NEW e \in Env, NEW r \in Resource, ReconcileRemoves(e, r)
      PROVE  [Custody!Next]_(Custody!vars)
  <2>1. Named(e, r) /\ Gone(e, r) /\ UNCHANGED controller
    BY <1>15 DEF ReconcileRemoves
  <2>2. \/ UNCHANGED ledger
        \/ ledger[e][r] = "created" /\ ledger' = [ledger EXCEPT ![e][r] = "removed"]
    BY <1>15 DEF ReconcileRemoves, Records
  <2>3. ledger[e][r] = "created" => docker[e][r] # "inflight"
    BY DEF IInv, LedgerOK
  <2> QED  BY <2>1, <2>2, <2>3, TakenAway, GoneFromDaemon DEF IInv
<1>16. ASSUME NEW e \in Env, NEW r \in Resource, WatcherRemoves(e, r)
      PROVE  [Custody!Next]_(Custody!vars)
  <2>1. Gone(e, r) /\ UNCHANGED <<controller, ledger>>
    BY <1>16 DEF WatcherRemoves
  <2>2. CASE docker[e][r] = "absent"
    <3>1. UNCHANGED docker
      BY <2>1, <2>2 DEF Gone, IInv, TypeOK
    <3> QED  BY <2>1, <3>1, HaltOrNothing
  <2>3. CASE docker[e][r] # "absent"
    <3>1. Named(e, r)
      BY <2>3 DEF IInv, TypeOK, LedgerOK, Named
    <3> QED  BY <2>1, <3>1, TakenAway, GoneFromDaemon DEF IInv
  <2> QED  BY <2>2, <2>3
<1>17. ASSUME NEW e \in Env, NEW r \in Resource, Ask(e, r)
      PROVE  [Custody!Next]_(Custody!vars)
  <2> DEFINE n == <<e, r>>
  <2>1. /\ at[e] = "open" /\ r \notin known[e]
        /\ ledger' = [ledger EXCEPT ![e][r] = "intent"]
        /\ docker' = [docker EXCEPT ![e][r] = "inflight"]
        /\ UNCHANGED controller
    BY <1>17 DEF Ask, Records, First, Missing
  <2>2. controller = "up" /\ ledger[e][r] = "none"
    BY <2>1 DEF IInv, SweepOK, FreshOK, Live
  <2>3. n \in ResourceName /\ Record[n] = "fresh"
    BY <2>2 DEF ResourceName, Record
  <2>4. /\ Record'[n] = "recorded" /\ n \in Existing'
        /\ \A m \in ResourceName : m # n =>
             Record'[m] = Record[m] /\ (m \in Existing' <=> m \in Existing)
    <3>1. ledger'[e][r] = "intent" /\ docker'[e][r] = "inflight"
      BY <2>1 DEF IInv, TypeOK
    <3>2. Record'[n] = "recorded" /\ n \in Existing'
      BY <2>3, <3>1 DEF Record, Existing
    <3>3. ASSUME NEW m \in ResourceName, m # n
          PROVE  Record'[m] = Record[m] /\ (m \in Existing' <=> m \in Existing)
      <4>1. m[1] \in Env /\ m[2] \in Resource /\ (m[1] # e \/ m[2] # r)
        BY <3>3 DEF ResourceName
      <4>2. ledger'[m[1]][m[2]] = ledger[m[1]][m[2]] /\ docker'[m[1]][m[2]] = docker[m[1]][m[2]]
        BY <2>1, <4>1 DEF IInv, TypeOK
      <4> QED  BY <4>2 DEF Record, Existing
    <3> QED  BY <3>2, <3>3
  <2>5. Record' = [Record EXCEPT ![n] = "recorded"]
    BY <2>3, <2>4, RecordUpdated
  <2>7. Existing' = Existing \cup {n}
    BY <2>3, <2>4 DEF Existing
  <2>6. Custody!Create(n)
    BY <2>1, <2>2, <2>3, <2>5, <2>7 DEF Custody!Create
  <2> QED  BY <2>3, <2>6 DEF Custody!Next
<1>18. ASSUME NEW e \in Env, NEW r \in Resource, Created(e, r)
      PROVE  [Custody!Next]_(Custody!vars)
  <2>1. /\ docker[e][r] = "present" /\ ledger' = [ledger EXCEPT ![e][r] = "created"]
        /\ UNCHANGED <<controller, docker>>
    BY <1>18 DEF Created, Records
  <2>2. ledger[e][r] \in {"intent", "created"}
    BY <2>1 DEF IInv, LedgerOK
  <2>3. ASSUME NEW m \in ResourceName PROVE Record'[m] = Record[m]
    <3>1. m[1] \in Env /\ m[2] \in Resource
      BY <2>3 DEF ResourceName
    <3>2. CASE m[1] = e /\ m[2] = r
      BY <2>1, <2>2, <3>1, <3>2 DEF Record, IInv, TypeOK
    <3>3. CASE ~(m[1] = e /\ m[2] = r)
      BY <2>1, <3>1, <3>3 DEF Record, IInv, TypeOK
    <3> QED  BY <3>2, <3>3
  <2>4. UNCHANGED <<Record, Existing>>
    BY <2>1, <2>3 DEF Record, Existing
  <2> QED  BY <2>1, <2>4 DEF Custody!vars
<1>19. ASSUME NEW e \in Env, NEW r \in Resource, CloseRemoves(e, r)
      PROVE  [Custody!Next]_(Custody!vars)
  <2>1. Gone(e, r) /\ UNCHANGED controller
    BY <1>19 DEF CloseRemoves
  <2>2. \/ UNCHANGED ledger
        \/ r \in known[e] /\ ledger' = [ledger EXCEPT ![e][r] = "removed"]
    BY <1>19 DEF CloseRemoves, Records
  <2>3. r \in known[e] => ledger[e][r] \in {"created", "removed"} /\ docker[e][r] # "inflight"
    BY DEF IInv, LedgerOK
  <2>4. CASE Named(e, r)
    BY <2>1, <2>2, <2>3, <2>4, TakenAway, GoneFromDaemon DEF IInv
  <2>5. CASE ~Named(e, r)
    <3>1. docker[e][r] = "absent" /\ UNCHANGED docker
      <4>1. docker[e][r] = "absent"
        BY <2>5 DEF Named, IInv, TypeOK, LedgerOK
      <4> QED  BY <2>1, <4>1 DEF Gone, IInv, TypeOK
    <3>2. UNCHANGED ledger
      BY <2>2, <2>3, <2>5 DEF Named, IInv, TypeOK
    <3> QED  BY <2>1, <3>1, <3>2, HaltOrNothing
  <2> QED  BY <2>4, <2>5
<1>20. ASSUME NEW e \in Env, NEW r \in Resource, CloseRemovalFails(e, r) PROVE  [Custody!Next]_(Custody!vars)
  BY <1>20, HaltOrNothing DEF CloseRemovalFails, daemon
<1>21. CASE UNCHANGED vars
  BY <1>21, HaltOrNothing DEF vars, daemon
<1> QED
  BY <1>1, <1>2, <1>3, <1>4, <1>5, <1>6, <1>7, <1>8, <1>9, <1>10, <1>11, <1>12, <1>13, <1>14, <1>15, <1>16, <1>17, <1>18, <1>19, <1>20, <1>21 DEF Next, EnvStep, ResourceStep

(* The Run keeps the contract with the host of the Docker daemon: no name is *)
(* used twice or by a controller that is not running, no record is struck of *)
(* what may still appear, and no Run continues before every one is (Ask,     *)
(* reconcile, close).                                                        *)
THEOREM Refinement == Spec => CustodyKept
<1>1. Init => Custody!Init
  BY DEF Init, Record, Existing, ResourceName, Custody!Init
<1>2. IInv /\ [Next]_vars => [Custody!Next]_(Custody!vars)
  BY EnvironmentAssumption, CustodyStep
<1> QED  BY Invariance, <1>1, <1>2, PTL DEF Spec, CustodyKept, Custody!Spec
=============================================================================
