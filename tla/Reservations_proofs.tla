------------------------ MODULE Reservations_proofs ------------------------
(* Theorems of Reservations, for any number of stages and checks and any     *)
(* limits.                                                                   *)

EXTENDS Reservations, SumTheorems, TLAPS

(* Rows are made one after the other; a thread that calls owns an open row   *)
(* of its own; only a dead controller leaves one without a thread.           *)
RowsOK ==
  /\ \A i \in Row : i > made => state[i] = "none"
  /\ controller = "down" => \A k \in Key : pc[k] = "idle"
  /\ \A k \in Key : pc[k] \in Calling => row[k] \in 1..made /\ state[row[k]] = "open"
  /\ OpenRowsAreOwned

(* A call that is to be settled has an outcome; a failure is recorded as     *)
(* what it was.                                                              *)
OutcomesOK ==
  \A k \in Key :
    /\ pc[k] \in {"unused", "settling"} => result[k] \in Result \ {"none"}
    /\ pc[k] = "failing" => result[k] \in Failure

(* A session is one of a call that was counted, and counted calls are        *)
(* bounded.                                                                  *)
CountsOK ==
  \A k \in Key \ Check :
    /\ calls[k]["output"] <= Revisions[k] + 1 /\ calls[k]["transport"] <= Retries[k]
    /\ sessions[k] <= calls[k]["output"] + calls[k]["transport"]
    /\ pc[k] = "calling" => sessions[k] < calls[k]["output"] + calls[k]["transport"]

(* A thread that is about to retry a capacity failure has waited for it.     *)
PaceOK ==
  \A k \in Key :
    pc[k] \in {"enter", "admit"} /\ act[k] = "transport" /\ failed[k] = "capacity" => due[k]

(* The Inspector knows measured settlements only.                            *)
KnownOK == \A i \in known : i \in Row /\ state[i] = "measured"

(* A row that is not made yet charges nothing.                               *)
UnmadeOK == \A i \in Row : i > made => charge[i] = 0

IInv == TypeOK /\ RowsOK /\ OutcomesOK /\ CountsOK /\ PaceOK /\ KnownOK /\ UnmadeOK /\ BudgetHolds

USE DEF Row, Action, Failure, Closed

(* The locals of the threads keep their types when a stage is over, when a   *)
(* thread moves and when it calls again.                                     *)
ThreadOK ==
  /\ pc \in [Key -> Place] /\ act \in [Key -> Action] /\ left \in [Key -> Nat]
  /\ row \in [Key -> 0..Attempts] /\ result \in [Key -> Result]

LEMMA Stages ==
  ASSUME ReservationAssumption, ThreadOK, NEW k \in Key, NEW p \in {"idle", "ended", "refused"},
         StageOver(k, p)
  PROVE  ThreadOK'
<1>1. p \in Place /\ "output" \in Action /\ "none" \in Result /\ 0 \in 0..Attempts
  BY DEF Place, Result, ReservationAssumption
<1> QED
  BY <1>1 DEF StageOver, Goto, ThreadOK

LEMMA Moves ==
  ASSUME ThreadOK, NEW k \in Key, NEW p \in Place, Goto(k, p)
  PROVE  pc' \in [Key -> Place]
BY DEF Goto, ThreadOK

LEMMA Ending ==
  ASSUME ThreadOK, NEW k \in Key, NEW p \in Place, NEW how \in Result, Ends(k, p, how)
  PROVE  pc' \in [Key -> Place] /\ result' \in [Key -> Result]
BY DEF Ends, Goto, ThreadOK

LEMMA Again ==
  ASSUME ThreadOK, NEW k \in Key, CallsAgain(k)
  PROVE  ThreadOK'
<1>1. "enter" \in Place /\ "transport" \in Action
  BY DEF Place
<1> QED
  BY <1>1 DEF CallsAgain, Goto, ThreadOK

(* Every step keeps the types; a call that is admitted has a row to itself.  *)
LEMMA TypeStep ==
  ASSUME ReservationAssumption, TypeOK, RowsOK, OutcomesOK, [Next]_vars PROVE TypeOK'
<1> USE DEF TypeOK, journal, table, thread, ThreadOK
<1>a. ThreadOK
  OBVIOUS
<1>p. {"idle", "enter", "admit", "refused", "calling", "running", "unused", "settling",
       "rejecting", "failing", "retry", "waiting", "ended"} = Place
  BY DEF Place
<1>r. {"none", "ok", "invalid", "stopped", "error", "transport", "capacity"} = Result
  BY DEF Result
<1>1. ASSUME Resume PROVE TypeOK'
  BY <1>1 DEF Resume
<1>2. ASSUME Exit \/ Crash PROVE TypeOK'
  <2>1. "idle" \in Place /\ "none" \in Result /\ 0 \in 0..Attempts
    BY <1>p, <1>r
  <2>2. Leave
    BY <1>2 DEF Exit, Crash
  <2> QED
    BY <2>1, <2>2 DEF Leave
<1>3. ASSUME Stop PROVE TypeOK'
  BY <1>3 DEF Stop
<1>4. ASSUME Redeliver PROVE TypeOK'
  BY <1>4 DEF Redeliver, Settled
<1>5. ASSUME ReadEvents PROVE TypeOK'
  BY <1>5 DEF ReadEvents
<1>6. ASSUME NEW k \in Key, Begin(k) PROVE TypeOK'
  <2>1. pc' \in [Key -> Place]
    BY <1>6, <1>a, <1>p, Moves DEF Begin
  <2>2. left' \in [Key -> Nat]
    BY <1>6 DEF Begin, ReservationAssumption
  <2> QED
    BY <1>6, <2>1, <2>2 DEF Begin
<1>7. ASSUME NEW k \in Key, Elapse(k) PROVE TypeOK'
  BY <1>7 DEF Elapse
<1>8. ASSUME NEW k \in Key, Enter(k) PROVE TypeOK'
  <2>1. CASE Fails(k)
    BY <1>8, <1>a, <2>1, Stages DEF Enter, Fails, Barred
  <2>2. CASE ~Fails(k)
    <3>1. pc' \in [Key -> Place]
      BY <1>8, <1>a, <1>p, <2>2, Moves DEF Enter
    <3>2. left' \in [Key -> Nat]
      <4>1. left[k] # 0 /\ left' = [left EXCEPT ![k] = left[k] - 1]
        BY <1>8, <2>2 DEF Enter
      <4>2. left[k] - 1 \in Nat
        BY <4>1
      <4> QED
        BY <4>1, <4>2
    <3> QED
      BY <1>8, <2>2, <3>1, <3>2 DEF Enter, Barred
  <2> QED
    BY <2>1, <2>2
<1>9. ASSUME NEW k \in Key, AdmitStopped(k) \/ Refuse(k) PROVE TypeOK'
  BY <1>9, <1>a, Stages DEF AdmitStopped, Refuse, Fails
<1>10. ASSUME NEW k \in Key, StopRefused(k) PROVE TypeOK'
  BY <1>10, <1>a, <1>p, Moves DEF StopRefused, locals
<1>11. ASSUME NEW k \in Key, Admit(k) PROVE TypeOK'
  <2>1. calls' \in [Key -> [Action -> Nat]]
    <3>1. calls[k] \in [Action -> Nat] /\ act[k] \in Action
      OBVIOUS
    <3>2. [calls[k] EXCEPT ![act[k]] = @ + 1] \in [Action -> Nat]
      <4>1. calls[k][act[k]] + 1 \in Nat
        BY <3>1
      <4> QED
        BY <3>1, <4>1
    <3>3. calls' = calls \/ calls' = [calls EXCEPT ![k] = [calls[k] EXCEPT ![act[k]] = @ + 1]]
      BY <1>11 DEF Admit, Insert
    <3> QED
      BY <3>2, <3>3
  <2>2. Cost(k) \in Nat
    BY DEF Cost, ReservationAssumption
  <2>3. made' \in 0..Attempts /\ charge' \in [Row -> Nat]
    <3>1. made < Attempts /\ made' = made + 1
          /\ charge' = [charge EXCEPT ![made + 1] = Cost(k)]
      BY <1>11 DEF Admit, Insert
    <3>2. made' \in 0..Attempts
      BY <3>1 DEF ReservationAssumption
    <3>3. charge' \in [Row -> Nat]
      BY <2>2, <3>1
    <3> QED
      BY <3>2, <3>3
  <2>4. row' \in [Key -> 0..Attempts]
    BY <1>11, <2>3 DEF Admit, Insert
  <2>5. pc' \in [Key -> Place]
    BY <1>11, <1>a, <1>p, Moves DEF Admit, Insert
  <2>6. state' \in [Row -> {"none", "open"} \cup Closed]
    BY <1>11 DEF Admit, Insert
  <2>7. due' \in [Key -> BOOLEAN]
    BY <1>11 DEF Admit, Insert
  <2> QED
    BY <1>11, <2>1, <2>3, <2>4, <2>5, <2>6, <2>7 DEF Admit, Insert
<1>12. ASSUME NEW k \in Key, PreflightFails(k) PROVE TypeOK'
  <2>1. pc' \in [Key -> Place] /\ result' \in [Key -> Result]
    BY <1>12, <1>a, <1>p, <1>r, Ending DEF PreflightFails
  <2> QED
    BY <1>12, <2>1 DEF PreflightFails
<1>13. ASSUME NEW k \in Key, Launch(k) PROVE TypeOK'
  <2>1. pc' \in [Key -> Place] /\ result' \in [Key -> Result]
    BY <1>13, <1>a, <1>p, <1>r, Ending, Moves DEF Launch
  <2>2. sessions' \in [Key -> Nat]
    <3>1. sessions[k] + 1 \in Nat
      OBVIOUS
    <3> QED
      BY <1>13, <3>1 DEF Launch
  <2>3. stopped' \in BOOLEAN
    BY <1>13 DEF Launch
  <2> QED
    BY <1>13, <2>1, <2>2, <2>3 DEF Launch
<1>14. ASSUME NEW k \in Key, Reply(k) PROVE TypeOK'
  <2>1. pc' \in [Key -> Place] /\ result' \in [Key -> Result]
    BY <1>14, <1>a, <1>p, <1>r, Ending DEF Reply
  <2> QED
    BY <1>14, <2>1 DEF Reply, Barred
<1>15. ASSUME NEW k \in Key, Settle(k) PROVE TypeOK'
  <2>1. PICK u \in Used(k) : Settled(row[k], u)
    BY <1>15 DEF Settle
  <2>2. row[k] \in Row /\ (u = Unknown \/ u \in Nat)
    BY <1>15, <2>1 DEF Settle, At, RowsOK, Calling, Used, ReservationAssumption
  <2>3. state' \in [Row -> {"none", "open"} \cup Closed] /\ charge' \in [Row -> Nat]
    <3>1. /\ state' = state \/ state' = [state EXCEPT ![row[k]] = Closing(u)]
          /\ charge' = charge \/ (u # Unknown /\ charge' = [charge EXCEPT ![row[k]] = u])
      BY <2>1 DEF Settled
    <3>2. Closing(u) \in Closed
      BY DEF Closing
    <3>3. state' \in [Row -> {"none", "open"} \cup Closed]
      BY <2>2, <3>1, <3>2
    <3>4. charge' \in [Row -> Nat]
      BY <2>2, <3>1
    <3> QED
      BY <3>3, <3>4
  <2>4. overrun' \in Nat
    <3>1. charge[row[k]] \in Nat
      BY <2>2
    <3>2. CASE u = Unknown
      BY <2>1, <3>2 DEF Settled
    <3>3. CASE u # Unknown
      <4>1. u \in Nat /\ Excess(u, charge[row[k]]) \in Nat
        BY <2>2, <3>1, <3>3 DEF Excess
      <4>2. CASE state[row[k]] = "open"
        <5>1. overrun' = overrun + Excess(u, charge[row[k]])
          BY <2>1, <3>3, <4>2 DEF Settled
        <5> QED
          BY <3>1, <4>1, <5>1
      <4>3. CASE state[row[k]] # "open"
        BY <2>1, <4>3 DEF Settled
      <4> QED
        BY <4>2, <4>3
    <3> QED
      BY <3>2, <3>3
  <2>5. ThreadOK'
    <3>1. result[k] \in Result /\ "idle" \in Place /\ "rejecting" \in Place /\ "failing" \in Place
      BY <1>p
    <3>2. CASE After[result[k]] \in {"idle", "ended"}
      BY <1>15, <1>a, <3>2, Stages DEF Settle
    <3>3. CASE After[result[k]] \notin {"idle", "ended"}
      <4>1. Goto(k, After[result[k]]) /\ row' = [row EXCEPT ![k] = 0] /\ UNCHANGED <<act, left, result>>
        BY <1>15, <3>3 DEF Settle
      <4>2. After[result[k]] \in Place
        <5>1. result[k] \in Result \ {"none"}
          BY <1>15 DEF Settle, At, OutcomesOK
        <5> QED
          BY <5>1, <1>p, <1>r DEF After
      <4> QED
        BY <1>a, <4>1, <4>2, Moves, ReservationAssumption DEF ReservationAssumption
    <3> QED
      BY <3>2, <3>3
  <2> QED
    BY <1>15, <2>3, <2>4, <2>5 DEF Settle
<1>16. ASSUME NEW k \in Key, RecordRejected(k) PROVE TypeOK'
  <2>1. stopped' \in BOOLEAN
    BY <1>16 DEF RecordRejected
  <2>2. failed' \in [Key -> {"none", "rejected"} \cup Failure]
    BY <1>16 DEF RecordRejected
  <2>3. ThreadOK'
    <3>1. CASE Fails(k)
      BY <1>a, <3>1, Stages DEF Fails
    <3>2. CASE ~Fails(k)
      <4>1. /\ Goto(k, "enter") /\ UNCHANGED <<left, row>>
            /\ act' = [act EXCEPT ![k] = "output"] /\ result' = [result EXCEPT ![k] = "none"]
        BY <1>16, <3>2 DEF RecordRejected
      <4>2. "enter" \in Place /\ "none" \in Result
        BY <1>p, <1>r
      <4> QED
        BY <1>a, <4>1, <4>2, Moves
    <3> QED
      BY <3>1, <3>2
  <2> QED
    BY <1>16, <2>1, <2>2, <2>3 DEF RecordRejected
<1>17. ASSUME NEW k \in Key, RecordFailure(k) PROVE TypeOK'
  <2>1. pc' \in [Key -> Place]
    BY <1>17, <1>a, <1>p, Moves DEF RecordFailure
  <2>2. "none" \in Result
    BY <1>r
  <2> QED
    BY <1>17, <2>1, <2>2 DEF RecordFailure, At, OutcomesOK
<1>18. ASSUME NEW k \in Key, Retry(k) PROVE TypeOK'
  <2>1. CASE Fails(k)
    BY <1>18, <1>a, <2>1, Stages DEF Retry, Fails, Barred
  <2>2. CASE CallsAgain(k)
    BY <1>18, <1>a, <2>2, Again DEF Retry, Barred
  <2>3. CASE Goto(k, "waiting") /\ UNCHANGED locals
    BY <1>18, <1>a, <1>p, <2>3, Moves DEF Retry, Barred, locals
  <2> QED
    BY <1>18, <2>1, <2>2, <2>3 DEF Retry
<1>19. ASSUME NEW k \in Key, WaitEnds(k) PROVE TypeOK'
  <2>1. CASE Fails(k)
    BY <1>19, <1>a, <2>1, Stages DEF WaitEnds, Fails, Barred
  <2>2. CASE CallsAgain(k)
    BY <1>19, <1>a, <2>2, Again DEF WaitEnds, Barred
  <2> QED
    BY <1>19, <2>1, <2>2 DEF WaitEnds
<1>20. CASE UNCHANGED vars
  BY <1>20 DEF vars
<1> QED
  BY <1>1, <1>2, <1>3, <1>4, <1>5, <1>6, <1>7, <1>8, <1>9, <1>10, <1>11, <1>12, <1>13,
     <1>14, <1>15, <1>16, <1>17, <1>18, <1>19, <1>20 DEF Next, Step

(* A thread that only moves among the places of a call, or among those       *)
(* without one, leaves every row with its owner.                             *)
LEMMA QuietRows ==
  ASSUME RowsOK, UNCHANGED <<controller, made, state>>,
         controller = "down" => pc' = pc,
         \A k \in Key : /\ pc'[k] \in Calling <=> pc[k] \in Calling
                        /\ pc[k] \in Calling => row'[k] = row[k]
  PROVE  RowsOK'
BY DEF RowsOK, OpenRowsAreOwned

(* The same, when one thread moves.                                          *)
LEMMA QuietMove ==
  ASSUME TypeOK, RowsOK, NEW k \in Key, NEW p \in Place, Goto(k, p), controller = "up",
         p \in Calling <=> pc[k] \in Calling,
         UNCHANGED <<controller, made, state>>,
         row' = row \/ (pc[k] \notin Calling /\ row' = [row EXCEPT ![k] = 0])
  PROVE  RowsOK'
<1>1. \A l \in Key : /\ pc'[l] \in Calling <=> pc[l] \in Calling
                     /\ pc[l] \in Calling => row'[l] = row[l]
  BY DEF Goto, TypeOK
<1> QED
  BY <1>1, QuietRows

(* A step makes one row for the thread that asks, closes the row of the      *)
(* thread that settles, or leaves the rows alone; a resumed controller finds *)
(* no thread and leaves no open row.                                         *)
LEMMA RowsStep ==
  ASSUME ReservationAssumption, TypeOK, RowsOK, OutcomesOK, [Next]_vars PROVE RowsOK'
<1> USE DEF journal, table, thread
<1>p. {"idle", "enter", "admit", "refused", "calling", "running", "unused", "settling",
       "rejecting", "failing", "retry", "waiting", "ended"} = Place
  BY DEF Place
<1>1. ASSUME Resume PROVE RowsOK'
  <2>1. \A i \in Row : state'[i] # "open"
    BY <1>1 DEF Resume
  <2>2. \A k \in Key : pc'[k] = "idle"
    BY <1>1 DEF Resume, RowsOK
  <2>3. \A i \in Row : i > made' => state'[i] = "none"
    BY <1>1 DEF Resume, RowsOK
  <2>4. controller' = "up"
    BY <1>1 DEF Resume
  <2> QED
    BY <2>1, <2>2, <2>3, <2>4 DEF RowsOK, OpenRowsAreOwned, Calling
<1>2. ASSUME Exit \/ Crash PROVE RowsOK'
  <2>1. controller' = "down" /\ \A k \in Key : pc'[k] = "idle"
    BY <1>2 DEF Exit, Crash, Leave
  <2>2. UNCHANGED <<made, state>>
    BY <1>2 DEF Exit, Crash, Leave
  <2> QED
    BY <2>1, <2>2 DEF RowsOK, OpenRowsAreOwned, Calling
<1>3. ASSUME Stop PROVE RowsOK'
  BY <1>3, QuietRows DEF Stop
<1>4. ASSUME Redeliver PROVE RowsOK'
  BY <1>4, QuietRows DEF Redeliver, Settled
<1>5. ASSUME ReadEvents PROVE RowsOK'
  BY <1>5, QuietRows DEF ReadEvents
<1>6. ASSUME NEW k \in Key, Begin(k) PROVE RowsOK'
  BY <1>6, <1>p, QuietMove DEF Begin, At, Calling
<1>7. ASSUME NEW k \in Key, Elapse(k) PROVE RowsOK'
  BY <1>7, QuietRows DEF Elapse
<1>8. ASSUME NEW k \in Key, Enter(k) PROVE RowsOK'
  BY <1>8, <1>p, QuietMove DEF Enter, At, Calling, Fails, StageOver
<1>9. ASSUME NEW k \in Key, AdmitStopped(k) \/ Refuse(k) PROVE RowsOK'
  BY <1>9, <1>p, QuietMove DEF AdmitStopped, Refuse, At, Calling, Fails, StageOver
<1>10. ASSUME NEW k \in Key, StopRefused(k) PROVE RowsOK'
  BY <1>10, <1>p, QuietMove DEF StopRefused, locals, At, Calling
<1>11. ASSUME NEW k \in Key, Admit(k) PROVE RowsOK'
  <2>1. /\ pc[k] = "admit" /\ pc' = [pc EXCEPT ![k] = "calling"] /\ UNCHANGED controller
        /\ made' = made + 1 /\ row' = [row EXCEPT ![k] = made + 1]
        /\ state' = [state EXCEPT ![made + 1] = "open"] /\ controller = "up"
    BY <1>11 DEF Admit, Insert, At, Goto
  <2>2. made \in Nat /\ made + 1 \in Row
    BY <1>11 DEF Admit, TypeOK, ReservationAssumption
  <2>3. \A i \in Row : i > made' => state'[i] = "none"
    BY <2>1, <2>2 DEF RowsOK, TypeOK
  <2>4. pc'[k] = "calling" /\ row'[k] = made + 1 /\ state'[made + 1] = "open"
    BY <2>1, <2>2 DEF TypeOK
  <2>5. \A l \in Key \ {k} : pc'[l] = pc[l] /\ row'[l] = row[l]
    BY <2>1 DEF TypeOK
  <2>6. \A l \in Key \ {k} : pc'[l] \in Calling =>
          row'[l] \in 1..made /\ row'[l] # made + 1 /\ state'[row'[l]] = "open"
    <3> TAKE l \in Key \ {k}
    <3> HAVE pc'[l] \in Calling
    <3>1. row[l] \in 1..made /\ state[row[l]] = "open"
      BY <2>5 DEF RowsOK
    <3> QED
      BY <2>1, <2>2, <2>5, <3>1 DEF TypeOK, ReservationAssumption
  <2>7. \A l \in Key : pc'[l] \in Calling => row'[l] \in 1..made' /\ state'[row'[l]] = "open"
    BY <2>1, <2>2, <2>4, <2>6
  <2>8. \A i \in Row : state'[i] = "open" => \E l \in Key : pc'[l] \in Calling /\ row'[l] = i
    <3> TAKE i \in Row
    <3> HAVE state'[i] = "open"
    <3>1. CASE i = made + 1
      BY <2>4, <3>1 DEF Calling
    <3>2. CASE i # made + 1
      <4>1. state[i] = "open"
        BY <2>1, <2>2, <3>2 DEF TypeOK
      <4>2. PICK l \in Key : pc[l] \in Calling /\ row[l] = i
        BY <2>1, <4>1 DEF RowsOK, OpenRowsAreOwned
      <4>3. l # k
        BY <2>1, <4>2 DEF Calling
      <4> QED
        BY <2>5, <4>2, <4>3
    <3> QED
      BY <3>1, <3>2
  <2>9. \A l, m \in Key :
          pc'[l] \in Calling /\ pc'[m] \in Calling /\ row'[l] = row'[m] => l = m
    BY <2>1, <2>4, <2>5, <2>6 DEF RowsOK, OpenRowsAreOwned
  <2> QED
    BY <2>1, <2>3, <2>7, <2>8, <2>9 DEF RowsOK, OpenRowsAreOwned
<1>12. ASSUME NEW k \in Key, PreflightFails(k) PROVE RowsOK'
  BY <1>12, <1>p, QuietMove DEF PreflightFails, Ends, At, Calling
<1>13. ASSUME NEW k \in Key, Launch(k) PROVE RowsOK'
  BY <1>13, <1>p, QuietMove DEF Launch, Ends, At, Calling
<1>14. ASSUME NEW k \in Key, Reply(k) PROVE RowsOK'
  BY <1>14, <1>p, QuietMove DEF Reply, Ends, At, Calling
<1>15. ASSUME NEW k \in Key, Settle(k) PROVE RowsOK'
  <2>1. controller = "up" /\ pc[k] \in {"unused", "settling"} /\ UNCHANGED <<controller, made>>
    BY <1>15 DEF Settle, At
  <2>2. PICK u \in Used(k) : Settled(row[k], u)
    BY <1>15 DEF Settle
  <2>3. row[k] \in 1..made /\ row[k] \in Row /\ state[row[k]] = "open"
    BY <2>1 DEF RowsOK, Calling, TypeOK, ReservationAssumption
  <2>4. state' = [state EXCEPT ![row[k]] = Closing(u)] /\ Closing(u) \notin {"none", "open"}
    BY <2>2, <2>3 DEF Settled, Closing
  <2>5. row' = [row EXCEPT ![k] = 0] /\ pc' = [pc EXCEPT ![k] = After[result[k]]]
    BY <1>15 DEF Settle, StageOver, Goto
  <2>6. After[result[k]] \notin Calling
    <3>1. result[k] \in Result \ {"none"}
      BY <2>1 DEF OutcomesOK
    <3> QED
      BY <3>1 DEF After, Result, Calling
  <2>7. pc'[k] \notin Calling
    BY <2>5, <2>6 DEF TypeOK
  <2>8. \A l \in Key \ {k} : pc'[l] = pc[l] /\ row'[l] = row[l]
    BY <2>5 DEF TypeOK
  <2>9. \A i \in Row \ {row[k]} : state'[i] = state[i]
    BY <2>4 DEF TypeOK
  <2>10. state'[row[k]] # "open" /\ ~(row[k] > made)
    BY <2>3, <2>4 DEF TypeOK, ReservationAssumption
  <2>11. \A i \in Row : i > made' => state'[i] = "none"
    BY <2>1, <2>9, <2>10 DEF RowsOK
  <2>12. \A l \in Key : pc'[l] \in Calling => row'[l] \in 1..made' /\ state'[row'[l]] = "open"
    <3> TAKE l \in Key
    <3> HAVE pc'[l] \in Calling
    <3>1. l # k /\ pc[l] \in Calling /\ row'[l] = row[l]
      BY <2>7, <2>8
    <3>2. row[l] \in 1..made /\ state[row[l]] = "open" /\ row[l] # row[k] /\ row[l] \in Row
      <4>1. row[l] \in 1..made /\ state[row[l]] = "open"
        BY <2>1, <3>1 DEF RowsOK
      <4>2. row[l] # row[k]
        BY <2>1, <3>1 DEF RowsOK, OpenRowsAreOwned, Calling
      <4>3. row[l] \in Row
        BY <4>1 DEF TypeOK, ReservationAssumption
      <4> QED
        BY <4>1, <4>2, <4>3
    <3> QED
      BY <2>1, <2>9, <3>1, <3>2
  <2>13. \A i \in Row : state'[i] = "open" => \E l \in Key : pc'[l] \in Calling /\ row'[l] = i
    <3> TAKE i \in Row
    <3> HAVE state'[i] = "open"
    <3>1. i # row[k] /\ state[i] = "open"
      BY <2>9, <2>10
    <3>2. PICK l \in Key : pc[l] \in Calling /\ row[l] = i
      BY <2>1, <3>1 DEF RowsOK, OpenRowsAreOwned
    <3> QED
      BY <2>8, <3>1, <3>2
  <2>14. \A l, m \in Key :
           pc'[l] \in Calling /\ pc'[m] \in Calling /\ row'[l] = row'[m] => l = m
    BY <2>1, <2>7, <2>8 DEF RowsOK, OpenRowsAreOwned
  <2> QED
    BY <2>1, <2>11, <2>12, <2>13, <2>14 DEF RowsOK, OpenRowsAreOwned
<1>16. ASSUME NEW k \in Key, RecordRejected(k) PROVE RowsOK'
  BY <1>16, <1>p, QuietMove DEF RecordRejected, At, Calling, Fails, StageOver
<1>17. ASSUME NEW k \in Key, RecordFailure(k) PROVE RowsOK'
  BY <1>17, <1>p, QuietMove DEF RecordFailure, At, Calling
<1>18. ASSUME NEW k \in Key, Retry(k) PROVE RowsOK'
  BY <1>18, <1>p, QuietMove DEF Retry, CallsAgain, locals, At, Calling, Fails, StageOver
<1>19. ASSUME NEW k \in Key, WaitEnds(k) PROVE RowsOK'
  BY <1>19, <1>p, QuietMove DEF WaitEnds, CallsAgain, At, Calling, Fails, StageOver
<1>20. CASE UNCHANGED vars
  BY <1>20, QuietRows DEF vars
<1> QED
  BY <1>1, <1>2, <1>3, <1>4, <1>5, <1>6, <1>7, <1>8, <1>9, <1>10, <1>11, <1>12, <1>13,
     <1>14, <1>15, <1>16, <1>17, <1>18, <1>19, <1>20 DEF Next, Step

(* A call ends with an outcome before it is settled, and a failure keeps its *)
(* own until it is recorded.                                                 *)
LEMMA OutcomesStep ==
  ASSUME ReservationAssumption, TypeOK, RowsOK, OutcomesOK, [Next]_vars PROVE OutcomesOK'
<1> USE DEF journal, table, thread
<1>r. {"none", "ok", "invalid", "stopped", "error", "transport", "capacity"} = Result
  BY DEF Result
<1>t. pc \in [Key -> Place] /\ result \in [Key -> Result]
  BY DEF TypeOK
<1>m. ASSUME NEW k \in Key, NEW p \in {"idle", "enter", "admit", "refused", "calling",
             "running", "rejecting", "retry", "waiting", "ended"},
             Goto(k, p), result' = [result EXCEPT ![k] = "none"] \/ result' = result
      PROVE  OutcomesOK'
  BY <1>t, <1>m DEF OutcomesOK, Goto
<1>e. ASSUME NEW k \in Key, NEW p \in {"unused", "settling"}, NEW how \in Result \ {"none"},
             Ends(k, p, how)
      PROVE  OutcomesOK'
  BY <1>t, <1>e DEF OutcomesOK, Ends, Goto
<1>1. ASSUME UNCHANGED <<pc, result>> PROVE OutcomesOK'
  BY <1>1 DEF OutcomesOK
<1>2. ASSUME Resume \/ Stop \/ Redeliver \/ ReadEvents \/ UNCHANGED vars PROVE OutcomesOK'
  BY <1>1, <1>2 DEF Resume, Stop, Redeliver, ReadEvents, vars
<1>3. ASSUME Exit \/ Crash PROVE OutcomesOK'
  BY <1>3 DEF Exit, Crash, Leave, OutcomesOK
<1>4. ASSUME NEW k \in Key, Begin(k) \/ Enter(k) PROVE OutcomesOK'
  BY <1>4, <1>m DEF Begin, Enter, Fails, StageOver
<1>5. ASSUME NEW k \in Key, Elapse(k) PROVE OutcomesOK'
  BY <1>1, <1>5 DEF Elapse
<1>6. ASSUME NEW k \in Key, AdmitStopped(k) \/ Refuse(k) \/ StopRefused(k) PROVE OutcomesOK'
  BY <1>6, <1>m DEF AdmitStopped, Refuse, StopRefused, Fails, StageOver, locals
<1>7. ASSUME NEW k \in Key, Admit(k) PROVE OutcomesOK'
  BY <1>7, <1>m DEF Admit, Insert
<1>8. ASSUME NEW k \in Key, PreflightFails(k) PROVE OutcomesOK'
  BY <1>8, <1>e, <1>r DEF PreflightFails
<1>9. ASSUME NEW k \in Key, Launch(k) PROVE OutcomesOK'
  BY <1>9, <1>e, <1>m, <1>r DEF Launch
<1>10. ASSUME NEW k \in Key, Reply(k) PROVE OutcomesOK'
  BY <1>10, <1>e, <1>r DEF Reply
<1>11. ASSUME NEW k \in Key, Settle(k) PROVE OutcomesOK'
  <2>1. result[k] \in Result \ {"none"}
    BY <1>11 DEF Settle, At, OutcomesOK
  <2>2. CASE After[result[k]] \in {"idle", "ended"}
    BY <1>11, <1>m, <2>2 DEF Settle, StageOver
  <2>3. CASE After[result[k]] \notin {"idle", "ended"}
    <3>1. Goto(k, After[result[k]]) /\ UNCHANGED result
      BY <1>11, <2>3 DEF Settle
    <3>2. After[result[k]] \in {"rejecting", "failing"}
      BY <1>r, <2>1, <2>3 DEF After
    <3>3. After[result[k]] = "failing" => result[k] \in Failure
      BY <1>r, <2>1 DEF After
    <3> QED
      BY <1>t, <3>1, <3>2, <3>3 DEF Goto, OutcomesOK
  <2> QED
    BY <2>2, <2>3
<1>12. ASSUME NEW k \in Key, RecordRejected(k) \/ RecordFailure(k) PROVE OutcomesOK'
  BY <1>12, <1>m DEF RecordRejected, RecordFailure, Fails, StageOver
<1>13. ASSUME NEW k \in Key, Retry(k) \/ WaitEnds(k) PROVE OutcomesOK'
  BY <1>13, <1>m DEF Retry, WaitEnds, CallsAgain, Fails, StageOver, locals
<1> QED
  BY <1>2, <1>3, <1>4, <1>5, <1>6, <1>7, <1>8, <1>9, <1>10, <1>11, <1>12, <1>13
     DEF Next, Step

(* A call is counted when it is admitted and launches one session at most.   *)
LEMMA CountsStep ==
  ASSUME ReservationAssumption, TypeOK, OutcomesOK, CountsOK, [Next]_vars PROVE CountsOK'
<1> USE DEF journal, table, thread
<1>t. pc \in [Key -> Place] /\ sessions \in [Key -> Nat] /\ calls \in [Key -> [Action -> Nat]]
  BY DEF TypeOK
<1>m. ASSUME UNCHANGED <<calls, sessions>>,
             \A l \in Key : pc'[l] = "calling" => pc[l] = "calling"
      PROVE  CountsOK'
  BY <1>m DEF CountsOK
<1>g. ASSUME NEW k \in Key, NEW p, Goto(k, p), p # "calling", UNCHANGED <<calls, sessions>>
      PROVE  CountsOK'
  BY <1>t, <1>g, <1>m DEF Goto
<1>1. ASSUME Resume \/ Stop \/ Redeliver \/ ReadEvents \/ UNCHANGED vars PROVE CountsOK'
  BY <1>1, <1>m DEF Resume, Stop, Redeliver, ReadEvents, vars
<1>2. ASSUME Exit \/ Crash PROVE CountsOK'
  BY <1>2, <1>m DEF Exit, Crash, Leave
<1>3. ASSUME NEW k \in Key, Elapse(k) PROVE CountsOK'
  BY <1>3, <1>m DEF Elapse
<1>4. ASSUME NEW k \in Key, Begin(k) \/ Enter(k) PROVE CountsOK'
  BY <1>4, <1>g DEF Begin, Enter, Fails, StageOver
<1>5. ASSUME NEW k \in Key, AdmitStopped(k) \/ Refuse(k) \/ StopRefused(k) PROVE CountsOK'
  BY <1>5, <1>g DEF AdmitStopped, Refuse, StopRefused, Fails, StageOver
<1>6. ASSUME NEW k \in Key, Admit(k) PROVE CountsOK'
  <2>1. CASE k \in Check
    BY <1>t, <1>6, <2>1 DEF Admit, Insert, Goto, CountsOK
  <2>2. CASE k \notin Check
    <3>1. calls' = [calls EXCEPT ![k][act[k]] = @ + 1] /\ UNCHANGED sessions
      BY <1>6, <2>2 DEF Admit, Insert
    <3>2. act[k] \in Action /\ Revisions[k] \in Nat /\ Retries[k] \in Nat
      BY DEF TypeOK, ReservationAssumption
    <3>3. ~(calls[k][act[k]] >= IF act[k] = "output" THEN Revisions[k] + 1 ELSE Retries[k])
      BY <1>6, <2>2 DEF Admit, Exhausted
    <3>4. \A l \in Key \ {k} : calls'[l] = calls[l] /\ pc'[l] = pc[l]
      BY <1>t, <1>6, <3>1 DEF Admit, Insert, Goto
    <3>5. /\ calls'[k]["output"] \in Nat /\ calls'[k]["output"] <= Revisions[k] + 1
          /\ calls'[k]["transport"] \in Nat /\ calls'[k]["transport"] <= Retries[k]
          /\ calls'[k]["output"] + calls'[k]["transport"]
               = calls[k]["output"] + calls[k]["transport"] + 1
      <4>1. CASE act[k] = "output"
        <5>1. /\ calls'[k]["output"] = calls[k]["output"] + 1
              /\ calls'[k]["transport"] = calls[k]["transport"]
          BY <1>t, <3>1, <4>1
        <5>2. calls[k]["output"] \in Nat /\ calls[k]["transport"] \in Nat
          BY <1>t
        <5> QED
          BY <2>2, <3>2, <3>3, <4>1, <5>1, <5>2 DEF CountsOK
      <4>2. CASE act[k] = "transport"
        <5>1. /\ calls'[k]["output"] = calls[k]["output"]
              /\ calls'[k]["transport"] = calls[k]["transport"] + 1
          BY <1>t, <3>1, <4>2
        <5>2. calls[k]["output"] \in Nat /\ calls[k]["transport"] \in Nat
          BY <1>t
        <5> QED
          BY <2>2, <3>2, <3>3, <4>2, <5>1, <5>2 DEF CountsOK
      <4> QED
        BY <3>2, <4>1, <4>2
    <3> QED
      BY <1>t, <2>2, <3>1, <3>4, <3>5 DEF CountsOK
  <2> QED
    BY <2>1, <2>2
<1>7. ASSUME NEW k \in Key, PreflightFails(k) \/ Reply(k) PROVE CountsOK'
  BY <1>7, <1>g DEF PreflightFails, Reply, Ends
<1>8. ASSUME NEW k \in Key, Launch(k) PROVE CountsOK'
  <2>1. CASE Goto(k, "unused") /\ UNCHANGED sessions
    BY <1>8, <1>g, <2>1 DEF Launch
  <2>2. CASE Goto(k, "running") /\ sessions' = [sessions EXCEPT ![k] = @ + 1]
    BY <1>t, <1>8, <2>2 DEF Launch, At, Goto, CountsOK
  <2> QED
    BY <1>8, <2>1, <2>2 DEF Launch, Ends
<1>9. ASSUME NEW k \in Key, Settle(k) PROVE CountsOK'
  <2>1. After[result[k]] # "calling"
    BY <1>9 DEF Settle, At, OutcomesOK, After, Result
  <2> QED
    BY <1>9, <1>g, <2>1 DEF Settle, StageOver
<1>10. ASSUME NEW k \in Key, RecordRejected(k) \/ RecordFailure(k) PROVE CountsOK'
  BY <1>10, <1>g DEF RecordRejected, RecordFailure, Fails, StageOver
<1>11. ASSUME NEW k \in Key, Retry(k) \/ WaitEnds(k) PROVE CountsOK'
  BY <1>11, <1>g DEF Retry, WaitEnds, CallsAgain, Fails, StageOver
<1> QED
  BY <1>1, <1>2, <1>3, <1>4, <1>5, <1>6, <1>7, <1>8, <1>9, <1>10, <1>11 DEF Next, Step

(* A thread turns to a transport retry only when the delay is over.          *)
LEMMA PaceStep ==
  ASSUME ReservationAssumption, TypeOK, OutcomesOK, PaceOK, [Next]_vars PROVE PaceOK'
<1> USE DEF journal, table, thread
<1>t. /\ pc \in [Key -> Place] /\ act \in [Key -> Action] /\ due \in [Key -> BOOLEAN]
      /\ failed \in [Key -> {"none", "rejected"} \cup Failure]
  BY DEF TypeOK
<1>m. ASSUME UNCHANGED <<failed, due, act>>,
             \A l \in Key : pc'[l] \in {"enter", "admit"} => pc[l] \in {"enter", "admit"}
      PROVE  PaceOK'
  BY <1>m DEF PaceOK
<1>g. ASSUME NEW k \in Key, NEW p, Goto(k, p), p \notin {"enter", "admit"},
             \A l \in Key \ {k} : UNCHANGED <<failed[l], due[l], act[l]>>
      PROVE  PaceOK'
  BY <1>t, <1>g DEF Goto, PaceOK
<1>o. ASSUME NEW k \in Key, NEW p, Goto(k, p), act' = [act EXCEPT ![k] = "output"],
             \A l \in Key \ {k} : UNCHANGED <<failed[l], due[l]>>
      PROVE  PaceOK'
  BY <1>t, <1>o DEF Goto, PaceOK
<1>1. ASSUME Resume \/ Stop \/ Redeliver \/ ReadEvents \/ UNCHANGED vars PROVE PaceOK'
  BY <1>1, <1>m DEF Resume, Stop, Redeliver, ReadEvents, vars
<1>2. ASSUME Exit \/ Crash PROVE PaceOK'
  BY <1>2 DEF Exit, Crash, Leave, PaceOK
<1>3. ASSUME NEW k \in Key, Elapse(k) PROVE PaceOK'
  BY <1>t, <1>3 DEF Elapse, PaceOK
<1>4. ASSUME NEW k \in Key, Begin(k) PROVE PaceOK'
  BY <1>4, <1>o DEF Begin
<1>5. ASSUME NEW k \in Key, Enter(k) PROVE PaceOK'
  <2>1. CASE Fails(k)
    BY <1>5, <1>o, <2>1 DEF Enter, Fails, StageOver
  <2>2. CASE ~Fails(k)
    BY <1>t, <1>5, <1>m, <2>2 DEF Enter, At, Goto
  <2> QED
    BY <2>1, <2>2
<1>6. ASSUME NEW k \in Key, AdmitStopped(k) \/ Refuse(k) PROVE PaceOK'
  BY <1>6, <1>o DEF AdmitStopped, Refuse, Fails, StageOver
<1>7. ASSUME NEW k \in Key, StopRefused(k) PROVE PaceOK'
  BY <1>7, <1>g DEF StopRefused, locals
<1>8. ASSUME NEW k \in Key, Admit(k) PROVE PaceOK'
  BY <1>t, <1>8, <1>g DEF Admit, Insert
<1>9. ASSUME NEW k \in Key, PreflightFails(k) \/ Launch(k) \/ Reply(k) PROVE PaceOK'
  BY <1>9, <1>g DEF PreflightFails, Launch, Reply, Ends
<1>10. ASSUME NEW k \in Key, Settle(k) PROVE PaceOK'
  <2>1. After[result[k]] \notin {"enter", "admit"}
    BY <1>10 DEF Settle, At, OutcomesOK, After, Result
  <2>2. CASE StageOver(k, After[result[k]])
    BY <1>10, <1>o, <2>2 DEF Settle, StageOver
  <2>3. CASE ~StageOver(k, After[result[k]])
    BY <1>10, <1>g, <2>1, <2>3 DEF Settle
  <2> QED
    BY <2>2, <2>3
<1>11. ASSUME NEW k \in Key, RecordRejected(k) PROVE PaceOK'
  <2>1. act' = [act EXCEPT ![k] = "output"] /\ UNCHANGED due
    BY <1>11 DEF RecordRejected, Fails, StageOver
  <2>2. \A l \in Key \ {k} : UNCHANGED failed[l]
    BY <1>t, <1>11 DEF RecordRejected
  <2>3. Goto(k, "enter") \/ Goto(k, "ended")
    BY <1>11 DEF RecordRejected, Fails, StageOver
  <2> QED
    BY <1>o, <2>1, <2>2, <2>3
<1>12. ASSUME NEW k \in Key, RecordFailure(k) PROVE PaceOK'
  BY <1>t, <1>12, <1>g DEF RecordFailure
<1>13. ASSUME NEW k \in Key, CallsAgain(k), due[k], UNCHANGED <<failed, due>> PROVE PaceOK'
  BY <1>t, <1>13 DEF CallsAgain, Goto, PaceOK
<1>14. ASSUME NEW k \in Key, Retry(k) PROVE PaceOK'
  <2>1. CASE Fails(k)
    BY <1>14, <1>o, <2>1 DEF Retry, Fails, StageOver
  <2>2. CASE CallsAgain(k) /\ due[k]
    BY <1>13, <1>14, <2>2 DEF Retry
  <2>3. CASE Goto(k, "waiting") /\ UNCHANGED locals
    BY <1>14, <1>g, <2>3 DEF Retry, locals
  <2> QED
    BY <1>14, <2>1, <2>2, <2>3 DEF Retry
<1>15. ASSUME NEW k \in Key, WaitEnds(k) PROVE PaceOK'
  <2>1. CASE Fails(k)
    BY <1>15, <1>o, <2>1 DEF WaitEnds, Fails, StageOver
  <2>2. CASE CallsAgain(k) /\ ~Barred
    BY <1>13, <1>15, <2>2 DEF WaitEnds
  <2> QED
    BY <1>15, <2>1, <2>2 DEF WaitEnds
<1> QED
  BY <1>1, <1>2, <1>3, <1>4, <1>5, <1>6, <1>7, <1>8, <1>9, <1>10, <1>11, <1>12, <1>14, <1>15
     DEF Next, Step

(* A step settles the row of the thread that calls, makes the next row,      *)
(* recovers open rows, or leaves them and what was charged alone.            *)
Settles(k) ==
  \E u \in Measure \cup {0, Unknown} :
    /\ state[row[k]] = "open" /\ row[k] \in Row
    /\ Settled(row[k], u) /\ UNCHANGED <<made, known>>

LEMMA TableSteps ==
  ASSUME ReservationAssumption, TypeOK, RowsOK, [Next]_vars
  PROVE  \/ UNCHANGED <<state, charge, overrun, known>>
         \/ Resume \/ ReadEvents
         \/ \E k \in Key : Admit(k) \/ Settles(k)
<1> USE DEF journal, table, thread
<1>1. ASSUME Exit \/ Crash \/ Stop \/ Redeliver \/ UNCHANGED vars
      PROVE  UNCHANGED <<state, charge, overrun, known>>
  BY <1>1 DEF Exit, Crash, Leave, Stop, Redeliver, Settled, vars
<1>2. ASSUME NEW k \in Key, Begin(k) \/ Elapse(k) \/ Enter(k) \/ AdmitStopped(k) \/ Refuse(k)
                              \/ StopRefused(k) \/ PreflightFails(k) \/ Launch(k)
      PROVE  UNCHANGED <<state, charge, overrun, known>>
  BY <1>2 DEF Begin, Elapse, Enter, AdmitStopped, Refuse, StopRefused, PreflightFails, Launch
<1>3. ASSUME NEW k \in Key, Reply(k) \/ RecordRejected(k) \/ RecordFailure(k) \/ Retry(k)
                              \/ WaitEnds(k)
      PROVE  UNCHANGED <<state, charge, overrun, known>>
  BY <1>3 DEF Reply, RecordRejected, RecordFailure, Retry, WaitEnds
<1>4. ASSUME NEW k \in Key, Settle(k) PROVE Settles(k)
  <2>1. row[k] \in Row /\ state[row[k]] = "open"
    BY <1>4 DEF Settle, At, RowsOK, Calling, TypeOK, ReservationAssumption
  <2>2. \A u \in Used(k) : u \in Measure \cup {0, Unknown}
    BY DEF Used
  <2> QED
    BY <1>4, <2>1, <2>2 DEF Settle, Settles
<1> QED
  BY <1>1, <1>2, <1>3, <1>4 DEF Next, Step

(* Charges move with the measurement of an open call only.                   *)
MovesOnce ==
  \A i \in Row :
    /\ state[i] \in Closed => state'[i] = state[i] /\ charge'[i] = charge[i]
    /\ state[i] = "open" /\ charge'[i] # charge[i] => state'[i] = "measured"

LEMMA ChargeStep ==
  ASSUME ReservationAssumption, TypeOK, RowsOK, [Next]_vars PROVE MovesOnce
<1>1. CASE UNCHANGED <<state, charge, overrun, known>>
  BY <1>1 DEF MovesOnce
<1>2. CASE ReadEvents
  BY <1>2 DEF ReadEvents, table, MovesOnce
<1>3. CASE Resume
  BY <1>3 DEF Resume, MovesOnce
<1>4. ASSUME NEW k \in Key, Admit(k) PROVE MovesOnce
  <2>1. made + 1 \in Row /\ state[made + 1] = "none"
    <3>1. made \in Nat /\ Attempts \in Nat /\ made < Attempts
      BY <1>4 DEF Admit, TypeOK, ReservationAssumption
    <3> QED
      BY <3>1 DEF RowsOK
  <2>2. \A i \in Row \ {made + 1} : state'[i] = state[i] /\ charge'[i] = charge[i]
    BY <1>4 DEF Admit, Insert, TypeOK
  <2> QED
    BY <2>1, <2>2 DEF MovesOnce
<1>5. ASSUME NEW k \in Key, Settles(k) PROVE MovesOnce
  <2>1. PICK u \in Nat \cup {Unknown} : Settled(row[k], u)
    BY <1>5, ReservationAssumption DEF Settles
  <2>2. row[k] \in Row /\ state[row[k]] = "open"
    BY <1>5 DEF Settles
  <2>3. state' = [state EXCEPT ![row[k]] = Closing(u)]
    BY <2>1, <2>2 DEF Settled
  <2>4. charge' = charge \/ (u # Unknown /\ charge' = [charge EXCEPT ![row[k]] = u])
    BY <2>1, <2>2 DEF Settled
  <2>5. \A i \in Row \ {row[k]} : state'[i] = state[i] /\ charge'[i] = charge[i]
    BY <2>3, <2>4 DEF TypeOK
  <2>6. charge' # charge => state'[row[k]] = "measured"
    BY <2>2, <2>3, <2>4 DEF TypeOK, Closing
  <2> QED
    BY <2>2, <2>5, <2>6 DEF MovesOnce
<1> QED
  BY <1>1, <1>2, <1>3, <1>4, <1>5, TableSteps

(* A measured settlement stays one.                                          *)
LEMMA KnownStep ==
  ASSUME ReservationAssumption, TypeOK, RowsOK, KnownOK, [Next]_vars PROVE KnownOK'
<1>1. MovesOnce
  BY ChargeStep
<1>2. CASE ReadEvents
  BY <1>2 DEF ReadEvents, table, KnownOK
<1>3. CASE ~ReadEvents
  <2>1. UNCHANGED known
    BY <1>3, TableSteps DEF Resume, Admit, Insert, Settles
  <2> QED
    BY <1>1, <2>1 DEF KnownOK, MovesOnce
<1> QED
  BY <1>2, <1>3

(* What is charged moves with the charge of a row, by the difference.         *)
LEMMA RowFinite == IsFiniteSet(Row)
BY FS_Interval, ReservationAssumption

LEMMA ChargedMoves ==
  ASSUME NEW old \in [Row -> Nat], NEW i \in Row, NEW u \in Nat
  PROVE  SumFunction([old EXCEPT ![i] = u]) = SumFunction(old) - old[i] + u
<1> DEFINE new == [old EXCEPT ![i] = u]
<1>1. new \in [Row -> Nat] /\ new[i] = u /\ \A j \in Row \ {i} : new[j] = old[j]
  OBVIOUS
<1> HIDE DEF new, Row
<1>2. SumFunction(new) = SumFunction(old) - old[i] + new[i]
  BY <1>1, RowFinite, SumUpdate
<1>3. SumFunction(new) = SumFunction(old) - old[i] + u
  BY <1>1, <1>2
<1> QED
  BY <1>3 DEF new

LEMMA SpentTyped == TypeOK => Spent \in Nat
<1> SUFFICES ASSUME charge \in [Row -> Nat] PROVE SumFunction(charge) \in Nat
  BY DEF TypeOK, Spent
<1> HIDE DEF Row
<1> QED
  BY RowFinite, SumType

LEMMA UnmadeStep ==
  ASSUME ReservationAssumption, TypeOK, RowsOK, UnmadeOK, [Next]_vars PROVE UnmadeOK'
<1>1. made \in Nat /\ (made' = made \/ \E k \in Key : Admit(k))
  BY DEF TypeOK, Next, Step, vars, table, Resume, Exit, Crash, Leave, Stop, Redeliver, ReadEvents,
     Begin, Elapse, Enter, AdmitStopped, Refuse, StopRefused, PreflightFails, Launch, Reply, Settle,
     RecordRejected, RecordFailure, Retry, WaitEnds
<1>2. ASSUME NEW k \in Key, Admit(k) PROVE UnmadeOK'
  BY <1>1, <1>2 DEF Admit, Insert, UnmadeOK, TypeOK
<1>3. ASSUME NEW k \in Key, Settles(k), made' = made PROVE UnmadeOK'
  <2>1. PICK u \in Nat \cup {Unknown} : Settled(row[k], u)
    BY <1>3, ReservationAssumption DEF Settles
  <2>2. row[k] \in Row /\ state[row[k]] = "open" /\ ~(row[k] > made)
    BY <1>3 DEF Settles, RowsOK
  <2>3. charge' = charge \/ charge' = [charge EXCEPT ![row[k]] = u]
    BY <2>1, <2>2 DEF Settled
  <2> QED
    BY <1>3, <2>2, <2>3 DEF UnmadeOK, TypeOK
<1>4. ASSUME charge' = charge, made' = made PROVE UnmadeOK'
  BY <1>4 DEF UnmadeOK
<1>5. CASE Resume \/ ReadEvents
  BY <1>4, <1>5 DEF Resume, ReadEvents, table
<1> QED
  BY <1>1, <1>2, <1>3, <1>4, <1>5, TableSteps DEF Settles

(* Admission makes room first; a settlement adds what it reports as overrun. *)
LEMMA BudgetStep ==
  ASSUME ReservationAssumption, TypeOK, RowsOK, UnmadeOK, BudgetHolds, [Next]_vars PROVE BudgetHolds'
<1>1. CASE UNCHANGED <<charge, overrun>>
  BY <1>1 DEF BudgetHolds, Spent
<1>2. ASSUME NEW k \in Key, Admit(k) PROVE BudgetHolds'
  <2>1. /\ charge' = [charge EXCEPT ![made + 1] = Cost(k)] /\ overrun' = overrun
        /\ Spent + Cost(k) <= TokenLimit /\ made < Attempts
    BY <1>2 DEF Admit, Insert
  <2>2. /\ Cost(k) \in Nat /\ Spent \in Nat /\ overrun \in Nat /\ TokenLimit \in Nat
        /\ made \in Nat /\ Attempts \in Nat
    BY SpentTyped DEF Cost, TypeOK, ReservationAssumption
  <2>3. made + 1 \in Row /\ charge[made + 1] = 0
    BY <2>1, <2>2 DEF UnmadeOK
  <2>4. Spent' = Spent - charge[made + 1] + Cost(k)
    BY <2>1, <2>2, <2>3, ChargedMoves DEF Spent, TypeOK
  <2> QED
    BY <2>1, <2>2, <2>3, <2>4 DEF BudgetHolds
<1>3. ASSUME NEW k \in Key, Settles(k) PROVE BudgetHolds'
  <2>1. PICK u \in Nat \cup {Unknown} : Settled(row[k], u)
    BY <1>3, ReservationAssumption DEF Settles
  <2>2. row[k] \in Row /\ state[row[k]] = "open"
    BY <1>3 DEF Settles
  <2>3. CASE u = Unknown
    BY <1>1, <2>1, <2>2, <2>3 DEF Settled
  <2>4. CASE u # Unknown
    <3>1. /\ charge' = [charge EXCEPT ![row[k]] = u] /\ u \in Nat
          /\ overrun' = overrun + Excess(u, charge[row[k]])
      BY <2>1, <2>2, <2>4 DEF Settled
    <3>2. /\ Spent \in Nat /\ overrun \in Nat /\ charge[row[k]] \in Nat /\ TokenLimit \in Nat
      BY <2>2, SpentTyped DEF TypeOK, ReservationAssumption
    <3>3. Excess(u, charge[row[k]]) \in Nat /\ u - charge[row[k]] <= Excess(u, charge[row[k]])
      BY <3>1, <3>2 DEF Excess
    <3>4. Spent' = Spent - charge[row[k]] + u
      BY <2>2, <3>1, ChargedMoves DEF Spent, TypeOK
    <3>5. Spent <= TokenLimit + overrun
      BY DEF BudgetHolds
    <3>6. Spent' <= TokenLimit + overrun'
      BY <3>1, <3>2, <3>3, <3>4, <3>5
    <3> QED
      BY <3>6 DEF BudgetHolds
  <2> QED
    BY <2>3, <2>4
<1>4. CASE Resume \/ ReadEvents
  BY <1>1, <1>4 DEF Resume, ReadEvents, table
<1> QED
  BY <1>1, <1>2, <1>3, <1>4, TableSteps

-----------------------------------------------------------------------------
(* Everything the journal counts and the table charges is kept, whatever     *)
(* happens.                                                                  *)
THEOREM Invariant == Spec => []IInv
<1>1. Init => IInv
  <2> SUFFICES ASSUME Init PROVE IInv
    OBVIOUS
  <2>1. TypeOK
    <3>1. "idle" \in Place /\ "none" \in Result /\ 0 \in 0..Attempts
      BY ReservationAssumption DEF Place, Result
    <3>2. calls \in [Key -> [Action -> Nat]]
      BY DEF Init
    <3>3. "output" \in Action /\ 0 \in Nat /\ 0 \in Int
      OBVIOUS
    <3>4. made \in 0..Attempts /\ row \in [Key -> 0..Attempts]
      BY <3>1 DEF Init
    <3>5. state \in [Row -> {"none", "open"} \cup Closed] /\ charge \in [Row -> Nat]
      BY DEF Init
    <3>6. pc \in [Key -> Place] /\ result \in [Key -> Result]
      BY <3>1 DEF Init
    <3>7. /\ act \in [Key -> Action] /\ left \in [Key -> Nat] /\ sessions \in [Key -> Nat]
          /\ failed \in [Key -> {"none", "rejected"} \cup Failure] /\ due \in [Key -> BOOLEAN]
      BY DEF Init
    <3> QED
      BY <3>2, <3>3, <3>4, <3>5, <3>6, <3>7 DEF Init, TypeOK
  <2>2. RowsOK /\ OutcomesOK
    BY DEF Init, RowsOK, OutcomesOK, OpenRowsAreOwned, Calling
  <2>3. CountsOK
    <3>1. \A k \in Key : /\ calls[k]["output"] = 0 /\ calls[k]["transport"] = 0
                         /\ sessions[k] = 0 /\ pc[k] = "idle"
      BY DEF Init
    <3>2. ASSUME NEW k \in Key
          PROVE  0 <= Revisions[k] + 1 /\ 0 <= Retries[k] /\ ~(pc[k] = "calling")
      <4>1. Revisions[k] \in Nat /\ Retries[k] \in Nat
        BY ReservationAssumption
      <4> QED
        BY <3>1, <4>1
    <3>3. 0 <= 0 + 0
      OBVIOUS
    <3> QED
      BY <3>1, <3>2, <3>3 DEF CountsOK
  <2>4. PaceOK /\ KnownOK
    BY DEF Init, PaceOK, KnownOK
  <2>5. BudgetHolds /\ UnmadeOK
    <3>1. charge \in [Row -> Nat] /\ \A i \in Row : charge[i] = 0
      BY DEF Init
    <3>2. Spent = 0
      <4> HIDE DEF Row
      <4> QED
        BY <3>1, RowFinite, SumOfZeros DEF Spent
    <3> QED
      BY <3>1, <3>2, ReservationAssumption DEF Init, BudgetHolds, UnmadeOK
  <2> QED
    BY <2>1, <2>2, <2>3, <2>4, <2>5 DEF IInv
<1>2. IInv /\ [Next]_vars => IInv'
  BY ReservationAssumption, TypeStep, RowsStep, OutcomesStep, CountsStep, PaceStep, KnownStep, UnmadeStep, BudgetStep
     DEF IInv
<1> QED
  BY <1>1, <1>2, PTL DEF Spec

(* Rows, counters and threads keep their types; Limits.attempts bounds the   *)
(* rows.                                                                     *)
THEOREM Types == Spec => []TypeOK
BY Invariant, PTL DEF IInv

(* However many threads reserve at once, what a Run is charged stays within  *)
(* its limit, but for what providers used beyond their reservations.         *)
THEOREM Budget == Spec => []BudgetHolds
BY Invariant, PTL DEF IInv

(* No crash and no restart gives a contract more sessions than its policy.   *)
THEOREM Bounded == Spec => []SessionsBounded
<1>1. IInv => SessionsBounded
  <2> SUFFICES ASSUME IInv, NEW k \in Key \ Check
               PROVE  sessions[k] <= Revisions[k] + 1 + Retries[k]
    BY DEF SessionsBounded
  <2>1. /\ calls[k]["output"] \in Nat /\ calls[k]["transport"] \in Nat /\ sessions[k] \in Nat
        /\ Revisions[k] \in Nat /\ Retries[k] \in Nat
    BY ReservationAssumption DEF IInv, TypeOK
  <2>2. /\ calls[k]["output"] <= Revisions[k] + 1 /\ calls[k]["transport"] <= Retries[k]
        /\ sessions[k] <= calls[k]["output"] + calls[k]["transport"]
    BY DEF IInv, CountsOK
  <2> QED
    BY <2>1, <2>2
<1> QED
  BY <1>1, Invariant, PTL

(* While a controller works, each open row is the row of one calling thread. *)
THEOREM Owned == Spec => []OpenRowsAreOwned
<1>1. IInv => OpenRowsAreOwned
  BY DEF IInv, RowsOK
<1> QED
  BY <1>1, Invariant, PTL

(* A budget that is reported as measured is one of measurements throughout.  *)
THEOREM Exact == Spec => []ReportIsExact
<1>1. IInv => ReportIsExact
  <2> SUFFICES ASSUME IInv, Reported # Unknown, NEW i \in DOMAIN Reported
               PROVE  state[i] = "measured"
    BY DEF ReportIsExact
  <2>1. 1..made \subseteq known /\ DOMAIN Reported = 1..made
    BY DEF Reported
  <2> QED
    BY <2>1 DEF IInv, KnownOK
<1> QED
  BY <1>1, Invariant, PTL

(* A charge moves once: with the measurement of its open call.               *)
THEOREM Charges == Spec => ChargesMoveOnce
<1>1. IInv /\ [Next]_vars => [MovesOnce]_vars
  BY ReservationAssumption, ChargeStep DEF IInv
<1>2. [MovesOnce]_vars =>
        [\A i \in Row :
           /\ state[i] \in Closed => state'[i] = state[i] /\ charge'[i] = charge[i]
           /\ state[i] = "open" /\ charge'[i] # charge[i] => state'[i] = "measured"]_vars
  BY DEF MovesOnce
<1> QED
  BY <1>1, <1>2, Invariant, PTL DEF Spec, ChargesMoveOnce

(* Every retry of a capacity failure has waited, whoever began the wait.     *)
THEOREM Pacing == Spec => CapacityPacing
<1>1. IInv /\ [Next]_vars =>
        [\A k \in Key \ Check :
           calls'[k]["transport"] > calls[k]["transport"] /\ failed[k] = "capacity" => due[k]]_vars
  <2> SUFFICES ASSUME IInv, [Next]_vars, NEW k \in Key \ Check,
                      calls'[k]["transport"] > calls[k]["transport"], failed[k] = "capacity"
               PROVE  due[k]
    OBVIOUS
  <2>1. PICK l \in Key : Admit(l)
    <3>1. calls' # calls
      BY DEF IInv, TypeOK
    <3>2. CASE Resume \/ Exit \/ Crash \/ Stop \/ Redeliver \/ ReadEvents \/ UNCHANGED vars
      BY <3>1, <3>2 DEF Resume, Exit, Crash, Leave, Stop, Redeliver, ReadEvents, vars, journal
    <3>3. ASSUME NEW l \in Key, Begin(l) \/ Elapse(l) PROVE FALSE
      BY <3>1, <3>3 DEF Begin, Elapse, journal
    <3>4. ASSUME NEW l \in Key, Step(l) PROVE Admit(l)
      BY <3>1, <3>4 DEF Step, Enter, AdmitStopped, Refuse, StopRefused, PreflightFails, Launch,
         Reply, Settle, RecordRejected, RecordFailure, Retry, WaitEnds, journal
    <3> QED
      BY <3>2, <3>3, <3>4 DEF Next
  <2>2. l = k /\ act[k] = "transport"
    <3>1. calls' = calls \/ calls' = [calls EXCEPT ![l][act[l]] = @ + 1]
      BY <2>1 DEF Admit, Insert
    <3>2. calls \in [Key -> [Action -> Nat]] /\ act[l] \in Action
      BY DEF IInv, TypeOK
    <3> QED
      BY <3>1, <3>2
  <2> QED
    BY <2>1, <2>2 DEF Admit, At, IInv, PaceOK
<1> QED
  BY <1>1, Invariant, PTL DEF Spec, CapacityPacing

(* The calls that are over.                                                  *)
Over == {i \in Row : state[i] \in Closed}

(* Admission holds the charge of a call that was never made before.          *)
LEMMA AccountHolds ==
  ASSUME ReservationAssumption, IInv, NEW k \in Key, Admit(k)
  PROVE  [Account!Next]_(Account!vars)
<1> DEFINE i == made + 1
<1>1. /\ state' = [state EXCEPT ![i] = "open"] /\ charge' = [charge EXCEPT ![i] = Cost(k)]
      /\ Spent + Cost(k) <= TokenLimit /\ made < Attempts
  BY DEF Admit, Insert
<1>2. /\ made \in Nat /\ Attempts \in Nat /\ Spent \in Nat /\ Cost(k) \in Nat
      /\ Cost(k) \in Measure \cup {0, Charge}
  BY SpentTyped DEF IInv, TypeOK, ReservationAssumption, Cost
<1>3. i \in Row /\ state[i] = "none" /\ charge[i] = 0
  BY <1>1, <1>2 DEF IInv, RowsOK, UnmadeOK
<1>4. Spent' = Spent + Cost(k)
  <2>1. Spent' = Spent - charge[i] + Cost(k)
    BY <1>1, <1>2, <1>3, ChargedMoves DEF Spent, IInv, TypeOK
  <2> QED
    BY <1>2, <1>3, <2>1
<1>5. /\ state'[i] = "open" /\ charge'[i] = Cost(k)
      /\ \A j \in Row : j # i => state'[j] = state[j] /\ charge'[j] = charge[j]
  BY <1>1, <1>3 DEF IInv, TypeOK
<1> HIDE DEF i
<1>6. Over' = Over
  BY <1>3, <1>5 DEF Over
<1>7. Held' = [j \in DOMAIN Held \cup {i} |-> IF j = i THEN Cost(k) ELSE Held[j]]
  <2>1. {j \in Row : state[j] = "open"}' = {j \in Row : state[j] = "open"} \cup {i}
    BY <1>3, <1>5
  <2>2. \A j \in DOMAIN Held : j # i /\ j \in Row /\ Held[j] = charge[j]
    BY <1>3 DEF Held
  <2> QED
    BY <1>5, <2>1, <2>2 DEF Held
<1>8. i \notin DOMAIN Held \cup Over
  BY <1>3 DEF Held, Over
<1>9. Account!Hold(i, Cost(k))
  BY <1>1, <1>4, <1>6, <1>7, <1>8 DEF Account!Hold, Over
<1> QED
  BY <1>2, <1>3, <1>9 DEF Account!Next

(* A settlement takes the call off the account, at its measurement if there  *)
(* is one.                                                                   *)
LEMMA AccountSettles ==
  ASSUME ReservationAssumption, IInv, NEW i \in Row, state[i] = "open",
         NEW u \in Measure \cup {0, Unknown}, Settled(i, u)
  PROVE  [Account!Next]_(Account!vars)
<1>1. state' = [state EXCEPT ![i] = Closing(u)]
  BY DEF Settled
<1>2. /\ state'[i] \in Closed
      /\ \A j \in Row : j # i => state'[j] = state[j]
  BY <1>1 DEF IInv, TypeOK, Closing
<1>3. \A j \in Row : j # i => charge'[j] = charge[j]
  BY DEF Settled, IInv, TypeOK
<1>4. \E amount \in Measure \cup {0, Charge, charge[i]} : Spent' = Spent - charge[i] + amount
  <2>1. Spent \in Nat /\ charge[i] \in Nat /\ Measure \subseteq Nat
    BY SpentTyped DEF IInv, TypeOK, ReservationAssumption
  <2>2. CASE u = Unknown
    <3>1. Spent' = Spent
      BY <2>2 DEF Settled, Spent
    <3>2. Spent' = Spent - charge[i] + charge[i]
      BY <2>1, <3>1
    <3> QED
      BY <3>2
  <2>3. CASE u # Unknown
    <3>1. charge' = [charge EXCEPT ![i] = u] /\ u \in Nat
      BY <2>1, <2>3 DEF Settled
    <3>2. Spent' = Spent - charge[i] + u
      BY <3>1, ChargedMoves DEF Spent, IInv, TypeOK
    <3> QED
      BY <2>3, <3>2
  <2> QED
    BY <2>2, <2>3
<1>5. {j \in Row : state[j] = "open"}' = {j \in Row : state[j] = "open"} \ {i}
  BY <1>2
<1>6. Held' = [j \in DOMAIN Held \ {i} |-> Held[j]]
  BY <1>3, <1>5 DEF Held
<1>7. Over' = Over \cup {i}
  BY <1>2 DEF Over
<1>8. i \in DOMAIN Held /\ Held[i] = charge[i]
  BY DEF Held
<1>9. Account!Settle(i)
  BY <1>4, <1>6, <1>7, <1>8 DEF Account!Settle, Over
<1> QED
  BY <1>9 DEF Account!Next

(* Recovery gives up what a dead controller left open, at its full charge.   *)
LEMMA AccountForfeits ==
  ASSUME IInv, Resume PROVE [Account!Next]_(Account!vars)
<1>1. /\ state' = [i \in Row |-> IF state[i] = "open" THEN "recovered" ELSE state[i]]
      /\ UNCHANGED charge
  BY DEF Resume
<1>2. \A i \in Row : state'[i] # "open" /\ (state'[i] \in Closed <=> state[i] \in Closed \cup {"open"})
  BY <1>1
<1>3. Held' = [i \in {} |-> 0]
  BY <1>2 DEF Held
<1>4. Over' = Over \cup DOMAIN Held
  BY <1>2 DEF Over, Held
<1>5. Spent' = Spent
  BY <1>1 DEF Spent
<1>6. Account!Forfeit
  BY <1>3, <1>4, <1>5 DEF Account!Forfeit, Over
<1> QED
  BY <1>6 DEF Account!Next

(* The Run keeps one account with its payer: calls are held before they are  *)
(* made and leave it once, in whatever order threads reserve and settle, and *)
(* whoever dies in between (reserve, settle, recover_reservations).          *)
THEOREM Refinement == Spec => AccountKept
<1>1. Init => Account!Init
  <2> SUFFICES ASSUME Init PROVE Account!Init
    OBVIOUS
  <2>1. charge \in [Row -> Nat] /\ \A i \in Row : charge[i] = 0
    BY DEF Init
  <2>2. Spent = 0
    <3> HIDE DEF Row
    <3> QED
      BY <2>1, RowFinite, SumOfZeros DEF Spent
  <2>3. \A i \in Row : state[i] = "none"
    BY DEF Init
  <2>4. Held = [i \in {} |-> 0] /\ Over = {}
    BY <2>3 DEF Held, Over
  <2> QED
    BY <2>2, <2>4 DEF Account!Init, Over
<1>2. IInv /\ [Next]_vars => [Account!Next]_(Account!vars)
  <2> SUFFICES ASSUME IInv, [Next]_vars PROVE [Account!Next]_(Account!vars)
    OBVIOUS
  <2>1. CASE UNCHANGED <<state, charge>>
    BY <2>1 DEF Account!vars, Held, Spent
  <2>2. CASE ReadEvents
    BY <2>1, <2>2 DEF ReadEvents, table
  <2>3. CASE Resume
    BY <2>3, AccountForfeits
  <2>4. ASSUME NEW k \in Key, Admit(k) PROVE [Account!Next]_(Account!vars)
    BY <2>4, AccountHolds, ReservationAssumption
  <2>5. ASSUME NEW k \in Key, Settles(k) PROVE [Account!Next]_(Account!vars)
    BY <2>5, AccountSettles, ReservationAssumption DEF Settles
  <2> QED
    BY <2>1, <2>2, <2>3, <2>4, <2>5, TableSteps, ReservationAssumption DEF IInv
<1> QED
  BY <1>1, <1>2, Invariant, PTL DEF Spec, AccountKept, Account!Spec

=============================================================================
