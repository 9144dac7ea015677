---------------------------- MODULE Reservations ----------------------------
(* The calls of one Run and what they are charged: the reservations table,   *)
(* its admission, settlement and recovery (history.py), the loop that calls  *)
(* a stage, repairs its output and retries its transport (_generate,         *)
(* _transport_retry and _invoke), and the budget the Inspector reads.        *)
(*                                                                           *)
(* A key is one stage contract, called by one thread at a time; a check is   *)
(* a call without a model.  "Tokens" stand for tokens and cost, which are    *)
(* admitted and settled alike.  The controller dies at any step, and Stop    *)
(* stands for a cancel as well as for time that ran out.                     *)

EXTENDS Integers, Functions

CONSTANTS
  Key,         \* contract identities
  Check,       \* those that are no model calls
  Revisions,   \* policy.revisions of each
  Retries,     \* policy.transport_retries of each
  Attempts,    \* limits.attempts
  TokenLimit,  \* limits.tokens
  Charge,      \* limits.reservation_tokens
  Measure,     \* what a provider may report of a session
  Unknown      \* a measurement that is absent

ASSUME ReservationAssumption ==
  /\ Check \subseteq Key
  /\ Revisions \in [Key -> Nat] /\ Retries \in [Key -> Nat]
  /\ Attempts \in Nat /\ Measure \subseteq Nat
  /\ TokenLimit \in Nat \ {0} /\ Charge \in Nat \ {0}
  /\ Unknown \notin Nat

VARIABLES
  controller,  \* "down" or "up": the holder of the Run's lock
  stopped,     \* whether the journal has a stopped event
  calls,       \* reserved events of a call key, by action
  failed,      \* the last transport_failed or output_rejected of a contract
  due,         \* whether the capacity delay of that failure is over
  made,        \* rows of the table
  state,       \* of a row: open, settled with or without a measurement, recovered
  charge,      \* its column tokens
  overrun,     \* what measured calls used beyond their reservation (history)
  pc,          \* where the thread of a key stands
  act,         \* "output" or "transport": what its next call is counted as
  left,        \* iterations left in the loop of _generate
  row,         \* the row of its call
  result,      \* how its last call ended
  sessions,    \* sessions ever launched for a key (history)
  known        \* the rows the Inspector has found measured settlements of

journal == <<stopped, calls, failed, due>>
table == <<made, state, charge, overrun>>
thread == <<pc, act, left, row, result>>
vars == <<controller, journal, table, thread, sessions, known>>

Row == 1..Attempts
Action == {"output", "transport"}
Use == Measure \cup {0, Unknown}
Failure == {"transport", "capacity"}
Closed == {"measured", "unmeasured", "recovered"}
Place == {"idle", "enter", "admit", "refused", "calling", "running", "unused", "settling",
          "rejecting", "failing", "retry", "waiting", "ended"}
Calling == {"calling", "running", "unused", "settling"}
Result == {"none", "ok", "invalid", "stopped", "error"} \cup Failure

TypeOK ==
  /\ controller \in {"down", "up"} /\ stopped \in BOOLEAN
  /\ calls \in [Key -> [Action -> Nat]]
  /\ failed \in [Key -> {"none", "rejected"} \cup Failure] /\ due \in [Key -> BOOLEAN]
  /\ made \in 0..Attempts
  /\ state \in [Row -> {"none", "open"} \cup Closed]
  /\ charge \in [Row -> Nat]
  /\ overrun \in Nat
  /\ pc \in [Key -> Place] /\ act \in [Key -> Action] /\ left \in [Key -> Nat]
  /\ row \in [Key -> 0..Attempts]
  /\ result \in [Key -> Result]
  /\ sessions \in [Key -> Nat]
  /\ known \subseteq Row

Init ==
  /\ controller = "down" /\ stopped = FALSE
  /\ calls = [k \in Key |-> [a \in Action |-> 0]]
  /\ failed = [k \in Key |-> "none"] /\ due = [k \in Key |-> TRUE]
  /\ made = 0 /\ overrun = 0
  /\ state = [i \in Row |-> "none"]
  /\ charge = [i \in Row |-> 0]
  /\ pc = [k \in Key |-> "idle"] /\ act = [k \in Key |-> "output"]
  /\ left = [k \in Key |-> 0] /\ row = [k \in Key |-> 0]
  /\ result = [k \in Key |-> "none"]
  /\ sessions = [k \in Key |-> 0]
  /\ known = {}

locals == <<act, left, row, result>>

At(k, place) == controller = "up" /\ pc[k] = place
Goto(k, place) == pc' = [pc EXCEPT ![k] = place]

(* The stage returns or fails, and takes the locals of its loop with it.     *)
StageOver(k, place) ==
  /\ Goto(k, place)
  /\ act' = [act EXCEPT ![k] = "output"] /\ left' = [left EXCEPT ![k] = 0]
  /\ row' = [row EXCEPT ![k] = 0] /\ result' = [result EXCEPT ![k] = "none"]
Fails(k) == StageOver(k, "ended")

(* _usage: what the rows are charged in all.                                 *)
Spent == SumFunction(charge)

(* check raises: the Run is stopped, or this very call stops it.             *)
Barred == stopped \/ Spent > TokenLimit

-----------------------------------------------------------------------------
(* The Run.                                                                  *)

(* Mutated form: what an interrupted call was charged is given back.         *)
ResumeRefunding ==
  /\ controller = "down"
  /\ controller' = "up"
  /\ state' = [i \in Row |-> IF state[i] = "open" THEN "recovered" ELSE state[i]]
  /\ charge' = [i \in Row |-> IF state[i] = "open" THEN 0 ELSE charge[i]]
  /\ UNCHANGED <<journal, made, overrun, thread, sessions, known>>

(* Mutated form: the counters of a controller are its own.                   *)
ResumeAfresh ==
  /\ controller = "down"
  /\ controller' = "up"
  /\ state' = [i \in Row |-> IF state[i] = "open" THEN "recovered" ELSE state[i]]
  /\ calls' = [k \in Key |-> [a \in Action |-> 0]]
  /\ UNCHANGED <<stopped, failed, due, made, charge, overrun, thread, sessions, known>>

(* The lock, the reconciliation of resources and recover_reservations: what  *)
(* a dead controller left open is closed at its full charge, also when the   *)
(* Run is stopped.                                                           *)
Resume ==
  /\ controller = "down"
  /\ controller' = "up"
  /\ state' = [i \in Row |-> IF state[i] = "open" THEN "recovered" ELSE state[i]]
  /\ UNCHANGED <<journal, made, charge, overrun, thread, sessions, known>>

(* The controller exits when its threads have ended, or dies.                *)
Leave ==
  /\ controller' = "down"
  /\ pc' = [k \in Key |-> "idle"]
  /\ act' = [k \in Key |-> "output"] /\ left' = [k \in Key |-> 0]
  /\ row' = [k \in Key |-> 0]
  /\ result' = [k \in Key |-> "none"]
  /\ UNCHANGED <<journal, table, sessions, known>>

Exit == controller = "up" /\ (\A k \in Key : pc[k] \in {"idle", "ended"}) /\ Leave
Crash == controller = "up" /\ (\E k \in Key : pc[k] \notin {"idle", "ended"}) /\ Leave

(* A cancel, a usage limit that is observed, or time that has run out.       *)
Stop ==
  /\ ~stopped
  /\ stopped' = TRUE
  /\ UNCHANGED <<controller, calls, failed, due, table, thread, sessions, known>>

-----------------------------------------------------------------------------
(* The loop of _generate.                                                    *)

(* Mutated form: a controller that finds a transport failure retries at once.*)
BeginAtOnce(k) ==
  /\ At(k, "idle")
  /\ left' = [left EXCEPT ![k] = Revisions[k] + Retries[k] + 1]
  /\ act' = [act EXCEPT ![k] = IF failed[k] \in Failure THEN "transport" ELSE "output"]
  /\ Goto(k, "enter")
  /\ UNCHANGED <<controller, journal, table, row, result, sessions, known>>

(* A contract is bound; what the journal says last of it decides whether a   *)
(* transport retry comes first.  A check has no contract.                    *)
Begin(k) ==
  /\ At(k, "idle")
  /\ left' = [left EXCEPT ![k] = Revisions[k] + Retries[k] + 1]
  /\ act' = [act EXCEPT ![k] = "output"]
  /\ Goto(k, IF failed[k] \in Failure THEN "retry" ELSE "enter")
  /\ UNCHANGED <<controller, journal, table, row, result, sessions, known>>

(* The next iteration: reserve tests the Run outside the write lock.         *)
Enter(k) ==
  /\ At(k, "enter")
  /\ IF left[k] = 0
     THEN Fails(k) /\ UNCHANGED stopped
     ELSE /\ stopped' = Barred
          /\ IF Barred
             THEN Fails(k)
             ELSE /\ left' = [left EXCEPT ![k] = @ - 1] /\ Goto(k, "admit")
                  /\ UNCHANGED <<act, row, result>>
  /\ UNCHANGED <<controller, calls, failed, due, table, sessions, known>>

Cost(k) == IF k \in Check THEN 0 ELSE Charge
Exhausted(k) ==
  k \notin Check /\ calls[k][act[k]] >= IF act[k] = "output" THEN Revisions[k] + 1 ELSE Retries[k]

(* The decision guard under the lock.                                        *)
AdmitStopped(k) ==
  /\ At(k, "admit") /\ stopped
  /\ Fails(k)
  /\ UNCHANGED <<controller, journal, table, sessions, known>>

(* STAGE_INVOCATION_LIMIT or RUN_BUDGET_EXHAUSTED, decided on the counters   *)
(* and the sum the lock protects.                                            *)
Refuse(k) ==
  /\ At(k, "admit") /\ ~stopped
  /\ Exhausted(k) \/ made = Attempts \/ Spent + Cost(k) > TokenLimit
  /\ StageOver(k, "refused")
  /\ UNCHANGED <<controller, journal, table, sessions, known>>

(* _invoke stops the Run for a refused reservation.                          *)
StopRefused(k) ==
  /\ At(k, "refused")
  /\ stopped' = TRUE /\ Goto(k, "ended")
  /\ UNCHANGED <<controller, calls, failed, due, table, locals, sessions, known>>

(* The row and the reserved event of an admitted call.                       *)
Insert(k) ==
  /\ made' = made + 1
  /\ row' = [row EXCEPT ![k] = made + 1]
  /\ state' = [state EXCEPT ![made + 1] = "open"]
  /\ charge' = [charge EXCEPT ![made + 1] = Cost(k)]
  /\ calls' = IF k \in Check THEN calls ELSE [calls EXCEPT ![k][act[k]] = @ + 1]
  /\ due' = [due EXCEPT ![k] = @ /\ (k \in Check \/ act[k] = "output" \/ failed[k] # "capacity")]
  /\ Goto(k, "calling")
  /\ UNCHANGED <<controller, stopped, failed, overrun, act, left, result, sessions, known>>

(* Mutated form: room for this call is not part of what admission requires.  *)
AdmitToTheLimit(k) ==
  /\ At(k, "admit") /\ ~stopped
  /\ ~Exhausted(k) /\ made < Attempts /\ Spent < TokenLimit
  /\ Insert(k)

Admit(k) ==
  /\ At(k, "admit") /\ ~stopped
  /\ ~Exhausted(k) /\ made < Attempts /\ Spent + Cost(k) <= TokenLimit
  /\ Insert(k)

-----------------------------------------------------------------------------
(* The invocation.                                                           *)

Ends(k, place, how) == Goto(k, place) /\ result' = [result EXCEPT ![k] = how]

(* Mutated form: a preflight that fails leaves its reservation open.         *)
PreflightFailsUnsettled(k) ==
  /\ At(k, "calling") /\ k \notin Check
  /\ stopped' = TRUE /\ Fails(k)
  /\ UNCHANGED <<controller, calls, failed, due, table, sessions, known>>

(* ENVIRONMENT_UNAVAILABLE stops the Run; a timeout is a transport failure.  *)
(* Nothing was used.                                                         *)
PreflightFails(k) ==
  /\ At(k, "calling") /\ k \notin Check
  /\ \/ stopped' = TRUE /\ Ends(k, "unused", "stopped")
     \/ stopped' = stopped /\ Ends(k, "unused", "transport")
  /\ UNCHANGED <<controller, calls, failed, due, table, act, left, row, sessions, known>>

(* A model call is checked once more before its session starts.              *)
Launch(k) ==
  /\ At(k, "calling")
  /\ IF k \notin Check /\ Barred
     THEN stopped' = TRUE /\ Ends(k, "unused", "stopped") /\ UNCHANGED sessions
     ELSE /\ Goto(k, "running")
          /\ sessions' = [sessions EXCEPT ![k] = @ + 1]
          /\ UNCHANGED <<stopped, result>>
  /\ UNCHANGED <<controller, calls, failed, due, table, act, left, row, known>>

(* The session is over.  The result of a model needs a Run that is not       *)
(* stopped, that of a check is settled first.                                *)
Reply(k) ==
  /\ At(k, "running")
  /\ \/ IF k \notin Check /\ Barred
        THEN stopped' = TRUE /\ Ends(k, "settling", "stopped")
        ELSE stopped' = stopped /\ Ends(k, "settling", "ok")
     \/ stopped' = stopped /\ Ends(k, "settling", "error")
     \/ /\ k \notin Check /\ stopped' = stopped
        /\ \E how \in {"invalid"} \cup Failure : Ends(k, "settling", how)
  /\ UNCHANGED <<controller, calls, failed, due, table, act, left, row, sessions, known>>

Closing(u) == IF u = Unknown THEN "unmeasured" ELSE "measured"
Excess(used, charged) == IF used > charged THEN used - charged ELSE 0

(* Mutated form: a row that is closed takes the delivery as any other.       *)
SettledAgain(i, u) ==
  /\ state' = [state EXCEPT ![i] = Closing(u)]
  /\ IF u = Unknown
     THEN UNCHANGED <<charge, overrun>>
     ELSE /\ charge' = [charge EXCEPT ![i] = u]
          /\ overrun' = overrun + Excess(u, charge[i])

(* settle: the measured usage replaces the reservation, also when it is      *)
(* larger; without one the reservation stays.  A row that is closed is left  *)
(* alone, whether the delivery repeats its settlement or contradicts it.     *)
Settled(i, u) ==
  IF state[i] # "open"
  THEN UNCHANGED <<state, charge, overrun>>
  ELSE /\ state' = [state EXCEPT ![i] = Closing(u)]
       /\ IF u = Unknown
          THEN UNCHANGED <<charge, overrun>>
          ELSE /\ charge' = [charge EXCEPT ![i] = u]
               /\ overrun' = overrun + Excess(u, charge[i])

After == [ok |-> "idle", invalid |-> "rejecting", transport |-> "failing",
          capacity |-> "failing", stopped |-> "ended", error |-> "ended"]

(* What is known of a session when it is over, whatever its outcome.         *)
Used(k) ==
  IF k \in Check \/ pc[k] = "unused" THEN {0} ELSE Measure \cup {Unknown}

(* The finally clause settles first, then the exception goes its way.        *)
Settle(k) ==
  /\ At(k, "unused") \/ At(k, "settling")
  /\ \E u \in Used(k) : Settled(row[k], u)
  /\ IF After[result[k]] \in {"idle", "ended"}
     THEN StageOver(k, After[result[k]])
     ELSE /\ Goto(k, After[result[k]]) /\ row' = [row EXCEPT ![k] = 0]
          /\ UNCHANGED <<act, left, result>>
  /\ UNCHANGED <<controller, journal, made, sessions, known>>

(* A settlement that is delivered once more, or late.                        *)
Redeliver ==
  /\ \E i \in 1..made, u \in Use : state[i] # "open" /\ Settled(i, u)
  /\ UNCHANGED <<controller, journal, made, thread, sessions, known>>

-----------------------------------------------------------------------------
(* Repair and retry.                                                         *)

(* output_rejected is a decision; the next call is an output of its own.  A  *)
(* response that reports an exhausted quota stops the Run in the same        *)
(* transaction; one that reports uncertain effects ends the stage (Waiting). *)
RecordRejected(k) ==
  /\ At(k, "rejecting")
  /\ \/ stopped /\ Fails(k) /\ UNCHANGED <<stopped, failed>>
     \/ /\ ~stopped
        /\ failed' = [failed EXCEPT ![k] = "rejected"]
        /\ \/ /\ act' = [act EXCEPT ![k] = "output"]
              /\ result' = [result EXCEPT ![k] = "none"] /\ Goto(k, "enter")
              /\ UNCHANGED <<stopped, left, row>>
           \/ stopped' \in BOOLEAN /\ Fails(k)
  /\ UNCHANGED <<controller, calls, due, table, sessions, known>>

RecordFailure(k) ==
  /\ At(k, "failing")
  /\ failed' = [failed EXCEPT ![k] = result[k]]
  /\ due' = [due EXCEPT ![k] = result[k] # "capacity"]
  /\ result' = [result EXCEPT ![k] = "none"]
  /\ Goto(k, "retry")
  /\ UNCHANGED <<controller, stopped, calls, table, act, left, row, sessions, known>>

CallsAgain(k) ==
  /\ act' = [act EXCEPT ![k] = "transport"] /\ Goto(k, "enter")
  /\ UNCHANGED <<left, row, result>>

(* _transport_retry: a stop comes first, then the retries that were counted  *)
(* durably, then the rest of the delay.                                      *)
Retry(k) ==
  /\ At(k, "retry")
  /\ stopped' = Barred
  /\ IF Barred \/ calls[k]["transport"] >= Retries[k]
     THEN Fails(k)
     ELSE IF due[k] THEN CallsAgain(k) ELSE Goto(k, "waiting") /\ UNCHANGED locals
  /\ UNCHANGED <<controller, calls, failed, due, table, sessions, known>>

(* The absolute target of the delay passes, whoever runs.                    *)
Elapse(k) ==
  /\ ~due[k]
  /\ due' = [due EXCEPT ![k] = TRUE]
  /\ UNCHANGED <<controller, stopped, calls, failed, table, thread, sessions, known>>

(* Mutated form: the wait ends with the Run, not with the delay.             *)
WaitEndsStopped(k) ==
  /\ At(k, "waiting") /\ Barred
  /\ stopped' = TRUE /\ Fails(k)
  /\ UNCHANGED <<controller, calls, failed, due, table, sessions, known>>

WaitEnds(k) ==
  /\ At(k, "waiting") /\ (Barred \/ due[k])
  /\ stopped' = Barred
  /\ IF Barred THEN Fails(k) ELSE CallsAgain(k)
  /\ UNCHANGED <<controller, calls, failed, due, table, sessions, known>>

-----------------------------------------------------------------------------
(* The Inspector's budget reads the events first, the rows in a transaction  *)
(* of their own.                                                             *)

ReadEvents ==
  /\ known' = {i \in Row : state[i] = "measured"}
  /\ UNCHANGED <<controller, journal, table, thread, sessions>>

(* Mutated form: a call that is over counts as measured.                     *)
ReportedClosed ==
  IF \A i \in 1..made : i \in known \/ state[i] \in Closed
  THEN [i \in 1..made |-> charge[i]] ELSE Unknown

(* What measured_usage sums up, should the rows be read now.                 *)
Reported ==
  IF 1..made \subseteq known THEN [i \in 1..made |-> charge[i]] ELSE Unknown

-----------------------------------------------------------------------------
Step(k) ==
  \/ Enter(k) \/ AdmitStopped(k) \/ Refuse(k) \/ StopRefused(k) \/ Admit(k)
  \/ PreflightFails(k) \/ Launch(k) \/ Reply(k) \/ Settle(k)
  \/ RecordRejected(k) \/ RecordFailure(k) \/ Retry(k) \/ WaitEnds(k)

Next ==
  \/ Resume \/ Exit \/ Crash \/ Stop \/ Redeliver \/ ReadEvents
  \/ \E k \in Key : Begin(k) \/ Step(k) \/ Elapse(k)

(* The threads of a live controller go on, sessions end and time passes.     *)
(* Nothing makes a stage begin, a controller live or a Run stop.             *)
Spec ==
  /\ Init /\ [][Next]_vars
  /\ \A k \in Key : WF_vars(Step(k)) /\ WF_vars(Elapse(k))

-----------------------------------------------------------------------------
(* reserve, settle: however many threads ask at once, what is charged stays  *)
(* within the limit but for what providers used beyond their reservations.   *)
BudgetHolds == Spent <= TokenLimit + overrun

(* reserve, _generate: whatever crashes and restarts, a contract launches no *)
(* more sessions than its revisions and retries allow.                       *)
SessionsBounded == \A k \in Key \ Check : sessions[k] <= Revisions[k] + 1 + Retries[k]

(* _invoke, recover_reservations: while a controller works, every open row   *)
(* is the row of one thread that is calling; none is charged for ever.       *)
OpenRowsAreOwned ==
  controller = "up" =>
    /\ \A i \in Row : state[i] = "open" => \E k \in Key : pc[k] \in Calling /\ row[k] = i
    /\ \A k, l \in Key : pc[k] \in Calling /\ pc[l] \in Calling /\ row[k] = row[l] => k = l

(* settle, recover_reservations: a charge, once made, changes only with the  *)
(* measurement of its own open call, and a closed row stays as it is.        *)
ChargesMoveOnce ==
  [][\A i \in Row :
       /\ state[i] \in Closed => state'[i] = state[i] /\ charge'[i] = charge[i]
       /\ state[i] = "open" /\ charge'[i] # charge[i] => state'[i] = "measured"]_vars

(* What the payer of the Run is promised (BudgetAccount): every call is held *)
(* against the limit before it is made and leaves the account once, for its  *)
(* measurement or for what was held, however calls, crashes and deliveries   *)
(* interleave (reserve, settle, recover_reservations).                       *)
Held == [i \in {j \in Row : state[j] = "open"} |-> charge[i]]
Account == INSTANCE BudgetAccount WITH
  Call <- Row, Amount <- Measure \cup {0, Charge}, Limit <- TokenLimit,
  spent <- Spent, held <- Held, closed <- {i \in Row : state[i] \in Closed}
AccountKept == Account!Spec

(* budget: usage that is reported as measured covers every call, and each    *)
(* call by its measurement, although events and rows are read one after the  *)
(* other.                                                                    *)
ReportIsExact ==
  Reported # Unknown => \A i \in DOMAIN Reported : state[i] = "measured"

(* _transport_retry: no retry of a capacity failure starts before its delay  *)
(* is over, also when another controller takes the wait up.                  *)
CapacityPacing ==
  [][\A k \in Key \ Check :
       calls'[k]["transport"] > calls[k]["transport"] /\ failed[k] = "capacity" => due[k]]_vars

(* _generate: a stage that was begun returns or fails.                       *)
EveryStageEnds ==
  \A k \in Key : (pc[k] \notin {"idle", "ended"}) ~> (pc[k] \in {"idle", "ended"})
=============================================================================
