------------------------- MODULE CommandCapture_proofs -------------------------
(* Theorems of CommandCapture, for any invocations, commands and limits.      *)

EXTENDS CommandCapture, SumTheorems, TLAPS

(* A row whose last snapshot is of completion is completed; a purged Run has *)
(* no content.                                                               *)
StoreOK ==
  /\ \A x \in Row : rows[x].kept = "recorded" /\ rows[x].last.phase = "completed" =>
       rows[x].finished > 0
  /\ purged => \A x \in Row : rows[x].kept \in {"absent", "purged"}

(* A completion that was heard is stored, or there is a reason that it isn't. *)
HeardOK ==
  \A x \in heard : \/ rows[x].finished > 0 \/ rows[x].kept \in {"expired", "purged"}
                   \/ Omissions > 0 \/ noted[x[1]] # "no" \/ purged

(* The report, while and after it is read.                                   *)
ReportOK ==
  /\ reader = "events" =>
       \A x \in report.missing : \/ report.omitted > 0 \/ report.availability = "purged"
                                 \/ noted[x[1]] # "no"
  /\ reader = "done" /\ report.missing # {} =>
       report.omitted > 0 \/ report.availability \in {"purged", "capture_incomplete"}
  /\ \A x \in report.ended : invocation[x[1]] = "settled" /\ rows[x].finished = 0

IInv == TypeOK /\ StoreOK /\ HeardOK /\ ReportOK

LEMMA RowParts ==
  \A x \in Row : x \in Reservation \X Command /\ x[1] \in Reservation /\ x[2] \in Command
BY DEF Row

LEMMA SmallerTyped == ASSUME NEW a \in Nat, NEW b \in Nat PROVE Min({a, b}) \in Nat
<1>1. \E m \in {a, b} : \A y \in {a, b} : m <= y
  <2>1. CASE a <= b
    BY <2>1
  <2>2. CASE b <= a
    BY <2>2
  <2> QED
    BY <2>1, <2>2
<1> QED
  BY <1>1 DEF Min

(* What expire and a stored snapshot make of a row are rows.                 *)
LEMMA FreshTyped ==
  ASSUME TypeOK
  PROVE  /\ Fresh \in [Row -> Record]
         /\ \A x \in Row : \/ Fresh[x] = rows[x]
                           \/ rows[x].kept = "recorded" /\ Fresh[x] = Body("expired", rows[x].expires)
         /\ \A x \in Row : Fresh[x].kept # "recorded" => Fresh[x] = Body(Fresh[x].kept, Fresh[x].expires)
<1>1. \A kept \in Kept, expires \in Nat : Body(kept, expires) \in Record
  BY DEF Body, Record, Kept
<1>2. \A x \in Row : rows[x] \in Record /\ rows[x].expires \in Nat
  BY DEF TypeOK, Record
<1>3. \A x \in Row : Fresh[x] \in Record
  BY <1>1, <1>2 DEF Fresh, Kept
<1>4. Fresh \in [Row -> Record]
  BY <1>3 DEF Fresh
<1>5. \A x \in Row : \/ Fresh[x] = rows[x]
                     \/ rows[x].kept = "recorded" /\ Fresh[x] = Body("expired", rows[x].expires)
  BY DEF Fresh
<1>6. \A x \in Row : Fresh[x].kept # "recorded" => Fresh[x] = Body(Fresh[x].kept, Fresh[x].expires)
  <2>1. \A x \in Row : rows[x].kept # "recorded" => rows[x] = Body(rows[x].kept, rows[x].expires)
    BY DEF TypeOK
  <2>2. \A x \in Row : LET b == Body("expired", rows[x].expires) IN b = Body(b.kept, b.expires)
    BY DEF Body
  <2> HIDE DEF Fresh
  <2> QED
    BY <1>5, <2>1, <2>2
<1> QED
  BY <1>4, <1>5, <1>6

LEMMA UpdatedTyped ==
  ASSUME CaptureAssumption, TypeOK, NEW row \in Record, NEW e \in Event
  PROVE  Updated(row, e) \in Record /\ [Updated(row, e) EXCEPT !.text = 0] \in Record
<1>1. e \in [phase: Phase, text: Nat \cup {Unreported}] /\ CommandBytes \in Nat /\ Retention \in Nat
  BY DEF CaptureAssumption
<1>2. CommandBytes \div 10 \in Nat
  BY <1>1
<1>3. e.text # Unreported => Min({e.text, CommandBytes \div 10}) \in Nat
  BY <1>1, <1>2, SmallerTyped
<1>4. row.expires \in Nat /\ row.text \in Nat /\ row.started \in Nat /\ row.finished \in Nat
      /\ now \in Nat
  BY DEF Record, TypeOK, CaptureAssumption
<1>5. now + Retention \in Nat
  BY <1>1, <1>4
<1> HIDE DEF Min
<1> QED
  BY <1>1, <1>3, <1>4, <1>5 DEF Updated, Record, Kept

(* What Store leaves in the row of its command, and in the others.           *)
LEMMA StoreResult ==
  ASSUME CaptureAssumption, TypeOK, NEW x \in Row, NEW e \in Event, Store(x, e)
  PROVE  /\ rows' \in [Row -> Record]
         /\ \A y \in Row \ {x} : rows'[y] = Fresh[y]
         /\ rows'[x].kept = "recorded" /\ rows'[x].last = e
         /\ rows'[x].expires = IF Fresh[x].kept = "absent" THEN now + Retention ELSE Fresh[x].expires
         /\ rows'[x].started = IF e.phase = "started" THEN now ELSE Fresh[x].started
         /\ rows'[x].finished = IF e.phase = "completed" THEN now ELSE Fresh[x].finished
<1> DEFINE row == Updated(Fresh[x], e)
           bare == [row EXCEPT !.text = 0]
<1>1. \/ rows' = [Fresh EXCEPT ![x] = row]
      \/ rows' = [Fresh EXCEPT ![x] = bare]
  BY DEF Store
<1>2. Fresh \in [Row -> Record]
  BY FreshTyped
<1>3. row \in Record /\ bare \in Record
  BY <1>2, UpdatedTyped
<1>4. \A r \in {row, bare} :
        /\ r.kept = "recorded" /\ r.last = e
        /\ r.expires = IF Fresh[x].kept = "absent" THEN now + Retention ELSE Fresh[x].expires
        /\ r.started = IF e.phase = "started" THEN now ELSE Fresh[x].started
        /\ r.finished = IF e.phase = "completed" THEN now ELSE Fresh[x].finished
  BY DEF Updated
<1> HIDE DEF row, bare
<1>5. PICK r \in {row, bare} : rows' = [Fresh EXCEPT ![x] = r]
  BY <1>1
<1>6. r \in Record /\ rows'[x] = r
  BY <1>2, <1>3, <1>5
<1> QED
  BY <1>2, <1>4, <1>5, <1>6

LEMMA InitInv == ASSUME CaptureAssumption, Init PROVE IInv
<1>1. Body("absent", 0) \in Record
  BY DEF Body, Record, Kept
<1>2. TypeOK
  <2>1. LET b == Body("absent", 0) IN b = Body(b.kept, b.expires)
    BY DEF Body
  <2>2. \A x \in Row : rows[x] = Body("absent", 0)
    BY DEF Init
  <2>3. rows \in [Row -> Record]
    BY <1>1 DEF Init
  <2>4. omitted \in [Reason -> 0..MaxOmissions] /\ now \in 1..MaxTime
    BY DEF Init, CaptureAssumption
  <2> QED
    BY <2>1, <2>2, <2>3, <2>4 DEF Init, TypeOK, NoReport
<1> QED
  BY <1>2 DEF Init, IInv, StoreOK, HeardOK, ReportOK, NoReport, Body

LEMMA TypeStep == ASSUME CaptureAssumption, TypeOK, [Next]_vars PROVE TypeOK'
<1> USE DEF TypeOK
<1>1. ASSUME NEW table, rows' = table, table \in [Row -> Record],
             \A x \in Row : table[x].kept # "recorded" => table[x] = Body(table[x].kept, table[x].expires)
      PROVE  /\ rows' \in [Row -> Record]
             /\ \A x \in Row : rows'[x].kept # "recorded" =>
                                 rows'[x] = Body(rows'[x].kept, rows'[x].expires)
  BY <1>1
<1>2. ASSUME NEW reason \in Reason, Omit(reason) PROVE omitted' \in [Reason -> 0..MaxOmissions]
  <2>1. omitted["missing_id"] \in Nat /\ omitted["count_limit"] \in Nat /\ omitted["byte_limit"] \in Nat
        /\ MaxOmissions \in Nat
    BY DEF Reason, CaptureAssumption
  <2>2. omitted[reason] <= Omissions /\ omitted[reason] \in Nat /\ Omissions \in Nat
    BY <2>1 DEF Omissions, Reason
  <2>3. omitted[reason] + 1 \in 0..MaxOmissions
    BY <1>2, <2>1, <2>2 DEF Omit
  <2> QED
    BY <1>2, <2>3 DEF Omit
<1>3. ASSUME NEW x \in Row, NEW e \in Event, Hears(x, e) PROVE heard' \subseteq Row
  BY <1>3 DEF Hears
<1>4. ASSUME NEW r \in Reservation, Open(r) \/ Settle(r) PROVE TypeOK'
  BY <1>4 DEF Open, Settle
<1>5. ASSUME NEW r \in Reservation, OmitMissing(r) PROVE TypeOK'
  BY <1>5, <1>1, <1>2, FreshTyped DEF OmitMissing, Reason
<1>6. ASSUME NEW r \in Reservation, NEW written \in BOOLEAN, Note(r, written) PROVE TypeOK'
  BY <1>6 DEF Note
<1>7. ASSUME NEW x \in Row, NEW e \in Event, Ignore(x, e) PROVE TypeOK'
  BY <1>7, <1>1, <1>3, FreshTyped DEF Ignore
<1>8. ASSUME NEW x \in Row, NEW e \in Event, OmitCount(x, e) \/ OmitBytes(x, e) PROVE TypeOK'
  <2>1. rows' = Fresh /\ (Omit("count_limit") \/ Omit("byte_limit")) /\ Hears(x, e)
        /\ UNCHANGED <<purged, invocation, noted, alive, now, reader, report>>
    BY <1>8 DEF OmitCount, OmitBytes, Admitted
  <2> QED
    BY <1>1, <1>2, <1>3, <2>1, FreshTyped DEF Reason
<1>9. ASSUME NEW x \in Row, NEW e \in Event, Store(x, e) PROVE TypeOK'
  <2>1. /\ rows' \in [Row -> Record]
        /\ \A y \in Row : rows'[y].kept # "recorded" =>
                            rows'[y] = Body(rows'[y].kept, rows'[y].expires)
    BY <1>9, StoreResult, FreshTyped
  <2>2. heard' \subseteq Row
        /\ UNCHANGED <<purged, omitted, invocation, noted, alive, now, reader, report>>
    BY <1>3, <1>9 DEF Store, Admitted
  <2> QED
    BY <2>1, <2>2
<1>10. ASSUME NEW x \in Row, NEW e \in Event, Lose(x, e) PROVE TypeOK'
  BY <1>10, <1>3 DEF Lose
<1>11. CASE Crash \/ Resume
  <2>1. invocation' \in [Reservation -> {"none", "open", "lost", "settled"}]
    BY <1>11 DEF Crash, Resume
  <2>2. alive' \in BOOLEAN
        /\ UNCHANGED <<rows, purged, omitted, noted, now, reader, report, heard>>
    BY <1>11 DEF Crash, Resume
  <2> QED
    BY <2>1, <2>2
<1>12. CASE Purge
  <2>1. \A x \in Row : Body("purged", rows[x].expires) \in Record
    BY DEF Body, Record, Kept
  <2>2. \A x \in Row : LET b == Body("purged", rows[x].expires) IN b = Body(b.kept, b.expires)
    BY DEF Body
  <2>3. rows' \in [Row -> Record]
    BY <1>12, <2>1 DEF Purge
  <2>4. \A x \in Row : \/ rows'[x] = rows[x] /\ rows[x].kept = "absent"
                       \/ rows'[x] = Body("purged", rows[x].expires)
    BY <1>12 DEF Purge
  <2>5. \A x \in Row : rows'[x].kept # "recorded" => rows'[x] = Body(rows'[x].kept, rows'[x].expires)
    BY <2>2, <2>4
  <2> QED
    BY <1>12, <2>3, <2>5 DEF Purge
<1>13. CASE ReadRows
  <2>1. Omissions \in Nat
    BY DEF Omissions, Reason, CaptureAssumption
  <2> QED
    BY <1>13, <1>1, <2>1, FreshTyped DEF ReadRows
<1>14. CASE ReadEvents
  BY <1>14 DEF ReadEvents
<1>15. CASE Tick
  BY <1>15 DEF Tick, CaptureAssumption
<1>16. CASE UNCHANGED vars
  BY <1>16 DEF vars
<1> HIDE DEF TypeOK
<1> QED
  BY <1>4, <1>5, <1>6, <1>7, <1>8, <1>9, <1>10, <1>11, <1>12, <1>13, <1>14, <1>15, <1>16 DEF Next

(* What a step does to the rows, to what is counted and to the invocations.  *)
LEMMA StepRows ==
  ASSUME [Next]_vars
  PROVE  /\ \/ rows' = rows \/ rows' = Fresh \/ Purge
            \/ \E x \in Row, e \in Event : Store(x, e)
         /\ purged' = purged \/ Purge
<1>1. \/ rows' = rows \/ rows' = Fresh \/ Purge
      \/ \E x \in Row, e \in Event : Store(x, e)
  BY DEF Next, vars, Open, OmitMissing, Settle, Note, Ignore, OmitCount, OmitBytes, Admitted, Lose,
     Crash, Resume, ReadRows, ReadEvents, Tick
<1>2. purged' = purged \/ Purge
  BY DEF Next, vars, Open, OmitMissing, Settle, Note, Ignore, OmitCount, OmitBytes, Admitted, Store,
     Lose, Crash, Resume, ReadRows, ReadEvents, Tick
<1> QED
  BY <1>1, <1>2

LEMMA StepCounts ==
  ASSUME TypeOK, [Next]_vars
  PROVE  /\ Omissions' >= Omissions /\ Omissions \in Nat /\ Omissions' \in Nat
         /\ \A r \in Reservation : noted[r] # "no" => noted'[r] # "no"
         /\ \A r \in Reservation : invocation[r] = "settled" => invocation'[r] = "settled"
<1>1. /\ omitted["missing_id"] \in Nat /\ omitted["count_limit"] \in Nat
      /\ omitted["byte_limit"] \in Nat /\ omitted \in [Reason -> 0..MaxOmissions]
  BY DEF TypeOK, Reason
<1>2. omitted' = omitted \/ \E reason \in Reason : Omit(reason)
  BY DEF Next, vars, Open, OmitMissing, Settle, Note, Ignore, OmitCount, OmitBytes, Store, Lose,
     Crash, Resume, Purge, ReadRows, ReadEvents, Tick, Reason
<1>3. ASSUME NEW reason \in Reason, Omit(reason)
      PROVE  Omissions' >= Omissions /\ Omissions' \in Nat
  <2>1. omitted' = [omitted EXCEPT ![reason] = omitted[reason] + 1]
    BY <1>3 DEF Omit
  <2> QED
    BY <1>1, <2>1 DEF Omissions, Reason
<1>4. \A r \in Reservation : noted[r] # "no" => noted'[r] # "no"
  BY DEF Next, vars, Open, OmitMissing, Settle, Note, Ignore, OmitCount, OmitBytes, Admitted, Store,
     Lose, Crash, Resume, Purge, ReadRows, ReadEvents, Tick, TypeOK
<1>5. \A r \in Reservation : invocation[r] = "settled" => invocation'[r] = "settled"
  BY DEF Next, vars, Open, OmitMissing, Settle, Note, Ignore, OmitCount, OmitBytes, Admitted, Store,
     Lose, Crash, Resume, Purge, ReadRows, ReadEvents, Tick, TypeOK
<1> QED
  BY <1>1, <1>2, <1>3, <1>4, <1>5 DEF Omissions

(* Once recorded, a row is dropped or completed, but not the other way.      *)
LEMMA RowKeeps ==
  ASSUME CaptureAssumption, TypeOK, StoreOK, [Next]_vars, NEW x \in Row
  PROVE  /\ rows[x].kept \in {"expired", "purged"} => rows'[x].kept \in {rows[x].kept, "purged"}
         /\ purged => purged' /\ rows'[x].kept \in {"absent", "purged"}
         /\ rows[x].kept # "absent" =>
              rows'[x].kept # "absent" /\ rows'[x].expires = rows[x].expires
         /\ rows[x].kept = "recorded" /\ rows'[x].kept = "recorded" =>
              /\ rows[x].started > 0 => rows'[x].started = rows[x].started
              /\ rows[x].finished > 0 => rows'[x] = rows[x]
         /\ rows[x].kept = "absent" /\ rows'[x].kept = "absent" => rows'[x] = rows[x]
<1>1. rows[x] \in Record /\ (rows[x].kept # "recorded" => rows[x] = Body(rows[x].kept, rows[x].expires))
  BY DEF TypeOK
<1>2. \/ Fresh[x] = rows[x]
      \/ rows[x].kept = "recorded" /\ Fresh[x] = Body("expired", rows[x].expires)
  BY FreshTyped
<1>a. purged => purged' /\ rows[x].kept \in {"absent", "purged"}
  BY StepRows DEF StoreOK, Purge
<1>b. LET b == Body("expired", rows[x].expires) IN b.kept = "expired" /\ b.expires = rows[x].expires
  BY DEF Body
<1>3. CASE rows' = rows
  BY <1>3, <1>a
<1>4. CASE rows' = Fresh
  <2>1. rows'[x] = Fresh[x]
    BY <1>4
  <2> QED
    BY <1>1, <1>2, <1>a, <1>b, <2>1
<1>5. CASE Purge
  BY <1>1, <1>5 DEF Purge, Body, Record, Kept
<1>6. ASSUME NEW y \in Row, NEW e \in Event, Store(y, e)
      PROVE  /\ ~purged
             /\ rows'[x].kept # "absent" \/ rows'[x] = Fresh[x]
             /\ rows[x].kept \in {"expired", "purged"} => rows'[x].kept \in {rows[x].kept, "purged"}
             /\ rows[x].kept # "absent" =>
                  rows'[x].kept # "absent" /\ rows'[x].expires = rows[x].expires
             /\ rows[x].kept = "recorded" /\ rows'[x].kept = "recorded" =>
                  /\ rows[x].started > 0 => rows'[x].started = rows[x].started
                  /\ rows[x].finished > 0 => rows'[x] = rows[x]
  <2>1. ~purged /\ ~Stale(Fresh[y], e)
    BY <1>6 DEF Store, Admitted
  <2>2. CASE x # y
    <3>1. rows'[x] = Fresh[x]
      BY <1>6, <2>2, StoreResult
    <3> QED
      BY <1>2, <2>1, <3>1 DEF Body
  <2>3. CASE x = y
    <3>1. /\ rows'[x].kept = "recorded"
          /\ rows'[x].expires = IF Fresh[x].kept = "absent" THEN now + Retention ELSE Fresh[x].expires
          /\ rows'[x].started = IF e.phase = "started" THEN now ELSE Fresh[x].started
      BY <1>6, <2>3, StoreResult
    <3>2. Fresh[x] = rows[x] /\ rows[x].kept \in {"absent", "recorded"}
      BY <1>1, <1>2, <2>1, <2>3 DEF Stale, Body, Record, Kept
    <3>3. ~(rows[x].kept = "recorded" /\ rows[x].finished > 0)
          /\ ~(e.phase = "started" /\ rows[x].started > 0)
      BY <2>1, <2>3, <3>2 DEF Stale
    <3> QED
      BY <2>1, <3>1, <3>2, <3>3
  <2> QED
    BY <2>2, <2>3
<1> QED
  BY <1>2, <1>a, <1>b, <1>3, <1>4, <1>5, <1>6, StepRows

LEMMA StoreStep ==
  ASSUME CaptureAssumption, TypeOK, StoreOK, [Next]_vars PROVE StoreOK'
<1>1. ASSUME NEW x \in Row, rows'[x].kept = "recorded", rows'[x].last.phase = "completed"
      PROVE  rows'[x].finished > 0
  <2>1. CASE rows'[x] = rows[x] \/ rows'[x] = Fresh[x]
    <3>1. rows'[x] = rows[x]
      BY <1>1, <2>1, FreshTyped DEF Body
    <3> QED
      BY <1>1, <3>1 DEF StoreOK
  <2>2. CASE Purge
    BY <1>1, <2>2 DEF Purge, Body
  <2>3. ASSUME NEW y \in Row, NEW e \in Event, Store(y, e), rows'[x] # Fresh[x]
        PROVE  rows'[x].finished > 0
    <3>1. x = y
      BY <2>3, StoreResult
    <3>2. rows'[x].last = e /\ rows'[x].finished = IF e.phase = "completed" THEN now
                                                   ELSE Fresh[x].finished
      BY <2>3, <3>1, StoreResult
    <3>3. now > 0
      BY DEF TypeOK, CaptureAssumption
    <3> QED
      BY <1>1, <3>2, <3>3
  <2> QED
    BY <2>1, <2>2, <2>3, StepRows
<1>2. ASSUME purged', NEW x \in Row PROVE rows'[x].kept \in {"absent", "purged"}
  <2>1. CASE Purge
    BY <2>1 DEF Purge, Body
  <2>2. CASE ~Purge
    <3>1. purged
      BY <1>2, <2>2, StepRows
    <3> QED
      BY <3>1, RowKeeps
  <2> QED
    BY <2>1, <2>2
<1> QED
  BY <1>1, <1>2 DEF StoreOK

LEMMA HeardStep ==
  ASSUME CaptureAssumption, TypeOK, StoreOK, HeardOK, [Next]_vars PROVE HeardOK'
<1> DEFINE Explained(x) == \/ rows[x].finished > 0 \/ rows[x].kept \in {"expired", "purged"}
                           \/ Omissions > 0 \/ noted[x[1]] # "no" \/ purged
<1>1. ASSUME NEW x \in heard PROVE Explained(x)'
  <2>1. x \in Row /\ x[1] \in Reservation /\ Explained(x)
    BY RowParts DEF HeardOK, TypeOK
  <2>2. CASE Omissions > 0 \/ noted[x[1]] # "no"
    <3>1. Omissions > 0 => Omissions' > 0
      BY StepCounts
    <3>2. noted[x[1]] # "no" => noted'[x[1]] # "no"
      BY <2>1, StepCounts
    <3> QED
      BY <2>2, <3>1, <3>2
  <2>3. CASE purged
    BY <2>1, <2>3, RowKeeps
  <2>4. CASE rows[x].kept \in {"expired", "purged"}
    BY <2>1, <2>4, RowKeeps
  <2>5. CASE rows[x].finished > 0 /\ rows[x].kept \notin {"expired", "purged"}
    <3>1. rows[x].kept = "recorded"
      BY <2>1, <2>5 DEF TypeOK, Body, Record, Kept
    <3>2. rows'[x].kept # "absent" /\ rows'[x].kept \in Kept
      BY <2>1, <3>1, RowKeeps, TypeStep DEF TypeOK, Record
    <3>3. rows'[x].kept = "recorded" => rows'[x] = rows[x]
      BY <2>1, <2>5, <3>1, RowKeeps
    <3> QED
      BY <2>5, <3>2, <3>3 DEF Kept
  <2> QED
    BY <2>1, <2>2, <2>3, <2>4, <2>5
<1>2. ASSUME NEW x \in Row, NEW e \in Event, e.phase = "completed",
             Ignore(x, e) \/ OmitCount(x, e) \/ Store(x, e) \/ OmitBytes(x, e) \/ Lose(x, e)
      PROVE  Explained(x)'
  <2>1. CASE Ignore(x, e)
    <3>1. rows' = Fresh /\ (purged \/ Stale(Fresh[x], e)) /\ purged' = purged
      BY <2>1 DEF Ignore
    <3>2. ASSUME Fresh[x].kept = "recorded", Fresh[x].last = e PROVE Fresh[x].finished > 0
      <4>1. Fresh[x] = rows[x]
        BY <3>2, FreshTyped DEF Body
      <4> QED
        BY <1>2, <3>2, <4>1 DEF StoreOK
    <3> QED
      BY <1>2, <3>1, <3>2 DEF Stale
  <2>2. CASE OmitCount(x, e) \/ OmitBytes(x, e)
    <3>1. Omit("count_limit") \/ Omit("byte_limit")
      BY <2>2 DEF OmitCount, OmitBytes
    <3>2. Omissions' > 0
      BY <3>1 DEF Omit, Omissions, TypeOK, Reason
    <3> QED
      BY <3>2
  <2>3. CASE Store(x, e)
    <3>1. rows'[x].finished = now
      BY <1>2, <2>3, StoreResult
    <3> QED
      BY <3>1 DEF TypeOK, CaptureAssumption
  <2>4. CASE Lose(x, e)
    <3>1. x[1] \in Reservation
      BY RowParts
    <3> QED
      BY <2>4, <3>1 DEF Lose, TypeOK
  <2> QED
    BY <1>2, <2>1, <2>2, <2>3, <2>4
<1>3. \/ heard' = heard
      \/ \E x \in Row, e \in Event :
           /\ e.phase = "completed" /\ heard' = heard \cup {x}
           /\ Ignore(x, e) \/ OmitCount(x, e) \/ Store(x, e) \/ OmitBytes(x, e) \/ Lose(x, e)
  <2>1. CASE \/ Crash \/ Resume \/ Purge \/ ReadRows \/ ReadEvents \/ Tick \/ UNCHANGED vars
             \/ \E r \in Reservation : Open(r) \/ OmitMissing(r) \/ Settle(r)
             \/ \E r \in Reservation, written \in BOOLEAN : Note(r, written)
    BY <2>1 DEF vars, Open, OmitMissing, Settle, Note, Crash, Resume, Purge, ReadRows, ReadEvents,
       Tick
  <2>2. ASSUME NEW x \in Row, NEW e \in Event,
               Ignore(x, e) \/ OmitCount(x, e) \/ Store(x, e) \/ OmitBytes(x, e) \/ Lose(x, e)
        PROVE  heard' = heard \/ (e.phase = "completed" /\ heard' = heard \cup {x})
    <3>1. Hears(x, e)
      BY <2>2 DEF Ignore, OmitCount, Store, OmitBytes, Admitted, Lose
    <3> QED
      BY <3>1 DEF Hears
  <2> QED
    BY <2>1, <2>2 DEF Next
<1>4. \A x \in heard' : Explained(x)'
  <2> HIDE DEF Explained
  <2> QED
    BY <1>1, <1>2, <1>3
<1> QED
  BY <1>4 DEF HeardOK

LEMMA ReportStep ==
  ASSUME CaptureAssumption, TypeOK, StoreOK, HeardOK, ReportOK, [Next]_vars PROVE ReportOK'
<1>1. CASE ReadRows
  <2>1. reader' = "events" /\ rows' = Fresh /\ UNCHANGED <<noted, invocation>>
    BY <1>1 DEF ReadRows
  <2>2. ASSUME NEW x \in report'.missing
        PROVE  report'.omitted > 0 \/ report'.availability = "purged" \/ noted'[x[1]] # "no"
    <3>1. x \in heard /\ Fresh[x].kept \in {"absent", "recorded"} /\ Fresh[x].finished = 0
      BY <1>1, <2>2 DEF ReadRows
    <3>2. x \in Row
      BY <3>1 DEF TypeOK
    <3>3. Fresh[x] = rows[x]
      BY <3>1, <3>2, FreshTyped DEF Body
    <3>4. Omissions > 0 \/ noted[x[1]] # "no" \/ purged
      BY <3>1, <3>3 DEF HeardOK
    <3> QED
      BY <1>1, <2>1, <3>4 DEF ReadRows
  <2>3. ASSUME NEW x \in report'.ended PROVE invocation'[x[1]] = "settled" /\ rows'[x].finished = 0
    BY <1>1, <2>3 DEF ReadRows
  <2> QED
    BY <2>1, <2>2, <2>3 DEF ReportOK
<1>2. CASE ReadEvents
  <2>1. reader = "events" /\ reader' = "done" /\ UNCHANGED <<rows, noted, invocation>>
    BY <1>2 DEF ReadEvents
  <2>2. /\ report'.ended = report.ended /\ report'.omitted = report.omitted
        /\ report'.missing = {x \in report.missing : noted[x[1]] \notin {"failing", "mute"}}
        /\ report'.availability = IF /\ report.availability # "purged"
                                     /\ \E r \in Reservation : noted[r] = "noted"
                                  THEN "capture_incomplete" ELSE report.availability
    BY <1>2 DEF ReadEvents, TypeOK
  <2>3. ASSUME NEW x \in report'.missing
        PROVE  report'.omitted > 0 \/ report'.availability \in {"purged", "capture_incomplete"}
    <3>1. x \in report.missing /\ noted[x[1]] \notin {"failing", "mute"}
      BY <2>2, <2>3
    <3>2. x[1] \in Reservation
      BY <3>1, RowParts DEF TypeOK
    <3>3. report.omitted > 0 \/ report.availability = "purged" \/ noted[x[1]] = "noted"
      BY <2>1, <3>1, <3>2 DEF ReportOK, TypeOK
    <3> QED
      BY <2>2, <3>2, <3>3
  <2>4. \A x \in report'.ended : invocation'[x[1]] = "settled" /\ rows'[x].finished = 0
    BY <2>1, <2>2 DEF ReportOK
  <2> QED
    BY <2>1, <2>3, <2>4 DEF ReportOK
<1>3. CASE ~ReadRows /\ ~ReadEvents
  <2>1. UNCHANGED <<reader, report>>
    BY <1>3 DEF Next, vars, Open, OmitMissing, Settle, Note, Ignore, OmitCount, OmitBytes, Admitted,
       Store, Lose, Crash, Resume, Purge, Tick
  <2>2. report.missing \subseteq Row /\ report.ended \subseteq Row
    BY DEF TypeOK
  <2>3. ASSUME NEW x \in report.ended
        PROVE  invocation'[x[1]] = "settled" /\ rows'[x].finished = 0
    <3>1. x \in Row /\ x[1] \in Reservation /\ invocation[x[1]] = "settled" /\ rows[x].finished = 0
      BY <2>2, <2>3, RowParts DEF ReportOK
    <3>2. rows'[x].finished = 0
      <4>1. CASE rows' = rows
        BY <3>1, <4>1
      <4>2. CASE rows'[x] = Fresh[x]
        BY <3>1, <4>2, FreshTyped DEF Body
      <4>3. CASE Purge
        BY <3>1, <4>3 DEF Purge, Body
      <4>4. ASSUME NEW y \in Row, NEW e \in Event, Store(y, e) PROVE rows'[x] = Fresh[x]
        <5>1. x # y
          BY <3>1, <4>4 DEF Store, Admitted, Hears
        <5> QED
          BY <3>1, <4>4, <5>1, StoreResult
      <4> QED
        BY <4>1, <4>2, <4>3, <4>4, StepRows
    <3> QED
      BY <3>1, <3>2, StepCounts
  <2>4. ASSUME NEW x \in report.missing, noted[x[1]] # "no" PROVE noted'[x[1]] # "no"
    BY <2>2, <2>4, RowParts, StepCounts
  <2> QED
    BY <2>1, <2>3, <2>4 DEF ReportOK
<1> QED
  BY <1>1, <1>2, <1>3

(* Everything the theorems below rest on is an invariant.                    *)
THEOREM Invariance == ASSUME CaptureAssumption PROVE Spec => []IInv
<1>1. Init => IInv
  BY InitInv
<1>2. IInv /\ [Next]_vars => IInv'
  BY TypeStep, StoreStep, HeardStep, ReportStep DEF IInv
<1> QED
  BY <1>1, <1>2, PTL DEF Spec

(* The store keeps its types, and rows without content hold nothing.         *)
THEOREM TypeCorrect == ASSUME CaptureAssumption PROVE Spec => []TypeOK
<1>1. IInv => TypeOK
  BY DEF IInv
<1> QED
  BY <1>1, Invariance, PTL

(* No later snapshot undoes what expire, purge or an earlier one did.        *)
THEOREM KeptApart == ASSUME CaptureAssumption PROVE Spec => NothingComesBack
<1>1. IInv /\ [Next]_vars =>
        [\A x \in Row :
           LET old == rows[x]  new == rows'[x] IN
           /\ old.kept \in {"expired", "purged"} => new.kept \in {old.kept, "purged"}
           /\ purged => purged' /\ new.kept \in {"absent", "purged"}
           /\ old.kept # "absent" => new.kept # "absent" /\ new.expires = old.expires
           /\ old.kept = "recorded" /\ new.kept = "recorded" =>
                /\ old.started > 0 => new.started = old.started
                /\ old.finished > 0 => new = old]_vars
  BY RowKeeps DEF IInv
<1> QED
  BY <1>1, Invariance, PTL DEF Spec, NothingComesBack

(* A report never presents missing evidence as complete, nor is what it says *)
(* of an ended command taken back.                                           *)
THEOREM ReportsKept == ASSUME CaptureAssumption PROVE Spec => []ReportsHold
<1>1. IInv => ReportsHold
  BY DEF IInv, ReportOK, ReportsHold
<1> QED
  BY <1>1, Invariance, PTL

-----------------------------------------------------------------------------
(* The limits of the store.                                                  *)

LEMMA SmallerOf ==
  ASSUME NEW a \in Int, NEW b \in Int, NEW c \in Int, c <= Min({a, b})
  PROVE  c <= a /\ c <= b
<1>1. \E m \in {a, b} : \A y \in {a, b} : m <= y
  <2>1. CASE a <= b
    BY <2>1
  <2>2. CASE b <= a
    BY <2>2
  <2> QED
    BY <2>1, <2>2
<1>2. Min({a, b}) \in {a, b} /\ \A y \in {a, b} : Min({a, b}) <= y
  BY <1>1 DEF Min
<1> HIDE DEF Min
<1> QED
  BY <1>2

LEMMA RowFinite == ASSUME CaptureAssumption PROVE IsFiniteSet(Row)
BY FS_Product DEF CaptureAssumption, Row

(* A body is no smaller than the tombstone that may take its place.          *)
LEMMA LengthTyped ==
  ASSUME CaptureAssumption, NEW row \in Record
  PROVE  Length(row) \in Nat /\ (row.kept # "absent" => Length(row) >= Tomb)
<1> DEFINE times == {time \in {"started", "finished"} : row[time] > 0}
<1>1. IsFiniteSet({"started", "finished"})
  <2>1. IsFiniteSet({"started"}) /\ {"started", "finished"} = {"started"} \cup {"finished"}
    BY FS_Singleton
  <2>2. IsFiniteSet({"started"} \cup {"finished"})
    BY <2>1, FS_AddElement
  <2> QED
    BY <2>1, <2>2
<1>2. Cardinality(times) \in Nat
  BY <1>1, FS_Subset, FS_CardinalityType
<1> HIDE DEF times
<1>3. \A m, n \in Nat : m * n \in Nat
  OBVIOUS
<1>4. Stamp * Cardinality(times) \in Nat
  BY <1>2, <1>3 DEF CaptureAssumption
<1>5. /\ row.kept = "absent" => Length(row) = 0
      /\ row.kept \in {"expired", "purged"} => Length(row) = Tomb
      /\ row.kept = "recorded" => Length(row) = Meta + row.text + Stamp * Cardinality(times)
  BY DEF Length, times
<1>6. row.text \in Nat /\ row.kept \in {"absent", "recorded", "expired", "purged"}
  BY DEF Record, Kept
<1> HIDE DEF Length
<1> QED
  BY <1>4, <1>5, <1>6 DEF CaptureAssumption

LEMMA SizesTyped ==
  ASSUME CaptureAssumption, NEW table \in [Row -> Record]
  PROVE  Sizes(table) \in [Row -> Nat] /\ Used(table) \in Nat
<1>1. Sizes(table) \in [Row -> Nat]
  BY LengthTyped DEF Sizes
<1> QED
  BY <1>1, RowFinite, SumType DEF Used

LEMMA CountTyped ==
  ASSUME CaptureAssumption, NEW table
  PROVE  IsFiniteSet({x \in Row : table[x].kept # "absent"}) /\ Count(table) \in Nat
BY RowFinite, FS_Subset, FS_CardinalityType DEF Count

(* The limits, of any table.                                                 *)
Caps(table) ==
  /\ Count(table) <= MaxCommands
  /\ Used(table) <= RunBytes /\ \A x \in Row : Length(table[x]) <= CommandBytes

(* A table that adds no row and makes none larger keeps the limits: expire   *)
(* and purge only make tombstones.                                           *)
LEMMA SmallerKeepsCaps ==
  ASSUME CaptureAssumption, NEW old \in [Row -> Record], NEW new \in [Row -> Record], Caps(old),
         \A x \in Row : /\ new[x].kept = "absent" <=> old[x].kept = "absent"
                        /\ Length(new[x]) <= Length(old[x])
  PROVE  Caps(new)
<1>1. Count(new) = Count(old)
  <2>1. {x \in Row : new[x].kept # "absent"} = {x \in Row : old[x].kept # "absent"}
    OBVIOUS
  <2> QED
    BY <2>1 DEF Count
<1>2. Used(new) <= Used(old)
  <2>1. \A x \in Row : Sizes(new)[x] <= Sizes(old)[x]
    BY DEF Sizes
  <2> QED
    BY <2>1, SizesTyped, RowFinite, SumMonotonic DEF Used
<1>3. \A x \in Row : Length(new[x]) \in Nat /\ Length(old[x]) \in Nat
  BY LengthTyped
<1> QED
  BY <1>1, <1>2, <1>3, SizesTyped DEF Caps, CaptureAssumption

LEMMA FreshKeepsCaps ==
  ASSUME CaptureAssumption, TypeOK, Caps(rows)
  PROVE  Caps(Fresh)
<1>1. ASSUME NEW x \in Row
      PROVE  /\ Fresh[x].kept = "absent" <=> rows[x].kept = "absent"
             /\ Length(Fresh[x]) <= Length(rows[x])
  <2>1. rows[x] \in Record /\ Fresh[x] \in Record
    BY FreshTyped DEF TypeOK
  <2>2. Length(rows[x]) \in Nat
    BY <2>1, LengthTyped
  <2>3. CASE Fresh[x] = rows[x]
    <3> HIDE DEF Fresh, Length
    <3> QED
      BY <2>2, <2>3
  <2>4. CASE rows[x].kept = "recorded" /\ Fresh[x] = Body("expired", rows[x].expires)
    <3>1. Fresh[x].kept = "expired"
      BY <2>4 DEF Body
    <3>2. Length(Fresh[x]) = Tomb
      BY <3>1 DEF Length
    <3>3. Length(rows[x]) >= Tomb
      BY <2>1, <2>4, LengthTyped
    <3> QED
      BY <2>2, <2>4, <3>1, <3>2, <3>3 DEF CaptureAssumption
  <2> QED
    BY <2>3, <2>4, FreshTyped
<1> HIDE DEF Fresh, Caps, Length
<1> QED
  BY <1>1, FreshTyped, SmallerKeepsCaps DEF TypeOK

(* One row of a table is replaced by one that its caller made room for.      *)
LEMMA ReplacedKeepsCaps ==
  ASSUME CaptureAssumption, NEW table \in [Row -> Record], Caps(table),
         NEW x \in Row, NEW new \in Record,
         new.kept # "absent", ~Full(table, x), Length(new) <= Allowed(table, x)
  PROVE  Caps([table EXCEPT ![x] = new])
<1> DEFINE after == [table EXCEPT ![x] = new]
<1>1. after \in [Row -> Record] /\ after[x] = new /\ \A y \in Row \ {x} : after[y] = table[y]
  OBVIOUS
<1> HIDE DEF after, Length, Caps
<1>2. Used(table) \in Nat /\ Length(table[x]) \in Nat /\ Length(new) \in Nat /\ MaxCommands \in Nat
      /\ RunBytes \in Nat /\ CommandBytes \in Nat
  BY SizesTyped, LengthTyped DEF CaptureAssumption
<1>3. Length(new) <= CommandBytes /\ Length(new) <= RunBytes - Used(table) + Length(table[x])
  BY <1>2, SmallerOf DEF Allowed
<1>4. Used(after) = Used(table) - Length(table[x]) + Length(new)
  <2>1. Sizes(table)[x] = Length(table[x]) /\ Sizes(after)[x] = Length(new)
    BY <1>1 DEF Sizes
  <2>2. \A y \in Row \ {x} : Sizes(after)[y] = Sizes(table)[y]
    BY <1>1 DEF Sizes
  <2>3. Sizes(table) \in [Row -> Nat] /\ Sizes(after) \in [Row -> Nat] /\ IsFiniteSet(Row)
    BY <1>1, SizesTyped, RowFinite
  <2> QED
    BY <2>1, <2>2, <2>3, SumUpdate DEF Used
<1>5. Count(after) <= MaxCommands
  <2> DEFINE there == {y \in Row : table[y].kept # "absent"}
  <2>1. {y \in Row : after[y].kept # "absent"} = there \cup {x}
    BY <1>1
  <2>2. IsFiniteSet(there) /\ Cardinality(there) = Count(table) /\ Count(table) \in Nat
    BY CountTyped DEF Count
  <2>3. Count(after) = IF x \in there THEN Count(table) ELSE Count(table) + 1
    <3> HIDE DEF there
    <3> QED
      BY <2>1, <2>2, FS_AddElement DEF Count
  <2>4. x \notin there => Count(table) < MaxCommands
    BY <1>2, <2>2 DEF Full
  <2>5. Count(table) <= MaxCommands
    BY DEF Caps
  <2> QED
    BY <1>2, <2>2, <2>3, <2>4, <2>5
<1>6. \A y \in Row : Length(after[y]) <= CommandBytes
  BY <1>1, <1>3 DEF Caps
<1>7. Used(after) <= RunBytes
  BY <1>2, <1>3, <1>4
<1>8. Caps(after)
  BY <1>5, <1>6, <1>7 DEF Caps
<1> QED
  BY <1>8 DEF after

LEMMA CapsStep ==
  ASSUME CaptureAssumption, TypeOK, TypeOK', Caps(rows), [Next]_vars
  PROVE  Caps(rows')
<1>1. CASE rows' = rows
  BY <1>1
<1>2. CASE rows' = Fresh
  BY <1>2, FreshKeepsCaps
<1>3. CASE Purge
  <2>1. ASSUME NEW x \in Row
        PROVE  /\ rows'[x].kept = "absent" <=> rows[x].kept = "absent"
               /\ Length(rows'[x]) <= Length(rows[x])
    <3>1. rows[x] \in Record
      BY DEF TypeOK
    <3>2. Length(rows[x]) \in Nat /\ (rows[x].kept # "absent" => Length(rows[x]) >= Tomb)
      BY <3>1, LengthTyped
    <3>3. CASE rows[x].kept = "absent"
      <4>1. rows'[x] = rows[x]
        BY <1>3, <3>3 DEF Purge
      <4> HIDE DEF Length
      <4> QED
        BY <3>2, <4>1
    <3>4. CASE rows[x].kept # "absent"
      <4>1. rows'[x] = Body("purged", rows[x].expires)
        BY <1>3, <3>4 DEF Purge
      <4>2. rows'[x].kept = "purged"
        BY <4>1 DEF Body
      <4>3. Length(rows'[x]) = Tomb
        BY <4>2 DEF Length
      <4> QED
        BY <3>2, <3>4, <4>2, <4>3 DEF CaptureAssumption
    <3> QED
      BY <3>3, <3>4
  <2> HIDE DEF Caps, Length
  <2> QED
    BY <2>1, SmallerKeepsCaps DEF TypeOK
<1>4. ASSUME NEW x \in Row, NEW e \in Event, Store(x, e) PROVE Caps(rows')
  <2> DEFINE row == Updated(Fresh[x], e)
             bare == [row EXCEPT !.text = 0]
  <2>1. Fresh \in [Row -> Record] /\ Caps(Fresh)
    BY FreshTyped, FreshKeepsCaps
  <2>2. row \in Record /\ bare \in Record
    BY <2>1, UpdatedTyped
  <2>3. row.kept = "recorded" /\ bare.kept = "recorded"
    BY DEF Updated
  <2>4. ~Full(Fresh, x)
    BY <1>4 DEF Store, Admitted
  <2>5. \/ rows' = [Fresh EXCEPT ![x] = row] /\ Length(row) <= Allowed(Fresh, x)
        \/ rows' = [Fresh EXCEPT ![x] = bare] /\ Length(bare) <= Allowed(Fresh, x)
    BY <1>4 DEF Store
  <2> HIDE DEF row, bare, Caps, Length, Fresh
  <2>6. PICK new \in {row, bare} :
          rows' = [Fresh EXCEPT ![x] = new] /\ Length(new) <= Allowed(Fresh, x)
    BY <2>5
  <2>7. new \in Record /\ new.kept # "absent"
    BY <2>2, <2>3
  <2> QED
    BY <2>1, <2>4, <2>6, <2>7, ReplacedKeepsCaps
<1> QED
  BY <1>1, <1>2, <1>3, <1>4, StepRows

(* record, expire, purge: the rows of a Run, their bytes and the bytes of    *)
(* each are within the limits, whatever is stored, expires or is purged.     *)
THEOREM CapsKept == ASSUME CaptureAssumption PROVE Spec => []CapsHold
<1>1. Init => Caps(rows)
  <2> SUFFICES ASSUME Init PROVE Caps(rows)
    OBVIOUS
  <2>1. \A x \in Row : rows[x].kept = "absent"
    BY DEF Init, Body
  <2>2. \A x \in Row : Length(rows[x]) = 0
    BY <2>1 DEF Length
  <2>3. Sizes(rows) \in [Row -> Nat] /\ \A x \in Row : Sizes(rows)[x] = 0
    BY <2>2 DEF Sizes
  <2>4. Used(rows) = 0
    BY <2>3, RowFinite, SumOfZeros DEF Used
  <2>5. {x \in Row : rows[x].kept # "absent"} = {}
    BY <2>1
  <2>6. Count(rows) = 0
    BY <2>5, FS_EmptySet DEF Count
  <2> QED
    BY <2>2, <2>4, <2>6 DEF Caps, CaptureAssumption
<1>2. IInv /\ Caps(rows) /\ [Next]_vars => Caps(rows)'
  BY TypeStep, CapsStep DEF IInv
<1>3. CapsHold <=> Caps(rows)
  BY DEF CapsHold, Caps
<1> QED
  BY <1>1, <1>2, <1>3, Invariance, PTL DEF Spec
=============================================================================
