----------------------------- MODULE CommandCapture -----------------------------
(* Command capture (command_diagnostics.py): the bounded store of snapshots  *)
(* that the running invocations of a Run report of the commands their model  *)
(* executes, beside the journal, with its limits, its retention, its purge   *)
(* and the report an operator reads of it.                                   *)
(*                                                                           *)
(* A provider may repeat, reorder or drop the snapshots of a command.  One   *)
(* text stands for the five text fields, by its size; metadata has a size,   *)
(* and every timestamp in it adds to it.  Every transaction is one step; the *)
(* report is read in two.                                                    *)

EXTENDS Integers, FiniteSets, FiniteSetsExt, Functions

CONSTANTS
  Reservation,  \* invocations of the Run
  Command,      \* provider ids of commands, scoped to an invocation
  Event,        \* what a snapshot says: its phase and the size of its text
  CommandBytes, \* command_capture.command_bytes
  RunBytes,     \* command_capture.run_bytes
  MaxCommands,  \* command_capture.max_commands
  Retention,    \* command_capture.retention_days
  Meta,         \* bytes of a body without text and timestamps
  Stamp,        \* bytes a timestamp adds to it
  Tomb,         \* bytes of the body {}
  MaxTime,      \* bound: the last instant
  MaxOmissions  \* bound: omissions

Unreported == -1
Phase == {"started", "updated", "completed"}

ASSUME CaptureAssumption ==
  /\ IsFiniteSet(Reservation) /\ IsFiniteSet(Command)
  /\ Event \subseteq [phase: Phase, text: Nat \cup {Unreported}] /\ Retention \in Nat \ {0}
  /\ CommandBytes \in Nat /\ RunBytes \in Nat /\ CommandBytes <= RunBytes
  /\ MaxCommands \in Nat \ {0} /\ MaxTime \in Nat \ {0} /\ MaxOmissions \in Nat
  /\ Meta \in Nat /\ Stamp \in Nat /\ Tomb \in Nat /\ Tomb <= Meta

VARIABLES
  rows,       \* command_records
  purged,     \* command_capture_state.purged
  omitted,    \* its three counters
  invocation, \* the reservation: "none", "open", "lost" by a crash, "settled"
  noted,      \* capture_failed and the command_capture_failed event
  alive,      \* a controller lives
  now,
  reader,     \* where the operator's call of commands stands
  report,     \* what that call says
  heard       \* commands whose completion the observer was given (history)

vars == <<rows, purged, omitted, invocation, noted, alive, now, reader, report, heard>>

Row == Reservation \X Command
NoEvent == [phase |-> "none", text |-> Unreported]
Reason == {"missing_id", "count_limit", "byte_limit"}
Kept == {"absent", "recorded", "expired", "purged"}

(* A row; 0 stands for a timestamp that is not set.                          *)
Record == [kept: Kept, expires: Nat, last: Event \cup {NoEvent}, text: Nat,
           started: Nat, finished: Nat]
Body(kept, expires) == [kept |-> kept, expires |-> expires, last |-> NoEvent, text |-> 0,
                        started |-> 0, finished |-> 0]

(* A report: the commands it calls ended without completion, those whose     *)
(* completion was heard and is not in it, its omissions and availability.    *)
NoReport == [ended |-> {}, missing |-> {}, omitted |-> 0, availability |-> "none"]

TypeOK ==
  /\ rows \in [Row -> Record]
  /\ \A x \in Row : rows[x].kept # "recorded" => rows[x] = Body(rows[x].kept, rows[x].expires)
  /\ purged \in BOOLEAN /\ omitted \in [Reason -> 0..MaxOmissions]
  /\ invocation \in [Reservation -> {"none", "open", "lost", "settled"}]
  /\ noted \in [Reservation -> {"no", "failing", "noted", "mute"}]
  /\ alive \in BOOLEAN /\ now \in 1..MaxTime
  /\ reader \in {"idle", "events", "done"}
  /\ report \in [ended: SUBSET Row, missing: SUBSET Row, omitted: Nat,
                 availability: {"none", "purged", "capture_incomplete", "no_matching_records",
                                "recorded"}]
  /\ heard \subseteq Row

Init ==
  /\ rows = [x \in Row |-> Body("absent", 0)]
  /\ purged = FALSE /\ omitted = [reason \in Reason |-> 0]
  /\ invocation = [r \in Reservation |-> "none"] /\ noted = [r \in Reservation |-> "no"]
  /\ alive = TRUE /\ now = 1 /\ reader = "idle" /\ report = NoReport /\ heard = {}

-----------------------------------------------------------------------------
(* The store.                                                                *)

(* expire: the rows every reader and writer sees.                            *)
Fresh == [x \in Row |->
  IF rows[x].kept = "recorded" /\ rows[x].expires <= now
  THEN Body("expired", rows[x].expires) ELSE rows[x]]

Length(row) ==
  CASE row.kept = "absent" -> 0
    [] row.kept \in {"expired", "purged"} -> Tomb
    [] row.kept = "recorded" ->
         Meta + row.text + Stamp * Cardinality({time \in {"started", "finished"} : row[time] > 0})

Sizes(table) == [x \in Row |-> Length(table[x])]
Used(table) == SumFunction(Sizes(table))
Count(table) == Cardinality({x \in Row : table[x].kept # "absent"})

(* Mutated form: every snapshot renews the retention of its row.             *)
UpdatedRenewing(row, e) ==
  [kept |-> "recorded", expires |-> now + Retention, last |-> e,
   text |-> IF e.text = Unreported THEN row.text ELSE Min({e.text, CommandBytes \div 10}),
   started |-> IF e.phase = "started" THEN now ELSE row.started,
   finished |-> IF e.phase = "completed" THEN now ELSE row.finished]

(* What a snapshot makes of the row of its command.                          *)
Updated(row, e) ==
  [kept |-> "recorded",
   expires |-> IF row.kept = "absent" THEN now + Retention ELSE row.expires,
   last |-> e,
   text |-> IF e.text = Unreported THEN row.text ELSE Min({e.text, CommandBytes \div 10}),
   started |-> IF e.phase = "started" THEN now ELSE row.started,
   finished |-> IF e.phase = "completed" THEN now ELSE row.finished]

(* What a row may take: tombstones and the rows of other workers count.      *)
Allowed(table, x) == Min({CommandBytes, RunBytes - Used(table) + Length(table[x])})

(* Mutated form: a snapshot with the text stored last is a repetition.       *)
StaleByText(row, e) ==
  \/ row.kept \in {"expired", "purged"}
  \/ row.kept = "recorded" /\ (row.last.text = e.text \/ row.finished > 0)
  \/ e.phase = "started" /\ row.started > 0

(* Snapshots that change nothing: of a removed row, the one stored last, of  *)
(* a completed command, or a second start.                                   *)
Stale(row, e) ==
  \/ row.kept \in {"expired", "purged"}
  \/ row.kept = "recorded" /\ (row.last = e \/ row.finished > 0)
  \/ e.phase = "started" /\ row.started > 0

(* Mutated form: the tombstones of a Run are not counted.                    *)
FullOfLive(table, x) ==
  table[x].kept = "absent" /\ Cardinality({y \in Row : table[y].kept = "recorded"}) >= MaxCommands

Full(table, x) == table[x].kept = "absent" /\ Count(table) >= MaxCommands

Omissions == omitted["missing_id"] + omitted["count_limit"] + omitted["byte_limit"]
Omit(reason) ==
  /\ Omissions < MaxOmissions
  /\ omitted' = [omitted EXCEPT ![reason] = @ + 1]

-----------------------------------------------------------------------------
(* Invocations: _invoke, and the observer it gives to the model session.     *)

Open(r) ==
  /\ alive /\ invocation[r] = "none"
  /\ invocation' = [invocation EXCEPT ![r] = "open"]
  /\ UNCHANGED <<rows, purged, omitted, noted, alive, now, reader, report, heard>>

Hears(x, e) ==
  /\ invocation[x[1]] = "open" /\ noted[x[1]] # "failing"
  /\ heard' = IF e.phase = "completed" THEN heard \cup {x} ELSE heard

(* record, of a snapshot that is ignored.                                    *)
Ignore(x, e) ==
  /\ Hears(x, e)
  /\ purged \/ Stale(Fresh[x], e)
  /\ rows' = Fresh
  /\ UNCHANGED <<purged, omitted, invocation, noted, alive, now, reader, report>>

(* ... that carries no command id.                                           *)
OmitMissing(r) ==
  /\ invocation[r] = "open" /\ noted[r] # "failing" /\ ~purged
  /\ Omit("missing_id") /\ rows' = Fresh
  /\ UNCHANGED <<purged, invocation, noted, alive, now, reader, report, heard>>

OmitCount(x, e) ==
  /\ Hears(x, e) /\ ~purged
  /\ Full(Fresh, x)
  /\ Omit("count_limit") /\ rows' = Fresh
  /\ UNCHANGED <<purged, invocation, noted, alive, now, reader, report>>

Admitted(x, e) == Hears(x, e) /\ ~purged /\ ~Stale(Fresh[x], e) /\ ~Full(Fresh, x)

(* ... that is stored, without its text when that does not fit.              *)
Store(x, e) ==
  /\ Admitted(x, e)
  /\ \E row \in {Updated(Fresh[x], e)} : \E bare \in {[row EXCEPT !.text = 0]} :
       /\ Length(bare) <= Allowed(Fresh, x)
       /\ rows' = [Fresh EXCEPT ![x] = IF Length(row) <= Allowed(Fresh, x) THEN row ELSE bare]
  /\ UNCHANGED <<purged, omitted, invocation, noted, alive, now, reader, report>>

OmitBytes(x, e) ==
  /\ Admitted(x, e)
  /\ Length([Updated(Fresh[x], e) EXCEPT !.text = 0]) > Allowed(Fresh, x)
  /\ Omit("byte_limit") /\ rows' = Fresh
  /\ UNCHANGED <<purged, invocation, noted, alive, now, reader, report>>

(* The snapshot cannot be made or stored: the first time, an event says so.  *)
Lose(x, e) ==
  /\ Hears(x, e)
  /\ noted' = IF noted[x[1]] = "no" THEN [noted EXCEPT ![x[1]] = "failing"] ELSE noted
  /\ UNCHANGED <<rows, purged, omitted, invocation, alive, now, reader, report>>

(* command_capture_failed; the journal may refuse that as well.              *)
Note(r, written) ==
  /\ invocation[r] = "open" /\ noted[r] = "failing"
  /\ noted' = [noted EXCEPT ![r] = IF written THEN "noted" ELSE "mute"]
  /\ UNCHANGED <<rows, purged, omitted, invocation, alive, now, reader, report, heard>>

Settle(r) ==
  /\ invocation[r] = "open" /\ noted[r] # "failing"
  /\ invocation' = [invocation EXCEPT ![r] = "settled"]
  /\ UNCHANGED <<rows, purged, omitted, noted, alive, now, reader, report, heard>>

(* The controller dies with its invocations; the next one recovers them.     *)
Crash ==
  /\ alive
  /\ alive' = FALSE
  /\ invocation' = [r \in Reservation |->
                      IF invocation[r] = "open" THEN "lost" ELSE invocation[r]]
  /\ UNCHANGED <<rows, purged, omitted, noted, now, reader, report, heard>>

Resume ==
  /\ ~alive
  /\ alive' = TRUE
  /\ invocation' = [r \in Reservation |->
                      IF invocation[r] = "lost" THEN "settled" ELSE invocation[r]]
  /\ UNCHANGED <<rows, purged, omitted, noted, now, reader, report, heard>>

-----------------------------------------------------------------------------
(* The operator.                                                             *)

(* purge.                                                                    *)
Purge ==
  /\ purged' = TRUE
  /\ rows' = [x \in Row |-> IF rows[x].kept = "absent" THEN rows[x]
                            ELSE Body("purged", rows[x].expires)]
  /\ UNCHANGED <<omitted, invocation, noted, alive, now, reader, report, heard>>

(* read: the rows, with what became of their invocations, and the state.     *)
ReadRows ==
  /\ reader = "idle"
  /\ reader' = "events" /\ rows' = Fresh
  /\ report' =
       [ended |-> {x \in Row : /\ Fresh[x].kept = "recorded" /\ Fresh[x].finished = 0
                               /\ invocation[x[1]] = "settled"},
        missing |-> {x \in heard : Fresh[x].kept \in {"absent", "recorded"}
                                  /\ Fresh[x].finished = 0},
        omitted |-> Omissions,
        availability |-> IF purged THEN "purged"
                         ELSE IF Count(Fresh) = 0 THEN "no_matching_records" ELSE "recorded"]
  /\ UNCHANGED <<purged, omitted, invocation, noted, alive, now, heard>>

(* commands: the events are read after the rows.  A loss whose event is not  *)
(* written cannot be told of.                                                *)
ReadEvents ==
  /\ reader = "events"
  /\ reader' = "done"
  /\ report' =
       [report EXCEPT
          !.availability = IF @ # "purged" /\ \E r \in Reservation : noted[r] = "noted"
                           THEN "capture_incomplete" ELSE @,
          !.missing = {x \in @ : noted[x[1]] \notin {"failing", "mute"}}]
  /\ UNCHANGED <<rows, purged, omitted, invocation, noted, alive, now, heard>>

Tick ==
  /\ now < MaxTime /\ now' = now + 1
  /\ UNCHANGED <<rows, purged, omitted, invocation, noted, alive, reader, report, heard>>

Next ==
  \/ \E r \in Reservation :
       Open(r) \/ OmitMissing(r) \/ Settle(r) \/ \E written \in BOOLEAN : Note(r, written)
  \/ \E x \in Row, e \in Event :
       Ignore(x, e) \/ OmitCount(x, e) \/ Store(x, e) \/ OmitBytes(x, e) \/ Lose(x, e)
  \/ Crash \/ Resume \/ Purge \/ ReadRows \/ ReadEvents \/ Tick

Spec == Init /\ [][Next]_vars

-----------------------------------------------------------------------------
(* Properties.                                                               *)

(* Whatever order the workers of a Run store, expire and purge in: its rows, *)
(* tombstones included, are never more than allowed, and neither is a body   *)
(* nor their sum.                                                            *)
CapsHold ==
  /\ Count(rows) <= MaxCommands
  /\ Used(rows) <= RunBytes /\ \A x \in Row : Length(rows[x]) <= CommandBytes

(* A late or repeated snapshot brings nothing back and moves nothing: what   *)
(* was removed stays removed, nothing is stored once the Run is purged, the  *)
(* retention of a row is that of its first snapshot, its start does not move *)
(* and a completed command stays as it was reported.                         *)
NothingComesBack ==
  [][\A x \in Row :
       LET old == rows[x]  new == rows'[x] IN
       /\ old.kept \in {"expired", "purged"} => new.kept \in {old.kept, "purged"}
       /\ purged => purged' /\ new.kept \in {"absent", "purged"}
       /\ old.kept # "absent" => new.kept # "absent" /\ new.expires = old.expires
       /\ old.kept = "recorded" /\ new.kept = "recorded" =>
            /\ old.started > 0 => new.started = old.started
            /\ old.finished > 0 => new = old]_vars

(* A report does not present missing evidence as complete: it shows every    *)
(* completion given to the observer before its rows were read, or says that  *)
(* it was removed, omitted or lost, but for a loss whose own event could not *)
(* be written yet or at all.  And a command it calls ended without           *)
(* completion is never completed afterwards.                                 *)
ReportsHold ==
  /\ reader = "done" /\ report.missing # {} =>
       report.omitted > 0 \/ report.availability \in {"purged", "capture_incomplete"}
  /\ \A x \in report.ended : invocation[x[1]] = "settled" /\ rows[x].finished = 0

=============================================================================
