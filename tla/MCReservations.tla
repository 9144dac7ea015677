--------------------------- MODULE MCReservations ---------------------------
(* An instance of Reservations for TLC: two stages and a check of one Run;   *)
(* the second stage may repair its output once and retry its transport once. *)
EXTENDS Reservations, TLC

CONSTANTS k1, k2, v

RevisionsOf == k1 :> 0 @@ k2 :> 1 @@ v :> 0
RetriesOf == k1 :> 0 @@ k2 :> 1 @@ v :> 0
=============================================================================
