---------------------------- MODULE MCCommandCapture ----------------------------
(* Three commands, one more than a Run may have; RunBytes does not hold two  *)
(* bodies with text and timestamps, CommandBytes holds each.                 *)

EXTENDS CommandCapture, TLC

Events == {[phase |-> "started", text |-> Unreported],
           [phase |-> "updated", text |-> 9], [phase |-> "completed", text |-> 9]}

Symmetry == Permutations(Command)

=============================================================================
