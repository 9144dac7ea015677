-------------------------- MODULE MCExternalEffects --------------------------
(* Instances of ExternalEffects for TLC: two Runs, one with two tasks.       *)
EXTENDS ExternalEffects, TLC

CONSTANTS r1, r2, u1, u2, u3

UnitRun == [u \in {u1, u2, u3} |-> IF u = u3 THEN r2 ELSE r1]

(* The tasks of the first Run write to different hosts; the second Run's     *)
(* only task names a host of the first task's and of the second task's.      *)
CommonHosts == {<<u1, u3>>, <<u3, u1>>, <<u2, u3>>, <<u3, u2>>}
OneTask == [u \in {u1} |-> r1]
=============================================================================
