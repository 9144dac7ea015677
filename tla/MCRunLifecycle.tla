--------------------------- MODULE MCRunLifecycle ---------------------------
(* Instances of RunLifecycle for TLC.                                        *)
EXTENDS RunLifecycle, TLC

OperatorCommands == AllCommands
StoppingCommands == {"execute", "cancel", "cleanup"}

Interchangeable == Permutations(Proc) \cup Permutations(Task)
=============================================================================
