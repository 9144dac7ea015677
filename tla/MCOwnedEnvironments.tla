------------------------ MODULE MCOwnedEnvironments -------------------------
(* Instances of OwnedEnvironments for TLC.                                   *)
EXTENDS OwnedEnvironments
=============================================================================
