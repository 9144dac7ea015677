--------------------------- MODULE MCIsolatedWork ---------------------------
(* Instances of IsolatedWork for TLC.  Four processes are the one of the     *)
(* probe, that of the session, a child and a detached grandchild, or one     *)
(* that escapes a signal.                                                    *)
EXTENDS IsolatedWork
=============================================================================
