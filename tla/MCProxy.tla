------------------------------ MODULE MCProxy -------------------------------
(* A normal run, or a test matrix of two cases so that a case can start     *)
(* while the one before it is still being shut down.  Of the three rules    *)
(* one may fail to be deleted, the one that ensureMarkedRoute, the error    *)
(* branches and Close all delete.                                           *)
EXTENDS Proxy
=============================================================================
