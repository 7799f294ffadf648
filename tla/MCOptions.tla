----------------------------- MODULE MCOptions ------------------------------
(* Files of two lines and command lines of two flags: enough for -listen,   *)
(* -connect and two other settings, or for a setting given twice.           *)
EXTENDS Options
=============================================================================
