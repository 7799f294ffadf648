----------------------------- MODULE MCFragment -----------------------------
(* Records of up to MaxRecord bytes, long enough for a ClientHello with a   *)
(* host name of a few bytes and something before or after it.               *)
EXTENDS Fragment

MCChunks == {0, 1, 2}
=============================================================================
