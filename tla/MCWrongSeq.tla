----------------------------- MODULE MCWrongSeq -----------------------------
(* Sequence numbers modulo 10 and identifications modulo 5; MTUs from       *)
(* unknown over too small to large enough for the whole fake.               *)
EXTENDS WrongSeq

MCHeaders == {4}
MCMTUs == {0, 5, 6, 7, 11}
=============================================================================
