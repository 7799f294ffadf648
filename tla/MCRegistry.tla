----------------------------- MODULE MCRegistry -----------------------------
(***************************************************************************)
(* Registry for TLC.  Connections are interchangeable, so are ports.       *)
(***************************************************************************)
EXTENDS Registry, TLC

Symmetry == Permutations(Conns) \cup Permutations(Ports)
=============================================================================
