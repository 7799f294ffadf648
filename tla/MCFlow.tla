------------------------------- MODULE MCFlow -------------------------------
(***************************************************************************)
(* Flow for TLC.  The sequence space has two numbers and the kernel's      *)
(* initial number is the last of them, so SYN + 1 wraps to 0.              *)
(***************************************************************************)
EXTENDS FlowInv
=============================================================================
