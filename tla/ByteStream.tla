----------------------------- MODULE ByteStream -----------------------------
(***************************************************************************)
(* What fragmenting promises of the client's stream, in numbers of bytes:  *)
(* nothing is delivered before the whole first record was taken, no more   *)
(* is ever delivered than was taken, and copying begins exactly when the   *)
(* record is delivered to its last byte.  Copying takes more only when     *)
(* everything was delivered; a write that fails delivers less than it was  *)
(* given and is the last one, so bytes that were taken may never arrive.   *)
(***************************************************************************)
EXTENDS Naturals

VARIABLES
  taken,      \* bytes taken from the client
  delivered,  \* bytes delivered to the server
  mode        \* "reading", "writing", "copying" or "failed"

vars == <<taken, delivered, mode>>

Init == taken = 0 /\ delivered = 0 /\ mode = "reading"

\* More of the record, perhaps its end; or, copying, the next bytes.
Take ==
  /\ \/ mode = "reading" /\ mode' \in {"reading", "writing"}
     \/ mode = "copying" /\ delivered = taken /\ UNCHANGED mode
  /\ taken' \in Nat /\ taken' > taken
  /\ UNCHANGED delivered

\* More of the record is delivered; copying begins after its last byte.
Deliver ==
  /\ mode = "writing" /\ delivered' \in Nat
  /\ delivered < delivered' /\ delivered' <= taken
  /\ mode' = IF delivered' = taken THEN "copying" ELSE "writing"
  /\ UNCHANGED taken

\* What copying took is delivered.
Copy ==
  /\ mode = "copying" /\ delivered < taken /\ delivered' = taken
  /\ UNCHANGED <<taken, mode>>

\* The connection is given up; a failing write may have delivered a part, never all.
GiveUp ==
  /\ mode = "reading" \/ (mode \in {"writing", "copying"} /\ delivered < taken)
  /\ mode' = "failed"
  /\ \/ UNCHANGED delivered
     \/ /\ mode # "reading" /\ delivered' \in Nat
        /\ delivered < delivered' /\ delivered' < taken
  /\ UNCHANGED taken

Next == Take \/ Deliver \/ Copy \/ GiveUp

Spec == Init /\ [][Next]_vars
=============================================================================
