------------------------------ MODULE Session -------------------------------
(***************************************************************************)
(* What a proxied connection promises, without goroutines, packets or      *)
(* locks: the client's bytes are forwarded only in a session that was      *)
(* cleared, a session is cleared only after the whole decoy was sent or    *)
(* after the injector was shut down, and every session is cleared or       *)
(* closed.                                                                 *)
(***************************************************************************)
VARIABLES
  phase,      \* how far the session has come
  forwarded   \* some byte of the client has been forwarded

vars == <<phase, forwarded>>

Phases == {"pending", "decoyed", "released", "cleared", "closing", "closed"}

Undecided == {"pending", "decoyed", "released"}

Init == phase = "pending" /\ forwarded = FALSE

\* The last segment of the fake ClientHello is on the wire.  A session that is
\* being given up may still get here.
Decoy ==
  /\ phase \in {"pending", "released"} /\ phase' = "decoyed"
  /\ UNCHANGED forwarded

\* The injector shuts down: a session that waits for its decoy is not owed it any more.
Release ==
  /\ phase = "pending" /\ phase' = "released"
  /\ UNCHANGED forwarded

\* The server's ACK lets the session through.
Clear ==
  /\ phase \in {"decoyed", "released"} /\ phase' = "cleared"
  /\ UNCHANGED forwarded

Forward ==
  /\ phase = "cleared" /\ forwarded' = TRUE
  /\ UNCHANGED phase

\* Give up; a cleared session may have forwarded a part.
Fail ==
  /\ phase \in Undecided \cup {"cleared"} /\ phase' = "closing"
  /\ \/ UNCHANGED forwarded
     \/ phase = "cleared" /\ forwarded' = TRUE

\* Both sockets are closed.
Close ==
  /\ phase \in Phases \ {"closed"} /\ phase' = "closed"
  /\ UNCHANGED forwarded

Next == Decoy \/ Release \/ Clear \/ Forward \/ Fail \/ Close

Decide == phase \in Undecided /\ (Clear \/ Fail \/ Close)

Finish == phase = "closing" /\ Close

\* The safety part.
Safety == Init /\ [][Next]_vars

Spec == Safety /\ WF_vars(Decide) /\ WF_vars(Finish)
=============================================================================
