------------------------------ MODULE FlowInv -------------------------------
(***************************************************************************)
(* The inductive invariant of Flow, in named parts.  Each part says what   *)
(* one goroutine may rely on when it acts on state another one wrote.      *)
(***************************************************************************)
EXTENDS Flow

\* Program points of the injection goroutine before FakeSent is stored.
Injecting == {"start", "check", "send", "abort", "store"}

\* Program points of the handler that only fake_data_ack_recv leads to.
Cleared == {"stopOk", "forward", "relay", "drain"}

AckSignalled == \E i \in 1 .. Len(t2a) : t2a[i] = "fake_data_ack_recv"

\* The two places that put fake_data_ack_recv into T2aChan.
AckSource == (lpc = "in_signal" /\ PostFakeAckOK) \/ ipc = "signal"

\* Until Control registers the connection nothing else can touch it; the sockets
\* and the table follow the handler's program counter.
HandlerInv ==
  /\ hpc = "accepted" => /\ ~monitor /\ ~registered /\ kern = "idle" /\ t2a = <<>>
                         /\ ipc = "none" /\ starts = 0 /\ ~fakeSent /\ late = 0
  /\ hpc \in {"accepted", "dial"} => outSock = "none"
  /\ hpc \in {"accepted", "dial", "dialed"} => ~sock
  /\ hpc \in {"forward", "relay", "drain", "close", "done"} => ~monitor /\ ~registered
  /\ hpc \in {"drain", "done"} => inSock = "closed" /\ outSock # "open"

\* While the loop handles a packet it holds conn.Mu, and Monitor was true when it
\* took it: nobody else can have cleared it since.
LoopInv == lpc # "idle" => monitor

\* Who may start an injection, and what its end leaves behind.
InjectorInv ==
  /\ inProgress <=> ipc # "none"
  /\ lpc = "out_class" => ipc = "none"
  /\ starts \in 0 .. 2
  /\ starts = 0 => ipc = "none" /\ ~fakeSent
  /\ starts = 2 => fakeSent
  /\ lpc \in {"out_prog", "out_class"} => starts <= 1
  /\ ipc \in Injecting /\ starts = 1 => ~fakeSent
  /\ ipc \in {"load", "signal"} => fakeSent
  /\ ipc = "end" => fakeSent \/ ~monitor
  /\ ipc = "none" /\ starts > 0 => fakeSent \/ ~monitor

\* FakeSent, the ACK signal and the handler past its wait all mean that the whole
\* fake was sent, or that the injector was closed meanwhile.
FakeInv ==
  /\ fakeSent => fakes >= FakeTotal \/ closed
  /\ ipc # "none" => sent <= fakes \/ closed
  /\ ipc \in {"start", "check", "send"} => sent < FakeTotal
  /\ ipc = "store" => sent = FakeTotal
  /\ AckSignalled => fakeSent
  /\ hpc \in Cleared => fakeSent
  /\ relays # {} => hpc \in {"relay", "drain"}
  /\ forwarded => fakeSent

\* The same chain for the server's ACK.
AckInv ==
  /\ lpc \in {"in_sent", "in_store"} => ackSeen # "none"
  /\ lpc = "in_signal" /\ starts > 0 => ackSeen # "none"
  /\ postFakeAck => ackSeen # "none"
  /\ ipc = "signal" => postFakeAck
  /\ AckSignalled => ackSeen # "none"
  /\ hpc \in Cleared => ackSeen # "none"
  /\ forwarded => ackSeen # "none"

\* Room in T2aChan and the segment that may follow the end of monitoring: only an
\* injection whose test had passed can still send, fail and signal.
StopInv ==
  /\ ~dropped
  /\ monitor => t2a = <<>> /\ late = 0
  /\ ~monitor /\ ipc \in {"send", "abort"} => Len(t2a) <= 1
  /\ ~monitor /\ ipc = "send" => late = 0
  /\ late <= 1

\* The inductive invariant.  Its parts depend on each other: a second injection is
\* harmless to the order of the handshake only because FakeSent is already set.
Inv == TypeOK /\ HandlerInv /\ LoopInv /\ InjectorInv /\ FakeInv /\ AckInv /\ StopInv
=============================================================================
