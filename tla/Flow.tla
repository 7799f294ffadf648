-------------------------------- MODULE Flow --------------------------------
(***************************************************************************)
(* One proxied connection: the goroutine that serves the client            *)
(* (main.go handleConnection with dial_linux.go dialOutgoing), the packet  *)
(* loop of the injector (injector_linux.go processPacket and its handlers) *)
(* and the goroutine that sends the fake ClientHello                       *)
(* (runFakeInjectionLocked, wrong_seq.go).                                 *)
(*                                                                         *)
(* The three share a FakeInjectiveConnection.  Its fields Monitor, SynSeq, *)
(* SynAckSeq and Sock are protected by conn.Mu; FakeSent,                  *)
(* FakeInjectInProgress and PostFakeAckObserved are atomics read and       *)
(* written without it, so every load and every store of them is a step of  *)
(* its own.  The loop holds conn.Mu for a whole packet, that is whenever   *)
(* lpc # "idle"; the other goroutines' critical sections are single steps  *)
(* guarded by MuFree.                                                      *)
(*                                                                         *)
(* The kernel's TCP and the network are external: which packets may reach  *)
(* the loop is Available, what a released packet does to the kernel is     *)
(* KernelAfter.  Packets may be lost, duplicated and reordered.            *)
(***************************************************************************)
EXTENDS Integers, Sequences, FiniteSets

CONSTANTS
  SeqMod,          \* size of the sequence space (2^32 in the code)
  ISN,             \* the kernel's initial sequence number
  FakeRepeat,      \* -fake-repeat
  Segments,        \* TCP segments of one fake ClientHello
  Copies,          \* TRUE: the loop sees copies (AF_PACKET, BPF), FALSE: it holds
                   \* every packet until its verdict (nfqueue, WinDivert)
  Echo,            \* TRUE: the loop sees our own injected segments again (all but
                   \* nfqueue, whose rule skips the raw socket's mark)
  MaxPackets       \* bound: packets the loop handles while monitoring

ASSUME FlowAssumption ==
  /\ SeqMod \in Nat \ {0}
  /\ ISN \in 0 .. SeqMod - 1
  /\ FakeRepeat \in Int
  /\ Segments \in Nat \ {0}
  /\ Copies \in BOOLEAN
  /\ Echo \in BOOLEAN
  /\ MaxPackets \in Nat

Seqs == 0 .. SeqMod - 1

\* uint32(x) + 1
Succ(x) == (x + 1) % SeqMod

\* SynSeq and SynAckSeq before the packet that sets them was seen.
Unset == -1

(***************************************************************************)
(* The kinds of packet the handlers tell apart.  SYN and SYNACK are        *)
(* segments with exactly these flags and no payload.  An outbound ACK is a *)
(* pure ACK without payload; an inbound ACK is any segment with ACK and    *)
(* neither SYN nor RST (data and FIN included).  OTHER is every remaining  *)
(* segment, OWN a fake segment of ours that the capture hands back.  Only  *)
(* the numbers some guard reads are kept.                                  *)
(***************************************************************************)
OutPackets ==
  [dir : {"out"}, kind : {"SYN", "ACK"}, seq : Seqs, ack : Seqs]
    \cup [dir : {"out"}, kind : {"OTHER", "OWN"}, seq : {0}, ack : {0}]
InPackets ==
  [dir : {"in"}, kind : {"SYNACK"}, seq : Seqs, ack : Seqs]
    \cup [dir : {"in"}, kind : {"ACK", "OTHER"}, seq : {0}, ack : {0}]
Packets == OutPackets \cup InPackets

Signals == {"fake_data_ack_recv", "unexpected_close"}

\* Mutant: an unbuffered second signal.
MutT2aCapOne == 1

\* make(chan string, 2)
T2aCap == 2

\* NewFakeInjectiveConnection and the injection loop both clamp the repeat count.
Repeat == IF FakeRepeat < 1 THEN 1 ELSE FakeRepeat

\* Segments of one complete injection.
FakeTotal == Repeat * Segments

Directions == {"up", "down"}

VARIABLES
  \* the FakeInjectiveConnection
  monitor, sock, synSeq, synAckSeq, fakeSent, inProgress, postFakeAck, t2a,
  \* the injector: closed, its connection table; the two sockets, the kernel's TCP
  closed, registered, outSock, inSock, kern,
  \* handleConnection and its relay goroutines
  hpc, relays,
  \* the packet loop and the packet it handles
  lpc, pkt,
  \* the injection goroutine and the segments it has sent
  ipc, sent,
  \* history: what happened on the wire and between the goroutines
  npkts, starts, fakes, late, ackSeen, forwarded, dropped

connVars == <<monitor, sock, synSeq, synAckSeq, fakeSent, inProgress, postFakeAck, t2a>>
envVars  == <<closed, registered, outSock, inSock, kern>>
hVars    == <<hpc, relays>>
lVars    == <<lpc, pkt, npkts>>
iVars    == <<ipc, sent, starts, fakes, late>>
histVars == <<ackSeen, forwarded, dropped>>
vars == <<connVars, envVars, hVars, lVars, iVars, histVars>>

NoPacket == [dir |-> "none", kind |-> "none", seq |-> 0, ack |-> 0]

Init ==
  /\ monitor = FALSE /\ sock = FALSE
  /\ synSeq = Unset /\ synAckSeq = Unset
  /\ fakeSent = FALSE /\ inProgress = FALSE /\ postFakeAck = FALSE
  /\ t2a = <<>>
  /\ closed = FALSE /\ registered = FALSE
  /\ outSock = "none" /\ inSock = "open" /\ kern = "idle"
  /\ hpc = "accepted" /\ relays = {}
  /\ lpc = "idle" /\ pkt = NoPacket
  /\ ipc = "none" /\ sent = 0
  /\ npkts = 0 /\ starts = 0 /\ fakes = 0 /\ late = 0
  /\ ackSeen = "none" /\ forwarded = FALSE /\ dropped = FALSE

MuFree == lpc = "idle"

\* Non-blocking send on T2aChan: select with a default branch.
SendT2a(msg) ==
  /\ t2a' = IF Len(t2a) < T2aCap THEN Append(t2a, msg) ELSE t2a
  /\ dropped' = (dropped \/ Len(t2a) >= T2aCap)

\* AbortUnexpectedCloseLocked, and the same statements in onUnexpectedPacket.
AbortUnexpectedCloseLocked ==
  /\ outSock' = IF sock THEN "closed" ELSE outSock
  /\ inSock' = "closed"
  /\ monitor' = FALSE
  /\ SendT2a("unexpected_close")

-----------------------------------------------------------------------------
(***************************************************************************)
(* The kernel and the network (external).                                  *)
(***************************************************************************)

\* A packet can reach the loop once connect() has started.  The kernel sends pure
\* ACKs only when established.  Segments with other sequence numbers reach the
\* handlers too: byLocalPort matches a packet by port alone when its local address
\* is not the registered one.
Available(p) ==
  /\ kern # "idle"
  /\ p.dir = "out" /\ p.kind = "ACK" => kern = "established"
  /\ p.kind = "OWN" => Echo /\ fakes > 0

\* What the kernel's TCP does with a packet the loop lets through: a SYN-ACK for
\* our SYN completes connect().  A passive capture sees only copies, and a verdict
\* given after Close is lost with the queue.
KernelAfter(p) ==
  IF /\ ~Copies /\ ~closed /\ kern = "connecting"
     /\ p.dir = "in" /\ p.kind = "SYNACK" /\ p.ack = Succ(ISN)
  THEN "established" ELSE kern

\* Passive capture, or a capture that was taken down: the SYN-ACK reaches the kernel
\* independently of the loop.
KernelEstablish ==
  /\ Copies \/ closed
  /\ kern = "connecting"
  /\ kern' = "established"
  /\ UNCHANGED <<connVars, closed, registered, outSock, inSock, hVars, lVars, iVars,
                 histVars>>

\* Close of the injector, at shutdown.  Connections that are being served go on until
\* the process ends, and the loop may still hold packets it had read: only the capture
\* and the socket that sends the fakes are gone.
CloseInjector ==
  /\ ~closed /\ closed' = TRUE
  /\ UNCHANGED <<connVars, registered, outSock, inSock, kern, hVars, lVars, iVars,
                 histVars>>

-----------------------------------------------------------------------------
(***************************************************************************)
(* handleConnection and dialOutgoing.                                      *)
(***************************************************************************)

\* No fake ClientHello, or the socket cannot be bound: nothing is registered yet.
SetupFail ==
  /\ hpc = "accepted"
  /\ inSock' = "closed" /\ hpc' = "done"
  /\ UNCHANGED <<connVars, closed, registered, outSock, kern, relays, lVars, iVars,
                 histVars>>

\* The dialer's Control callback registers the connection before connect() sends
\* the SYN.
RegisterConn ==
  /\ hpc = "accepted"
  /\ monitor' = TRUE /\ registered' = TRUE
  /\ kern' = "connecting" /\ hpc' = "dial"
  /\ UNCHANGED <<sock, synSeq, synAckSeq, fakeSent, inProgress, postFakeAck, t2a,
                 closed, outSock, inSock, relays, lVars, iVars, histVars>>

\* conn.Monitor = false under conn.Mu, then UnregisterConn.
StopMonitoring ==
  /\ MuFree
  /\ monitor' = FALSE
  /\ registered' = FALSE

DialFail ==
  /\ hpc = "dial"
  /\ StopMonitoring
  /\ inSock' = "closed" /\ hpc' = "done"
  /\ UNCHANGED <<sock, synSeq, synAckSeq, fakeSent, inProgress, postFakeAck, t2a,
                 closed, outSock, kern, relays, lVars, iVars, histVars>>

DialOk ==
  /\ hpc = "dial" /\ kern = "established"
  /\ outSock' = "open" /\ hpc' = "dialed"
  /\ UNCHANGED <<connVars, closed, registered, inSock, kern, relays, lVars, iVars,
                 histVars>>

\* conn.Sock = outgoingSock under conn.Mu: until then an abort cannot close it.
SetSock ==
  /\ hpc = "dialed" /\ MuFree
  /\ sock' = TRUE /\ hpc' = "wait"
  /\ UNCHANGED <<monitor, synSeq, synAckSeq, fakeSent, inProgress, postFakeAck, t2a,
                 envVars, relays, lVars, iVars, histVars>>

\* Mutant: any message clears the session.
MutRecvAnySignal ==
  /\ hpc = "wait" /\ t2a # <<>>
  /\ t2a' = Tail(t2a) /\ hpc' = "stopOk"
  /\ UNCHANGED <<monitor, sock, synSeq, synAckSeq, fakeSent, inProgress, postFakeAck,
                 envVars, relays, lVars, iVars, histVars>>

\* case msg := <-conn.T2aChan
RecvSignal ==
  /\ hpc = "wait" /\ t2a # <<>>
  /\ t2a' = Tail(t2a)
  /\ hpc' = IF Head(t2a) = "fake_data_ack_recv" THEN "stopOk" ELSE "stopFail"
  /\ UNCHANGED <<monitor, sock, synSeq, synAckSeq, fakeSent, inProgress, postFakeAck,
                 envVars, relays, lVars, iVars, histVars>>

\* Mutant: the timer case only looks at the channel.
MutAckTimeoutNeedsSignal ==
  /\ hpc = "wait" /\ t2a # <<>>
  /\ hpc' = "stopFail"
  /\ UNCHANGED <<connVars, envVars, relays, lVars, iVars, histVars>>

\* case <-time.After(opts.ackTimeout): select may choose it with a message ready.
AckTimeout ==
  /\ hpc = "wait"
  /\ hpc' = "stopFail"
  /\ UNCHANGED <<connVars, envVars, relays, lVars, iVars, histVars>>

\* The three calls of stopMonitoring in handleConnection.
HandlerStop ==
  /\ hpc \in {"stopOk", "stopFail"}
  /\ StopMonitoring
  /\ hpc' = IF hpc = "stopOk" THEN "forward" ELSE "close"
  /\ UNCHANGED <<sock, synSeq, synAckSeq, fakeSent, inProgress, postFakeAck, t2a,
                 closed, outSock, inSock, kern, relays, lVars, iVars, histVars>>

\* Mutant: only the outgoing socket is closed.
MutCloseOutgoingOnly == outSock' = "closed" /\ UNCHANGED inSock

ClosePair == outSock' = "closed" /\ inSock' = "closed"

HandlerClose ==
  /\ hpc = "close"
  /\ ClosePair /\ hpc' = "done"
  /\ UNCHANGED <<connVars, closed, registered, kern, relays, lVars, iVars, histVars>>

SocketsOpen == outSock = "open" /\ inSock = "open"

\* -enable-fragment: forwardFragmentedClientHello reads the real ClientHello and writes
\* it in pieces.
ForwardFragments ==
  /\ hpc = "forward" /\ SocketsOpen
  /\ forwarded' = TRUE
  /\ hpc' = "relay" /\ relays' = Directions
  /\ UNCHANGED <<connVars, envVars, lVars, iVars, ackSeen, dropped>>

\* The read deadline passes, or a read or write fails after part of it was written.
ForwardFail ==
  /\ hpc = "forward"
  /\ \/ UNCHANGED forwarded
     \/ outSock = "open" /\ forwarded' = TRUE
  /\ hpc' = "close"
  /\ UNCHANGED <<connVars, envVars, relays, lVars, iVars, ackSeen, dropped>>

\* Without -enable-fragment the relay starts at once.  A connection reads the option
\* once, so the choice between the two stands for both values of it.
StartRelay ==
  /\ hpc = "forward"
  /\ hpc' = "relay" /\ relays' = Directions
  /\ UNCHANGED <<connVars, envVars, lVars, iVars, histVars>>

\* A relay goroutine copies client bytes to the server.
RelayCopy ==
  /\ "up" \in relays /\ SocketsOpen
  /\ forwarded' = TRUE
  /\ UNCHANGED <<connVars, envVars, hVars, lVars, iVars, ackSeen, dropped>>

\* io.CopyBuffer returns: EOF or an error from an endpoint that is still open ...
RelayEof(d) ==
  /\ d \in relays
  /\ relays' = relays \ {d}
  /\ UNCHANGED <<connVars, envVars, hpc, lVars, iVars, histVars>>

\* ... or because the socket it reads was closed here.
SourceClosed(d) == IF d = "up" THEN inSock = "closed" ELSE outSock = "closed"

RelayClosed(d) == SourceClosed(d) /\ RelayEof(d)

\* First <-done: both sockets are closed to unblock the other direction.
RelayFirstDone ==
  /\ hpc = "relay" /\ relays # Directions
  /\ ClosePair /\ hpc' = "drain"
  /\ UNCHANGED <<connVars, closed, registered, kern, relays, lVars, iVars, histVars>>

RelayLastDone ==
  /\ hpc = "drain" /\ relays = {}
  /\ hpc' = "done"
  /\ UNCHANGED <<connVars, envVars, relays, lVars, iVars, histVars>>

HandlerStep ==
  \/ SetupFail \/ RegisterConn \/ DialFail \/ DialOk \/ SetSock
  \/ RecvSignal \/ AckTimeout \/ HandlerStop \/ HandlerClose
  \/ ForwardFragments \/ ForwardFail \/ StartRelay
  \/ RelayFirstDone \/ RelayLastDone

-----------------------------------------------------------------------------
(***************************************************************************)
(* The packet loop.                                                        *)
(***************************************************************************)

\* processPacket: the connection is found, locked and monitored.
ProcessPacket(p) ==
  /\ lpc = "idle" /\ registered /\ monitor
  /\ npkts < MaxPackets /\ npkts' = npkts + 1
  /\ Available(p)
  /\ pkt' = p /\ lpc' = IF p.dir = "out" THEN "out" ELSE "in"
  /\ UNCHANGED <<connVars, envVars, hVars, iVars, histVars>>

\* processPacket: no such connection, or not monitored any more: NfAccept.
PassPacket(p) ==
  /\ lpc = "idle" /\ ~(registered /\ monitor)
  /\ Available(p)
  /\ kern' = KernelAfter(p)
  /\ UNCHANGED <<connVars, closed, registered, outSock, inSock, hVars, lVars, iVars,
                 histVars>>

\* SetVerdict(NfAccept) and return, which unlocks conn.Mu.
Verdict ==
  /\ kern' = KernelAfter(pkt)
  /\ lpc' = "idle" /\ pkt' = NoPacket /\ npkts' = npkts

OnUnexpectedPacket ==
  /\ AbortUnexpectedCloseLocked
  /\ Verdict
  /\ UNCHANGED <<sock, synSeq, synAckSeq, fakeSent, inProgress, postFakeAck, closed,
                 registered, hVars, iVars, ackSeen, forwarded>>

\* onInboundPacket: a packet before our SYN, or one that is not ACK-class.
InUnexpected ==
  /\ lpc = "in"
  /\ synSeq = Unset \/ pkt.kind = "OTHER"
  /\ OnUnexpectedPacket

\* The SYN-ACK acknowledges our SYN and repeats the sequence number seen before.
SynAckOK == synAckSeq \in {Unset, pkt.seq} /\ pkt.ack = Succ(synSeq)

InSynAck ==
  /\ lpc = "in" /\ synSeq # Unset /\ pkt.kind = "SYNACK"
  /\ \/ /\ SynAckOK
        /\ synAckSeq' = pkt.seq
        /\ Verdict
        /\ UNCHANGED <<monitor, sock, synSeq, fakeSent, inProgress, postFakeAck, t2a,
                       closed, registered, outSock, inSock, hVars, iVars, histVars>>
     \/ ~SynAckOK /\ OnUnexpectedPacket

\* An ACK counts as "after" when some fake segment was on the wire when the handler
\* looked at it, as "early" when only the injection had started.
SeeAck ==
  ackSeen' = IF fakes > 0 \/ ackSeen = "after" THEN "after"
             ELSE IF starts > 0 THEN "early" ELSE ackSeen

\* conn.FakeInjectInProgress.Load(), then !conn.FakeSent.Load() ...
InLoadProgress ==
  /\ lpc = "in" /\ synSeq # Unset /\ pkt.kind = "ACK"
  /\ SeeAck
  /\ lpc' = IF inProgress THEN "in_sent" ELSE "in_signal"
  /\ UNCHANGED <<connVars, envVars, hVars, pkt, npkts, iVars, forwarded, dropped>>

\* Mutant: the handler waits, holding conn.Mu, until the fake is sent.
MutInWaitsForFake ==
  /\ lpc = "in_sent" /\ fakeSent
  /\ lpc' = "in_signal"
  /\ UNCHANGED <<connVars, envVars, hVars, pkt, npkts, iVars, histVars>>

InLoadSent ==
  /\ lpc = "in_sent"
  /\ lpc' = IF fakeSent THEN "in_signal" ELSE "in_store"
  /\ UNCHANGED <<connVars, envVars, hVars, pkt, npkts, iVars, histVars>>

\* ... conn.PostFakeAckObserved.Store(true)
InStore ==
  /\ lpc = "in_store"
  /\ postFakeAck' = TRUE
  /\ Verdict
  /\ UNCHANGED <<monitor, sock, synSeq, synAckSeq, fakeSent, inProgress, t2a, closed,
                 registered, outSock, inSock, hVars, iVars, histVars>>

\* conn.FakeSent.Load() && conn.SynAckSeq != -1.  An ACK-class packet always passes
\* the permissive test, so the strict one never decides.
PostFakeAckOK == fakeSent /\ synAckSeq # Unset

InSignal ==
  /\ lpc = "in_signal"
  /\ \/ /\ PostFakeAckOK
        /\ monitor' = FALSE
        /\ SendT2a("fake_data_ack_recv")
        /\ Verdict
        /\ UNCHANGED <<sock, synSeq, synAckSeq, fakeSent, inProgress, postFakeAck,
                       closed, registered, outSock, inSock, hVars, iVars, ackSeen,
                       forwarded>>
     \/ ~PostFakeAckOK /\ OnUnexpectedPacket

\* onOutboundPacket: if conn.FakeSent.Load() { accept }
OutLoadSent ==
  /\ lpc = "out"
  /\ \/ fakeSent /\ Verdict
     \/ ~fakeSent /\ lpc' = "out_prog" /\ UNCHANGED <<kern, pkt, npkts>>
  /\ UNCHANGED <<connVars, closed, registered, outSock, inSock, hVars, iVars, histVars>>

\* Mutant: FakeInjectInProgress is not consulted.
MutOutIgnoresProgress ==
  /\ lpc = "out_prog"
  /\ lpc' = "out_class" /\ UNCHANGED <<kern, pkt, npkts>>
  /\ UNCHANGED <<connVars, closed, registered, outSock, inSock, hVars, iVars, histVars>>

\* if conn.FakeInjectInProgress.Load() { accept }
OutLoadProgress ==
  /\ lpc = "out_prog"
  /\ \/ inProgress /\ Verdict
     \/ ~inProgress /\ lpc' = "out_class" /\ UNCHANGED <<kern, pkt, npkts>>
  /\ UNCHANGED <<connVars, closed, registered, outSock, inSock, hVars, iVars, histVars>>

\* A first SYN, or a retransmission of it.
SynOK == pkt.ack = 0 /\ synSeq \in {Unset, pkt.seq}

\* Mutant: the next expected sequence number is stored, without the 32-bit mask.
MutOutSynStoresNext ==
  /\ lpc = "out_class" /\ pkt.kind = "SYN"
  /\ synSeq' = pkt.seq + 1
  /\ Verdict
  /\ UNCHANGED <<monitor, sock, synAckSeq, fakeSent, inProgress, postFakeAck, t2a,
                 closed, registered, outSock, inSock, hVars, iVars, histVars>>

OutSyn ==
  /\ lpc = "out_class" /\ pkt.kind = "SYN"
  /\ \/ /\ SynOK
        /\ synSeq' = pkt.seq
        /\ Verdict
        /\ UNCHANGED <<monitor, sock, synAckSeq, fakeSent, inProgress, postFakeAck, t2a,
                       closed, registered, outSock, inSock, hVars, iVars, histVars>>
     \/ ~SynOK /\ OnUnexpectedPacket

\* The ACK that completes the handshake the loop has seen.
ThirdAckOK ==
  /\ synSeq # Unset /\ pkt.seq = Succ(synSeq)
  /\ synAckSeq # Unset /\ pkt.ack = Succ(synAckSeq)

\* Accept it, mark the injection in progress and start its goroutine.
OutAck ==
  /\ lpc = "out_class" /\ pkt.kind = "ACK"
  /\ \/ /\ ThirdAckOK
        /\ Verdict
        /\ inProgress' = TRUE
        /\ ipc' = "start" /\ sent' = 0 /\ starts' = starts + 1
        /\ UNCHANGED <<monitor, sock, synSeq, synAckSeq, fakeSent, postFakeAck, t2a,
                       closed, registered, outSock, inSock, hVars, fakes, late,
                       histVars>>
     \/ ~ThirdAckOK /\ OnUnexpectedPacket

OutUnexpected ==
  /\ lpc = "out_class" /\ pkt.kind \in {"OTHER", "OWN"}
  /\ OnUnexpectedPacket

\* The steps of a packet the loop has started to handle; the loops of the other
\* backends load the two atomics in the same order and have the same steps.
LoopStep ==
  \/ InUnexpected \/ InSynAck \/ InLoadProgress \/ InLoadSent \/ InStore \/ InSignal
  \/ OutLoadSent \/ OutLoadProgress \/ OutSyn \/ OutAck \/ OutUnexpected

-----------------------------------------------------------------------------
(***************************************************************************)
(* The injection goroutine.                                                *)
(***************************************************************************)

\* Mutant: shouldContinue is never asked.
MutInjIgnoresMonitor ==
  /\ ipc \in {"start", "check"} /\ MuFree
  /\ ipc' = IF ipc = "start" THEN "check" ELSE "send"
  /\ UNCHANGED <<connVars, envVars, hVars, lVars, sent, starts, fakes, late, histVars>>

\* After 1 ms: lock, give up when not monitored any more.  The same test precedes
\* every segment (shouldContinue) and ends every pause between segments and
\* repetitions (sleepWhileContinue); Monitor never becomes true again, so one test
\* before a send stands for the tests since the previous one.
InjCheck ==
  /\ ipc \in {"start", "check"} /\ MuFree
  /\ ipc' = IF ~monitor THEN "end" ELSE IF ipc = "start" THEN "check" ELSE "send"
  /\ UNCHANGED <<connVars, envVars, hVars, lVars, sent, starts, fakes, late, histVars>>

\* Mutant: the last segment is left out.
MutInjSendStopsShort ==
  /\ ipc = "send"
  /\ sent' = sent + 1 /\ fakes' = fakes + 1
  /\ late' = IF monitor THEN late ELSE late + 1
  /\ ipc' = IF sent + 2 >= FakeTotal THEN "store" ELSE "check"
  /\ UNCHANGED <<connVars, envVars, hVars, lVars, starts, histVars>>

\* Mutant: FakeSent is stored with every segment instead of after the last.
MutInjSendStoresSent ==
  /\ ipc = "send"
  /\ sent' = sent + 1 /\ fakes' = fakes + 1 /\ fakeSent' = TRUE
  /\ late' = IF monitor THEN late ELSE late + 1
  /\ ipc' = IF sent + 1 = FakeTotal THEN "store" ELSE "check"
  /\ UNCHANGED <<monitor, sock, synSeq, synAckSeq, inProgress, postFakeAck, t2a,
                 envVars, hVars, lVars, starts, histVars>>

\* One segment on the wire; after the last one of the last repetition, on to the end.
\* After Close a send may report success and put nothing on the wire: sendPacket of
\* WinDivert returns nil once it shuts down, and the number of the closed raw socket
\* may belong to another socket by then.
InjSend ==
  /\ ipc = "send"
  /\ sent' = sent + 1
  /\ fakes' = fakes + 1 \/ (closed /\ fakes' = fakes)
  /\ late' = IF monitor THEN late ELSE late + 1
  /\ ipc' = IF sent + 1 = FakeTotal THEN "store" ELSE "check"
  /\ UNCHANGED <<connVars, envVars, hVars, lVars, starts, histVars>>

\* sendRawPacket returns an error ...
InjSendFail ==
  /\ ipc = "send"
  /\ ipc' = "abort"
  /\ UNCHANGED <<connVars, envVars, hVars, lVars, sent, starts, fakes, late, histVars>>

\* ... and the connection is aborted without looking at Monitor again.
InjAbort ==
  /\ ipc = "abort" /\ MuFree
  /\ AbortUnexpectedCloseLocked
  /\ ipc' = "end"
  /\ UNCHANGED <<sock, synSeq, synAckSeq, fakeSent, inProgress, postFakeAck, closed,
                 registered, kern, hVars, lVars, sent, starts, fakes, late, ackSeen,
                 forwarded>>

\* conn.FakeSent.Store(true)
InjStoreSent ==
  /\ ipc = "store"
  /\ fakeSent' = TRUE /\ ipc' = "load"
  /\ UNCHANGED <<monitor, sock, synSeq, synAckSeq, inProgress, postFakeAck, t2a,
                 envVars, hVars, lVars, sent, starts, fakes, late, histVars>>

\* Mutant: the end of the injection counts as the server's ACK.
MutInjAlwaysSignals ==
  /\ ipc = "load"
  /\ ipc' = "signal"
  /\ UNCHANGED <<connVars, envVars, hVars, lVars, sent, starts, fakes, late, histVars>>

\* if conn.PostFakeAckObserved.Load()
InjLoadAck ==
  /\ ipc = "load"
  /\ ipc' = IF postFakeAck THEN "signal" ELSE "end"
  /\ UNCHANGED <<connVars, envVars, hVars, lVars, sent, starts, fakes, late, histVars>>

\* Lock; if conn.Monitor, clear it and signal the ACK that was observed.
InjSignal ==
  /\ ipc = "signal" /\ MuFree
  /\ \/ monitor /\ monitor' = FALSE /\ SendT2a("fake_data_ack_recv")
     \/ ~monitor /\ UNCHANGED <<monitor, t2a, dropped>>
  /\ ipc' = "end"
  /\ UNCHANGED <<sock, synSeq, synAckSeq, fakeSent, inProgress, postFakeAck, envVars,
                 hVars, lVars, sent, starts, fakes, late, ackSeen, forwarded>>

\* defer conn.FakeInjectInProgress.Store(false)
InjEnd ==
  /\ ipc = "end"
  /\ inProgress' = FALSE /\ ipc' = "none"
  /\ UNCHANGED <<monitor, sock, synSeq, synAckSeq, fakeSent, postFakeAck, t2a, envVars,
                 hVars, lVars, sent, starts, fakes, late, histVars>>

\* runFakeInjection of the other backends has the same steps.
InjectorStep ==
  \/ InjCheck \/ InjSend \/ InjSendFail \/ InjAbort
  \/ InjStoreSent \/ InjLoadAck \/ InjSignal \/ InjEnd

-----------------------------------------------------------------------------
\* Everything has ended: the only state in which nothing has to happen.
Terminated ==
  /\ hpc = "done" /\ lpc = "idle" /\ ipc = "none"
  /\ UNCHANGED vars

Next ==
  \/ KernelEstablish
  \/ CloseInjector
  \/ HandlerStep
  \/ RelayCopy
  \/ \E d \in Directions : RelayEof(d)
  \/ \E p \in Packets : ProcessPacket(p) \/ PassPacket(p)
  \/ LoopStep
  \/ InjectorStep
  \/ Terminated

Spec == Init /\ [][Next]_vars

(***************************************************************************)
(* The Go scheduler runs every runnable goroutine; dialing, waiting for    *)
(* the ACK and reading the ClientHello all have deadlines, so the handler  *)
(* always has a step to take.  Nothing obliges the network to deliver      *)
(* anything or a relayed connection to end.                                *)
(***************************************************************************)
Fairness ==
  /\ WF_vars(HandlerStep)
  /\ \A d \in Directions : WF_vars(RelayClosed(d))
  /\ WF_vars(LoopStep)
  /\ WF_vars(InjectorStep)

FairSpec == Spec /\ Fairness

-----------------------------------------------------------------------------
(***************************************************************************)
(* Properties.                                                             *)
(***************************************************************************)

\* The Boolean variables.
FlagsOK ==
  /\ monitor \in BOOLEAN /\ sock \in BOOLEAN /\ registered \in BOOLEAN
  /\ fakeSent \in BOOLEAN /\ inProgress \in BOOLEAN /\ postFakeAck \in BOOLEAN
  /\ forwarded \in BOOLEAN /\ dropped \in BOOLEAN /\ closed \in BOOLEAN

\* The program counters, the packet, the counters and the sequence numbers.
StateOK ==
  /\ synSeq \in Seqs \cup {Unset} /\ synAckSeq \in Seqs \cup {Unset}
  /\ outSock \in {"none", "open", "closed"} /\ inSock \in {"open", "closed"}
  /\ kern \in {"idle", "connecting", "established"}
  /\ hpc \in {"accepted", "dial", "dialed", "wait", "stopOk", "stopFail", "forward",
              "relay", "drain", "close", "done"}
  /\ relays \subseteq Directions
  /\ lpc \in {"idle", "in", "in_sent", "in_store", "in_signal",
              "out", "out_prog", "out_class"}
  /\ pkt \in Packets \cup {NoPacket}
  /\ lpc # "idle" => pkt \in Packets
  /\ ipc \in {"none", "start", "check", "send", "abort", "store", "load", "signal", "end"}
  /\ sent \in Nat /\ npkts \in Nat /\ starts \in Nat /\ fakes \in Nat /\ late \in Nat
  /\ ackSeen \in {"none", "early", "after"}

\* T2aChan.
ChannelOK == t2a \in Seq(Signals) /\ Len(t2a) <= T2aCap

\* Every variable has its type and T2aChan never holds more than its capacity.
TypeOK == FlagsOK /\ StateOK /\ ChannelOK

\* No byte of the client reaches the server before every segment of every repetition
\* of the fake ClientHello was sent: the order the whole program exists for, carried
\* from the injection goroutine to the relay by FakeSent and T2aChan.  Only the Close of
\* the injector, which drops segments without an error, can take this away.
RealAfterFake == forwarded => fakes >= FakeTotal \/ closed

\* No byte of the client reaches the server before an ACK-class packet of the server
\* was seen with the injection started: PostFakeAckObserved and the inbound handler
\* are the only sources of fake_data_ack_recv.
RealAfterAck == forwarded => ackSeen # "none"

\* FakeInjectInProgress is true exactly while an injection goroutine lives, so there
\* is never more than one, and there are at most two in a connection's life.
OneInjectorAtATime == (inProgress <=> ipc # "none") /\ starts <= 2

\* injectWrongSeqClientHello reads conn.SynSeq without conn.Mu; the handler that
\* writes it never runs while an injection goroutine lives.
NoSynSeqRace == lpc = "out_class" => ipc = "none"

\* The buffer of T2aChan is large enough: no signal is ever dropped.
NoSignalDropped == ~dropped

\* Once Monitor is cleared at most one more fake segment leaves: the one whose
\* shouldContinue test had already passed.
AtMostOneLateSegment == late <= 1

\* The send error of an injection that was the only one cannot close the sockets of
\* a connection that is already forwarding.
OnlySecondInjectionDisturbsRelay ==
  hpc \in {"forward", "relay"} /\ ipc \in {"check", "send", "abort"} => starts = 2

\* However handleConnection returns, it leaves nothing behind: the connection is out
\* of the injector's table and unmonitored, and no socket is open.
NothingLeftBehind ==
  hpc = "done" => ~registered /\ ~monitor /\ inSock = "closed" /\ outSock # "open"

\* Every accepted client is served: it is relayed or closed, whatever the network,
\* the peer and the injector do.
EveryClientDecided == hpc = "accepted" ~> hpc \in {"relay", "done"}

\* An injection goroutine always ends: it never waits forever for conn.Mu.
InjectionEnds == ipc # "none" ~> ipc = "none"

\* When one direction of the relay ends, the connection ends.
HalfCloseEnds == (hpc = "relay" /\ relays # Directions) ~> hpc = "done"

\* How the connection looks to the client: the refinement mapping to Session.
Phase ==
  CASE hpc \in {"drain", "done"}               -> "closed"
    [] hpc = "close"                           -> "closing"
    [] hpc \in {"stopOk", "forward", "relay"}  -> "cleared"
    [] OTHER -> IF fakes >= FakeTotal THEN "decoyed"
                ELSE IF closed THEN "released" ELSE "pending"

Client == INSTANCE Session WITH phase <- Phase

\* The goroutines, the atomics and the channel together implement Session: safety
\* and the promise that every client is decided.
ImplementsSession == Client!Spec

(***************************************************************************)
(* What comments and documentation claim; TLC refutes these.               *)
(***************************************************************************)

\* An ACK observed while the fake is being sent is turned into a signal when the
\* injection ends ("nfqueue can still process inbound ACKs (FakeInjectInProgress
\* path)"): it is not left pending in PostFakeAckObserved with nobody to read it.
ObservedAckNotLost ==
  postFakeAck /\ ackSeen = "after" /\ fakeSent /\ ipc = "none" /\ lpc = "idle" => ~monitor

\* Once an injection has started every outbound packet passes, whatever it is: TCP may
\* retransmit the third handshake ACK, and the capture may hand our own segments back.
OutboundPassesOnceInjecting == lpc = "out_class" => starts = 0

\* What lets real traffic through is an ACK seen after the fake was on the wire.
RealAfterPostFakeAck == forwarded => ackSeen = "after"
=============================================================================
