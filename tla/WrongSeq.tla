------------------------------ MODULE WrongSeq ------------------------------
(***************************************************************************)
(* What one fake ClientHello looks like on the wire:                       *)
(* injectWrongSeqClientHello (wrong_seq.go) cuts FakeData into segments    *)
(* that end just below the sequence number the server expects, with the    *)
(* segment size of mtu.go; then the test tcp_ack.go makes of the server's  *)
(* answer.  Payload bytes are abstracted to their count; sequence numbers  *)
(* and IPv4 identifications keep their wrap-around.                        *)
(***************************************************************************)
EXTENDS Integers, Sequences

CONSTANTS
  SeqMod,      \* 2^32 in the code
  IdentMod,    \* 2^16 in the code
  Window,      \* bytes the server is ready to receive from SynSeq + 1 on
  Fallback,    \* fallbackTCPPayloadMax
  MinMss,      \* the smallest segment size believed (128)
  Headers,     \* possible sizes of the IPv4 and TCP headers together
  MTUs,        \* possible values of nicMTU, 0 = unknown
  MaxTotal     \* bound: length of FakeData

ASSUME WrongSeqAssumption ==
  /\ SeqMod \in Nat \ {0} /\ IdentMod \in Nat \ {0}
  /\ Window \in Nat /\ MaxTotal \in Nat
  /\ MaxTotal + Window <= SeqMod /\ MaxTotal < SeqMod
  /\ Fallback \in Nat \ {0} /\ MinMss \in Nat \ {0}
  /\ Headers \subseteq Nat \ {0} /\ MTUs \subseteq Nat

VARIABLES
  \* the connection and the captured ACK used as template
  synSeq, synAckSeq, total, nicMTU, header, ident, fragmentDelay,
  monitoring,   \* what shouldContinue answers
  pc, off, chunkIdx,
  wire,         \* the segments sent
  reply         \* the server's answer and the strict test's verdict on it

input == <<synSeq, synAckSeq, total, nicMTU, header, ident, fragmentDelay>>
vars == <<input, monitoring, pc, off, chunkIdx, wire, reply>>

Seqs == 0 .. SeqMod - 1
NoReply == [seq |-> 0, ack |-> 0, strict |-> FALSE, seen |-> FALSE]

\* Mutant: the headers are not subtracted.
MutSegmentMSS(mtu, hdr) == IF mtu - hdr < MinMss THEN Fallback ELSE mtu

\* segmentMSS: the MTU less the headers, or the fallback when that is unknown or
\* implausibly small.
SegmentMSS(mtu, hdr) == IF mtu - hdr < MinMss THEN Fallback ELSE mtu - hdr

MSS == SegmentMSS(nicMTU, header)

\* segPerInject of runFakeInjectionLocked.
SegPerInject == (total + MSS - 1) \div MSS

Init ==
  /\ synSeq \in Seqs /\ synAckSeq = SeqMod - 1
  /\ total \in 0 .. MaxTotal
  /\ nicMTU \in MTUs /\ header \in Headers
  /\ ident \in {0, IdentMod - 1}
  /\ fragmentDelay \in BOOLEAN
  /\ monitoring = TRUE
  /\ pc = "begin" /\ off = 0 /\ chunkIdx = 0 /\ wire = <<>> /\ reply = NoReply

\* The handler or the packet loop clears Monitor.
StopMonitor ==
  /\ monitoring /\ pc \in {"begin", "check", "send", "pause"}
  /\ monitoring' = FALSE
  /\ UNCHANGED <<input, pc, off, chunkIdx, wire, reply>>

\* if total == 0 { return error }
Begin ==
  /\ pc = "begin"
  /\ pc' = IF total = 0 THEN "failed" ELSE "check"
  /\ UNCHANGED <<input, monitoring, off, chunkIdx, wire, reply>>

\* The head of the loop: shouldContinue.
Check ==
  /\ pc = "check"
  /\ pc' = IF monitoring THEN "send" ELSE "canceled"
  /\ UNCHANGED <<input, monitoring, off, chunkIdx, wire, reply>>

\* Mutant: the segments end at SynSeq instead of just below SynSeq + 1.
MutBaseWrongSeq == (synSeq + 2 - total) % SeqMod

BaseWrongSeq == (synSeq + 1 - total) % SeqMod

SegmentIdent == (ident + 1 + chunkIdx) % IdentMod

\* Mutant: the last segment is not cut at the end of the payload.
MutSegmentEnd == off + MSS

\* end, at most total
SegmentEnd == IF off + MSS > total THEN total ELSE off + MSS

Segment ==
  [seq |-> (BaseWrongSeq + off) % SeqMod, len |-> SegmentEnd - off,
   psh |-> (SegmentEnd = total), id |-> SegmentIdent]

\* Mutant: the next segment starts one byte late.
MutAdvance == off' = SegmentEnd + 1

Advance == off' = off + MSS

\* One segment is built from the template and sent; a pause follows every segment
\* but the last.
Send ==
  /\ pc = "send"
  /\ wire' = Append(wire, Segment)
  /\ chunkIdx' = chunkIdx + 1
  /\ Advance
  /\ pc' = IF SegmentEnd = total THEN "done"
           ELSE IF fragmentDelay THEN "pause" ELSE "check"
  /\ UNCHANGED <<input, monitoring, reply>>

\* send returns an error: nothing was put on the wire.
SendFail ==
  /\ pc = "send"
  /\ pc' = "failed"
  /\ UNCHANGED <<input, monitoring, off, chunkIdx, wire, reply>>

\* sleepWhileContinue: it asks before every step of the pause and at its end, so the
\* pause ends either because monitoring stopped or, later, with a last positive test.
Pause ==
  /\ pc = "pause"
  /\ pc' = IF monitoring THEN "check" ELSE "canceled"
  /\ UNCHANGED <<input, monitoring, off, chunkIdx, wire, reply>>

\* Mutant: the interval is not closed over the end of the ring.
MutTcpSeqInRingIntervalInclusive(x, a, b) == x >= a /\ x <= b

TcpSeqInRingIntervalInclusive(x, a, b) ==
  IF a <= b THEN x >= a /\ x <= b ELSE x >= a \/ x <= b

\* ackAcceptsPostFakeInbound
AckAccepts(ack, syn, fakeLen) ==
  LET minAck == (syn + 1) % SeqMod
      maxAck == (syn + 1 + fakeLen) % SeqMod
  IN  IF fakeLen <= 0 THEN ack = minAck
      ELSE TcpSeqInRingIntervalInclusive(ack, minAck, maxAck)

\* postFakeInboundStrictOK, with SynAckSeq set
StrictOK(seq, ack) ==
  seq = (synAckSeq + 1) % SeqMod /\ AckAccepts(ack, synSeq, total)

\* After the whole fake was sent, the server answers.
Reply(seq, ack) ==
  /\ pc = "done"
  /\ reply' = [seq |-> seq, ack |-> ack, strict |-> StrictOK(seq, ack), seen |-> TRUE]
  /\ pc' = "replied"
  /\ UNCHANGED <<input, monitoring, off, chunkIdx, wire>>

Ended == pc \in {"failed", "canceled", "replied"} /\ UNCHANGED vars

Next ==
  \/ StopMonitor \/ Begin \/ Check \/ Send \/ SendFail \/ Pause
  \/ \E seq, ack \in Seqs : Reply(seq, ack)
  \/ Ended

Spec == Init /\ [][Next]_vars

-----------------------------------------------------------------------------
\* Every variable has its type.
TypeOK ==
  /\ synSeq \in Seqs /\ synAckSeq \in Seqs /\ total \in Nat /\ nicMTU \in Nat
  /\ header \in Nat /\ ident \in 0 .. IdentMod - 1
  /\ fragmentDelay \in BOOLEAN /\ monitoring \in BOOLEAN
  /\ pc \in {"begin", "check", "send", "pause", "done", "failed", "canceled", "replied"}
  /\ off \in Nat /\ chunkIdx \in Nat
  /\ wire \in Seq([seq : Seqs, len : 0 .. MaxTotal, psh : BOOLEAN, id : 0 .. IdentMod - 1])
  /\ reply \in [seq : Seqs, ack : Seqs, strict : BOOLEAN, seen : BOOLEAN]

\* The sequence numbers of a segment's bytes.
Bytes(s) == {(s.seq + k) % SeqMod : k \in 0 .. s.len - 1}

\* The point of the technique, at every moment and however the injection ends: no
\* byte of a fake segment lies in the server's receive window, so the server discards
\* all of them and the real stream starts undisturbed, also when the window or the
\* fake straddles the end of the sequence space.
OutsideWindow ==
  \A i \in DOMAIN wire : \A b \in Bytes(wire[i]) : (b - (synSeq + 1)) % SeqMod >= Window

\* Bytes sent by the first i segments.
SentBefore(i) ==
  LET len[k \in 0 .. i] == IF k = 0 THEN 0 ELSE len[k - 1] + wire[k].len IN len[i]

\* The segments form one contiguous stream without gap, overlap or empty segment, and
\* a completed injection has sent all of FakeData in exactly the number of segments
\* the log and the caller compute: an observer reassembles the whole ClientHello.
Reassembles ==
  /\ \A i \in DOMAIN wire :
       wire[i].len > 0 /\ wire[i].seq = (synSeq + 1 - total + SentBefore(i - 1)) % SeqMod
  /\ pc \in {"done", "replied"} =>
       SentBefore(Len(wire)) = total /\ Len(wire) = SegPerInject

\* A segment size taken from the MTU yields packets that fit it.
DerivedSizeFits ==
  nicMTU - header >= MinMss => \A i \in DOMAIN wire : header + wire[i].len <= nicMTU

\* The strict test accepts exactly the acknowledgements SynSeq + 1 + k with k at most
\* the length of the fake, counted around the ring.
StrictIsRingInterval ==
  reply.seen =>
    (reply.strict <=>
       /\ reply.seq = (synAckSeq + 1) % SeqMod
       /\ (reply.ack - (synSeq + 1)) % SeqMod <= total)
=============================================================================
