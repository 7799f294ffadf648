--------------------------- MODULE WrongSeqProofs ---------------------------
(***************************************************************************)
(* Proofs about WrongSeq for every modulus, window, MTU and payload        *)
(* length.  Inv says of each segment on the wire which bytes of FakeData   *)
(* it carries (SegmentInv) and how far the loop has come (LoopInv).        *)
(***************************************************************************)
EXTENDS WrongSeq, NumberLemmas, SequenceTheorems, TLAPS

\* The first byte of FakeData that segment i carries.
Start(i) == (i - 1) * MSS

\* How many of total bytes lie before n.
UpTo(n) == IF n > total THEN total ELSE n

\* Segment i carries bytes Start(i) .. UpTo(Start(i) + MSS) - 1.
SegmentInv ==
  \A i \in 1 .. Len(wire) :
    /\ Start(i) < total
    /\ wire[i].len = UpTo(Start(i) + MSS) - Start(i)
    /\ wire[i].seq = (synSeq + 1 - total + Start(i)) % SeqMod

\* The loop runs while a byte is left, and ends with the segment that carries the last.
LoopInv ==
  /\ total <= MaxTotal
  /\ chunkIdx = Len(wire) /\ off = chunkIdx * MSS
  /\ pc = "begin" => off = 0
  /\ pc \in {"check", "send", "pause"} => off < total
  /\ pc \in {"done", "replied"} => chunkIdx > 0 /\ off >= total

\* The verdict is the one the test gave of the answer.
ReplyInv == reply.seen => (reply.strict <=> StrictOK(reply.seq, reply.ack))

Inv == TypeOK /\ SegmentInv /\ LoopInv /\ ReplyInv
-----------------------------------------------------------------------------
(***************************************************************************)
(* Arithmetic on the ring of sequence numbers.                             *)
(***************************************************************************)

\* A multiple of the modulus more or less makes no difference.
LEMMA ModAdd ==
  ASSUME NEW a \in Int, NEW k \in Int, NEW m \in Nat \ {0}
  PROVE  ((a % m) + k) % m = (a + k) % m
<1> DEFINE q == a \div m
           r == a % m
           p == (r + k) \div m
           s == (r + k) % m
<1>1. q \in Int /\ r \in 0 .. m - 1 /\ a = m * q + r
  BY DivMod
<1>2. p \in Int /\ s \in 0 .. m - 1 /\ r + k = m * p + s
  <2>1. r + k \in Int
    BY <1>1
  <2>2. QED
    BY <2>1, DivMod
<1> HIDE DEF q, r, p, s
<1>3. a + k = m * (q + p) + s
  BY <1>1, <1>2
<1>4. (a + k) % m = s
  <2>1. a + k \in Int /\ q + p \in Int
    BY <1>1, <1>2
  <2>2. QED
    BY <1>2, <1>3, <2>1, ModUnique
<1>5. QED
  BY <1>4 DEF r, s

\* A number less than one turn below zero.
LEMMA ModBelow ==
  ASSUME NEW m \in Nat \ {0}, NEW a \in Int, -m <= a, a < 0
  PROVE  a % m = a + m
<1>1. a = m * (-1) + (a + m) /\ a + m \in 0 .. m - 1
  OBVIOUS
<1>2. QED
  BY <1>1, ModUnique

\* A number in the first turn, and in the second.
LEMMA ModWithin ==
  ASSUME NEW m \in Nat \ {0}, NEW a \in Nat, a < 2 * m
  PROVE  a % m = IF a < m THEN a ELSE a - m
<1>1. CASE a < m
  <2>1. a = m * 0 + a /\ a \in 0 .. m - 1
    BY <1>1
  <2>2. QED
    BY <1>1, <2>1, ModUnique
<1>2. CASE ~(a < m)
  <2>1. a = m * 1 + (a - m) /\ a - m \in 0 .. m - 1
    BY <1>2
  <2>2. QED
    BY <1>2, <2>1, ModUnique
<1>3. QED
  BY <1>1, <1>2

\* The number of segments is the rounded-up quotient.
LEMMA PiecesUnique ==
  ASSUME NEW d \in Nat, NEW z \in Nat \ {0}, NEW n \in Nat \ {0},
         (n - 1) * z < d, d <= n * z
  PROVE  (d + z - 1) \div z = n
<1> DEFINE q == (d + z - 1) \div z
<1>1. q \in Int /\ q * z <= d + z - 1 /\ d + z - 1 < (q + 1) * z
  OBVIOUS
<1> HIDE DEF q
<1>2. q = n
  BY <1>1
<1>3. QED
  BY <1>2 DEF q

\* tcpSeqInRingIntervalInclusive, from a on for n bytes, tests the distance from a.
LEMMA RingInterval ==
  ASSUME NEW a \in Seqs, NEW x \in Seqs, NEW n \in Nat, n < SeqMod
  PROVE  TcpSeqInRingIntervalInclusive(x, a, (a + n) % SeqMod)
           <=> (x - a) % SeqMod <= n
<1>1. SeqMod \in Nat \ {0} /\ a \in 0 .. SeqMod - 1 /\ x \in 0 .. SeqMod - 1
  BY WrongSeqAssumption DEF Seqs
<1>2. (a + n) % SeqMod = IF a + n < SeqMod THEN a + n ELSE a + n - SeqMod
  <2> DEFINE t == a + n
  <2>1. t \in Nat /\ t < 2 * SeqMod
    BY <1>1
  <2> HIDE DEF t
  <2>2. t % SeqMod = IF t < SeqMod THEN t ELSE t - SeqMod
    BY <1>1, <2>1, ModWithin
  <2>3. QED
    BY <1>1, <2>2 DEF t
<1>3. (x - a) % SeqMod = IF x >= a THEN x - a ELSE x - a + SeqMod
  <2>1. CASE x >= a
    <3>1. x - a \in Nat /\ x - a < SeqMod /\ x - a < 2 * SeqMod
      BY <1>1, <2>1
    <3>2. QED
      BY <1>1, <2>1, <3>1, ModWithin
  <2>2. CASE ~(x >= a)
    <3>1. x - a \in Int /\ -SeqMod <= x - a /\ x - a < 0
      BY <1>1, <2>2
    <3>2. QED
      BY <1>1, <2>2, <3>1, ModBelow
  <2>3. QED
    BY <2>1, <2>2
<1> DEFINE b == (a + n) % SeqMod
           d == (x - a) % SeqMod
<1>4. /\ b = IF a + n < SeqMod THEN a + n ELSE a + n - SeqMod
      /\ d = IF x >= a THEN x - a ELSE x - a + SeqMod
  BY <1>2, <1>3
<1> HIDE DEF b, d
<1>5. TcpSeqInRingIntervalInclusive(x, a, b) <=> d <= n
  BY <1>1, <1>4 DEF TcpSeqInRingIntervalInclusive
<1>6. QED
  BY <1>5 DEF b, d

-----------------------------------------------------------------------------
(***************************************************************************)
(* The segments.                                                           *)
(***************************************************************************)

\* segmentMSS never returns less than one byte.
LEMMA SizePositive == ASSUME TypeOK PROVE MSS \in Nat \ {0}
BY WrongSeqAssumption DEF TypeOK, MSS, SegmentMSS

\* Where the segments begin.
LEMMA StartFacts ==
  ASSUME TypeOK, NEW i \in Nat
  PROVE  /\ i # 0 => Start(i) \in Nat
         /\ Start(i + 1) = i * MSS /\ i * MSS \in Nat
         /\ i # 0 => i * MSS = Start(i) + MSS
<1>1. MSS \in Nat \ {0}
  BY SizePositive
<1>2. /\ i # 0 => (i - 1) * MSS \in Nat
      /\ ((i + 1) - 1) * MSS = i * MSS /\ i * MSS \in Nat
      /\ i # 0 => i * MSS = (i - 1) * MSS + MSS
  BY <1>1
<1>3. QED
  BY <1>2 DEF Start

\* What depends on the connection and the template alone.
LEMMA InputFrame ==
  ASSUME UNCHANGED input
  PROVE  /\ UNCHANGED <<MSS, SegPerInject>>
         /\ \A n : UpTo(n)' = UpTo(n) /\ Start(n)' = Start(n)
         /\ \A s, a : StrictOK(s, a)' = StrictOK(s, a)
BY DEF input, MSS, SegPerInject, UpTo, Start, StrictOK

\* The segment the loop sends next carries the bytes that follow those on the wire.
LEMMA NextSegment ==
  ASSUME TypeOK, LoopInv, pc = "send"
  PROVE  /\ off = Start(Len(wire) + 1) /\ off < total
         /\ SegmentEnd = UpTo(off + MSS) /\ off < SegmentEnd /\ SegmentEnd <= total
         /\ SegmentEnd \in Nat
         /\ Segment.seq = (synSeq + 1 - total + off) % SeqMod
         /\ Segment.len = SegmentEnd - off
         /\ Segment \in [seq : Seqs, len : 0 .. MaxTotal, psh : BOOLEAN,
                         id : 0 .. IdentMod - 1]
<1>1. /\ MSS \in Nat \ {0} /\ off \in Nat /\ total \in Nat /\ total <= MaxTotal
      /\ off < total /\ synSeq \in Nat /\ ident \in Nat /\ chunkIdx \in Nat
      /\ SeqMod \in Nat \ {0} /\ IdentMod \in Nat \ {0} /\ MaxTotal \in Nat
  BY SizePositive, WrongSeqAssumption DEF TypeOK, LoopInv, Seqs
<1>2. off = Start(Len(wire) + 1)
  <2>1. Len(wire) \in Nat /\ off = Len(wire) * MSS
    BY LenProperties DEF LoopInv, TypeOK
  <2>2. QED
    BY <2>1, StartFacts
<1>3. /\ SegmentEnd = UpTo(off + MSS) /\ off < SegmentEnd /\ SegmentEnd <= total
      /\ SegmentEnd \in Nat
  BY <1>1 DEF SegmentEnd, UpTo
<1>4. (BaseWrongSeq + off) % SeqMod = (synSeq + 1 - total + off) % SeqMod
  <2> DEFINE t == synSeq + 1 - total
  <2>1. t \in Int /\ BaseWrongSeq = t % SeqMod
    BY <1>1 DEF BaseWrongSeq
  <2> HIDE DEF t
  <2>2. ((t % SeqMod) + off) % SeqMod = (t + off) % SeqMod
    <3>1. t \in Int /\ off \in Int /\ SeqMod \in Nat \ {0}
      BY <1>1, <2>1
    <3>2. QED
      BY <3>1, ModAdd
  <2>3. QED
    BY <2>1, <2>2 DEF t
<1>5. (BaseWrongSeq + off) % SeqMod \in Seqs
  <2>1. BaseWrongSeq + off \in Int
    BY <1>1, DivMod DEF BaseWrongSeq
  <2>2. QED
    BY <1>1, <2>1, DivMod DEF Seqs
<1>6. SegmentIdent \in 0 .. IdentMod - 1
  BY <1>1, DivMod DEF SegmentIdent
<1>7. SegmentEnd - off \in 0 .. MaxTotal
  BY <1>1, <1>3
<1>8. (SegmentEnd = total) \in BOOLEAN
  OBVIOUS
<1>9. /\ Segment.seq = (BaseWrongSeq + off) % SeqMod /\ Segment.len = SegmentEnd - off
      /\ Segment \in [seq : Seqs, len : 0 .. MaxTotal, psh : BOOLEAN,
                      id : 0 .. IdentMod - 1]
  BY <1>5, <1>6, <1>7, <1>8 DEF Segment
<1>10. QED
  BY <1>1, <1>2, <1>3, <1>4, <1>9

Segments == [seq : Seqs, len : 0 .. MaxTotal, psh : BOOLEAN, id : 0 .. IdentMod - 1]

\* The wire after a send.
LEMMA Sent ==
  ASSUME TypeOK, LoopInv, Send
  PROVE  /\ wire' \in Seq(Segments) /\ Len(wire') = Len(wire) + 1 /\ Len(wire) \in Nat
         /\ \A i \in 1 .. Len(wire) : wire'[i] = wire[i]
         /\ wire'[Len(wire) + 1] = Segment
<1>1. wire \in Seq(Segments) /\ Segment \in Segments /\ wire' = Append(wire, Segment)
  BY NextSegment DEF TypeOK, Send, Segments
<1>2. QED
  BY <1>1, AppendProperties, LenProperties

\* Every step keeps the types.
LEMMA TypeStep ==
  ASSUME TypeOK, LoopInv, [Next]_vars
  PROVE  TypeOK'
<1>1. CASE StopMonitor
  BY <1>1 DEF StopMonitor, input, TypeOK
<1>2. CASE Begin
  BY <1>2 DEF Begin, input, TypeOK
<1>3. CASE Check
  BY <1>3 DEF Check, input, TypeOK
<1>4. CASE Send
  <2>1. off' \in Nat /\ chunkIdx' \in Nat
    BY <1>4, SizePositive DEF Send, Advance, TypeOK
  <2>2. wire' \in Seq([seq : Seqs, len : 0 .. MaxTotal, psh : BOOLEAN,
                       id : 0 .. IdentMod - 1])
    BY <1>4, Sent DEF Segments
  <2>3. UNCHANGED <<input, monitoring, reply>> /\ pc' \in {"done", "pause", "check"}
    BY <1>4 DEF Send
  <2>4. QED
    BY <2>1, <2>2, <2>3 DEF TypeOK, input
<1>5. CASE SendFail
  BY <1>5 DEF SendFail, input, TypeOK
<1>6. CASE Pause
  BY <1>6 DEF Pause, input, TypeOK
<1>7. ASSUME NEW seq \in Seqs, NEW ack \in Seqs, Reply(seq, ack) PROVE TypeOK'
  <2>1. StrictOK(seq, ack) \in BOOLEAN
    BY DEF StrictOK, AckAccepts, TcpSeqInRingIntervalInclusive
  <2>2. reply' \in [seq : Seqs, ack : Seqs, strict : BOOLEAN, seen : BOOLEAN]
    BY <1>7, <2>1 DEF Reply
  <2>3. UNCHANGED <<input, monitoring, off, chunkIdx, wire>> /\ pc' = "replied"
    BY <1>7 DEF Reply
  <2>4. QED
    BY <2>2, <2>3 DEF TypeOK, input
<1>8. CASE UNCHANGED vars
  BY <1>8 DEF vars, input, TypeOK
<1>9. QED
  BY <1>1, <1>2, <1>3, <1>4, <1>5, <1>6, <1>7, <1>8 DEF Next, Ended

\* Only Send changes the wire and what the loop counts.
LEMMA OtherSteps ==
  ASSUME [Next]_vars, ~Send
  PROVE  UNCHANGED <<input, off, chunkIdx, wire>>
BY DEF Next, StopMonitor, Begin, Check, SendFail, Pause, Reply, Ended, vars

\* Every segment sent carries the bytes its place on the wire says.
LEMMA SegmentStep ==
  ASSUME TypeOK, LoopInv, SegmentInv, [Next]_vars
  PROVE  SegmentInv'
<1>1. CASE Send
  <2>1. UNCHANGED <<synSeq, total, MSS>> /\ \A n : UpTo(n)' = UpTo(n) /\ Start(n)' = Start(n)
    BY <1>1, InputFrame DEF Send, input
  <2>2. SUFFICES ASSUME NEW i \in 1 .. Len(wire')
                 PROVE  /\ Start(i) < total
                        /\ wire'[i].len = UpTo(Start(i) + MSS) - Start(i)
                        /\ wire'[i].seq = (synSeq + 1 - total + Start(i)) % SeqMod
    BY <2>1 DEF SegmentInv
  <2>3. CASE i \in 1 .. Len(wire)
    BY <1>1, <2>3, Sent DEF SegmentInv
  <2>4. CASE i = Len(wire) + 1
    BY <1>1, <2>4, Sent, NextSegment DEF Send
  <2>5. QED
    BY <1>1, <2>3, <2>4, Sent
<1>2. CASE ~Send
  <2>1. UNCHANGED <<synSeq, total, wire, MSS>>
        /\ \A n : UpTo(n)' = UpTo(n) /\ Start(n)' = Start(n)
    BY <1>2, OtherSteps, InputFrame DEF input
  <2>2. QED
    BY <2>1 DEF SegmentInv
<1>3. QED
  BY <1>1, <1>2

\* The loop goes on exactly while bytes are left.
LEMMA LoopStep ==
  ASSUME TypeOK, LoopInv, [Next]_vars
  PROVE  LoopInv'
<1>1. CASE Send
  <2>1. /\ UNCHANGED <<total, MSS>> /\ pc = "send" /\ off' = off + MSS
        /\ chunkIdx' = chunkIdx + 1
        /\ pc' \in {"done", "pause", "check"} /\ (pc' = "done" <=> SegmentEnd = total)
    BY <1>1, InputFrame DEF Send, input, Advance
  <2>2. /\ chunkIdx \in Nat /\ off \in Nat /\ total \in Nat /\ MSS \in Nat \ {0}
        /\ off < total /\ total <= MaxTotal /\ off = chunkIdx * MSS /\ chunkIdx = Len(wire)
    BY <2>1, SizePositive DEF TypeOK, LoopInv
  <2>3. chunkIdx' = Len(wire')
    BY <1>1, <2>1, <2>2, Sent
  <2>4. off' = chunkIdx' * MSS'
    <3>1. (chunkIdx + 1) * MSS = chunkIdx * MSS + MSS
      BY <2>2
    <3>2. QED
      BY <2>1, <2>2, <3>1
  <2>5. pc' = "done" => off' >= total
    BY <2>1, <2>2 DEF SegmentEnd
  <2>6. pc' # "done" => off' < total
    BY <2>1, <2>2 DEF SegmentEnd
  <2>7. chunkIdx' > 0
    BY <2>1, <2>2
  <2>8. QED
    BY <2>1, <2>2, <2>3, <2>4, <2>5, <2>6, <2>7 DEF LoopInv
<1>2. CASE ~Send
  <2>1. UNCHANGED <<total, MSS, off, chunkIdx, wire>>
    BY <1>2, OtherSteps, InputFrame DEF input
  <2>2. total \in Nat /\ off \in Nat
    BY DEF TypeOK
  <2>3. \/ pc' = pc \/ pc' \in {"failed", "canceled"}
        \/ pc = "begin" /\ pc' = "check" /\ total # 0
        \/ pc \in {"check", "pause"} /\ pc' \in {"check", "send"}
        \/ pc = "done" /\ pc' = "replied"
    BY <1>2 DEF Next, StopMonitor, Begin, Check, SendFail, Pause, Reply, Ended, vars
  <2>4. QED
    BY <2>1, <2>2, <2>3 DEF LoopInv
<1>3. QED
  BY <1>1, <1>2

\* The verdict is the test's.
LEMMA ReplyStep ==
  ASSUME TypeOK, ReplyInv, [Next]_vars
  PROVE  ReplyInv'
<1>1. ASSUME NEW seq \in Seqs, NEW ack \in Seqs, Reply(seq, ack) PROVE ReplyInv'
  <2>1. /\ reply'.seq = seq /\ reply'.ack = ack /\ reply'.strict = StrictOK(seq, ack)
        /\ UNCHANGED input
    BY <1>1 DEF Reply
  <2>2. reply'.strict <=> StrictOK(seq, ack)'
    BY <2>1, InputFrame
  <2>3. QED
    BY <2>1, <2>2 DEF ReplyInv
<1>2. CASE UNCHANGED <<input, reply>>
  <2>1. StrictOK(reply.seq, reply.ack)' = StrictOK(reply.seq, reply.ack)
    BY <1>2, InputFrame
  <2>2. QED
    BY <1>2, <2>1 DEF ReplyInv
<1>3. (\E seq, ack \in Seqs : Reply(seq, ack)) \/ UNCHANGED <<input, reply>>
  BY DEF Next, StopMonitor, Begin, Check, Send, SendFail, Pause, Ended, vars
<1>4. QED
  BY <1>1, <1>2, <1>3

-----------------------------------------------------------------------------
(***************************************************************************)
(* What was sent: SentBefore is a recursive function, and the number of    *)
(* bytes in the first segments by induction on their number.               *)
(***************************************************************************)

\* The first k segments carry the first k * MSS bytes, or all.
LEMMA SentBeforeValue ==
  ASSUME TypeOK, SegmentInv, NEW n \in 0 .. Len(wire)
  PROVE  SentBefore(n) = UpTo(n * MSS)
<1> DEFINE F(h) == [k \in 0 .. n |-> IF k = 0 THEN 0 ELSE h[k - 1] + wire[k].len]
           f == CHOOSE h : h = F(h)
           g == [k \in 0 .. n |-> UpTo(k * MSS)]
<1>1. SentBefore(n) = f[n]
  BY DEF SentBefore
<1>2. Len(wire) \in Nat /\ n \in Nat /\ total \in Nat /\ MSS \in Nat \ {0}
  BY LenProperties, SizePositive DEF TypeOK
<1>3. ASSUME NEW k \in 1 .. n
      PROVE  UpTo((k - 1) * MSS) + wire[k].len = UpTo(k * MSS)
  <2>1. k \in 1 .. Len(wire)
    BY <1>2
  <2>2. Start(k) < total /\ wire[k].len = UpTo(Start(k) + MSS) - Start(k)
    BY <2>1 DEF SegmentInv
  <2>3. Start(k) \in Nat /\ k * MSS = Start(k) + MSS /\ Start(k) = (k - 1) * MSS
    BY <1>2, <2>1, StartFacts DEF Start
  <2>4. UpTo(Start(k)) = Start(k) /\ UpTo(Start(k) + MSS) \in Nat
    <3>1. Start(k) \in Nat /\ Start(k) < total
      BY <2>2, <2>3
    <3>2. QED
      BY <1>2, <3>1 DEF UpTo
  <2>5. QED
    BY <2>2, <2>3, <2>4
<1>4. UpTo(0 * MSS) = 0
  BY <1>2 DEF UpTo
<1>5. g = F(g)
  <2>1. ASSUME NEW k \in 0 .. n
        PROVE  g[k] = IF k = 0 THEN 0 ELSE g[k - 1] + wire[k].len
    <3>1. CASE k = 0
      BY <1>4, <3>1
    <3>2. CASE k # 0
      <4>1. k \in 1 .. n /\ k - 1 \in 0 .. n
        BY <1>2, <3>2
      <4>2. g[k] = UpTo(k * MSS) /\ g[k - 1] = UpTo((k - 1) * MSS)
        BY <4>1
      <4>3. QED
        BY <1>3, <3>2, <4>1, <4>2
    <3>3. QED
      BY <3>1, <3>2
  <2>2. QED
    BY <2>1
<1>6. f = F(f)
  BY <1>5
<1> HIDE DEF f
<1>7. \A k \in 0 .. n : f[k] = IF k = 0 THEN 0 ELSE f[k - 1] + wire[k].len
  BY <1>6
<1> DEFINE S == {k \in 0 .. n : f[k] = UpTo(k * MSS)}
<1>8. 0 \in S
  BY <1>2, <1>4, <1>7
<1>9. ASSUME NEW k \in 0 .. n - 1, k \in S PROVE k + 1 \in S
  <2>1. k + 1 \in 1 .. n /\ k + 1 \in 0 .. n /\ (k + 1) - 1 = k /\ k + 1 # 0
    BY <1>2
  <2>2. f[k + 1] = f[k] + wire[k + 1].len
    BY <1>7, <2>1
  <2>3. f[k] = UpTo(k * MSS)
    BY <1>9
  <2>4. UpTo(k * MSS) + wire[k + 1].len = UpTo((k + 1) * MSS)
    BY <1>3, <2>1
  <2>5. QED
    BY <2>1, <2>2, <2>3, <2>4
<1> HIDE DEF S
<1>10. 0 .. n \subseteq S
  BY <1>2, <1>8, <1>9, InductionUpTo
<1>11. n \in S
  BY <1>2, <1>10
<1>12. QED
  BY <1>1, <1>11 DEF S

-----------------------------------------------------------------------------
(***************************************************************************)
(* The theorems.                                                           *)
(***************************************************************************)

\* The inductive invariant holds in every reachable state.
THEOREM WrongSeqInvariant == Spec => []Inv
<1>1. Init => Inv
  <2> SUFFICES ASSUME Init PROVE Inv
    OBVIOUS
  <2>1. wire = <<>> /\ Len(wire) = 0 /\ reply = NoReply
    BY DEF Init
  <2>2. reply \in [seq : Seqs, ack : Seqs, strict : BOOLEAN, seen : BOOLEAN]
    <3>1. 0 \in Seqs
      BY WrongSeqAssumption DEF Seqs
    <3>2. QED
      BY <2>1, <3>1 DEF NoReply
  <2>3. /\ synSeq \in Seqs /\ synAckSeq \in Seqs /\ total \in Nat /\ nicMTU \in Nat
        /\ header \in Nat /\ ident \in 0 .. IdentMod - 1 /\ total <= MaxTotal
        /\ off = 0 /\ chunkIdx = 0
    BY WrongSeqAssumption DEF Init, Seqs
  <2>4. fragmentDelay \in BOOLEAN /\ monitoring \in BOOLEAN /\ pc = "begin"
    BY DEF Init
  <2>5. wire \in Seq([seq : Seqs, len : 0 .. MaxTotal, psh : BOOLEAN,
                      id : 0 .. IdentMod - 1])
    BY <2>1
  <2>6. TypeOK
    BY <2>2, <2>3, <2>4, <2>5 DEF TypeOK
  <2>7. LoopInv
    <3>1. 0 * MSS = 0
      BY <2>6, SizePositive
    <3>2. QED
      BY <2>1, <2>3, <2>4, <3>1 DEF LoopInv
  <2>8. SegmentInv
    BY <2>1 DEF SegmentInv
  <2>9. ReplyInv
    BY <2>1 DEF ReplyInv, NoReply
  <2>10. QED
    BY <2>6, <2>7, <2>8, <2>9 DEF Inv
<1>2. Inv /\ [Next]_vars => Inv'
  BY TypeStep, SegmentStep, LoopStep, ReplyStep DEF Inv
<1>3. QED
  BY <1>1, <1>2, PTL DEF Spec

\* Every variable keeps its type.
THEOREM WrongSeqTypeCorrect == Spec => []TypeOK
<1>1. Inv => TypeOK
  BY DEF Inv
<1>2. QED
  BY <1>1, WrongSeqInvariant, PTL

\* No byte of a fake segment falls into the server's receive window, for every initial
\* sequence number, segment size and payload, wherever injectWrongSeqClientHello stops.
THEOREM FakeNeverInWindow == Spec => []OutsideWindow
<1>1. Inv => OutsideWindow
  <2> SUFFICES ASSUME Inv, NEW i \in DOMAIN wire, NEW b \in Bytes(wire[i])
               PROVE  (b - (synSeq + 1)) % SeqMod >= Window
    BY DEF OutsideWindow
  <2>1. /\ TypeOK /\ SegmentInv /\ LoopInv /\ i \in 1 .. Len(wire) /\ i \in Nat /\ i # 0
    BY LenProperties DEF Inv, TypeOK
  <2>2. PICK k \in 0 .. wire[i].len - 1 : b = (wire[i].seq + k) % SeqMod
    BY DEF Bytes
  <2> DEFINE o == Start(i)
             c == synSeq + 1
  <2> HIDE DEF o, c
  <2>3. /\ o \in Nat /\ c \in Nat /\ total \in Nat /\ total <= MaxTotal /\ MaxTotal \in Nat
        /\ SeqMod \in Nat \ {0} /\ Window \in Nat /\ MaxTotal + Window <= SeqMod
        /\ MSS \in Nat \ {0}
    <3>1. o \in Nat /\ MSS \in Nat \ {0}
      BY <2>1, StartFacts, SizePositive DEF o
    <3>2. c \in Nat /\ total \in Nat /\ total <= MaxTotal
      BY <2>1, WrongSeqAssumption DEF TypeOK, LoopInv, Seqs, c
    <3>3. QED
      BY <3>1, <3>2, WrongSeqAssumption
  <2>4. /\ o < total /\ wire[i].len = UpTo(o + MSS) - o
        /\ wire[i].seq = (c - total + o) % SeqMod
    <3>1. /\ Start(i) < total /\ wire[i].len = UpTo(Start(i) + MSS) - Start(i)
          /\ wire[i].seq = (synSeq + 1 - total + Start(i)) % SeqMod
      BY <2>1 DEF SegmentInv
    <3>2. o < total
      BY <3>1 DEF o
    <3>3. wire[i].len = UpTo(o + MSS) - o
      BY <3>1 DEF o
    <3>4. wire[i].seq = (c - total + o) % SeqMod
      <4>1. synSeq + 1 - total + Start(i) = c - total + o
        BY <2>1, <2>3 DEF o, c, TypeOK, Seqs
      <4>2. QED
        BY <3>1, <4>1
    <3>5. QED
      BY <3>2, <3>3, <3>4
  <2>5. k \in Nat /\ o + k < total
    BY <2>2, <2>3, <2>4 DEF UpTo
  <2>6. b = (c - total + o + k) % SeqMod
    <3> DEFINE t == c - total + o
    <3>1. t \in Int /\ k \in Int /\ b = ((t % SeqMod) + k) % SeqMod
      BY <2>2, <2>3, <2>4, <2>5
    <3> HIDE DEF t
    <3>2. b = (t + k) % SeqMod
      BY <2>3, <3>1, ModAdd
    <3>3. QED
      BY <3>2 DEF t
  <2>7. (b - c) % SeqMod = (o + k - total) % SeqMod
    <3> DEFINE a == c - total + o + k
    <3>1. a \in Int /\ -c \in Int /\ a + (-c) = o + k - total
      BY <2>3, <2>5
    <3>2. b = a % SeqMod
      BY <2>6
    <3> HIDE DEF a
    <3>3. (b + (-c)) % SeqMod = (a + (-c)) % SeqMod
      BY <2>3, <3>1, <3>2, ModAdd
    <3>4. b \in Int /\ b + (-c) = b - c
      BY <2>3, <3>1, <3>2, DivMod
    <3>5. QED
      BY <3>1, <3>3, <3>4
  <2>8. (o + k - total) % SeqMod = o + k - total + SeqMod
    <3>1. o + k - total \in Int /\ -SeqMod <= o + k - total /\ o + k - total < 0
      BY <2>3, <2>5
    <3>2. QED
      BY <2>3, <3>1, ModBelow
  <2>9. o + k - total + SeqMod >= Window
    BY <2>3, <2>5
  <2>10. QED
    BY <2>7, <2>8, <2>9 DEF c
<1>2. QED
  BY <1>1, WrongSeqInvariant, PTL

\* The segments on the wire are FakeData from its first byte on, without gap or overlap,
\* and all of it, in segPerInject segments, when injectWrongSeqClientHello returns nil.
THEOREM FakeReassembles == Spec => []Reassembles
<1>1. Inv => Reassembles
  <2> SUFFICES ASSUME Inv PROVE Reassembles
    OBVIOUS
  <2>1. /\ TypeOK /\ SegmentInv /\ LoopInv /\ Len(wire) \in Nat
        /\ DOMAIN wire = 1 .. Len(wire) /\ total \in Nat /\ MSS \in Nat \ {0}
    BY LenProperties, SizePositive DEF Inv, TypeOK
  <2>2. ASSUME NEW i \in 1 .. Len(wire)
        PROVE  /\ wire[i].len > 0
               /\ wire[i].seq = (synSeq + 1 - total + SentBefore(i - 1)) % SeqMod
    <3>1. /\ Start(i) < total /\ wire[i].len = UpTo(Start(i) + MSS) - Start(i)
          /\ wire[i].seq = (synSeq + 1 - total + Start(i)) % SeqMod
      BY <2>1 DEF SegmentInv
    <3>2. Start(i) \in Nat /\ Start(i) = (i - 1) * MSS
      BY <2>1, StartFacts DEF Start
    <3>3. i - 1 \in 0 .. Len(wire)
      BY <2>1
    <3>4. SentBefore(i - 1) = UpTo((i - 1) * MSS)
      BY <2>1, <3>3, SentBeforeValue
    <3>5. UpTo(Start(i)) = Start(i)
      BY <2>1, <3>1, <3>2 DEF UpTo
    <3>6. wire[i].len > 0
      BY <2>1, <3>1, <3>2 DEF UpTo
    <3>7. QED
      BY <3>1, <3>2, <3>4, <3>5, <3>6
  <2>3. ASSUME pc \in {"done", "replied"}
        PROVE  SentBefore(Len(wire)) = total /\ Len(wire) = SegPerInject
    <3> DEFINE n == Len(wire)
    <3>1. n \in Nat \ {0} /\ n * MSS >= total
      BY <2>1, <2>3 DEF LoopInv
    <3>2. n \in 1 .. Len(wire) /\ n \in 0 .. Len(wire)
      BY <3>1
    <3>3. (n - 1) * MSS < total
      BY <2>1, <3>2 DEF SegmentInv, Start
    <3>4. n * MSS \in Nat
      BY <2>1, <3>1, StartFacts
    <3>5. SentBefore(n) = UpTo(n * MSS)
      BY <2>1, <3>2, SentBeforeValue
    <3>6. UpTo(n * MSS) = total
      BY <2>1, <3>1, <3>4 DEF UpTo
    <3> HIDE DEF n
    <3>7. (total + MSS - 1) \div MSS = n
      BY <2>1, <3>1, <3>3, <3>4, PiecesUnique
    <3>8. QED
      BY <3>5, <3>6, <3>7 DEF n, SegPerInject
  <2>4. QED
    BY <2>1, <2>2, <2>3 DEF Reassembles
<1>2. QED
  BY <1>1, WrongSeqInvariant, PTL

\* segmentMSS: with a size taken from the MTU, no packet of the fake exceeds it.
THEOREM SegmentsFitTheMTU == Spec => []DerivedSizeFits
<1>1. Inv => DerivedSizeFits
  <2> SUFFICES ASSUME Inv, nicMTU - header >= MinMss, NEW i \in DOMAIN wire
               PROVE  header + wire[i].len <= nicMTU
    BY DEF DerivedSizeFits
  <2>1. TypeOK /\ SegmentInv /\ i \in 1 .. Len(wire) /\ i \in Nat /\ i # 0
    BY LenProperties DEF Inv, TypeOK
  <2>2. /\ nicMTU \in Nat /\ header \in Nat /\ MinMss \in Nat /\ total \in Nat
        /\ Start(i) \in Nat
    BY <2>1, StartFacts, WrongSeqAssumption DEF TypeOK
  <2>3. MSS = nicMTU - header
    BY <2>2 DEF MSS, SegmentMSS
  <2>4. Start(i) < total /\ wire[i].len = UpTo(Start(i) + MSS) - Start(i)
    BY <2>1 DEF SegmentInv
  <2>5. QED
    BY <2>2, <2>3, <2>4 DEF UpTo
<1>2. QED
  BY <1>1, WrongSeqInvariant, PTL

\* postFakeInboundStrictOK, with its wrap-around arithmetic, accepts an acknowledgement
\* exactly when it lies at most FakeData behind SynSeq + 1 on the ring.
THEOREM StrictTestIsExact == Spec => []StrictIsRingInterval
<1>1. Inv => StrictIsRingInterval
  <2> SUFFICES ASSUME Inv, reply.seen
               PROVE  reply.strict <=>
                        /\ reply.seq = (synAckSeq + 1) % SeqMod
                        /\ (reply.ack - (synSeq + 1)) % SeqMod <= total
    BY DEF StrictIsRingInterval
  <2>1. reply.strict <=> StrictOK(reply.seq, reply.ack)
    BY DEF Inv, ReplyInv
  <2> DEFINE x == reply.ack
             s == synSeq + 1
             a == s % SeqMod
  <2>2. /\ x \in Seqs /\ s \in Int /\ total \in Nat /\ total < SeqMod
        /\ SeqMod \in Nat \ {0}
    BY WrongSeqAssumption DEF Inv, TypeOK, LoopInv, Seqs
  <2>3. a \in Seqs /\ a \in Int /\ x \in Int
    <3> HIDE DEF x, s
    <3>1. a \in 0 .. SeqMod - 1
      BY <2>2, DivMod
    <3> HIDE DEF a
    <3>2. QED
      BY <2>2, <3>1 DEF Seqs
  <2>4. (s + total) % SeqMod = (a + total) % SeqMod
    BY <2>2, ModAdd
  <2>5. (x - s) % SeqMod = (x - a) % SeqMod
    <3>1. s = SeqMod * (s \div SeqMod) + a /\ s \div SeqMod \in Int
      BY <2>2, DivMod
    <3> DEFINE q == s \div SeqMod
               r == (x - a) % SeqMod
               p == (x - a) \div SeqMod
    <3>2. x - a = SeqMod * p + r /\ p \in Int /\ r \in 0 .. SeqMod - 1
      <4>1. x - a \in Int
        BY <2>3
      <4>2. QED
        BY <2>2, <4>1, DivMod
    <3>3. q \in Int /\ s = SeqMod * q + a
      BY <3>1
    <3> HIDE DEF q, r, p, x, s, a
    <3>4. x - s = SeqMod * (p - q) + r /\ x - s \in Int /\ p - q \in Int
      BY <2>2, <2>3, <3>2, <3>3
    <3>5. (x - s) % SeqMod = r
      BY <2>2, <3>2, <3>4, ModUnique
    <3>6. QED
      BY <3>5 DEF r
  <2>6. TcpSeqInRingIntervalInclusive(x, a, (a + total) % SeqMod)
          <=> (x - a) % SeqMod <= total
    BY <2>2, <2>3, RingInterval
  <2>7. AckAccepts(x, synSeq, total) <=> (x - s) % SeqMod <= total
    <3>1. CASE total > 0
      <4>1. AckAccepts(x, synSeq, total)
              <=> TcpSeqInRingIntervalInclusive(x, a, (s + total) % SeqMod)
        BY <2>2, <3>1 DEF AckAccepts
      <4>2. QED
        BY <2>4, <2>5, <2>6, <4>1
    <3>2. CASE total = 0
      <4>1. AckAccepts(x, synSeq, total) <=> x = a
        BY <2>2, <3>2 DEF AckAccepts
      <4>2. (a + total) % SeqMod = a
        <5>1. a + total = a /\ a = SeqMod * 0 + a /\ a \in 0 .. SeqMod - 1
          BY <2>2, <2>3, <3>2 DEF Seqs
        <5> HIDE DEF a
        <5>2. a % SeqMod = a
          BY <2>2, <2>3, <5>1, ModUnique
        <5>3. QED
          BY <5>1, <5>2
      <4>3. TcpSeqInRingIntervalInclusive(x, a, a) <=> x = a
        BY <2>3 DEF TcpSeqInRingIntervalInclusive
      <4>4. QED
        BY <2>5, <2>6, <4>1, <4>2, <4>3
    <3>3. QED
      BY <2>2, <3>1, <3>2
  <2>8. QED
    BY <2>1, <2>7 DEF StrictOK
<1>2. QED
  BY <1>1, WrongSeqInvariant, PTL
=============================================================================
