--------------------------- MODULE FragmentProofs ---------------------------
(***************************************************************************)
(* Proofs about Fragment for every record size, every -sni-chunk and       *)
(* whatever the client sends.  Inv has two halves: where the parser is     *)
(* (ParserInv, NameInv, CountInv), and that the pieces written and still   *)
(* to be written form one chain from the client's first byte (StreamInv),  *)
(* from which the refinement of ByteStream follows too.                    *)
(***************************************************************************)
EXTENDS Fragment, NumberLemmas, SequenceTheorems, TLAPS

Early == {"header", "record"}
Parsing == {"handshake", "vector", "extensions", "extension", "list", "name"}
Writing == {"write", "copy"}
Header == RecordHeader + HandshakeHeader

\* How much of the record the parser has been over, and that the slice it reads from is
\* long enough for what it reads next without a test.
ParserInv ==
  /\ pc = "header" => cursor = 0 /\ body = 0
  /\ pc \in {"record", "handshake"} => cursor = RecordHeader
  /\ pc \in {"vector", "extensions", "extension", "list", "name"} =>
       HandshakeHeader + body <= recLen
  /\ pc = "vector" => cursor = Header + pos /\ pos + Width[vec] <= body
  /\ pc = "extensions" => cursor = Header + pos /\ pos <= body
  /\ pc = "extension" => cursor = Header + pos /\ pos <= extEnd /\ extEnd <= body
  /\ pc = "list" => cursor = Header + pos /\ pos + ext <= body
  /\ pc = "name" => /\ cursor = Header + pos + npos /\ pos + ext <= body
                    /\ npos <= listEnd /\ listEnd <= ext

\* A name was found by the last step of the parser.
NameInv ==
  sni # None =>
    /\ pc \notin Early \cup Parsing
    /\ sni[1] = cursor /\ 0 < sni[1] /\ sni[1] < sni[2]
    /\ sni[2] <= RecordHeader + recLen

CountInv == reads <= cursor /\ ~panicked

\* s is a sequence of pieces, none of them empty, that begins at from and has no gap.
Chain(s, from) ==
  \A i \in 1 .. Len(s) :
    s[i][1] < s[i][2] /\ s[i][1] = IF i = 1 THEN from ELSE s[i - 1][2]

\* Where it ends.
EndOf(s, from) == IF Len(s) = 0 THEN from ELSE s[Len(s)][2]

\* A piece that overlaps the name is a part of the name, no longer than a chunk.
Fits(p) ==
  sni # None /\ chunk > 0 /\ p[2] > sni[1] /\ p[1] < sni[2] =>
    sni[1] <= p[1] /\ p[2] <= sni[2] /\ p[2] - p[1] <= chunk

\* What was written and what is still to be written, one after the other, is what was
\* read from the client.
StreamInv ==
  /\ pc = "header" => got = 0
  /\ pc = "record" => got = RecordHeader /\ recLen > 0
  /\ pc \in Parsing \cup {"split", "write"} => got = RecordHeader + recLen
  /\ pc \in Early \cup Parsing \cup {"split"} => out = <<>>
  /\ pc \in {"relay", "relayed"} =>
       Len(out) > 0 /\ EndOf(out, 0) = got /\ got >= RecordHeader + recLen
  /\ pc \in Writing =>
       Len(frags) > 0 /\ Chain(frags, EndOf(out, 0)) /\ EndOf(frags, EndOf(out, 0)) = got
  /\ pc = "copy" => Len(frags) = 1 /\ EndOf(out, 0) >= RecordHeader + recLen
  /\ Chain(out, 0)

\* No piece carries too much of the name.
FitsInv ==
  /\ \A i \in 1 .. Len(out) : Fits(out[i])
  /\ pc \in Writing => \A i \in 1 .. Len(frags) : Fits(frags[i])

Inv == TypeOK /\ ParserInv /\ NameInv /\ CountInv /\ StreamInv /\ FitsInv

-----------------------------------------------------------------------------
(***************************************************************************)
(* Chains of pieces, and Split makes one.                                  *)
(***************************************************************************)

Pieces == Nat \X Nat

\* Two chains that meet are a chain.
LEMMA ChainConcat ==
  ASSUME NEW s \in Seq(Pieces), NEW t \in Seq(Pieces), NEW a \in Nat,
         Chain(s, a), Chain(t, EndOf(s, a))
  PROVE  /\ s \o t \in Seq(Pieces) /\ Len(s \o t) = Len(s) + Len(t)
         /\ Chain(s \o t, a) /\ EndOf(s \o t, a) = EndOf(t, EndOf(s, a))
<1>1. /\ Len(s) \in Nat /\ Len(t) \in Nat
      /\ s \o t \in Seq(Pieces) /\ Len(s \o t) = Len(s) + Len(t)
      /\ \A i \in 1 .. Len(s) : (s \o t)[i] = s[i]
      /\ \A i \in 1 .. Len(t) : (s \o t)[Len(s) + i] = t[i]
  BY ConcatProperties, LenProperties
<1>2. Chain(s \o t, a)
  <2> SUFFICES ASSUME NEW i \in 1 .. Len(s) + Len(t)
               PROVE  /\ (s \o t)[i][1] < (s \o t)[i][2]
                      /\ (s \o t)[i][1] = IF i = 1 THEN a ELSE (s \o t)[i - 1][2]
    BY <1>1 DEF Chain
  <2>1. CASE i <= Len(s)
    <3>1. i \in 1 .. Len(s) /\ (i # 1 => i - 1 \in 1 .. Len(s))
      BY <1>1, <2>1
    <3>2. (s \o t)[i] = s[i] /\ (i # 1 => (s \o t)[i - 1] = s[i - 1])
      BY <1>1, <3>1
    <3>3. QED
      BY <3>1, <3>2 DEF Chain
  <2>2. CASE i > Len(s)
    <3> DEFINE j == i - Len(s)
    <3>1. j \in 1 .. Len(t) /\ i = Len(s) + j /\ (j # 1 => j - 1 \in 1 .. Len(t))
      BY <1>1, <2>2
    <3>2. (s \o t)[i] = t[j]
      BY <1>1, <3>1
    <3>3. CASE j = 1
      <4>1. CASE Len(s) = 0
        BY <1>1, <3>1, <3>2, <3>3, <4>1 DEF Chain, EndOf
      <4>2. CASE Len(s) # 0
        <5>1. i - 1 = Len(s) /\ i # 1 /\ Len(s) \in 1 .. Len(s)
          BY <1>1, <3>1, <3>3, <4>2
        <5>2. (s \o t)[i - 1] = s[Len(s)]
          BY <1>1, <5>1
        <5>3. QED
          BY <3>1, <3>2, <3>3, <4>2, <5>1, <5>2 DEF Chain, EndOf
      <4>3. QED
        BY <4>1, <4>2
    <3>4. CASE j # 1
      <4>1. i - 1 = Len(s) + (j - 1) /\ i # 1
        BY <1>1, <3>1, <3>4
      <4>2. (s \o t)[i - 1] = t[j - 1]
        BY <1>1, <3>1, <3>4, <4>1
      <4>3. QED
        BY <3>1, <3>2, <3>4, <4>1, <4>2 DEF Chain
    <3>5. QED
      BY <3>3, <3>4
  <2>3. QED
    BY <1>1, <2>1, <2>2
<1>3. EndOf(s \o t, a) = EndOf(t, EndOf(s, a))
  <2>1. CASE Len(t) = 0
    <3>1. CASE Len(s) = 0
      BY <1>1, <2>1, <3>1 DEF EndOf
    <3>2. CASE Len(s) # 0
      BY <1>1, <2>1, <3>2 DEF EndOf
    <3>3. QED
      BY <3>1, <3>2
  <2>2. CASE Len(t) # 0
    BY <1>1, <2>2 DEF EndOf
  <2>3. QED
    BY <2>1, <2>2
<1>4. QED
  BY <1>1, <1>2, <1>3

\* One more piece at the end of a chain.
LEMMA ChainAppend ==
  ASSUME NEW s \in Seq(Pieces), Chain(s, 0), NEW p \in Pieces,
         p[1] = EndOf(s, 0), p[1] < p[2]
  PROVE  /\ Append(s, p) \in Seq(Pieces) /\ Len(Append(s, p)) = Len(s) + 1
         /\ Chain(Append(s, p), 0) /\ EndOf(Append(s, p), 0) = p[2]
         /\ \A i \in 1 .. Len(s) : Append(s, p)[i] = s[i]
         /\ Append(s, p)[Len(s) + 1] = p
<1>1. /\ Len(s) \in Nat
      /\ Append(s, p) \in Seq(Pieces) /\ Len(Append(s, p)) = Len(s) + 1
      /\ \A i \in 1 .. Len(s) : Append(s, p)[i] = s[i]
      /\ Append(s, p)[Len(s) + 1] = p
  BY AppendProperties, LenProperties
<1>2. Chain(Append(s, p), 0)
  <2> SUFFICES ASSUME NEW i \in 1 .. Len(s) + 1
               PROVE  /\ Append(s, p)[i][1] < Append(s, p)[i][2]
                      /\ Append(s, p)[i][1] = IF i = 1 THEN 0 ELSE Append(s, p)[i - 1][2]
    BY <1>1 DEF Chain
  <2>1. CASE i \in 1 .. Len(s)
    <3>1. i # 1 => i - 1 \in 1 .. Len(s)
      BY <1>1, <2>1
    <3>2. Append(s, p)[i] = s[i] /\ (i # 1 => Append(s, p)[i - 1] = s[i - 1])
      BY <1>1, <2>1, <3>1
    <3>3. QED
      BY <2>1, <3>2 DEF Chain
  <2>2. CASE i = Len(s) + 1
    <3>1. CASE Len(s) = 0
      BY <1>1, <2>2, <3>1 DEF EndOf
    <3>2. CASE Len(s) # 0
      <4>1. i - 1 = Len(s) /\ i # 1 /\ Len(s) \in 1 .. Len(s)
        BY <1>1, <2>2, <3>2
      <4>2. Append(s, p)[i - 1] = s[Len(s)]
        BY <1>1, <4>1
      <4>3. QED
        BY <1>1, <2>2, <3>2, <4>1, <4>2 DEF EndOf
    <3>3. QED
      BY <3>1, <3>2
  <2>3. QED
    BY <1>1, <2>1, <2>2
<1>3. EndOf(Append(s, p), 0) = p[2]
  BY <1>1 DEF EndOf
<1>4. QED
  BY <1>1, <1>2, <1>3

\* The rest of a chain begins where its first piece ends.
LEMMA ChainTail ==
  ASSUME NEW s \in Seq(Pieces), NEW a \in Nat, Len(s) > 0, Chain(s, a)
  PROVE  /\ Head(s) \in Pieces /\ Head(s)[1] = a /\ Head(s)[1] < Head(s)[2]
         /\ Tail(s) \in Seq(Pieces) /\ Len(Tail(s)) = Len(s) - 1
         /\ Chain(Tail(s), Head(s)[2])
         /\ EndOf(Tail(s), Head(s)[2]) = EndOf(s, a)
         /\ Head(s) = s[1] /\ \A i \in 1 .. Len(Tail(s)) : Tail(s)[i] = s[i + 1]
<1>1. /\ Len(s) \in Nat /\ Head(s) \in Pieces /\ Head(s) = s[1]
      /\ Tail(s) \in Seq(Pieces) /\ Len(Tail(s)) = Len(s) - 1
      /\ \A i \in 1 .. Len(Tail(s)) : Tail(s)[i] = s[i + 1]
  BY HeadTailProperties, LenProperties
<1>2. Head(s)[1] = a /\ Head(s)[1] < Head(s)[2]
  BY <1>1 DEF Chain
<1>3. Chain(Tail(s), Head(s)[2])
  <2> SUFFICES ASSUME NEW i \in 1 .. Len(s) - 1
               PROVE  /\ Tail(s)[i][1] < Tail(s)[i][2]
                      /\ Tail(s)[i][1] = IF i = 1 THEN Head(s)[2] ELSE Tail(s)[i - 1][2]
    BY <1>1 DEF Chain
  <2>1. i + 1 \in 1 .. Len(s) /\ i + 1 # 1 /\ (i + 1) - 1 = i
    BY <1>1
  <2>2. s[i + 1][1] < s[i + 1][2] /\ s[i + 1][1] = s[i][2]
    BY <2>1 DEF Chain
  <2>3. Tail(s)[i] = s[i + 1] /\ (i # 1 => Tail(s)[i - 1] = s[i])
    <3>1. i # 1 => i - 1 \in 1 .. Len(s) - 1 /\ (i - 1) + 1 = i
      BY <1>1
    <3>2. QED
      BY <1>1, <3>1
  <2>4. QED
    BY <1>1, <2>2, <2>3
<1>4. EndOf(Tail(s), Head(s)[2]) = EndOf(s, a)
  <2>1. CASE Len(s) = 1
    BY <1>1, <2>1 DEF EndOf
  <2>2. CASE Len(s) # 1
    <3>1. Len(s) - 1 \in 1 .. Len(Tail(s)) /\ (Len(s) - 1) + 1 = Len(s)
      BY <1>1, <2>2
    <3>2. QED
      BY <1>1, <2>2, <3>1 DEF EndOf
  <2>3. QED
    BY <2>1, <2>2
<1>5. QED
  BY <1>1, <1>2, <1>3, <1>4

\* A chain that is not empty ends behind its beginning, by induction on its length.
LEMMA ChainEnd ==
  ASSUME NEW s \in Seq(Pieces), NEW a \in Nat, Len(s) > 0, Chain(s, a)
  PROVE  EndOf(s, a) \in Nat /\ EndOf(s, a) > a
<1> DEFINE S == {k \in 0 .. Len(s) : k > 0 => s[k][2] > a}
<1>1. Len(s) \in Nat /\ \A k \in 1 .. Len(s) : s[k][1] \in Nat /\ s[k][2] \in Nat
  BY LenProperties, ElementOfSeq DEF Pieces
<1>2. 0 \in S
  BY <1>1
<1>3. ASSUME NEW k \in 0 .. Len(s) - 1, k \in S PROVE k + 1 \in S
  <2>1. k + 1 \in 1 .. Len(s) /\ (k + 1) - 1 = k /\ (k + 1 = 1 <=> k = 0)
    BY <1>1
  <2>2. s[k + 1][1] < s[k + 1][2] /\ s[k + 1][1] = IF k = 0 THEN a ELSE s[k][2]
    BY <2>1 DEF Chain
  <2>3. k # 0 => s[k][2] > a /\ s[k][2] \in Nat
    BY <1>1, <1>3
  <2>4. s[k + 1][2] > a
    BY <1>1, <2>1, <2>2, <2>3
  <2>5. QED
    BY <1>1, <2>1, <2>4
<1> HIDE DEF S
<1>4. 0 .. Len(s) \subseteq S
  BY <1>1, <1>2, <1>3, InductionUpTo
<1>5. Len(s) \in S /\ Len(s) \in 1 .. Len(s)
  BY <1>1, <1>4
<1>6. QED
  BY <1>1, <1>5 DEF S, EndOf

\* The name in pieces: a chain from its first byte to its last, none longer than c.
LEMMA NamePiecesChain ==
  ASSUME NEW s \in Nat, NEW e \in Nat, s < e, NEW c \in Int
  PROVE  /\ NamePieces(s, e, c) \in Seq(Pieces)
         /\ Chain(NamePieces(s, e, c), s) /\ EndOf(NamePieces(s, e, c), s) = e
         /\ \A i \in 1 .. Len(NamePieces(s, e, c)) :
              LET p == NamePieces(s, e, c)[i]
              IN  s <= p[1] /\ p[2] <= e /\ (c > 0 => p[2] - p[1] <= c)
<1> DEFINE z == IF c <= 0 THEN e - s ELSE c
           n == (e - s + z - 1) \div z
           start(i) == s + (i - 1) * z
           end(i) == IF s + i * z > e THEN e ELSE s + i * z
           f == [i \in 1 .. n |-> <<start(i), end(i)>>]
<1>1. z \in Nat \ {0} /\ e - s \in Nat \ {0} /\ (c > 0 => z = c)
  OBVIOUS
<1>2. n \in Nat \ {0} /\ (n - 1) * z < e - s /\ e - s <= n * z
  <2> HIDE DEF z
  <2>1. QED
    BY <1>1, PiecesNeeded
<1>3. NamePieces(s, e, c) = f
  BY DEF NamePieces
<1> HIDE DEF z, n
<1>4. ASSUME NEW i \in 1 .. n
      PROVE  /\ start(i) \in Nat /\ end(i) \in Nat /\ s <= start(i) /\ start(i) < end(i)
             /\ end(i) <= e /\ end(i) - start(i) <= z
             /\ i # n => end(i) = s + i * z
             /\ i = n => end(i) = e
  <2>1. (i - 1) * z \in Nat /\ (i - 1) * z <= (n - 1) * z
    BY <1>1, <1>2, ProductMonotonic
  <2>2. i * z = (i - 1) * z + z /\ n * z = (n - 1) * z + z
    BY <1>1, <1>2
  <2>3. i # n => i * z <= (n - 1) * z
    BY <1>1, <1>2, ProductMonotonic
  <2>4. QED
    BY <1>1, <1>2, <2>1, <2>2, <2>3
<1>5. f \in Seq(Pieces) /\ Len(f) = n /\ \A i \in 1 .. n : f[i] = <<start(i), end(i)>>
  BY <1>2, <1>4 DEF Pieces
<1> HIDE DEF f
<1>6. Chain(f, s)
  <2> SUFFICES ASSUME NEW i \in 1 .. n
               PROVE  f[i][1] < f[i][2] /\ f[i][1] = IF i = 1 THEN s ELSE f[i - 1][2]
    BY <1>5 DEF Chain
  <2>1. f[i][1] = start(i) /\ f[i][2] = end(i)
    BY <1>5
  <2>2. CASE i = 1
    BY <1>1, <1>4, <2>1, <2>2
  <2>3. CASE i # 1
    <3>1. i - 1 \in 1 .. n /\ i - 1 # n
      BY <1>2, <2>3
    <3>2. f[i - 1][2] = end(i - 1)
      BY <1>5, <3>1
    <3>3. end(i - 1) = start(i)
      BY <1>4, <3>1
    <3>4. QED
      BY <1>4, <2>1, <2>3, <3>2, <3>3
  <2>4. QED
    BY <2>2, <2>3
<1>7. EndOf(f, s) = e
  <2>1. n \in 1 .. n /\ n # 0
    BY <1>2
  <2>2. f[n][2] = end(n) /\ end(n) = e
    BY <1>4, <1>5, <2>1
  <2>3. QED
    BY <1>5, <2>1, <2>2 DEF EndOf
<1>8. \A i \in 1 .. n : s <= f[i][1] /\ f[i][2] <= e /\ (c > 0 => f[i][2] - f[i][1] <= c)
  <2>1. TAKE i \in 1 .. n
  <2>2. f[i][1] = start(i) /\ f[i][2] = end(i)
    BY <1>5
  <2>3. QED
    BY <1>1, <1>4, <2>2
<1>9. QED
  BY <1>3, <1>5, <1>6, <1>7, <1>8

\* A piece that overlaps the name s .. e - 1 is a part of it, no longer than c.
Apart(p, s, e, c) ==
  p[2] > s /\ p[1] < e => s <= p[1] /\ p[2] <= e /\ (c > 0 => p[2] - p[1] <= c)

\* A concatenation has the pieces of both sequences.
LEMMA ApartConcat ==
  ASSUME NEW x \in Seq(Pieces), NEW y \in Seq(Pieces), NEW s, NEW e, NEW c,
         \A i \in 1 .. Len(x) : Apart(x[i], s, e, c),
         \A i \in 1 .. Len(y) : Apart(y[i], s, e, c)
  PROVE  \A i \in 1 .. Len(x \o y) : Apart((x \o y)[i], s, e, c)
<1>1. /\ Len(x) \in Nat /\ Len(y) \in Nat /\ Len(x \o y) = Len(x) + Len(y)
      /\ \A i \in 1 .. Len(x) : (x \o y)[i] = x[i]
      /\ \A i \in 1 .. Len(y) : (x \o y)[Len(x) + i] = y[i]
  BY ConcatProperties, LenProperties
<1>2. TAKE i \in 1 .. Len(x \o y)
<1>3. CASE i \in 1 .. Len(x)
  BY <1>1, <1>3
<1>4. CASE i \notin 1 .. Len(x)
  <2>1. i - Len(x) \in 1 .. Len(y) /\ i = Len(x) + (i - Len(x))
    BY <1>1, <1>4
  <2>2. (x \o y)[i] = y[i - Len(x)]
    BY <1>1, <2>1
  <2>3. QED
    BY <2>1, <2>2
<1>5. QED
  BY <1>3, <1>4

\* SplitClientHelloRecord: whatever name is found, and also when none is, the pieces are
\* the record from its first byte to its last, and only pieces of the name overlap it.
LEMMA SplitChain ==
  ASSUME NEW length \in Nat \ {0}, NEW s \in Nat, NEW e \in Nat, NEW c \in Int,
         e <= length, (s = 0 /\ e = 0) \/ (0 < s /\ s < e)
  PROVE  /\ Split(length, s, e, c) \in Seq(Pieces) /\ Len(Split(length, s, e, c)) > 0
         /\ Chain(Split(length, s, e, c), 0) /\ EndOf(Split(length, s, e, c), 0) = length
         /\ s < e => \A i \in 1 .. Len(Split(length, s, e, c)) :
                       Apart(Split(length, s, e, c)[i], s, e, c)
<1>1. CASE s = 0 /\ e = 0
  <2> DEFINE w == <<<<0, length>>>>
  <2>1. Split(length, s, e, c) = w
    BY <1>1 DEF Split
  <2>2. w \in Seq(Pieces) /\ Len(w) = 1 /\ w[1] = <<0, length>>
    BY DEF Pieces
  <2> HIDE DEF w
  <2>3. Chain(w, 0) /\ EndOf(w, 0) = length
    <3>1. w[1][1] = 0 /\ w[1][2] = length /\ length > 0
      BY <2>2
    <3>2. \A i \in 1 .. Len(w) : i = 1
      BY <2>2
    <3>3. QED
      BY <2>2, <3>1, <3>2 DEF Chain, EndOf
  <2>4. QED
    BY <1>1, <2>1, <2>2, <2>3
<1>2. CASE 0 < s /\ s < e
  <2> DEFINE x == <<<<0, s>>>>
             y == NamePieces(s, e, c)
             z == IF e < length THEN <<<<e, length>>>> ELSE <<>>
  <2>1. Split(length, s, e, c) = (x \o y) \o z
    BY <1>2 DEF Split
  <2>2. x \in Seq(Pieces) /\ Len(x) = 1 /\ x[1] = <<0, s>>
    BY DEF Pieces
  <2>3. /\ y \in Seq(Pieces) /\ Chain(y, s) /\ EndOf(y, s) = e
        /\ \A i \in 1 .. Len(y) :
             s <= y[i][1] /\ y[i][2] <= e /\ (c > 0 => y[i][2] - y[i][1] <= c)
    BY <1>2, NamePiecesChain
  <2>4. /\ z \in Seq(Pieces)
        /\ e < length => Len(z) = 1 /\ z[1] = <<e, length>>
        /\ ~(e < length) => Len(z) = 0 /\ e = length
    BY DEF Pieces
  <2> HIDE DEF x, y, z
  <2>5. Chain(x, 0) /\ EndOf(x, 0) = s
    BY <1>2, <2>2 DEF Chain, EndOf
  <2>6. Chain(z, e) /\ EndOf(z, e) = length
    <3>1. CASE e < length
      <4>1. Len(z) = 1 /\ z[1][1] = e /\ z[1][2] = length
        BY <2>4, <3>1
      <4>2. \A i \in 1 .. Len(z) : i = 1
        BY <4>1
      <4>3. QED
        BY <3>1, <4>1, <4>2 DEF Chain, EndOf
    <3>2. CASE ~(e < length)
      BY <2>4, <3>2 DEF Chain, EndOf
    <3>3. QED
      BY <3>1, <3>2
  <2>7. /\ x \o y \in Seq(Pieces) /\ Len(x \o y) = Len(x) + Len(y)
        /\ Chain(x \o y, 0) /\ EndOf(x \o y, 0) = e
    <3>1. x \in Seq(Pieces) /\ y \in Seq(Pieces) /\ Chain(x, 0) /\ Chain(y, EndOf(x, 0))
      BY <2>2, <2>3, <2>5
    <3>2. /\ x \o y \in Seq(Pieces) /\ Len(x \o y) = Len(x) + Len(y)
          /\ Chain(x \o y, 0) /\ EndOf(x \o y, 0) = EndOf(y, EndOf(x, 0))
      BY <3>1, ChainConcat
    <3>3. QED
      BY <2>3, <2>5, <3>2
  <2>8. /\ (x \o y) \o z \in Seq(Pieces) /\ Len((x \o y) \o z) = Len(x \o y) + Len(z)
        /\ Chain((x \o y) \o z, 0) /\ EndOf((x \o y) \o z, 0) = length
    <3> DEFINE w == x \o y
    <3>1. w \in Seq(Pieces) /\ Chain(w, 0) /\ EndOf(w, 0) = e
      BY <2>7
    <3> HIDE DEF w
    <3>2. /\ w \o z \in Seq(Pieces) /\ Len(w \o z) = Len(w) + Len(z)
          /\ Chain(w \o z, 0) /\ EndOf(w \o z, 0) = length
      BY <2>4, <2>6, <3>1, ChainConcat
    <3>3. QED
      BY <3>2 DEF w
  <2>9. Len((x \o y) \o z) > 0
    <3>1. Len(y) \in Nat /\ Len(z) \in Nat
      BY <2>3, <2>4, LenProperties
    <3>2. QED
      BY <2>2, <2>7, <2>8, <3>1
  <2>10. \A i \in 1 .. Len(x) : Apart(x[i], s, e, c)
    BY <2>2 DEF Apart
  <2>11. \A i \in 1 .. Len(y) : Apart(y[i], s, e, c)
    BY <2>3 DEF Apart
  <2>12. \A i \in 1 .. Len(z) : Apart(z[i], s, e, c)
    <3>1. CASE e < length
      <4>1. Len(z) = 1 /\ z[1][1] = e /\ z[1][2] = length
        BY <2>4, <3>1
      <4>2. \A i \in 1 .. Len(z) : i = 1
        BY <4>1
      <4>3. QED
        BY <4>1, <4>2 DEF Apart
    <3>2. CASE ~(e < length)
      BY <2>4, <3>2
    <3>3. QED
      BY <3>1, <3>2
  <2>13. \A i \in 1 .. Len(x \o y) : Apart((x \o y)[i], s, e, c)
    BY <2>2, <2>3, <2>10, <2>11, ApartConcat
  <2>14. \A i \in 1 .. Len((x \o y) \o z) : Apart(((x \o y) \o z)[i], s, e, c)
    BY <2>4, <2>7, <2>12, <2>13, ApartConcat
  <2>15. QED
    BY <2>1, <2>8, <2>9, <2>14
<1>3. QED
  BY <1>1, <1>2

-----------------------------------------------------------------------------
(***************************************************************************)
(* The parser.                                                             *)
(***************************************************************************)

\* The widths of the length fields of session_id, cipher_suites, compression_methods.
LEMMA VectorFacts ==
  ASSUME TypeOK
  PROVE  /\ vec \in 1 .. 3 /\ pos \in Nat /\ body \in Nat /\ cursor \in Nat /\ reads \in Nat
         /\ Width[vec] \in 1 .. 2 /\ Follow[vec] \in 0 .. 2
BY FragmentAssumption DEF TypeOK, Width, Follow

\* The parser stays inside the slice it reads from, and every iteration passes over a
\* byte.
LEMMA ParserStep ==
  ASSUME TypeOK, ParserInv, CountInv, [Next]_vars
  PROVE  ParserInv' /\ CountInv'
<1> USE FragmentAssumption DEF TypeOK, ParserInv, CountInv, RecordHeader, HandshakeHeader,
            Header, Early, Parsing, None, stream, parser, history
<1>1. CASE ReadHeader
  <2>1. CASE Fail
    BY <2>1 DEF Fail
  <2>2. CASE ~Fail
    <3>1. /\ pc = "header" /\ pc' = "record" /\ cursor' = RecordHeader
          /\ UNCHANGED <<reads, panicked>>
      BY <1>1, <2>2 DEF ReadHeader
    <3>2. QED
      BY <3>1
  <2>3. QED
    BY <2>1, <2>2
<1>2. CASE ReadBody
  <2>1. CASE Fail
    BY <2>1 DEF Fail
  <2>2. CASE ~Fail
    <3>1. pc = "record" /\ pc' = "handshake" /\ UNCHANGED <<parser, history>>
      BY <1>2, <2>2 DEF ReadBody
    <3>2. QED
      BY <3>1
  <2>3. QED
    BY <2>1, <2>2
<1>3. CASE ParseHandshake
  <2>1. CASE NotFound
    BY <2>1 DEF NotFound
  <2>2. CASE ~NotFound
    <3>1. PICK n \in Nat :
            /\ n >= HelloFixed + 1 /\ HandshakeHeader + n <= recLen
            /\ body' = n /\ pos' = HelloFixed /\ vec' = 1 /\ pc' = "vector"
            /\ cursor' = cursor + HandshakeHeader + HelloFixed
            /\ UNCHANGED <<recLen, reads, panicked>>
      BY <1>3, <2>2 DEF ParseHandshake, Lengths
    <3>2. QED
      BY <1>3, <3>1 DEF ParseHandshake, Width
  <2>3. QED
    BY <2>1, <2>2
<1>4. CASE ParseVector
  <2>1. PICK n \in Nat :
          LET start == pos + Width[vec]
              short == body < start + n + Follow[vec]
          IN  /\ pos' = IF short THEN pos ELSE start + n
              /\ cursor' = IF short THEN cursor ELSE cursor + Width[vec] + n
              /\ reads' = IF short THEN reads ELSE reads + 1
              /\ vec' = IF short \/ vec = 3 THEN vec ELSE vec + 1
              /\ pc' = IF short THEN "split" ELSE IF vec = 3 THEN "extensions" ELSE "vector"
    BY <1>4 DEF ParseVector, Lengths
  <2>2. /\ pc = "vector" /\ UNCHANGED <<recLen, body>>
        /\ panicked' = (panicked \/ pos + Width[vec] > body)
    BY <1>4 DEF ParseVector, Access
  <2>3. panicked' = FALSE
    BY <2>2, VectorFacts
  <2>4. CASE body < pos + Width[vec] + n + Follow[vec]
    BY <2>1, <2>2, <2>3, <2>4, VectorFacts
  <2>5. CASE ~(body < pos + Width[vec] + n + Follow[vec])
    <3>1. CASE vec = 1
      BY <2>1, <2>2, <2>3, <2>5, <3>1 DEF Width, Follow
    <3>2. CASE vec = 2
      BY <2>1, <2>2, <2>3, <2>5, <3>2 DEF Width, Follow
    <3>3. CASE vec = 3
      BY <2>1, <2>2, <2>3, <2>5, <3>3 DEF Width, Follow
    <3>4. QED
      BY <3>1, <3>2, <3>3
  <2>6. QED
    BY <2>4, <2>5
<1>5. CASE ParseExtensions
  <2>1. CASE NotFound
    BY <2>1 DEF NotFound
  <2>2. CASE ~NotFound
    <3>1. PICK n \in Lengths :
            /\ ~(body < pos + 2 + n) /\ extEnd' = pos + 2 + n /\ pos' = pos + 2
            /\ pc' = "extension" /\ cursor' = cursor + 2
            /\ Access(pos + 2, body) /\ UNCHANGED <<recLen, body, reads>>
      BY <1>5, <2>2 DEF ParseExtensions
    <3>2. n \in Nat /\ pc = "extensions"
      BY <1>5 DEF ParseExtensions, Lengths
    <3>3. QED
      BY <3>1, <3>2 DEF Access
  <2>3. QED
    BY <2>1, <2>2
<1>6. CASE ParseExtension
  <2>1. CASE NotFound
    BY <2>1 DEF NotFound
  <2>2. CASE ~NotFound
    <3>1. PICK n \in Lengths :
            /\ ~(pos + 4 + n > extEnd)
            /\ Access(pos + 4 + n, body) /\ reads' = reads + 1
            /\ \/ ext' = n /\ pos' = pos + 4 /\ pc' = "list" /\ cursor' = cursor + 4
               \/ pos' = pos + 4 + n /\ cursor' = cursor + 4 + n /\ UNCHANGED <<ext, pc>>
            /\ UNCHANGED <<recLen, body, extEnd>>
      BY <1>6, <2>2 DEF ParseExtension
    <3>2. n \in Nat /\ pc = "extension"
      BY <1>6 DEF ParseExtension, Lengths
    <3>3. CountInv'
      BY <3>1, <3>2 DEF Access
    <3>4. ParserInv'
      BY <3>1, <3>2
    <3>5. QED
      BY <3>3, <3>4
  <2>3. QED
    BY <2>1, <2>2
<1>7. CASE ParseList
  <2>1. CASE NotFound
    BY <2>1 DEF NotFound
  <2>2. CASE ~NotFound
    <3>1. PICK n \in Nat :
            /\ ext >= 2 + n /\ listEnd' = 2 + n /\ npos' = 2
            /\ pc' = "name" /\ cursor' = cursor + 2
            /\ panicked' = (panicked \/ 2 > ext)
            /\ UNCHANGED <<recLen, body, pos, ext, reads>>
      BY <1>7, <2>2 DEF ParseList, Access, Lengths
    <3>2. QED
      BY <1>7, <3>1 DEF ParseList
  <2>3. QED
    BY <2>1, <2>2
<1>8. CASE ParseName
  <2>1. CASE NotFound
    BY <2>1 DEF NotFound
  <2>2. CASE ~NotFound
    <3>1. PICK n \in Lengths :
            /\ ~(npos + 3 + n > listEnd)
            /\ Access(npos + 3, ext) /\ reads' = reads + 1
            /\ \/ cursor' = cursor + 3 /\ pc' = "split"
               \/ /\ npos' = NextName(n) /\ cursor' = cursor + (NextName(n) - npos)
                  /\ UNCHANGED pc
            /\ UNCHANGED <<recLen, body, pos, ext, listEnd>>
      BY <1>8, <2>2 DEF ParseName
    <3>2. n \in Nat /\ pc = "name"
      BY <1>8 DEF ParseName, Lengths
    <3>3. CountInv'
      BY <3>1, <3>2 DEF Access, NextName
    <3>4. ParserInv'
      BY <3>1, <3>2 DEF NextName
    <3>5. QED
      BY <3>3, <3>4
  <2>3. QED
    BY <2>1, <2>2
<1>9. CASE SplitClientHelloRecord
  BY <1>9 DEF SplitClientHelloRecord
<1>10. CASE WriteFragment
  BY <1>10 DEF WriteFragment, WriteNext
<1>11. CASE WriteFail
  BY <1>11 DEF WriteFail, WritePart
<1>12. CASE RelayRead
  BY <1>12 DEF RelayRead
<1>13. CASE RelayWrite
  BY <1>13 DEF RelayWrite, WriteNext
<1>14. CASE RelayFail
  BY <1>14 DEF RelayFail, WritePart
<1>15. CASE RelayEnd
  BY <1>15 DEF RelayEnd
<1>16. CASE UNCHANGED vars
  BY <1>16 DEF vars
<1>17. QED
  BY <1>1, <1>2, <1>3, <1>4, <1>5, <1>6, <1>7, <1>8, <1>9, <1>10, <1>11, <1>12, <1>13,
     <1>14, <1>15, <1>16 DEF Next, Ended

\* A name is found only by the last step of the parser, behind what it has passed over.
LEMMA NameStep ==
  ASSUME TypeOK, ParserInv, NameInv, [Next]_vars
  PROVE  NameInv'
<1> USE FragmentAssumption DEF TypeOK, ParserInv, NameInv, RecordHeader, HandshakeHeader,
            Header, Early, Parsing, None, stream, parser, history
<1>1. CASE ReadHeader
  BY <1>1 DEF ReadHeader, Fail, Lengths
<1>2. CASE ReadBody
  BY <1>2 DEF ReadBody, Fail
<1>3. CASE ParseHandshake
  BY <1>3 DEF ParseHandshake, NotFound, Lengths
<1>4. CASE ParseVector
  BY <1>4 DEF ParseVector, Access, Lengths
<1>5. CASE ParseExtensions
  BY <1>5 DEF ParseExtensions, NotFound, Access, Lengths
<1>6. CASE ParseExtension
  BY <1>6 DEF ParseExtension, NotFound, Access, Lengths
<1>7. CASE ParseList
  BY <1>7 DEF ParseList, NotFound, Access, Lengths
<1>8. CASE ParseName
  <2>1. CASE NotFound
    BY <1>8, <2>1 DEF NotFound, ParseName
  <2>2. CASE ~NotFound
    <3>1. PICK n \in Lengths :
            /\ ~(npos + 3 + n > listEnd)
            /\ \/ /\ n > 0 /\ sni' = <<NameStart, NameStart + n>> /\ pc' = "split"
                  /\ cursor' = cursor + 3
               \/ UNCHANGED sni
            /\ UNCHANGED recLen
      BY <1>8, <2>2 DEF ParseName
    <3>2. n \in Nat /\ pc = "name" /\ sni = None
      BY <1>8 DEF ParseName, Lengths
    <3>3. CASE UNCHANGED sni
      BY <3>2, <3>3
    <3>4. CASE sni' = <<NameStart, NameStart + n>> /\ n > 0 /\ pc' = "split"
              /\ cursor' = cursor + 3
      <4>1. NameStart = cursor + 3 /\ NameStart \in Nat
        BY <3>2 DEF NameStart
      <4>2. sni'[1] = NameStart /\ sni'[2] = NameStart + n
        BY <3>4
      <4>3. NameStart + n <= RecordHeader + recLen
        BY <3>1, <3>2 DEF NameStart
      <4>4. QED
        BY <3>1, <3>2, <3>4, <4>1, <4>2, <4>3
    <3>5. QED
      BY <3>1, <3>3, <3>4
  <2>3. QED
    BY <2>1, <2>2
<1>9. CASE SplitClientHelloRecord
  BY <1>9 DEF SplitClientHelloRecord
<1>10. CASE WriteFragment
  BY <1>10 DEF WriteFragment, WriteNext
<1>11. CASE WriteFail
  BY <1>11 DEF WriteFail, WritePart
<1>12. CASE RelayRead
  BY <1>12 DEF RelayRead
<1>13. CASE RelayWrite
  BY <1>13 DEF RelayWrite, WriteNext
<1>14. CASE RelayFail
  BY <1>14 DEF RelayFail, WritePart
<1>15. CASE RelayEnd
  BY <1>15 DEF RelayEnd
<1>16. CASE UNCHANGED vars
  BY <1>16 DEF vars
<1>17. QED
  BY <1>1, <1>2, <1>3, <1>4, <1>5, <1>6, <1>7, <1>8, <1>9, <1>10, <1>11, <1>12, <1>13,
     <1>14, <1>15, <1>16 DEF Next, Ended

-----------------------------------------------------------------------------
(***************************************************************************)
(* The stream of pieces.                                                   *)
(***************************************************************************)

ParserAction ==
  \/ ParseHandshake \/ ParseVector \/ ParseExtensions \/ ParseExtension \/ ParseList
  \/ ParseName

\* The parser writes nothing.
LEMMA ParserFrame ==
  ASSUME ParserAction
  PROVE  /\ pc \in Parsing /\ pc' \in Parsing \cup {"split"}
         /\ UNCHANGED <<chunk, got, recLen, out, frags>>
<1> USE DEF Parsing, NotFound, stream, parser
<1>1. CASE ParseHandshake
  BY <1>1 DEF ParseHandshake
<1>2. CASE ParseVector
  BY <1>2 DEF ParseVector
<1>3. CASE ParseExtensions
  BY <1>3 DEF ParseExtensions
<1>4. CASE ParseExtension
  BY <1>4 DEF ParseExtension
<1>5. CASE ParseList
  BY <1>5 DEF ParseList
<1>6. CASE ParseName
  BY <1>6 DEF ParseName
<1>7. QED
  BY <1>1, <1>2, <1>3, <1>4, <1>5, <1>6 DEF ParserAction

\* The end of what was written is a position in the stream.
LEMMA OutEnd == ASSUME TypeOK PROVE EndOf(out, 0) \in Nat
BY LenProperties DEF TypeOK, EndOf

\* What SplitClientHelloRecord is called with.
LEMMA SplitArguments ==
  ASSUME TypeOK, NameInv
  PROVE  /\ RecordHeader + recLen \in Nat \ {0} /\ chunk \in Int
         /\ sni[1] \in Nat /\ sni[2] \in Nat /\ sni[2] <= RecordHeader + recLen
         /\ (sni[1] = 0 /\ sni[2] = 0) \/ (0 < sni[1] /\ sni[1] < sni[2])
         /\ sni # None => sni[1] < sni[2]
BY FragmentAssumption DEF TypeOK, NameInv, None, RecordHeader

\* The pieces of the record, as they are when SplitClientHelloRecord returns them.
LEMMA SplitFrags ==
  ASSUME TypeOK, NameInv, SplitClientHelloRecord
  PROVE  /\ frags' \in Seq(Pieces) /\ Len(frags') > 0
         /\ Chain(frags', 0) /\ EndOf(frags', 0) = RecordHeader + recLen
         /\ \A i \in 1 .. Len(frags') : Fits(frags'[i])
<1>1. frags' = Split(RecordHeader + recLen, sni[1], sni[2], chunk)
  BY DEF SplitClientHelloRecord
<1>2. /\ frags' \in Seq(Pieces) /\ Len(frags') > 0
      /\ Chain(frags', 0) /\ EndOf(frags', 0) = RecordHeader + recLen
      /\ sni[1] < sni[2] =>
           \A i \in 1 .. Len(frags') : Apart(frags'[i], sni[1], sni[2], chunk)
  BY <1>1, SplitArguments, SplitChain
<1>3. \A i \in 1 .. Len(frags') : Fits(frags'[i])
  BY <1>2, SplitArguments DEF Fits, Apart
<1>4. QED
  BY <1>2, <1>3

\* The piece that is written next continues what was written.
LEMMA NextPiece ==
  ASSUME TypeOK, StreamInv, pc \in Writing
  PROVE  /\ Head(frags) \in Pieces /\ Head(frags)[1] = EndOf(out, 0)
         /\ Head(frags)[1] < Head(frags)[2] /\ Head(frags) = frags[1]
         /\ Tail(frags) \in Seq(Pieces) /\ Len(Tail(frags)) = Len(frags) - 1
         /\ Chain(Tail(frags), Head(frags)[2]) /\ EndOf(Tail(frags), Head(frags)[2]) = got
         /\ \A i \in 1 .. Len(Tail(frags)) : Tail(frags)[i] = frags[i + 1]
<1>1. /\ frags \in Seq(Pieces) /\ Len(frags) > 0 /\ Chain(frags, EndOf(out, 0))
      /\ EndOf(frags, EndOf(out, 0)) = got /\ EndOf(out, 0) \in Nat
  BY OutEnd DEF TypeOK, StreamInv, Pieces
<1>2. QED
  BY <1>1, ChainTail

\* A Write moves it.
LEMMA Written ==
  ASSUME TypeOK, StreamInv, pc \in Writing, WriteNext
  PROVE  /\ out' \in Seq(Pieces) /\ Len(out') = Len(out) + 1
         /\ Chain(out', 0) /\ EndOf(out', 0) = Head(frags)[2]
         /\ \A i \in 1 .. Len(out) : out'[i] = out[i]
         /\ out'[Len(out) + 1] = Head(frags)
<1>1. /\ Head(frags) \in Pieces /\ Head(frags)[1] = EndOf(out, 0)
      /\ Head(frags)[1] < Head(frags)[2] /\ out' = Append(out, Head(frags))
  BY NextPiece DEF WriteNext
<1>2. out \in Seq(Pieces) /\ Chain(out, 0)
  BY DEF TypeOK, StreamInv, Pieces
<1>3. QED
  BY <1>1, <1>2, ChainAppend

\* A piece of the same stream behind what was written, or a first part of the next one.
LEMMA WrittenMore ==
  ASSUME TypeOK, StreamInv, NEW p \in Pieces, p[1] = EndOf(out, 0), p[1] < p[2],
         out' = Append(out, p)
  PROVE  /\ out' \in Seq(Pieces) /\ Len(out') = Len(out) + 1
         /\ Chain(out', 0) /\ EndOf(out', 0) = p[2]
         /\ \A i \in 1 .. Len(out) : out'[i] = out[i]
         /\ out'[Len(out) + 1] = p
<1>1. out \in Seq(Pieces) /\ Chain(out, 0)
  BY DEF TypeOK, StreamInv, Pieces
<1>2. QED
  BY <1>1, ChainAppend

\* A failing write leaves a first part of the next piece, or nothing.
LEMMA WrittenInPart ==
  ASSUME TypeOK, StreamInv, pc \in Writing, WritePart
  PROVE  \/ UNCHANGED out
         \/ \E k \in Nat : /\ Head(frags)[1] < k /\ k < Head(frags)[2]
                           /\ out' = Append(out, <<Head(frags)[1], k>>)
                           /\ <<Head(frags)[1], k>> \in Pieces
<1>1. /\ Head(frags) \in Pieces /\ Head(frags)[1] = EndOf(out, 0)
      /\ Head(frags)[1] < Head(frags)[2]
  BY NextPiece
<1>2. Head(frags)[1] \in Nat /\ Head(frags)[2] \in Nat
  BY <1>1 DEF Pieces
<1>3. PICK k \in Head(frags)[1] .. Head(frags)[2] - 1 :
        out' = IF k = Head(frags)[1] THEN out ELSE Append(out, <<Head(frags)[1], k>>)
  BY DEF WritePart
<1>4. CASE k = Head(frags)[1]
  BY <1>3, <1>4
<1>5. CASE k # Head(frags)[1]
  <2>1. k \in Nat /\ Head(frags)[1] < k /\ k < Head(frags)[2]
    BY <1>2, <1>5
  <2>2. QED
    BY <1>2, <1>3, <1>5, <2>1 DEF Pieces
<1>6. QED
  BY <1>4, <1>5

\* What the relay reads continues where the fragments ended.
LEMMA RelayPiece ==
  ASSUME TypeOK, StreamInv, RelayRead
  PROVE  /\ got \in Nat /\ got' \in Nat /\ got < got' /\ EndOf(out, 0) = got
         /\ frags' \in Seq(Pieces) /\ Len(frags') = 1 /\ frags'[1] = <<got, got'>>
         /\ Chain(frags', got) /\ EndOf(frags', got) = got'
<1>1. PICK k \in 1 .. Extra : got' = got + k /\ frags' = <<<<got, got + k>>>>
  BY DEF RelayRead
<1>2. got \in Nat /\ k \in Nat /\ k > 0 /\ EndOf(out, 0) = got
  BY FragmentAssumption DEF RelayRead, TypeOK, StreamInv
<1>3. got' \in Nat /\ got < got'
  BY <1>1, <1>2
<1>4. <<got, got'>> \in Pieces
  BY <1>2, <1>3 DEF Pieces
<1>5. frags' \in Seq(Pieces) /\ Len(frags') = 1 /\ frags'[1] = <<got, got'>>
  BY <1>1, <1>4
<1>6. Chain(frags', got) /\ EndOf(frags', got) = got'
  BY <1>3, <1>5 DEF Chain, EndOf
<1>7. QED
  BY <1>2, <1>3, <1>5, <1>6

\* Every step keeps the chain of what was written and what is still to be written.
LEMMA StreamStep ==
  ASSUME TypeOK, NameInv, StreamInv, [Next]_vars
  PROVE  StreamInv'
<1> USE DEF Early, Parsing, Writing
<1>1. CASE ReadHeader
  <2>1. CASE Fail
    BY <2>1 DEF Fail, StreamInv
  <2>2. CASE ~Fail
    <3>1. PICK n \in Lengths : /\ ~(n <= 0) /\ got' = RecordHeader /\ recLen' = n
                               /\ pc' = "record" /\ UNCHANGED <<out, frags>>
      BY <1>1, <2>2 DEF ReadHeader
    <3>2. n > 0
      BY <3>1, FragmentAssumption DEF Lengths
    <3>3. QED
      BY <1>1, <3>1, <3>2 DEF ReadHeader, StreamInv
  <2>3. QED
    BY <2>1, <2>2
<1>2. CASE ReadBody
  <2>1. CASE Fail
    BY <2>1 DEF Fail, StreamInv
  <2>2. CASE ~Fail
    BY <1>2, <2>2 DEF ReadBody, StreamInv, parser
  <2>3. QED
    BY <2>1, <2>2
<1>3. CASE ParserAction
  BY <1>3, ParserFrame DEF StreamInv
<1>4. CASE SplitClientHelloRecord
  <2>1. /\ pc = "split" /\ pc' = "write" /\ out' = out /\ out = <<>> /\ Len(out) = 0
        /\ UNCHANGED <<got, recLen>> /\ got = RecordHeader + recLen
    BY <1>4 DEF SplitClientHelloRecord, StreamInv, stream, parser
  <2>2. EndOf(out', 0) = 0
    BY <2>1 DEF EndOf
  <2>3. QED
    BY <1>4, <2>1, <2>2, SplitFrags DEF StreamInv
<1>5. CASE pc \in Writing /\ WriteNext
  <2>1. /\ frags' = Tail(frags) /\ UNCHANGED <<got, recLen>>
        /\ pc' = IF Len(frags) = 1 THEN "relay" ELSE pc
        /\ Len(frags) > 0 /\ Len(frags) \in Nat
    BY <1>5, LenProperties DEF WriteNext, StreamInv, stream, parser, TypeOK
  <2>2. /\ Len(frags') = Len(frags) - 1 /\ Chain(frags', EndOf(out', 0))
        /\ EndOf(frags', EndOf(out', 0)) = got
    BY <1>5, <2>1, NextPiece, Written
  <2>3. Len(out') > 0 /\ Chain(out', 0)
    <3>1. Len(out) \in Nat
      BY LenProperties DEF TypeOK
    <3>2. QED
      BY <1>5, <3>1, Written
  <2>4. got \in Nat /\ RecordHeader + recLen \in Nat /\ got >= RecordHeader + recLen
    <3>1. got \in Nat /\ RecordHeader + recLen \in Nat /\ EndOf(out, 0) \in Nat
      BY FragmentAssumption, OutEnd DEF TypeOK, RecordHeader
    <3>2. EndOf(frags, EndOf(out, 0)) > EndOf(out, 0)
      BY <1>5, <2>1, <3>1, ChainEnd DEF StreamInv, TypeOK, Pieces
    <3>3. CASE pc = "write"
      BY <3>1, <3>3 DEF StreamInv
    <3>4. CASE pc = "copy"
      BY <3>1, <3>2, <3>4 DEF StreamInv
    <3>5. QED
      BY <1>5, <3>1, <3>3, <3>4
  <2>5. CASE Len(frags) = 1
    <3>1. EndOf(out', 0) = got
      BY <2>1, <2>2, <2>5 DEF EndOf
    <3>2. QED
      BY <2>1, <2>3, <2>4, <2>5, <3>1 DEF StreamInv
  <2>6. CASE Len(frags) # 1
    <3>1. Len(frags') > 0
      <4>1. Len(frags) \in Nat /\ Len(frags) > 0 /\ Len(frags') = Len(frags) - 1
        BY <2>1, <2>2
      <4>2. QED
        BY <2>6, <4>1
    <3>2. pc = "write" /\ got = RecordHeader + recLen
      BY <1>5, <2>6 DEF StreamInv
    <3>3. QED
      BY <2>1, <2>2, <2>3, <2>6, <3>1, <3>2 DEF StreamInv
  <2>7. QED
    BY <2>5, <2>6
<1>6. CASE pc \in Writing /\ WritePart
  <2>1. pc' = "failed"
    BY <1>6 DEF WritePart
  <2>2. Chain(out', 0)
    <3>1. CASE UNCHANGED out
      BY <3>1 DEF StreamInv
    <3>2. CASE ~UNCHANGED out
      <4>1. PICK k \in Nat : /\ Head(frags)[1] < k /\ k < Head(frags)[2]
                             /\ out' = Append(out, <<Head(frags)[1], k>>)
                             /\ <<Head(frags)[1], k>> \in Pieces
        BY <1>6, <3>2, WrittenInPart
      <4>2. Head(frags)[1] = EndOf(out, 0)
        BY <1>6, NextPiece
      <4> DEFINE p == <<Head(frags)[1], k>>
      <4>3. p \in Pieces /\ p[1] = EndOf(out, 0) /\ p[1] < p[2] /\ out' = Append(out, p)
        BY <4>1, <4>2
      <4> HIDE DEF p
      <4>4. QED
        BY <4>3, WrittenMore
    <3>3. QED
      BY <3>1, <3>2
  <2>3. QED
    BY <2>1, <2>2 DEF StreamInv
<1>7. CASE RelayRead
  <2>1. /\ pc = "relay" /\ pc' = "copy" /\ UNCHANGED <<out, recLen>>
        /\ Chain(out, 0) /\ EndOf(out, 0) >= RecordHeader + recLen
    BY <1>7 DEF RelayRead, StreamInv, parser
  <2>2. /\ Len(frags') = 1 /\ Chain(frags', EndOf(out', 0))
        /\ EndOf(frags', EndOf(out', 0)) = got'
    BY <1>7, <2>1, RelayPiece
  <2>3. QED
    BY <2>1, <2>2 DEF StreamInv
<1>8. CASE RelayEnd
  BY <1>8 DEF RelayEnd, stream, parser, StreamInv
<1>9. CASE UNCHANGED vars
  BY <1>9 DEF vars, stream, parser, StreamInv
<1>10. QED
  BY <1>1, <1>2, <1>3, <1>4, <1>5, <1>6, <1>7, <1>8, <1>9
     DEF Next, ParserAction, WriteFragment, WriteFail, RelayWrite, RelayFail, Ended

\* One more piece that carries no more than a chunk of the name.
LEMMA FitsAppend ==
  ASSUME TypeOK, FitsInv, UNCHANGED <<sni, chunk>>, NEW p, Fits(p),
         Len(out') = Len(out) + 1, out'[Len(out) + 1] = p,
         \A i \in 1 .. Len(out) : out'[i] = out[i]
  PROVE  (\A i \in 1 .. Len(out) : Fits(out[i]))'
<1>1. Len(out) \in Nat
  BY LenProperties DEF TypeOK
<1>2. SUFFICES ASSUME NEW i \in 1 .. Len(out') PROVE Fits(out[i])'
  OBVIOUS
<1>3. CASE i \in 1 .. Len(out)
  BY <1>3 DEF FitsInv, Fits
<1>4. CASE i = Len(out) + 1
  BY <1>4 DEF Fits
<1>5. QED
  BY <1>1, <1>3, <1>4

\* No step writes or queues a piece that carries too much of the name.
LEMMA FitsStep ==
  ASSUME TypeOK, NameInv, StreamInv, FitsInv, [Next]_vars
  PROVE  FitsInv'
<1> USE DEF Early, Parsing, Writing
<1>1. CASE ReadHeader \/ ReadBody \/ ParserAction
  <2>1. out' = <<>> /\ pc' \notin Writing
    <3>1. CASE ReadHeader
      BY <3>1 DEF ReadHeader, Fail, StreamInv
    <3>2. CASE ReadBody
      BY <3>2 DEF ReadBody, Fail, StreamInv
    <3>3. CASE ParserAction
      BY <3>3, ParserFrame DEF StreamInv
    <3>4. QED
      BY <1>1, <3>1, <3>2, <3>3
  <2>2. Len(out') = 0
    BY <2>1
  <2>3. QED
    BY <2>1, <2>2 DEF FitsInv
<1>2. CASE SplitClientHelloRecord
  <2>1. UNCHANGED <<out, sni, chunk>>
    BY <1>2 DEF SplitClientHelloRecord, stream
  <2>2. QED
    BY <1>2, <2>1, SplitFrags DEF FitsInv, Fits
<1>3. CASE pc \in Writing /\ WriteNext
  <2>1. pc \in Writing /\ frags' = Tail(frags) /\ UNCHANGED <<sni, chunk>>
    BY <1>3 DEF WriteNext, stream
  <2>2. /\ Len(frags) \in Nat /\ Len(frags) > 0 /\ Len(frags') = Len(frags) - 1
        /\ Head(frags) = frags[1]
        /\ \A i \in 1 .. Len(frags') : frags'[i] = frags[i + 1]
    BY <2>1, NextPiece, LenProperties DEF StreamInv, TypeOK
  <2>3. Fits(Head(frags))
    <3>1. 1 \in 1 .. Len(frags)
      BY <2>2
    <3>2. QED
      BY <2>1, <2>2, <3>1 DEF FitsInv
  <2>4. (\A i \in 1 .. Len(out) : Fits(out[i]))'
    BY <1>3, <2>1, <2>3, Written, FitsAppend
  <2>5. (\A i \in 1 .. Len(frags) : Fits(frags[i]))'
    <3>1. SUFFICES ASSUME NEW i \in 1 .. Len(frags') PROVE Fits(frags[i])'
      OBVIOUS
    <3>2. i + 1 \in 1 .. Len(frags) /\ frags'[i] = frags[i + 1]
      BY <2>2
    <3>3. QED
      BY <2>1, <3>2 DEF FitsInv, Fits
  <2>6. QED
    BY <2>4, <2>5 DEF FitsInv
<1>4. CASE pc \in Writing /\ WritePart
  <2>1. pc \in Writing /\ pc' = "failed" /\ UNCHANGED <<sni, chunk>>
    BY <1>4 DEF WritePart, stream
  <2>2. CASE UNCHANGED out
    BY <2>1, <2>2 DEF FitsInv, Fits
  <2>3. CASE ~UNCHANGED out
    <3>1. PICK k \in Nat : /\ Head(frags)[1] < k /\ k < Head(frags)[2]
                           /\ out' = Append(out, <<Head(frags)[1], k>>)
                           /\ <<Head(frags)[1], k>> \in Pieces
      BY <1>4, <2>3, WrittenInPart
    <3>2. /\ Head(frags)[1] = EndOf(out, 0) /\ Head(frags) = frags[1]
          /\ Head(frags) \in Pieces /\ Len(frags) \in Nat /\ Len(frags) > 0
      BY <2>1, NextPiece, LenProperties DEF StreamInv, TypeOK
    <3>3. Head(frags)[1] \in Nat /\ Head(frags)[2] \in Nat
      BY <3>2 DEF Pieces
    <3>4. Fits(Head(frags))
      <4>1. 1 \in 1 .. Len(frags)
        BY <3>2
      <4>2. QED
        BY <2>1, <3>2, <4>1 DEF FitsInv
    <3> DEFINE p == <<Head(frags)[1], k>>
    <3>5. /\ p \in Pieces /\ p[1] = EndOf(out, 0) /\ p[1] < p[2] /\ out' = Append(out, p)
          /\ p[1] = Head(frags)[1] /\ p[2] = k
      BY <3>1, <3>2
    <3> HIDE DEF p
    <3>6. Fits(p)
      <4>1. chunk \in Int /\ sni[1] \in Nat /\ sni[2] \in Nat
        BY SplitArguments
      <4>2. SUFFICES ASSUME sni # None, chunk > 0, p[2] > sni[1], p[1] < sni[2]
                     PROVE  sni[1] <= p[1] /\ p[2] <= sni[2] /\ p[2] - p[1] <= chunk
        BY DEF Fits
      <4>3. Head(frags)[2] > sni[1] /\ Head(frags)[1] < sni[2]
        BY <3>1, <3>3, <3>5, <4>1, <4>2
      <4>4. /\ sni[1] <= Head(frags)[1] /\ Head(frags)[2] <= sni[2]
            /\ Head(frags)[2] - Head(frags)[1] <= chunk
        BY <3>4, <4>2, <4>3 DEF Fits
      <4>5. QED
        BY <3>1, <3>3, <3>5, <4>1, <4>4
    <3>7. QED
      BY <2>1, <3>5, <3>6, WrittenMore, FitsAppend DEF FitsInv
  <2>4. QED
    BY <2>2, <2>3
<1>5. CASE RelayRead
  <2>1. pc = "relay" /\ pc' = "copy" /\ UNCHANGED <<out, sni, chunk>>
    BY <1>5 DEF RelayRead
  <2>2. /\ got >= sni[2] /\ got \in Nat /\ sni[2] \in Nat
        /\ Len(frags') = 1 /\ frags'[1] = <<got, got'>>
    <3>1. got >= RecordHeader + recLen /\ got \in Nat
      BY <2>1 DEF StreamInv, TypeOK
    <3>2. QED
      BY <1>5, <3>1, SplitArguments, RelayPiece
  <2>3. ~(frags'[1][1] < sni[2])
    BY <2>2
  <2>4. (\A i \in 1 .. Len(frags) : Fits(frags[i]))'
    <3>1. SUFFICES ASSUME NEW i \in 1 .. Len(frags') PROVE Fits(frags[i])'
      OBVIOUS
    <3>2. i = 1
      BY <2>2
    <3>3. QED
      BY <2>1, <2>3, <3>2 DEF Fits
  <2>5. QED
    BY <2>1, <2>4 DEF FitsInv, Fits
<1>6. CASE RelayEnd
  BY <1>6 DEF RelayEnd, stream, FitsInv, Fits
<1>7. CASE UNCHANGED vars
  BY <1>7 DEF vars, stream, FitsInv, Fits
<1>8. QED
  BY <1>1, <1>2, <1>3, <1>4, <1>5, <1>6, <1>7
     DEF Next, ParserAction, WriteFragment, WriteFail, RelayWrite, RelayFail, Ended

\* Types: the variables that only the parser changes.
ParserTypes ==
  /\ recLen \in 0 .. MaxRecord /\ body \in 0 .. recLen /\ pos \in Nat /\ vec \in 1 .. 3
  /\ extEnd \in Nat /\ ext \in Nat /\ npos \in Nat /\ listEnd \in Nat
  /\ sni \in (0 .. RecordHeader + MaxRecord) \X (0 .. RecordHeader + MaxRecord)
  /\ cursor \in Nat /\ reads \in Nat /\ panicked \in BOOLEAN

PcType ==
  pc \in {"header", "record", "handshake", "vector", "extensions", "extension", "list",
          "name", "split", "write", "relay", "copy", "failed", "relayed"}

\* The parser keeps their types; a name it finds lies in the record, so in the largest one.
LEMMA ParserTypeStep ==
  ASSUME TypeOK, ParserInv, ParserAction
  PROVE  ParserTypes'
<1> USE FragmentAssumption DEF RecordHeader, HandshakeHeader, stream, parser, history
<1>1. ParserTypes /\ UNCHANGED recLen
  BY ParserFrame DEF TypeOK, ParserTypes
<1>2. CASE NotFound
  BY <1>1, <1>2 DEF NotFound, ParserTypes
<1>3. CASE ParseHandshake /\ ~NotFound
  <2>1. PICK n \in Lengths :
          /\ ~(recLen < HandshakeHeader + n) /\ body' = n /\ pos' = HelloFixed /\ vec' = 1
          /\ cursor' = cursor + HandshakeHeader + HelloFixed
          /\ UNCHANGED <<extEnd, ext, npos, listEnd, sni, reads, panicked>>
    BY <1>3 DEF ParseHandshake
  <2>2. n \in 0 .. recLen
    BY <1>1, <2>1 DEF ParserTypes, Lengths
  <2>3. QED
    BY <1>1, <2>1, <2>2 DEF ParserTypes
<1>4. CASE ParseVector
  <2>1. PICK n \in Nat :
          LET start == pos + Width[vec]
              short == body < start + n + Follow[vec]
          IN  /\ pos' = IF short THEN pos ELSE start + n
              /\ cursor' = IF short THEN cursor ELSE cursor + Width[vec] + n
              /\ reads' = IF short THEN reads ELSE reads + 1
              /\ vec' = IF short \/ vec = 3 THEN vec ELSE vec + 1
    BY <1>4 DEF ParseVector, Lengths
  <2>2. /\ UNCHANGED <<body, extEnd, ext, npos, listEnd, sni>>
        /\ panicked' \in BOOLEAN
    BY <1>4 DEF ParseVector, Access
  <2>3. pos' \in Nat /\ cursor' \in Nat /\ reads' \in Nat /\ vec' \in 1 .. 3
    BY <2>1, VectorFacts
  <2>4. QED
    BY <1>1, <2>2, <2>3 DEF ParserTypes
<1>5. CASE ParseExtensions /\ ~NotFound
  <2>1. PICK n \in Nat :
          /\ extEnd' = pos + 2 + n /\ pos' = pos + 2 /\ cursor' = cursor + 2
          /\ UNCHANGED <<body, vec, ext, npos, listEnd, sni, reads>>
    BY <1>5 DEF ParseExtensions, Lengths
  <2>2. panicked' \in BOOLEAN
    BY <1>5 DEF ParseExtensions, Access
  <2>3. QED
    BY <1>1, <2>1, <2>2 DEF ParserTypes
<1>6. CASE ParseExtension /\ ~NotFound
  <2>1. PICK n \in Nat :
          /\ reads' = reads + 1
          /\ \/ ext' = n /\ pos' = pos + 4 /\ cursor' = cursor + 4
             \/ ext' = ext /\ pos' = pos + 4 + n /\ cursor' = cursor + 4 + n
          /\ UNCHANGED <<body, vec, extEnd, npos, listEnd, sni>>
    BY <1>6 DEF ParseExtension, Lengths
  <2>2. panicked' \in BOOLEAN
    BY <1>6 DEF ParseExtension, Access
  <2>3. QED
    BY <1>1, <2>1, <2>2 DEF ParserTypes
<1>7. CASE ParseList /\ ~NotFound
  <2>1. PICK n \in Nat :
          /\ listEnd' = 2 + n /\ npos' = 2 /\ cursor' = cursor + 2
          /\ UNCHANGED <<body, pos, vec, extEnd, ext, sni, reads>>
    BY <1>7 DEF ParseList, Lengths
  <2>2. panicked' \in BOOLEAN
    BY <1>7 DEF ParseList, Access
  <2>3. QED
    BY <1>1, <2>1, <2>2 DEF ParserTypes
<1>8. CASE ParseName /\ ~NotFound
  <2>1. PICK n \in Lengths :
          /\ ~(npos + 3 + n > listEnd) /\ reads' = reads + 1
          /\ \/ /\ sni' = <<NameStart, NameStart + n>> /\ cursor' = cursor + 3
                /\ UNCHANGED npos
             \/ /\ npos' = NextName(n) /\ cursor' = cursor + (NextName(n) - npos)
                /\ UNCHANGED sni
          /\ UNCHANGED <<body, pos, vec, extEnd, ext, listEnd>>
    BY <1>8 DEF ParseName
  <2>2. n \in Nat /\ pc = "name" /\ panicked' \in BOOLEAN
    <3>1. n \in Nat
      BY DEF Lengths
    <3>2. pc = "name" /\ panicked' \in BOOLEAN
      BY <1>8 DEF ParseName, Access
    <3>3. QED
      BY <3>1, <3>2
  <2>3. npos' \in Nat /\ cursor' \in Nat /\ reads' \in Nat
    BY <1>1, <2>1, <2>2 DEF ParserTypes, NextName
  <2>4. NameStart \in Nat /\ NameStart + n <= RecordHeader + MaxRecord
    BY <1>1, <2>1, <2>2 DEF ParserTypes, ParserInv, Header, NameStart
  <2>5. sni' \in (0 .. RecordHeader + MaxRecord) \X (0 .. RecordHeader + MaxRecord)
    <3>1. CASE sni' = sni
      BY <1>1, <3>1 DEF ParserTypes
    <3>2. CASE sni' = <<NameStart, NameStart + n>>
      <4>1. NameStart \in 0 .. RecordHeader + MaxRecord
        BY <2>2, <2>4
      <4>2. NameStart + n \in 0 .. RecordHeader + MaxRecord
        BY <2>2, <2>4
      <4>3. QED
        BY <3>2, <4>1, <4>2
    <3>3. QED
      BY <2>1, <3>1, <3>2
  <2>6. QED
    BY <1>1, <2>1, <2>2, <2>3, <2>5 DEF ParserTypes
<1>9. QED
  BY <1>2, <1>3, <1>4, <1>5, <1>6, <1>7, <1>8 DEF ParserAction

\* Every step keeps the types.
LEMMA TypeStep ==
  ASSUME TypeOK, ParserInv, NameInv, StreamInv, [Next]_vars
  PROVE  TypeOK'
<1>1. /\ ParserTypes /\ PcType /\ chunk \in Int /\ got \in Nat
      /\ out \in Seq(Pieces) /\ frags \in Seq(Pieces)
  BY DEF TypeOK, ParserTypes, PcType, Pieces
<1>2. SUFFICES /\ ParserTypes' /\ PcType' /\ chunk' \in Int /\ got' \in Nat
               /\ out' \in Seq(Pieces) /\ frags' \in Seq(Pieces)
  BY DEF TypeOK, ParserTypes, PcType, Pieces
<1>3. CASE ReadHeader
  <2>1. CASE Fail
    BY <1>1, <2>1 DEF Fail, stream, parser, history, ParserTypes, PcType
  <2>2. CASE ~Fail
    <3>1. PICK n \in Lengths :
            /\ ~(n <= 0 \/ n > MaxRecord) /\ got' = RecordHeader /\ recLen' = n
            /\ pc' = "record" /\ cursor' = RecordHeader
            /\ UNCHANGED <<chunk, body, pos, vec, extEnd, ext, npos, listEnd, sni, out,
                           frags, reads, panicked>>
      BY <1>3, <2>2 DEF ReadHeader
    <3>2. body = 0 /\ n \in 0 .. MaxRecord
      BY <1>3, <3>1, FragmentAssumption DEF ReadHeader, ParserInv, Lengths
    <3>3. body' \in 0 .. recLen'
      BY <3>1, <3>2
    <3>4. QED
      BY <1>1, <3>1, <3>2, <3>3 DEF ParserTypes, PcType, RecordHeader
  <2>3. QED
    BY <2>1, <2>2
<1>4. CASE ReadBody
  <2>1. CASE Fail
    BY <1>1, <2>1 DEF Fail, stream, parser, history, ParserTypes, PcType
  <2>2. CASE ~Fail
    <3>1. got' \in Nat
      BY <1>1, <1>4, <2>2, FragmentAssumption DEF ReadBody, ParserTypes
    <3>2. QED
      BY <1>1, <1>4, <2>2, <3>1 DEF ReadBody, parser, history, ParserTypes, PcType
  <2>3. QED
    BY <2>1, <2>2
<1>5. CASE ParserAction
  <2>1. PcType' /\ UNCHANGED <<chunk, got, out, frags>>
    BY <1>5, ParserFrame DEF Parsing, PcType
  <2>2. QED
    BY <1>1, <1>5, <2>1, ParserTypeStep
<1>6. CASE SplitClientHelloRecord
  <2>1. frags' \in Seq(Pieces)
    BY <1>6, SplitFrags
  <2>2. QED
    BY <1>1, <1>6, <2>1
       DEF SplitClientHelloRecord, stream, parser, history, ParserTypes, PcType
<1>7. CASE pc \in Writing /\ WriteNext
  <2>1. out' \in Seq(Pieces) /\ frags' \in Seq(Pieces)
    BY <1>7, Written, NextPiece DEF WriteNext
  <2>2. QED
    BY <1>1, <1>7, <2>1 DEF WriteNext, stream, parser, history, ParserTypes, PcType
<1>8. CASE pc \in Writing /\ WritePart
  <2>1. out' \in Seq(Pieces)
    <3>1. CASE UNCHANGED out
      BY <1>1, <3>1
    <3>2. CASE ~UNCHANGED out
      <4>1. PICK k \in Nat : /\ out' = Append(out, <<Head(frags)[1], k>>)
                             /\ <<Head(frags)[1], k>> \in Pieces
        BY <1>8, <3>2, WrittenInPart
      <4>2. QED
        BY <1>1, <4>1, AppendProperties
    <3>3. QED
      BY <3>1, <3>2
  <2>2. QED
    BY <1>1, <1>8, <2>1 DEF WritePart, stream, parser, history, ParserTypes, PcType
<1>9. CASE RelayRead
  <2>1. frags' \in Seq(Pieces) /\ got' \in Nat
    BY <1>9, RelayPiece
  <2>2. QED
    BY <1>1, <1>9, <2>1 DEF RelayRead, parser, history, ParserTypes, PcType
<1>10. CASE RelayEnd
  BY <1>1, <1>10 DEF RelayEnd, stream, parser, history, ParserTypes, PcType
<1>11. CASE UNCHANGED vars
  BY <1>1, <1>11 DEF vars, stream, parser, history, ParserTypes, PcType
<1>12. QED
  BY <1>3, <1>4, <1>5, <1>6, <1>7, <1>8, <1>9, <1>10, <1>11
     DEF Next, ParserAction, WriteFragment, WriteFail, RelayWrite, RelayFail, Ended, Writing

-----------------------------------------------------------------------------
(***************************************************************************)
(* The refinement of ByteStream.                                           *)
(***************************************************************************)

\* The mapping in terms of the chain of pieces.
LEMMA DeliveredEnd == Delivered = EndOf(out, 0) /\ Delivered' = EndOf(out', 0)
BY DEF Delivered, EndOf

\* Every step is a step of ByteStream or leaves its variables alone.
LEMMA ByteStreamStep ==
  ASSUME TypeOK, NameInv, StreamInv, [Next]_vars
  PROVE  [Stream!Next]_(Stream!vars)
<1> USE DEF Stream!Next, Stream!vars
<1>1. got \in Nat /\ Delivered \in Nat /\ Delivered = EndOf(out, 0)
  BY OutEnd, DeliveredEnd DEF TypeOK
<1>2. CASE Fail /\ pc \in Early
  <2>1. Mode = "reading" /\ Mode' = "failed" /\ UNCHANGED <<Delivered, got>>
    BY <1>2 DEF Fail, Mode, Delivered, stream, Early
  <2>2. QED
    BY <2>1 DEF Stream!GiveUp
<1>3. CASE ReadHeader /\ ~Fail
  <2>1. pc = "header" /\ pc' = "record" /\ got' = RecordHeader /\ UNCHANGED out
    BY <1>3 DEF ReadHeader
  <2>2. got = 0 /\ got' \in Nat /\ got' > got
    BY <2>1 DEF StreamInv, RecordHeader
  <2>3. Mode = "reading" /\ Mode' = "reading" /\ UNCHANGED Delivered
    BY <2>1 DEF Mode, Delivered
  <2>4. QED
    BY <2>2, <2>3 DEF Stream!Take
<1>4. CASE ReadBody /\ ~Fail
  <2>1. pc = "record" /\ pc' = "handshake" /\ got' = got + recLen /\ UNCHANGED out
    BY <1>4 DEF ReadBody
  <2>2. recLen > 0 /\ recLen \in Nat
    BY <2>1, FragmentAssumption DEF StreamInv, TypeOK
  <2>3. got' \in Nat /\ got' > got
    BY <1>1, <2>1, <2>2
  <2>4. Mode = "reading" /\ Mode' = "writing" /\ UNCHANGED Delivered
    BY <2>1 DEF Mode, Delivered
  <2>5. QED
    BY <2>3, <2>4 DEF Stream!Take
<1>5. CASE ParserAction
  BY <1>5, ParserFrame DEF Parsing, Mode, Delivered
<1>6. CASE SplitClientHelloRecord
  BY <1>6 DEF SplitClientHelloRecord, stream, Mode, Delivered
<1>7. CASE pc \in Writing /\ WriteNext
  <2>1. /\ pc \in Writing /\ UNCHANGED got /\ frags' = Tail(frags)
        /\ pc' = IF Len(frags) = 1 THEN "relay" ELSE pc
    BY <1>7 DEF WriteNext, stream
  <2>2. /\ Delivered' = Head(frags)[2] /\ Head(frags)[2] \in Nat
        /\ Delivered = Head(frags)[1] /\ Head(frags)[1] < Head(frags)[2]
        /\ Tail(frags) \in Seq(Pieces) /\ Len(Tail(frags)) = Len(frags) - 1
        /\ Chain(Tail(frags), Head(frags)[2]) /\ EndOf(Tail(frags), Head(frags)[2]) = got
    <3>1. EndOf(out', 0) = Head(frags)[2]
      BY <1>7, Written
    <3>2. Head(frags) \in Pieces /\ Head(frags)[1] = EndOf(out, 0)
      BY <2>1, NextPiece
    <3>3. Head(frags)[2] \in Nat
      BY <3>2 DEF Pieces
    <3>4. QED
      BY <2>1, <3>1, <3>2, <3>3, DeliveredEnd, NextPiece
  <2>3. Len(frags) \in Nat /\ Len(frags) > 0
    BY <2>1, LenProperties DEF StreamInv, TypeOK
  <2>4. CASE Len(frags) = 1
    <3>1. Delivered' = got
      BY <2>2, <2>4 DEF EndOf
    <3>2. Mode' = "copying"
      BY <2>1, <2>4 DEF Mode
    <3>3. CASE pc = "write"
      <4>1. Mode = "writing"
        BY <3>3 DEF Mode
      <4>2. QED
        BY <1>1, <2>1, <2>2, <3>1, <3>2, <4>1 DEF Stream!Deliver
    <3>4. CASE pc = "copy"
      <4>1. Mode = "copying"
        BY <3>4 DEF Mode
      <4>2. QED
        BY <1>1, <2>1, <2>2, <3>1, <3>2, <4>1 DEF Stream!Copy
    <3>5. QED
      BY <2>1, <3>3, <3>4 DEF Writing
  <2>5. CASE Len(frags) # 1
    <3>1. Len(Tail(frags)) > 0
      BY <2>2, <2>3, <2>5
    <3>2. Delivered' < got
      BY <1>1, <2>2, <3>1, ChainEnd
    <3>3. Mode = "writing" /\ Mode' = "writing"
      <4>1. pc = "write"
        BY <2>1, <2>5 DEF StreamInv, Writing
      <4>2. QED
        BY <2>1, <2>5, <4>1 DEF Mode
    <3>4. QED
      BY <1>1, <2>1, <2>2, <3>2, <3>3 DEF Stream!Deliver
  <2>6. QED
    BY <2>4, <2>5
<1>8. CASE pc \in Writing /\ WritePart
  <2>1. pc \in Writing /\ pc' = "failed" /\ UNCHANGED got
    BY <1>8 DEF WritePart, stream
  <2>2. Mode \in {"writing", "copying"} /\ Mode' = "failed"
    BY <2>1 DEF Mode, Writing
  <2>3. /\ Head(frags)[1] = EndOf(out, 0) /\ Head(frags) = frags[1]
        /\ Head(frags) \in Pieces /\ Head(frags)[1] < Head(frags)[2]
    BY <2>1, NextPiece
  <2>4. Head(frags)[2] \in Nat /\ Head(frags)[2] <= got
    <3>1. /\ Tail(frags) \in Seq(Pieces) /\ Chain(Tail(frags), Head(frags)[2])
          /\ EndOf(Tail(frags), Head(frags)[2]) = got /\ Head(frags)[2] \in Nat
      BY <2>1, <2>3, NextPiece DEF Pieces
    <3>2. Len(Tail(frags)) = 0 \/ Len(Tail(frags)) > 0
      <4> DEFINE n == Len(Tail(frags))
      <4>1. n \in Nat
        BY <3>1, LenProperties
      <4> HIDE DEF n
      <4>2. n = 0 \/ n > 0
        BY <4>1
      <4>3. QED
        BY <4>2 DEF n
    <3>3. CASE Len(Tail(frags)) = 0
      BY <1>1, <3>1, <3>3 DEF EndOf
    <3>4. CASE Len(Tail(frags)) > 0
      <4>1. EndOf(Tail(frags), Head(frags)[2]) > Head(frags)[2]
        BY <3>1, <3>4, ChainEnd
      <4>2. QED
        BY <1>1, <3>1, <4>1
    <3>5. QED
      BY <3>1, <3>2, <3>3, <3>4
  <2>5. Delivered < got
    BY <1>1, <2>3, <2>4
  <2>6. CASE UNCHANGED out
    BY <2>1, <2>2, <2>5, <2>6 DEF Stream!GiveUp, Delivered
  <2>7. CASE ~UNCHANGED out
    <3>1. PICK k \in Nat : /\ Head(frags)[1] < k /\ k < Head(frags)[2]
                           /\ out' = Append(out, <<Head(frags)[1], k>>)
                           /\ <<Head(frags)[1], k>> \in Pieces
      BY <1>8, <2>7, WrittenInPart
    <3> DEFINE p == <<Head(frags)[1], k>>
    <3>2. /\ p \in Pieces /\ p[1] = EndOf(out, 0) /\ p[1] < p[2] /\ out' = Append(out, p)
          /\ p[2] = k
      BY <2>3, <3>1
    <3> HIDE DEF p
    <3>3. Delivered' = k
      BY <3>2, WrittenMore, DeliveredEnd
    <3>4. k > Delivered /\ k < got /\ k \in Nat
      BY <1>1, <2>3, <2>4, <3>1
    <3>5. QED
      BY <2>1, <2>2, <2>5, <3>3, <3>4 DEF Stream!GiveUp
  <2>8. QED
    BY <2>6, <2>7
<1>9. CASE RelayRead
  <2>1. pc = "relay" /\ pc' = "copy" /\ UNCHANGED Delivered
    BY <1>9 DEF RelayRead, Delivered
  <2>2. Mode = "copying" /\ Mode' = "copying"
    BY <2>1 DEF Mode
  <2>3. Delivered = got /\ got' \in Nat /\ got' > got
    BY <1>1, <1>9, RelayPiece
  <2>4. QED
    BY <2>1, <2>2, <2>3 DEF Stream!Take
<1>10. CASE RelayEnd
  BY <1>10 DEF RelayEnd, stream, Mode, Delivered
<1>11. CASE UNCHANGED vars
  BY <1>11 DEF vars, stream, Mode, Delivered
<1>12. QED
  BY <1>2, <1>3, <1>4, <1>5, <1>6, <1>7, <1>8, <1>9, <1>10, <1>11
     DEF Next, ParserAction, WriteFragment, WriteFail, RelayWrite, RelayFail, Ended,
         ReadHeader, ReadBody, Early, Writing

-----------------------------------------------------------------------------
(***************************************************************************)
(* The theorems.                                                           *)
(***************************************************************************)

\* The inductive invariant holds in every reachable state.
THEOREM FragmentInvariant == Spec => []Inv
<1>1. Init => Inv
  <2> SUFFICES ASSUME Init PROVE Inv
    OBVIOUS
  <2>1. TypeOK
    <3>1. out \in Seq(Nat \X Nat) /\ frags \in Seq(Nat \X Nat) /\ chunk \in Int
      BY FragmentAssumption DEF Init
    <3>2. sni \in (0 .. RecordHeader + MaxRecord) \X (0 .. RecordHeader + MaxRecord)
      BY FragmentAssumption DEF Init, None, RecordHeader
    <3>3. /\ recLen \in 0 .. MaxRecord /\ body \in 0 .. recLen /\ pos \in Nat /\ vec \in 1 .. 3
          /\ extEnd \in Nat /\ ext \in Nat /\ npos \in Nat /\ listEnd \in Nat
          /\ cursor \in Nat /\ reads \in Nat /\ got \in Nat
      BY FragmentAssumption DEF Init
    <3>4. panicked \in BOOLEAN /\ pc = "header"
      BY DEF Init
    <3>5. QED
      BY <3>1, <3>2, <3>3, <3>4 DEF TypeOK
  <2>2. ParserInv /\ NameInv /\ CountInv
    BY DEF Init, ParserInv, NameInv, CountInv
  <2>3. StreamInv /\ FitsInv
    <3>1. out = <<>> /\ Len(out) = 0 /\ pc = "header" /\ got = 0
      BY DEF Init
    <3>2. QED
      BY <3>1 DEF StreamInv, FitsInv, Chain, Parsing, Writing
  <2>4. QED
    BY <2>1, <2>2, <2>3 DEF Inv
<1>2. Inv /\ [Next]_vars => Inv'
  BY TypeStep, ParserStep, NameStep, StreamStep, FitsStep DEF Inv
<1>3. QED
  BY <1>1, <1>2, PTL DEF Spec

\* Every variable keeps its type.
THEOREM FragmentTypeCorrect == Spec => []TypeOK
<1>1. Inv => TypeOK
  BY DEF Inv
<1>2. QED
  BY <1>1, FragmentInvariant, PTL

\* sniValueRange never indexes a slice out of range, whatever record it is given.
THEOREM ParserNeverPanics == Spec => []NoPanic
<1>1. Inv => NoPanic
  BY DEF Inv, CountInv, NoPanic
<1>2. QED
  BY <1>1, FragmentInvariant, PTL

\* The range sniValueRange returns is in the record, at the bytes the parser has reached.
THEOREM NameLiesInRecord == Spec => []NameWhereFound
<1>1. Inv => NameWhereFound
  BY DEF Inv, NameInv, NameWhereFound
<1>2. QED
  BY <1>1, FragmentInvariant, PTL

\* What reaches the server is a prefix of what the client sent, for every -sni-chunk.
THEOREM ServerReceivesPrefix == Spec => []ServerGetsPrefix
<1>1. Inv => ServerGetsPrefix
  <2> SUFFICES ASSUME Inv PROVE ServerGetsPrefix
    OBVIOUS
  <2>1. DOMAIN out = 1 .. Len(out) /\ Chain(out, 0)
    BY LenProperties DEF Inv, TypeOK, StreamInv
  <2>2. QED
    BY <2>1 DEF ServerGetsPrefix, Chain
<1>2. QED
  BY <1>1, FragmentInvariant, PTL

\* Whenever the relay reads, for the first time or again, and when it ends with the
\* client's side, everything taken from the client has been written.  While it writes, at
\* most what it read last is outstanding; after a write that failed nothing is promised.
NothingKeptBack ==
  /\ pc \in {"relay", "relayed"} => Delivered = got
  /\ pc = "copy" => Len(frags) = 1 /\ Delivered = frags[1][1] /\ got = frags[1][2]

\* SplitClientHelloRecord and WriteClientHelloFragments have dropped no byte of the record
\* when the relay takes over, and as long as no write fails none is lost afterwards.
THEOREM AllBytesForwarded == Spec => []NothingKeptBack
<1>1. Inv => NothingKeptBack
  <2> SUFFICES ASSUME Inv PROVE NothingKeptBack
    OBVIOUS
  <2>1. pc \in {"relay", "relayed"} => Delivered = got
    BY DeliveredEnd DEF Inv, StreamInv
  <2>2. ASSUME pc = "copy"
        PROVE  Len(frags) = 1 /\ Delivered = frags[1][1] /\ got = frags[1][2]
    <3>1. /\ Len(frags) = 1 /\ Chain(frags, EndOf(out, 0))
          /\ EndOf(frags, EndOf(out, 0)) = got /\ Delivered = EndOf(out, 0)
      BY <2>2, DeliveredEnd DEF Inv, StreamInv, Writing
    <3>2. frags[1][1] = EndOf(out, 0)
      BY <3>1 DEF Chain
    <3>3. got = frags[1][2]
      BY <3>1 DEF EndOf
    <3>4. QED
      BY <3>1, <3>2, <3>3
  <2>3. QED
    BY <2>1, <2>2 DEF NothingKeptBack
<1>2. QED
  BY <1>1, FragmentInvariant, PTL

\* With a positive -sni-chunk no Write carries more than a chunk of the name, or a part
\* of the name together with other bytes.
THEOREM NameNeverWhole == Spec => []NameInChunks
<1>1. Inv => NameInChunks
  <2> SUFFICES ASSUME Inv PROVE NameInChunks
    OBVIOUS
  <2>1. DOMAIN out = 1 .. Len(out)
    BY LenProperties DEF Inv, TypeOK
  <2>2. QED
    BY <2>1 DEF Inv, FitsInv, Fits, NameInChunks
<1>2. QED
  BY <1>1, FragmentInvariant, PTL

\* Every iteration of sniValueRange passes over a byte, so its loops end.
THEOREM ParserTerminates == Spec => []ParserAdvances
<1>1. Inv => ParserAdvances
  BY DEF Inv, CountInv, ParserAdvances
<1>2. QED
  BY <1>1, FragmentInvariant, PTL

\* Fragment implements ByteStream: forwardFragmentedClientHello and relay deliver a prefix
\* of the client's stream, nothing of it before the record is complete, and stop at the
\* first write that fails.
THEOREM FragmentImplementsByteStream == Spec => ImplementsByteStream
<1>1. Init => Stream!Init
  <2> SUFFICES ASSUME Init PROVE Stream!Init
    OBVIOUS
  <2>1. got = 0 /\ Len(out) = 0 /\ pc = "header"
    BY DEF Init
  <2>2. QED
    BY <2>1 DEF Stream!Init, Delivered, Mode
<1>2. Inv /\ [Next]_vars => [Stream!Next]_(Stream!vars)
  BY ByteStreamStep DEF Inv
<1>3. QED
  BY <1>1, <1>2, FragmentInvariant, PTL DEF Spec, ImplementsByteStream, Stream!Spec
=============================================================================
