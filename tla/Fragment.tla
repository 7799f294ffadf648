------------------------------ MODULE Fragment ------------------------------
(***************************************************************************)
(* Forwarding the client's real ClientHello in pieces (-enable-fragment):  *)
(* forwardFragmentedClientHello reads one TLS record, looks for the server *)
(* name in it (sniValueRange), cuts the record around and inside the name  *)
(* (SplitClientHelloRecord) and writes the pieces one by one               *)
(* (WriteClientHelloFragments); the relay then copies what follows.        *)
(*                                                                         *)
(* Bytes are positions in the client's stream, from 0.  What the client    *)
(* sends is arbitrary, so every type and length field the parser reads is  *)
(* chosen when it is read; the parser reads no byte twice.                 *)
(***************************************************************************)
EXTENDS Integers, Sequences

CONSTANTS
  MaxRecord,    \* maxTLSPlaintextRecord
  HelloFixed,   \* legacy_version and random (34 in the code)
  Chunks,       \* possible values of -sni-chunk
  Extra         \* bound: bytes the relay copies after the record

ASSUME FragmentAssumption ==
  /\ MaxRecord \in Nat \ {0} /\ HelloFixed \in Nat /\ Extra \in Nat
  /\ Chunks \subseteq Int

RecordHeader == 5
HandshakeHeader == 4

VARIABLES
  chunk, got,        \* -sni-chunk; bytes taken from the client's stream
  pc,
  recLen,            \* length field of the record
  body, pos, vec,    \* length of the ClientHello body, position in it, vector reached
  extEnd,            \* end of the extensions in the body
  ext, npos, listEnd,  \* in the server_name extension: its length, position, end of list
  sni,               \* <<start, end>> of the name in the record, or None
  out,               \* pieces written to the server, <<start, end>>
  frags,             \* pieces still to be written: of the record, or what the relay read
  cursor, reads,     \* history: offset of the next unread byte, iterations of the parser
  panicked           \* history: a slice was indexed out of range

stream == <<chunk, got>>
parser == <<recLen, body, pos, vec, extEnd, ext, npos, listEnd>>
history == <<cursor, reads, panicked>>
vars == <<stream, pc, parser, sni, out, frags, history>>

None == <<0, 0>>

Init ==
  /\ chunk \in Chunks /\ got = 0
  /\ pc = "header"
  /\ recLen = 0 /\ body = 0 /\ pos = 0 /\ vec = 1 /\ extEnd = 0
  /\ ext = 0 /\ npos = 0 /\ listEnd = 0
  /\ sni = None /\ out = <<>> /\ frags = <<>> /\ cursor = 0 /\ reads = 0 /\ panicked = FALSE

\* Values a length field can have; larger ones fail the same tests.
Lengths == 0 .. MaxRecord + 1

\* A read of bytes from .. to - 1 of a slice of the given length.
Access(to, length) == panicked' = (panicked \/ to > length)

-----------------------------------------------------------------------------
(***************************************************************************)
(* ReadFirstTLSRecord                                                      *)
(***************************************************************************)

\* An error closes both sockets: nothing was written.
Fail ==
  /\ pc' = "failed"
  /\ UNCHANGED <<stream, parser, sni, out, frags, history>>

\* io.ReadFull of the header meets EOF or the deadline, or the type and length tests
\* follow.
ReadHeader ==
  /\ pc = "header"
  /\ \/ Fail
     \/ \E handshake \in BOOLEAN, n \in Lengths :
          IF ~handshake \/ n <= 0 \/ n > MaxRecord THEN Fail
          ELSE /\ got' = RecordHeader /\ recLen' = n
               /\ pc' = "record" /\ cursor' = RecordHeader
               /\ UNCHANGED <<chunk, body, pos, vec, extEnd, ext, npos, listEnd, sni,
                              out, frags, reads, panicked>>

\* io.ReadFull of exactly the record's body.
ReadBody ==
  /\ pc = "record"
  /\ \/ Fail
     \/ /\ got' = got + recLen
        /\ pc' = "handshake"
        /\ UNCHANGED <<chunk, parser, sni, out, frags, history>>

-----------------------------------------------------------------------------
(***************************************************************************)
(* sniValueRange and sniNameRangeInExtension: each step reads one field    *)
(* and tests it.                                                           *)
(***************************************************************************)

\* return 0, 0, false
NotFound ==
  /\ pc' = "split"
  /\ UNCHANGED <<stream, parser, sni, out, frags, history>>

\* The handshake header: a ClientHello that fits the record.
ParseHandshake ==
  /\ pc = "handshake"
  /\ \/ recLen < HandshakeHeader /\ NotFound
     \/ /\ recLen >= HandshakeHeader
        /\ \E clientHello \in BOOLEAN, n \in Lengths :
             IF \/ ~clientHello \/ n <= 0 \/ recLen < HandshakeHeader + n
                \/ n < HelloFixed + 1
             THEN NotFound
             ELSE /\ body' = n /\ pos' = HelloFixed /\ vec' = 1 /\ pc' = "vector"
                  /\ cursor' = cursor + HandshakeHeader + HelloFixed
                  /\ UNCHANGED <<stream, recLen, extEnd, ext, npos, listEnd, sni, out, frags,
                                 reads, panicked>>

\* session_id, cipher_suites, compression_methods: the bytes of the length field, and
\* the bytes that must follow the vector for the next field to be readable.
Width == <<1, 2, 1>>

\* Mutant: the next length field need not be there.
MutFollow == <<0, 0, 0>>

Follow == <<2, 1, 0>>

ParseVector ==
  /\ pc = "vector"
  /\ Access(pos + Width[vec], body)
  /\ \E n \in Lengths :
       LET start == pos + Width[vec]
           short == body < start + n + Follow[vec]
       IN  /\ pos' = IF short THEN pos ELSE start + n
           /\ cursor' = IF short THEN cursor ELSE cursor + Width[vec] + n
           /\ reads' = IF short THEN reads ELSE reads + 1
           /\ vec' = IF short \/ vec = 3 THEN vec ELSE vec + 1
           /\ pc' = IF short THEN "split" ELSE IF vec = 3 THEN "extensions" ELSE "vector"
  /\ UNCHANGED <<stream, recLen, body, extEnd, ext, npos, listEnd, sni, out, frags>>

\* The length of the extensions.
ParseExtensions ==
  /\ pc = "extensions"
  /\ \/ body < pos + 2 /\ NotFound
     \/ /\ body >= pos + 2
        /\ \E n \in Lengths :
             IF body < pos + 2 + n THEN NotFound
             ELSE /\ extEnd' = pos + 2 + n /\ pos' = pos + 2 /\ pc' = "extension"
                  /\ cursor' = cursor + 2
                  /\ Access(pos + 2, body)
                  /\ UNCHANGED <<stream, recLen, body, vec, ext, npos, listEnd, sni, out, frags,
                                 reads>>

\* One extension: the server_name extension is looked into, any other skipped.
ParseExtension ==
  /\ pc = "extension"
  /\ \/ pos + 4 > extEnd /\ NotFound
     \/ /\ pos + 4 <= extEnd
        /\ \E serverName \in BOOLEAN, n \in Lengths :
             IF pos + 4 + n > extEnd THEN NotFound
             ELSE /\ Access(pos + 4 + n, body)
                  /\ reads' = reads + 1
                  /\ \/ /\ serverName
                        /\ ext' = n /\ pos' = pos + 4 /\ pc' = "list"
                        /\ cursor' = cursor + 4
                     \/ /\ ~serverName
                        /\ pos' = pos + 4 + n /\ cursor' = cursor + 4 + n
                        /\ UNCHANGED <<ext, pc>>
                  /\ UNCHANGED <<stream, recLen, body, vec, extEnd, npos, listEnd, sni, out, frags>>

\* The length of the list of names.
ParseList ==
  /\ pc = "list"
  /\ \/ ext < 2 /\ NotFound
     \/ /\ ext >= 2
        /\ \E n \in Lengths :
             IF n <= 0 \/ ext < 2 + n THEN NotFound
             ELSE /\ listEnd' = 2 + n /\ npos' = 2 /\ pc' = "name"
                  /\ cursor' = cursor + 2
                  /\ Access(2, ext)
                  /\ UNCHANGED <<stream, recLen, body, pos, vec, extEnd, ext, sni, out, frags,
                                 reads>>

\* Mutant: an entry without a name is not skipped.
MutNextName(n) == IF n = 0 THEN npos ELSE npos + 3 + n

NextName(n) == npos + 3 + n

\* Mutant: the handshake header is forgotten when positions are translated.
MutNameStart == RecordHeader + pos + npos + 3

\* Mutant: the handshake header is counted twice.
MutNameStartTwice == RecordHeader + 2 * HandshakeHeader + pos + npos + 3

\* Position in the extension -> position in the body -> position in the record.
NameStart == RecordHeader + HandshakeHeader + pos + npos + 3

\* One name: the first host name that is not empty.
ParseName ==
  /\ pc = "name"
  /\ \/ npos + 3 > listEnd /\ NotFound
     \/ /\ npos + 3 <= listEnd
        /\ \E hostName \in BOOLEAN, n \in Lengths :
             IF npos + 3 + n > listEnd THEN NotFound
             ELSE /\ Access(npos + 3, ext)
                  /\ reads' = reads + 1
                  /\ \/ /\ hostName /\ n > 0
                        /\ sni' = <<NameStart, NameStart + n>>
                        /\ cursor' = cursor + 3
                        /\ pc' = "split" /\ UNCHANGED npos
                     \/ /\ ~(hostName /\ n > 0)
                        /\ npos' = NextName(n)
                        /\ cursor' = cursor + (NextName(n) - npos)
                        /\ UNCHANGED <<sni, pc>>
                  /\ UNCHANGED <<stream, recLen, body, pos, vec, extEnd, ext, listEnd, out, frags>>

-----------------------------------------------------------------------------
(***************************************************************************)
(* SplitClientHelloRecord, WriteClientHelloFragments, relay                *)
(***************************************************************************)

\* The name from s to e in pieces of c bytes, in one piece when c is not positive.
NamePieces(s, e, c) ==
  LET size == IF c <= 0 THEN e - s ELSE c
      n == (e - s + size - 1) \div size
  IN  [i \in 1 .. n |->
        <<s + (i - 1) * size, IF s + i * size > e THEN e ELSE s + i * size>>]

\* Mutant: the rest of the record is sent with the last piece of the name.
MutSplit(length, s, e, c) ==
  IF e <= s THEN <<<<0, length>>>>
  ELSE <<<<0, s>>>> \o NamePieces(s, length, c)

\* Mutant: the last piece is dropped when it is shorter than a chunk.
MutSplitWhole(length, s, e, c) ==
  IF e <= s THEN <<<<0, length>>>>
  ELSE <<<<0, s>>>> \o (IF c > 0 /\ c < e - s THEN NamePieces(s, e - ((e - s) % c), c)
                        ELSE NamePieces(s, e, c))
       \o (IF e < length THEN <<<<e, length>>>> ELSE <<>>)

\* Mutant: a suffix of one byte is taken for none.
MutSplitSuffix(length, s, e, c) ==
  IF e <= s THEN <<<<0, length>>>>
  ELSE <<<<0, s>>>> \o NamePieces(s, e, c)
       \o (IF e + 1 < length THEN <<<<e, length>>>> ELSE <<>>)

\* The part before the name, the name, the part after it; s > 0 always holds because
\* the name lies behind the record header.
Split(length, s, e, c) ==
  IF e <= s THEN <<<<0, length>>>>
  ELSE <<<<0, s>>>> \o NamePieces(s, e, c)
       \o (IF e < length THEN <<<<e, length>>>> ELSE <<>>)

SplitClientHelloRecord ==
  /\ pc = "split"
  /\ frags' = Split(RecordHeader + recLen, sni[1], sni[2], chunk)
  /\ pc' = "write"
  /\ UNCHANGED <<stream, parser, sni, out, history>>

\* Write succeeds: the next piece is out; after the last one the relay reads (on).
WriteNext ==
  /\ out' = Append(out, Head(frags))
  /\ frags' = Tail(frags)
  /\ pc' = IF Len(frags) = 1 THEN "relay" ELSE pc
  /\ UNCHANGED <<stream, parser, sni, history>>

\* Write fails after part of the piece left: both sockets are closed.
WritePart ==
  /\ \E k \in Head(frags)[1] .. Head(frags)[2] - 1 :
       out' = IF k = Head(frags)[1] THEN out ELSE Append(out, <<Head(frags)[1], k>>)
  /\ pc' = "failed"
  /\ UNCHANGED <<stream, parser, sni, frags, history>>

\* WriteClientHelloFragments: one fragment.
WriteFragment == pc = "write" /\ WriteNext

WriteFail == pc = "write" /\ WritePart

\* relay: io.CopyBuffer takes the client's next bytes (at most Extra of them) ...
RelayRead ==
  /\ pc = "relay"
  /\ \E k \in 1 .. Extra :
       /\ got + k <= RecordHeader + recLen + Extra
       /\ got' = got + k
       /\ frags' = <<<<got, got + k>>>>
  /\ pc' = "copy"
  /\ UNCHANGED <<chunk, parser, sni, out, history>>

\* ... writes them and reads again, until a write fails, its error ignored like any, ...
RelayWrite == pc = "copy" /\ WriteNext

RelayFail == pc = "copy" /\ WritePart

\* ... or the client's side ends.
RelayEnd ==
  /\ pc = "relay"
  /\ pc' = "relayed"
  /\ UNCHANGED <<stream, parser, sni, out, frags, history>>

Ended == pc \in {"failed", "relayed"} /\ UNCHANGED vars

Next ==
  \/ ReadHeader \/ ReadBody
  \/ ParseHandshake \/ ParseVector \/ ParseExtensions \/ ParseExtension \/ ParseList
  \/ ParseName
  \/ SplitClientHelloRecord \/ WriteFragment \/ WriteFail
  \/ RelayRead \/ RelayWrite \/ RelayFail \/ RelayEnd
  \/ Ended

Spec == Init /\ [][Next]_vars

-----------------------------------------------------------------------------
\* Every variable has its type.
TypeOK ==
  /\ chunk \in Int /\ got \in Nat
  /\ pc \in {"header", "record", "handshake", "vector", "extensions", "extension", "list",
             "name", "split", "write", "relay", "copy", "failed", "relayed"}
  /\ recLen \in 0 .. MaxRecord /\ body \in 0 .. recLen /\ pos \in Nat /\ vec \in 1 .. 3
  /\ extEnd \in Nat /\ ext \in Nat /\ npos \in Nat /\ listEnd \in Nat
  /\ sni \in (0 .. RecordHeader + MaxRecord) \X (0 .. RecordHeader + MaxRecord)
  /\ out \in Seq(Nat \X Nat) /\ frags \in Seq(Nat \X Nat)
  /\ cursor \in Nat /\ reads \in Nat /\ panicked \in BOOLEAN

\* Whatever the client sends, the parser reads no byte outside the slice at hand: an
\* out-of-range access would panic, and handleConnection's recover leaves both
\* sockets of the connection open.
NoPanic == ~panicked

\* A name that is found lies inside the record, where the reads so far have led: the
\* three translations of positions agree with the bytes that were passed over.
NameWhereFound ==
  sni # None /\ pc # "failed" =>
    sni[1] = cursor /\ sni[1] < sni[2] /\ sni[2] <= RecordHeader + recLen

\* The server receives a prefix of what the client sent: no piece is empty, and each
\* starts where the one before it ended, across the change from fragments to relay
\* and in front of a failing write.
ServerGetsPrefix ==
  \A i \in DOMAIN out :
    out[i][1] < out[i][2] /\ out[i][1] = (IF i = 1 THEN 0 ELSE out[i - 1][2])

\* With a chunk size, a write that carries a byte of the name carries at most that
\* many and nothing else, so no write contains a longer name.
NameInChunks ==
  sni # None /\ chunk > 0 =>
    \A i \in DOMAIN out :
      out[i][2] > sni[1] /\ out[i][1] < sni[2] =>
        sni[1] <= out[i][1] /\ out[i][2] <= sni[2] /\ out[i][2] - out[i][1] <= chunk

\* Whatever the client sends, the parser's loops end: every iteration passes over at
\* least one byte of the record.
ParserAdvances == reads <= cursor

\* Bytes delivered to the server: the end of the last piece written.
Delivered == IF Len(out) = 0 THEN 0 ELSE out[Len(out)][2]

Mode ==
  CASE pc \in {"header", "record"}           -> "reading"
    [] pc \in {"relay", "copy", "relayed"}  -> "copying"
    [] pc = "failed"                         -> "failed"
    [] OTHER                                 -> "writing"

Stream == INSTANCE ByteStream WITH taken <- got, delivered <- Delivered, mode <- Mode

\* Reading, parsing, splitting and writing implement ByteStream: the server gets
\* nothing of an incomplete record, the relay takes over exactly when the last byte of
\* the record was written, it reads on only when all it had read was written, a failing
\* write is the end, and no byte is withdrawn or invented.
ImplementsByteStream == Stream!Spec
=============================================================================
