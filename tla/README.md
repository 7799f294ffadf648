# A TLA+ model of SNI-Spoofing-Go

The program is a local TCP proxy.  For every client it opens a connection to one
upstream server and, between the TCP handshake and the client's first byte, sends
a *fake* TLS ClientHello in segments whose sequence numbers lie below the server's
window.  The client's data may flow only after the fake has been sent and the
server has acknowledged something.  Getting this order right takes three goroutines
that share one record per connection, part of it under a mutex and part of it in
atomics; this directory models that, the arithmetic and parsing around it, and the
life cycle of the proxy and of the firewall rules it installs.

## 1. Inventory

| component | state it keeps | operations | properties that make it correct |
|---|---|---|---|
| client handler (`main.go` `handleConnection`, `dial_*.go`) | position in the function, two sockets, relay goroutines | dial with registration, wait for signal or timeout, stop monitoring, fragment, relay, close | data only after the fake and an ACK; every client decided; nothing left open |
| connection state (`injection/common.go`, `connection/monitor.go`) | `Monitor`, `Sock`, `SynSeq`, `SynAckSeq` under `Mu`; `FakeSent`, `FakeInjectInProgress`, `PostFakeAckObserved` atomic; `T2aChan` | abort, monitoring test | no signal lost, no data race |
| packet loop (`injector_*.go`) | table of connections | classify a packet, abort, start an injection, signal | one injection at a time; own segments ignored |
| injection (`runFakeInjection*`, `wrong_seq.go`, `mtu.go`) | offset, repetition | segment, send, pause, signal | segments outside the window, in order, in size; ends |
| ACK test (`tcp_ack.go`) | none | ring interval, strict and permissive test | wraps correctly |
| ClientHello fragmenting (`packet/ch_fragment.go`) | buffer, parser position | read record, find the SNI, split, write | in bounds, terminates, no byte lost or reordered |
| proxy life cycle (`main.go` `runProxy`, constructor, `Start`, `Close`) | sockets, BPF device or WinDivert handles, route rule, two iptables rules, queue, listener, contexts | set up, start, wait ready, listen, accept, close once | nothing left behind but rules that could not be deleted; shutdown completes |
| method matrix (`runMethodMatrix`, `runMethodE2E`) | current case, its proxy | preflight, run a case with its own options, probe, stop | finishes; what it leaves behind has a reason |
| options (`main.go`, `config/`) | file options, flag variables | read file, defaults, register flags, parse, validate | flag over file over default; only valid values run |
| connection registry (`RegisterConn`, `UnregisterConn`, `lookupConnQuad`, `bindObservedTuple`) | tables by tuple and by port | register, unregister, look up, rebind | a packet is handled for its own connection; a monitored connection is found; a finished one is forgotten |
| packet codec, ClientHello builders, capture filters, network and privilege helpers | none | pure functions, system calls | *not modelled* |

**Interactions.**  `main` runs `runProxy`, which starts `Start` (the loop), a watcher
for the context and one `handleConnection` per client.  The dialer's `Control`
callback registers the connection with the injector before `connect()` sends the
SYN.  The loop starts the injection goroutine from the third handshake ACK.  Loop
and injection report to the handler through `T2aChan` (capacity 2, sends drop when
it is full), and can close both sockets under the handler's feet.

**What is hard.**  Two atomics read one after the other while another goroutine
writes both; checks whose result is used after the lock is released; a timeout that
races a signal; packets lost, duplicated and reordered; a constructor with seven
ways to fail half-way; commands that delete rules and whose result nobody reads; two
callers of `Close`; arithmetic modulo 2^32 and 2^16;
length fields chosen by the peer; ports the kernel gives out again; a socket closed
under a running injection; options written in four passes.  `PROJECT.json`
lists these hazards at their lines with the properties that would catch them.

## 2. Modules

| module | models | used by |
|---|---|---|
| `Session` | abstract: what a client is promised | `Flow` (refinement) |
| `Flow` | one connection: handler, packet loop, injection goroutine | `FlowInv`, `MCFlow` |
| `FlowInv` | the inductive invariant of `Flow`, in named parts | `FlowProofs`, `MCFlow` |
| `FlowProofs` | theorems about `Flow` | |
| `WrongSeq` | cutting one fake into segments; the ACK test | `MCWrongSeq`, `WrongSeqProofs` |
| `ByteStream` | abstract: what fragmenting promises of the client's stream | `Fragment` (refinement) |
| `Fragment` | reading, parsing, splitting and writing the real ClientHello | `MCFragment`, `FragmentProofs` |
| `Registry` | several connections: dialers, the injector's tables, lookups, the Windows rebinding | `MCRegistry`, `RegistryProofs` |
| `Proxy` | set-up, start and end of proxies and injectors; the method matrix | `MCProxy`, `ProxyProofs` |
| `Options` | config file, defaults, flags, validation | `MCOptions`, `OptionsProofs` |
| `WrongSeqProofs`, `FragmentProofs`, `RegistryProofs`, `ProxyProofs`, `OptionsProofs` | inductive invariants and theorems about these modules | |
| `NumberLemmas` | division, remainder, least number, induction up to a bound | `WrongSeqProofs`, `FragmentProofs` |

### Flow

State: the fields of `FakeInjectiveConnection` (`monitor`, `sock`, `synSeq`,
`synAckSeq`, `fakeSent`, `inProgress`, `postFakeAck`, `t2a`), the injector's table
entry (`registered`) and whether it was closed (`closed`), the sockets, the kernel's connection state, and one program
counter per goroutine: `hpc` (handler), `lpc` (loop), `ipc` (injection).  History
variables count fakes, injections started (`starts`), segments sent after monitoring
ended (`late`), and record whether the client's data left (`forwarded`), which ACK
was seen (`ackSeen`) and whether a send on `T2aChan` was dropped.

`conn.Mu` is held by the loop from `ProcessPacket` to `Verdict`, that is exactly
while `lpc # "idle"`.  Every other critical section is short and contains no load or
store of an atomic another goroutine could interleave with, so it is one step
guarded by `MuFree`.  Each atomic load and store is a step.

| action | code |
|---|---|
| `RegisterConn`, `DialOk`, `DialFail`, `SetupFail` | `dialOutgoing` and the error returns of `handleConnection` |
| `SetSock`, `RecvSignal`, `AckTimeout`, `HandlerStop`, `HandlerClose` | `handleConnection` up to the decision |
| `ForwardFragments`, `ForwardFail`, `StartRelay`, `RelayCopy`, `RelayEof`, `RelayFirstDone`, `RelayLastDone` | forwarding and `relay` |
| `ProcessPacket`, `PassPacket` | `processPacket`, `lookupConnQuad` |
| `InUnexpected`, `InSynAck`, `InLoadProgress`, `InLoadSent`, `InStore`, `InSignal` | `onInboundPacket` |
| `OutLoadSent`, `OutLoadProgress`, `OutSyn`, `OutAck`, `OutUnexpected` | `onOutboundPacket` |
| `CloseInjector` | `Close` of the injector while connections are served |
| `InjCheck`, `InjSend`, `InjSendFail`, `InjAbort`, `InjStoreSent`, `InjLoadAck`, `InjSignal`, `InjEnd` | `runFakeInjectionLocked`, `injectWrongSeqClientHello` |

The kernel and the network are external: `Available` says which packets may reach
the loop, `KernelAfter` what a released packet does.  The constants `Copies` and
`Echo` tell the backends apart: nfqueue holds packets and skips marked ones (FALSE,
FALSE), WinDivert holds packets and returns ours (FALSE, TRUE), AF_PACKET and BPF
see copies of everything (TRUE, TRUE).  Their handlers and `runFakeInjection` are the
nfqueue ones but for logging and the way a packet is released.

At shutdown `Close` takes the capture and the sending socket away while handlers still
run.  From then on a send may report success without a segment on the wire: WinDivert's
`sendPacket` returns nil once `shutdown` is set, and the number of the closed raw socket
may belong to another file.  `RealAfterFake` therefore excepts connections served after
`Close`, and `Session` has a phase `released` for them.  What still holds for them
is in the other properties: the ACK, the channel, one injection at a time, no leak.

Abstractions: packets are classes with the numbers some guard reads.  `Monitor` never becomes
true again after it was cleared, so the monitoring tests between two sends are one
test.  The strict ACK test never decides anything, because the permissive test
accepts every packet that reaches it; `WrongSeq` models it separately.  The branch
for a bypass method other than `wrong_seq` cannot be reached from `main` and is left
out, and so are the `recover` handlers: no modelled step panics.

### WrongSeq

One call of `injectWrongSeqClientHello` for every sequence number, payload length,
MTU and header size of the instance, with monitoring ending at any time and sends
failing at any time (`Begin`, `Check`, `Send`, `SendFail`, `Pause`, `StopMonitor`),
followed by any reply (`Reply`).  Sequence numbers and IP identifications wrap
(`SeqMod`, `IdentMod`).  `OutsideWindow` says no byte of the fake lies in the
server's receive window, `Reassembles` that the segments sent so far are a prefix
without gap or overlap, `StrictIsRingInterval` compares the code's three-way
comparison with the set of numbers between the two bounds on the ring.  The window
and the fake together fit the ring, and the fake alone is shorter than it: with a fake
as long as the ring the interval's two ends would coincide and the test would accept
one number instead of all.  FakeData is a TLS record, far below 2^32.

### Fragment

A record is its length fields; every length field read by the parser is an
arbitrary number, as an arbitrary client may send it.  `panicked` records a slice or
index outside its buffer.  `out` is the sequence of byte ranges written to the
server.  Actions follow the code's stages: `ReadHeader`, `ReadBody`,
`ParseHandshake`, `ParseVector` (session id, cipher suites, compression),
`ParseExtensions`, `ParseExtension`, `ParseList`, `ParseName`,
`SplitClientHelloRecord`, `WriteFragment`, `WriteFail`, and the relay from client to
server, `RelayRead`, `RelayWrite`, `RelayFail`, `RelayEnd`: `io.CopyBuffer` reads again only
after a write, and a write that fails, having sent any part of its bytes, ends it without a
message.

`ByteStream` is what a user of fragmenting relies on, in numbers of bytes: nothing is
delivered of a record that was not read to its end, never more than was taken,
plain copying begins exactly when the record's last byte was delivered, the copier takes
more only when all it took was delivered, and when a write fails that is the end: bytes
taken and not delivered are lost, but nothing follows the gap.  `Fragment`
implements it with `got` for the bytes taken, the end of the last piece for the bytes
delivered and the stages of the code folded into four modes.

### Registry

`Conns` are connections that compete for a few local ports.  A handler binds a port,
registers (`RegisterID`, `RegisterPort`), connects, waits, stops monitoring and
unregisters (`UnregisterID`, `UnregisterPort`); every `Load`, `Store` and `Delete` of the
two `sync.Map`s is a step.  `DialFail` closes the socket before the connection is
unregistered with `net.Dialer` and after it on Windows; `DialRetry` is the retry inside
`net.Dialer`, which calls `Control` again and leaks the first registration.  The loop
captures a packet of an open socket (`Capture`), looks it up by tuple and by port and
handles it (`Handle`, whose effect is that of `Flow` on `Monitor` and the socket).  On Windows
sockets are bound to 0.0.0.0, so the address on the wire (`wireIP`) may differ from the
registered one and `bindObservedTuple` (`BindObserved` ... `BindStorePort`) stores the
connection again; `UnregisterConn` reads `conn.ID` without the lock meanwhile, which
`ReadIP` models as a read of the old, the new or a mixed value.  `alone` is history: when
the port was given out, no trace of an earlier connection was left.

### Proxy

One life of `runProxy` per case (one case outside test mode), with the injector's
constructor (`SetupStep`, `SetupFail`, `Undo`), `Start`, `Close` (`EnterClose`,
`CloseStep`, `CloseReturns`, a `sync.Once`), the watcher goroutine
(`WatchCloseListener`, `WatchClose`), the deferred calls, and the main goroutine: a
signal, or the method matrix with its preflight and its timeouts.  `held` is what each case
owns.
`backend` is one of five: `nfqueue`, `afpacket`, `bpf`, and on Windows `windivert` and
`winsniff`.  The Linux and macOS constructors acquire everything, and `Start` is
`StartBegin` and `StartEnd`; only the BPF loop can also end by a read error
(`StartDies`).  The WinDivert constructors acquire nothing: `Start` opens the handles
(`StartOpen`), looks at `shutdown` (`StartCheck`) and then assigns the fields `Close`
reads (`StartAssign`).  Close could come between the last two and close nothing;
`ReturnedClean` holds because `runProxy` waits for the injector before anything can
call `Close`, which also makes the shutdown branch of `StartCheck` unreachable.

A BPF read error ends `Start` with nil while the proxy goes on accepting clients nobody
captures, although the comment at `injector_darwin.go:102` says the loop runs "until the
injector is closed"; `AcceptingMeansCapturing` excepts that case.

The commands that delete the iptables rules and the ip rule (`cleanupIptables`,
`cleanupMarkedRoute`, the error branch of `setupIptables`) may fail, for instance because
another process holds the xtables lock, and nobody looks at their result: in `SetupFail` and
`CloseStep` a rule of `MayStick` may stay, and `stuck` records it.  `ReturnedClean` says that
such rules are the only thing a run that returned can leave.

`signal.NotifyContext` is called after the branch for `-test`, so a signal shuts a normal
run down (`Signal`) and kills a matrix wherever it is (`Interrupt`).
`RulesLeftAccountedFor` lists the reasons for a rule that survives the process: a failed
deletion, a failed case the matrix did not wait for, or the current case of a killed matrix.

### Options

Each option carries where its value came from and the class of the value (usable,
empty, refused by validation, ...).  `FileLine` and `FileBadLine` read the file,
`ApplyOptionDefaults` copies it over the defaults, `RegisterFlags` and `ParseFlag`
are the `flag` package, `FlagsEnd` and `Start` the validation in `main`.  With `-test`
the validated variables are not what runs: every case of the matrix brings its own value of
seven options (`ProxyOptions`, source `matrix`) and the listening address is the test's, so
`Precedence` tells the two modes apart.

## 3. Runs

| run | expects | what it shows |
|---|---|---|
| `Flow` | pass | the safety properties and the inductive invariant, with a Close at any time; every client is decided, injections and half-closed relays end, `Flow` implements `Session` |
| `FlowLostAck` | violation | an observed ACK can be recorded after its only reader looked |
| `FlowOutbound` | violation | a packet handled across the end of the injection is classified again: a second injection, or an abort by our own segment |
| `FlowEarlyAck` | violation | an ACK from before the fake can let data through |
| `Registry` | pass | three connections, two ports, both kinds of dialer: no mix-up, undisturbed connections found, finished ones forgotten |
| `RegistryReuse` | violation | a failed dial can unregister the connection that got its port |
| `RegistryRebind` | violation | rebinding can store a finished connection for good, which hides a later one |
| `WrongSeq` | pass | segmentation, wrap-around and the ring interval |
| `Fragment` | pass | parser bounds and termination; the server gets the client's bytes up to a write that fails; `Fragment` implements `ByteStream` |
| `Proxy` | pass | clean-up with deletions that may fail, shutdown and the end of the matrix, for normal runs and the matrix with a signal at any time, all five backends |
| `Options` | pass | precedence and validation, in a normal run and with `-test` |
| `OptionsInjector` | violation | `injector` in the config file has no effect |

Each violation is a finding in `PROJECT.json` with the sentence of the repository it
contradicts.  The races of `Flow` need two or three steps of another goroutine between two
adjacent loads, those of `Registry` a port given out again in a window of a few
instructions, so a test hardly meets them.  None of the findings breaks
the order fake before data: a second injection is harmless to it, because the first
one already completed, and that is part of what is proved.

**Bounds.**
- `Flow`: a sequence space of two numbers with the kernel's first number last, so
  SYN + 1 wraps; every packet may carry any number.  `MaxPackets` 6 lets the loop
  handle SYN, SYN-ACK, third ACK, its retransmission and two inbound packets, which
  is one more than any of the races needs.  Two repetitions of one segment; the
  proofs cover all numbers.  `PassPacket` is not bounded.  A capture that sees copies
  lets the kernel establish the connection at any time and hands back our own
  segments, so its behaviours include those of a capture that holds packets.
- `Registry`: with three connections and two ports a port is given out up to three
  times while another connection is open; one configured and one observed address.
  Connections and ports are symmetric.
- `WrongSeq`: a ring of ten numbers, a window of four and payloads up to six, so that
  payload and window never meet around the ring, as in the code, where both are
  far below 2^31; five identifications, so the 16-bit counter wraps inside a fake.
  The MTUs cover unknown, below the header, below the minimum and usable ones.
  The server's number is the last of the ring, so that its successor wraps.
- `Fragment`: records up to 24 bytes with the 34 fixed bytes of the hello shortened
  to one (they are skipped as a block), which leaves room for names of up to four
  bytes: longer than one chunk and longer than two.  The relay reads up to `Extra` bytes
  behind the record, in one or more reads.
- `Proxy`: two cases are enough for a failed case to overlap the next one.  `MayStick` is
  the ip rule, the one rule that `ensureMarkedRoute`, the error branches and `Close` all
  delete; the three rules are treated alike, and the proofs cover every `MayStick`.
- `Options`: two lines and two flags let every option be set by file, by flag and by
  both, beside another one.

**Fairness.** Weak fairness of the handler, the loop and the injection: the Go scheduler
runs every runnable goroutine, and each wait has a deadline (10 s for the dial, the ACK
timeout, 10 s for reading the ClientHello).  A relay whose source was closed here
returns; a relay whose endpoints are open need not, and nothing obliges the network to
deliver a packet.  In `Proxy` the process does not stop while a goroutine can take a
step; since no step leads back to an earlier state, that gives each goroutine its turn
(15 s and 30 s limits in the matrix, 100 ms read timeouts after which the polling loops
look at their context, a closed handle that fails WinDivert's `Recv`); a signal or a
death of the loop need not happen.  `Registry` states safety only.

`CHECK_DEADLOCK` is left on everywhere; each module has one explicit stuttering step
for its end states (`Terminated`, `Ended`, `Exited`).

## 4. Proofs

Every invariant the passing runs check is also a theorem, and so are both refinements
(of `Session` its safety part).  The theorems hold for all values of the constants, from
the assumption each module states about its constants and nothing else: `FlowAssumption`,
`RegistryAssumption`, `ProxyAssumption`, `OptionsAssumption`, `FragmentAssumption`,
`WrongSeqAssumption`.

| module | for every | theorem | property |
|---|---|---|---|
| `FlowProofs` | sequence space, repeat and segment count, packet bound, backend | `Invariance`, `TypeCorrect` | `Inv`, `TypeOK` |
| | | `ForwardOnlyAfterFake`, `ForwardOnlyAfterAck` | `RealAfterFake`, `RealAfterAck` |
| | | `InjectorsBounded`, `SynSeqRaceFree` | `OneInjectorAtATime`, `NoSynSeqRace` |
| | | `ChannelLargeEnough`, `LateSegmentsBounded` | `NoSignalDropped`, `AtMostOneLateSegment` |
| | | `FirstInjectionHarmless` | `OnlySecondInjectionDisturbsRelay` |
| | | `ReleasedAtReturn` | `NothingLeftBehind` |
| | | `FlowImplementsSession` | safety part of `Session` |
| `RegistryProofs` | set of connections, ports and addresses, both kinds of dialer | `RegistryTypeCorrect` | `TypeOK` |
| | | `PacketsNotMixedUp` | `NotHandledAsAnother` |
| | | `CleanPortFound` | `UndisturbedFound` |
| | | `FinishedForgotten` | `DoneForgotten` |
| `ProxyProofs` | set of backends, number of cases, rules that may not be deleted | `ProxyTypeCorrect` | `TypeOK` |
| | | `ProxyReturnsClean` | `ReturnedClean` |
| | | `LeftRulesAccountedFor` | `RulesLeftAccountedFor` |
| | | `CapturesWhileAccepting` | `AcceptingMeansCapturing` |
| `OptionsProofs` | number of lines and flags | `OptionsTypeCorrect` | `TypeOK` |
| | | `FlagOverFileOverDefault` | `Precedence` |
| | | `StartedWithValidOptions` | `OnlyValidRuns` |
| `FragmentProofs` | record size, `-sni-chunk`, content of the record | `FragmentTypeCorrect` | `TypeOK` |
| | | `ParserNeverPanics`, `ParserTerminates` | `NoPanic`, `ParserAdvances` |
| | | `NameLiesInRecord`, `NameNeverWhole` | `NameWhereFound`, `NameInChunks` |
| | | `ServerReceivesPrefix`, `AllBytesForwarded` | `ServerGetsPrefix`, `NothingKeptBack` (a consequence of the refinement, stated in `FragmentProofs`) |
| | | `FragmentImplementsByteStream` | `ImplementsByteStream` |
| `WrongSeqProofs` | modulus, window, MTU, header and payload size | `WrongSeqTypeCorrect` | `TypeOK` |
| | | `FakeNeverInWindow` | `OutsideWindow` |
| | | `FakeReassembles` | `Reassembles` |
| | | `SegmentsFitTheMTU` | `DerivedSizeFits` |
| | | `StrictTestIsExact` | `StrictIsRingInterval` |

In every proof module an inductive invariant `Inv` is proved first (`Invariance`,
`RegistryInvariant`, ...), each of its parts in a lemma with one step per action.  `Inv` of `Flow` is
checked by its run; those of the other modules are defined in the proof modules, and TLC
agrees with them on the instances of the runs.

**Flow.**  `RealAfterFake` is not inductive: the handler only knows that it
received a message.  `FakeInv` carries the fact backwards along the chain relay,
decision, message in the channel, `FakeSent`, last segment.  The chain would break if
a second injection could clear or contradict `FakeSent`; `InjectorInv` bounds
injections: at a point where the loop may start one, no injection runs and at most
one ran before, and after an injection ended either `FakeSent` is set or monitoring is
over.  `LoopInv` (a packet being handled means `monitor`) is what the mutex gives.
`AckInv` is the same chain for the server's ACK.  `StopInv` gives the channel bound:
while monitoring the channel is empty, because every sender clears `Monitor` in the
same critical section; after that only an injection that had already passed its test
can add one more message.  `HandlerInv` ties sockets and table to the handler's
position.

**Registry.**  That a packet is not handled for another connection has a different
reason on each platform.  With `net.Dialer` stale entries exist, but an open socket that
has registered owns every entry of its port, because registering overwrites
(`DialerOwns`), and no address ever differs from the registered one (`DialerAddress`).
On Windows entries of finished connections can be stored again, but a monitored
connection still has its socket (`WinsockInv`), and the kernel gives a port to one open
socket (`PortInv`).  `TypeOK` says an entry carries the port of its connection; it is
kept by a rebinding only because of `LoopInv`.  `UndisturbedFound` needs that a port
given out clean stays its connection's alone, also in the loop (`AloneOwns`), and that
its index entry is missing only inside a rebinding, which holds `conn.Mu`
(`AloneIndexed`).

**Proxy.**  `ReturnedClean` compares three lists: what the constructor acquires, what
each of its error branches undoes, and what `Close` releases.  `HeldAtMost` bounds what
a run holds by what the next error branch, or the rest of `Close`, will release, and by the
rules whose deletion failed, at every step; `CloseInv` says who may be inside the `sync.Once` and that a caller that returned
saw its last step; `StartInv` that nothing calls `Close` before the injector is ready,
without which WinDivert handles could be opened behind `Close`'s back.  `HeldAtLeast` is
the other direction, for `AcceptingMeansCapturing`.  `MainInv` says that a run that is over
for `main` or the matrix has returned or has failed, and that a run not yet started holds
nothing, which leaves the three reasons of `RulesLeftAccountedFor`.

**Options.**  The same value passes through the file's record, the defaults, the flag
registration and the flag parser.  `SourcesInv` says what each source may hold,
`PrecedenceInv` that from the defaults on every variable but `injector` equals the
value precedence demands (the exception is a finding), `CheckedInv` that `main` runs
every test before it starts.  The last step, to the options of a case with `-test`, is
`StartedStep`.

**Fragment.**  `ParserInv` relates the position in each nested slice to the length of
that slice and to the bytes passed over; it is why no read is out of range and why three
translations of positions end inside the record (`NameInv`).  `StreamInv` says that the
pieces written and those still to be written are one chain without gap from the client's
first byte.  That `SplitClientHelloRecord` produces such a chain, for every name and every
chunk size, is `SplitChain`; it rests on the rounding of the number of chunks
(`PiecesNeeded`).  A chain ends behind its beginning by induction on its length
(`ChainEnd`), so copying cannot begin early.  `AllBytesForwarded` says what follows for the
bytes taken: all are written whenever the relay is about to read and when it has seen the
client's end, and while it writes only its last read is outstanding; after a failed write
it promises nothing.

**WrongSeq.**  `SegmentInv` gives the bytes of FakeData each segment carries; the rest is
arithmetic modulo the size of the sequence space (`ModAdd`, `ModBelow`, `ModWithin`,
`RingInterval`).  `SentBefore` is a recursive function; `SentBeforeValue` computes it by
exhibiting a function that satisfies the recursion and showing by induction that it is
the only one.  The two inductions use `InductionUpTo` of `NumberLemmas`, which states
induction for a set instead of a predicate and follows from the well-foundedness of the
naturals.

**Only model-checked:** liveness (`EveryClientDecided`, `InjectionEnds`, `HalfCloseEnds`,
`ShutdownCompletes`, `LoopEnds`, `MatrixFinishes`) and the fairness part of
`ImplementsSession`: they need `ENABLED`, which the prover does not reason about.
The violations are refutations by TLC and need no proof.

## 5. Not modelled

- Link-layer headers of the passive backends: `captureLinkHeader` keeps the first
  header for the life of the injector and `sendRawPacket` prepends it.  A send without
  a header is a send error, which is modelled; a next hop that changes is not.
- The walk over a BPF read buffer (`iterBPFBuffer`): the kernel writes the lengths.
- Several upstream addresses: the Linux and macOS backends take the first one only.
- Packet bytes, checksums, ClientHello templates, uTLS, BPF programs and filter
  texts, certificate pools and HTTPS probes: data without control that a property
  here would depend on.
- `segmentMSS` falls back to 1000 bytes when the MTU leaves less than 128 for the
  payload, so `DerivedSizeFits` speaks of the other MTUs only; no usual link is that
  small.
- Rules of one case deleted by another: every injector deletes the rules with its own
  queue number and mark, drawn at random.
- Real time: delays are steps that take as long as they take.

## 6. Plan

Done: all modules of section 2, the proofs of every invariant and of both refinements.
Left: action properties on top of the invariants (`Monitor` is never set again, an entry
is deleted only by its handler or by a rebinding), and the ranking arguments behind the
liveness properties as far as they are statements about single steps.
