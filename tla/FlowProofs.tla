----------------------------- MODULE FlowProofs -----------------------------
(***************************************************************************)
(* Proofs about Flow for every number of repetitions, segments and packets *)
(* and every sequence space.  The invariant Inv is preserved part by part, *)
(* one step per action; the properties are consequences of it.             *)
(***************************************************************************)
EXTENDS FlowInv, TLAPS

\* Every packet the handlers see carries 32-bit sequence and acknowledgment numbers.
LEMMA PacketFields ==
  ASSUME NEW p \in Packets
  PROVE  p.seq \in Seqs /\ p.ack \in Seqs
BY FlowAssumption DEF Packets, OutPackets, InPackets, Seqs

\* At least one segment is sent: the repeat count is clamped to 1 and the fake
\* ClientHello is not empty.
LEMMA FakeTotalPositive == FakeTotal \in Nat \ {0}
BY FlowAssumption DEF FakeTotal, Repeat

\* A non-blocking send on T2aChan with at most one signal in it is not dropped.
LEMMA SendHasRoom ==
  ASSUME ChannelOK, Len(t2a) <= 1, ~dropped, NEW msg \in Signals, SendT2a(msg)
  PROVE  Len(t2a') = Len(t2a) + 1 /\ ~dropped'
<1>1. Len(t2a) < T2aCap /\ ~(Len(t2a) >= T2aCap)
  BY DEF T2aCap
<1>2. Len(t2a') = Len(t2a) + 1
  BY <1>1 DEF SendT2a, ChannelOK
<1>3. ~dropped'
  BY <1>1, Zenon DEF SendT2a
<1>4. QED
  BY <1>2, <1>3

\* A handler that receives fake_data_ack_recv took it from the channel.
LEMMA HeadSignalled ==
  ASSUME ChannelOK, t2a # <<>>, Head(t2a) = "fake_data_ack_recv"
  PROVE  AckSignalled
BY DEF AckSignalled, ChannelOK

\* Every step keeps the Boolean variables Boolean.
LEMMA FlagsStep ==
  ASSUME FlagsOK, [Next]_vars
  PROVE  FlagsOK'
<1> USE DEF vars, connVars, envVars, hVars, lVars, iVars, histVars, FlagsOK
<1>1. CASE SetupFail
  BY <1>1, Zenon DEF SetupFail
<1>2. CASE RegisterConn
  BY <1>2, Zenon DEF RegisterConn
<1>3. CASE DialFail
  BY <1>3, Zenon DEF DialFail, StopMonitoring, MuFree
<1>4. CASE DialOk
  BY <1>4, Zenon DEF DialOk
<1>5. CASE SetSock
  BY <1>5, Zenon DEF SetSock, MuFree
<1>6. CASE RecvSignal
  BY <1>6, Zenon DEF RecvSignal
<1>7. CASE AckTimeout
  BY <1>7, Zenon DEF AckTimeout
<1>8. CASE HandlerStop
  BY <1>8, Zenon DEF HandlerStop, StopMonitoring, MuFree
<1>9. CASE HandlerClose
  BY <1>9, Zenon DEF HandlerClose, ClosePair
<1>10. CASE ForwardFragments
  BY <1>10, Zenon DEF ForwardFragments, SocketsOpen
<1>11. CASE ForwardFail
  BY <1>11, Zenon DEF ForwardFail
<1>12. CASE StartRelay
  BY <1>12, Zenon DEF StartRelay
<1>13. CASE RelayFirstDone
  BY <1>13, Zenon DEF RelayFirstDone, ClosePair
<1>14. CASE RelayLastDone
  BY <1>14, Zenon DEF RelayLastDone
<1>15. CASE KernelEstablish
  BY <1>15, Zenon DEF KernelEstablish
<1>16. CASE CloseInjector
  BY <1>16, Zenon DEF CloseInjector
<1>17. CASE RelayCopy
  BY <1>17, Zenon DEF RelayCopy, SocketsOpen
<1>18. ASSUME lpc # "idle", OnUnexpectedPacket PROVE FlagsOK'
  BY <1>18, Zenon DEF OnUnexpectedPacket, AbortUnexpectedCloseLocked, SendT2a, Verdict
<1>19. CASE InUnexpected
  BY <1>19, <1>18 DEF InUnexpected
<1>20. CASE InSynAck
  <2>1. CASE SynAckOK
    BY <1>20, <2>1, Zenon DEF InSynAck, Verdict
  <2>2. CASE ~SynAckOK
    BY <1>20, <2>2, <1>18 DEF InSynAck
  <2>3. QED
    BY <2>1, <2>2
<1>21. CASE InLoadProgress
  BY <1>21, Zenon DEF InLoadProgress, SeeAck
<1>22. CASE InLoadSent
  BY <1>22, Zenon DEF InLoadSent
<1>23. CASE InStore
  BY <1>23, Zenon DEF InStore, Verdict
<1>24. CASE InSignal
  <2>1. CASE PostFakeAckOK
    BY <1>24, <2>1, Zenon DEF InSignal, SendT2a, Verdict
  <2>2. CASE ~PostFakeAckOK
    BY <1>24, <2>2, <1>18 DEF InSignal
  <2>3. QED
    BY <2>1, <2>2
<1>25. CASE OutLoadSent
  BY <1>25, Zenon DEF OutLoadSent, Verdict
<1>26. CASE OutLoadProgress
  BY <1>26, Zenon DEF OutLoadProgress, Verdict
<1>27. CASE OutSyn
  <2>1. CASE SynOK
    BY <1>27, <2>1, Zenon DEF OutSyn, Verdict
  <2>2. CASE ~SynOK
    BY <1>27, <2>2, <1>18 DEF OutSyn
  <2>3. QED
    BY <2>1, <2>2
<1>28. CASE OutAck
  <2>1. CASE ThirdAckOK
    BY <1>28, <2>1, Zenon DEF OutAck, Verdict
  <2>2. CASE ~ThirdAckOK
    BY <1>28, <2>2, <1>18 DEF OutAck
  <2>3. QED
    BY <2>1, <2>2
<1>29. CASE OutUnexpected
  BY <1>29, <1>18 DEF OutUnexpected
<1>30. CASE InjCheck
  BY <1>30, Zenon DEF InjCheck, MuFree
<1>31. CASE InjSend
  BY <1>31, Zenon DEF InjSend
<1>32. CASE InjSendFail
  BY <1>32, Zenon DEF InjSendFail
<1>33. CASE InjAbort
  BY <1>33, Zenon DEF InjAbort, MuFree, AbortUnexpectedCloseLocked, SendT2a
<1>34. CASE InjStoreSent
  BY <1>34, Zenon DEF InjStoreSent
<1>35. CASE InjLoadAck
  BY <1>35, Zenon DEF InjLoadAck
<1>36. CASE InjSignal
  BY <1>36, Zenon DEF InjSignal, MuFree, SendT2a
<1>37. CASE InjEnd
  BY <1>37, Zenon DEF InjEnd
<1>38. ASSUME NEW d \in Directions, RelayEof(d) PROVE FlagsOK'
  BY <1>38, Zenon DEF RelayEof
<1>39. ASSUME NEW p \in Packets, ProcessPacket(p) PROVE FlagsOK'
  BY <1>39, Zenon DEF ProcessPacket
<1>40. ASSUME NEW p \in Packets, PassPacket(p) PROVE FlagsOK'
  BY <1>40, Zenon DEF PassPacket
<1>41. CASE UNCHANGED vars
  BY <1>41, Zenon
<1>42. QED
  BY <1>1, <1>2, <1>3, <1>4, <1>5, <1>6, <1>7, <1>8, <1>9, <1>10, <1>11, <1>12, <1>13,
     <1>14, <1>15, <1>16, <1>17, <1>18, <1>19, <1>20, <1>21, <1>22, <1>23, <1>24, <1>25,
     <1>26, <1>27, <1>28, <1>29, <1>30, <1>31, <1>32, <1>33, <1>34, <1>35, <1>36, <1>37,
     <1>38, <1>39, <1>40, <1>41 DEF Next, HandlerStep, LoopStep, InjectorStep, Terminated

\* Every step keeps program counters, packet, counters and sequence numbers typed.
LEMMA StateStep ==
  ASSUME StateOK, [Next]_vars
  PROVE  StateOK'
<1> USE DEF vars, connVars, envVars, hVars, lVars, iVars, histVars, StateOK, Directions
<1>1. CASE SetupFail
  BY <1>1 DEF SetupFail
<1>2. CASE RegisterConn
  BY <1>2 DEF RegisterConn
<1>3. CASE DialFail
  BY <1>3 DEF DialFail, StopMonitoring, MuFree
<1>4. CASE DialOk
  BY <1>4 DEF DialOk
<1>5. CASE SetSock
  BY <1>5 DEF SetSock, MuFree
<1>6. CASE RecvSignal
  BY <1>6 DEF RecvSignal
<1>7. CASE AckTimeout
  BY <1>7 DEF AckTimeout
<1>8. CASE HandlerStop
  BY <1>8 DEF HandlerStop, StopMonitoring, MuFree
<1>9. CASE HandlerClose
  BY <1>9 DEF HandlerClose, ClosePair
<1>10. CASE ForwardFragments
  BY <1>10 DEF ForwardFragments, SocketsOpen
<1>11. CASE ForwardFail
  BY <1>11 DEF ForwardFail
<1>12. CASE StartRelay
  BY <1>12 DEF StartRelay
<1>13. CASE RelayFirstDone
  BY <1>13 DEF RelayFirstDone, ClosePair
<1>14. CASE RelayLastDone
  BY <1>14 DEF RelayLastDone
<1>15. CASE KernelEstablish
  BY <1>15 DEF KernelEstablish
<1>16. CASE CloseInjector
  BY <1>16 DEF CloseInjector
<1>17. CASE RelayCopy
  BY <1>17 DEF RelayCopy, SocketsOpen
<1>18. ASSUME lpc # "idle", OnUnexpectedPacket PROVE StateOK'
  BY <1>18 DEF OnUnexpectedPacket, AbortUnexpectedCloseLocked, Verdict, KernelAfter
<1>19. CASE InUnexpected
  BY <1>19, <1>18 DEF InUnexpected
<1>20. CASE InSynAck
  <2>1. CASE SynAckOK
    BY <1>20, <2>1, PacketFields DEF InSynAck, Verdict, KernelAfter
  <2>2. CASE ~SynAckOK
    BY <1>20, <2>2, <1>18 DEF InSynAck
  <2>3. QED
    BY <2>1, <2>2
<1>21. CASE InLoadProgress
  BY <1>21 DEF InLoadProgress, SeeAck
<1>22. CASE InLoadSent
  BY <1>22 DEF InLoadSent
<1>23. CASE InStore
  BY <1>23 DEF InStore, Verdict, KernelAfter
<1>24. CASE InSignal
  <2>1. CASE PostFakeAckOK
    BY <1>24, <2>1 DEF InSignal, Verdict, KernelAfter
  <2>2. CASE ~PostFakeAckOK
    BY <1>24, <2>2, <1>18 DEF InSignal
  <2>3. QED
    BY <2>1, <2>2
<1>25. CASE OutLoadSent
  BY <1>25 DEF OutLoadSent, Verdict, KernelAfter
<1>26. CASE OutLoadProgress
  BY <1>26 DEF OutLoadProgress, Verdict, KernelAfter
<1>27. CASE OutSyn
  <2>1. CASE SynOK
    BY <1>27, <2>1, PacketFields DEF OutSyn, Verdict, KernelAfter
  <2>2. CASE ~SynOK
    BY <1>27, <2>2, <1>18 DEF OutSyn
  <2>3. QED
    BY <2>1, <2>2
<1>28. CASE OutAck
  <2>1. CASE ThirdAckOK
    <3>1. /\ UNCHANGED <<synSeq, synAckSeq, outSock, inSock, hpc, relays, fakes, late, ackSeen>>
          /\ lpc' = "idle" /\ pkt' = NoPacket /\ npkts' = npkts
          /\ ipc' = "start" /\ sent' = 0 /\ starts' = starts + 1
      BY <1>28, <2>1 DEF OutAck, Verdict
    <3>2. kern' \in {"idle", "connecting", "established"}
      BY <1>28, <2>1 DEF OutAck, Verdict, KernelAfter
    <3>3. QED
      BY <3>1, <3>2
  <2>2. CASE ~ThirdAckOK
    BY <1>28, <2>2, <1>18 DEF OutAck
  <2>3. QED
    BY <2>1, <2>2
<1>29. CASE OutUnexpected
  BY <1>29, <1>18 DEF OutUnexpected
<1>30. CASE InjCheck
  BY <1>30 DEF InjCheck, MuFree
<1>31. CASE InjSend
  BY <1>31 DEF InjSend
<1>32. CASE InjSendFail
  BY <1>32 DEF InjSendFail
<1>33. CASE InjAbort
  BY <1>33 DEF InjAbort, MuFree, AbortUnexpectedCloseLocked
<1>34. CASE InjStoreSent
  BY <1>34 DEF InjStoreSent
<1>35. CASE InjLoadAck
  BY <1>35 DEF InjLoadAck
<1>36. CASE InjSignal
  BY <1>36 DEF InjSignal, MuFree
<1>37. CASE InjEnd
  BY <1>37 DEF InjEnd
<1>38. ASSUME NEW d \in Directions, RelayEof(d) PROVE StateOK'
  BY <1>38 DEF RelayEof
<1>39. ASSUME NEW p \in Packets, ProcessPacket(p) PROVE StateOK'
  BY <1>39 DEF ProcessPacket
<1>40. ASSUME NEW p \in Packets, PassPacket(p) PROVE StateOK'
  BY <1>40 DEF PassPacket, KernelAfter
<1>41. CASE UNCHANGED vars
  BY <1>41
<1>42. QED
  BY <1>1, <1>2, <1>3, <1>4, <1>5, <1>6, <1>7, <1>8, <1>9, <1>10, <1>11, <1>12, <1>13,
     <1>14, <1>15, <1>16, <1>17, <1>18, <1>19, <1>20, <1>21, <1>22, <1>23, <1>24, <1>25,
     <1>26, <1>27, <1>28, <1>29, <1>30, <1>31, <1>32, <1>33, <1>34, <1>35, <1>36, <1>37,
     <1>38, <1>39, <1>40, <1>41 DEF Next, HandlerStep, LoopStep, InjectorStep, Terminated

\* Every step keeps T2aChan a sequence of signals within its capacity.
LEMMA ChannelStep ==
  ASSUME ChannelOK, [Next]_vars
  PROVE  ChannelOK'
<1> USE DEF vars, connVars, envVars, hVars, lVars, iVars, histVars, ChannelOK, Signals,
    T2aCap
<1>1. CASE SetupFail
  BY <1>1 DEF SetupFail
<1>2. CASE RegisterConn
  BY <1>2 DEF RegisterConn
<1>3. CASE DialFail
  BY <1>3 DEF DialFail, StopMonitoring, MuFree
<1>4. CASE DialOk
  BY <1>4 DEF DialOk
<1>5. CASE SetSock
  BY <1>5 DEF SetSock, MuFree
<1>6. CASE RecvSignal
  BY <1>6 DEF RecvSignal
<1>7. CASE AckTimeout
  BY <1>7 DEF AckTimeout
<1>8. CASE HandlerStop
  BY <1>8 DEF HandlerStop, StopMonitoring, MuFree
<1>9. CASE HandlerClose
  BY <1>9 DEF HandlerClose, ClosePair
<1>10. CASE ForwardFragments
  BY <1>10 DEF ForwardFragments, SocketsOpen
<1>11. CASE ForwardFail
  BY <1>11 DEF ForwardFail
<1>12. CASE StartRelay
  BY <1>12 DEF StartRelay
<1>13. CASE RelayFirstDone
  BY <1>13 DEF RelayFirstDone, ClosePair
<1>14. CASE RelayLastDone
  BY <1>14 DEF RelayLastDone
<1>15. CASE KernelEstablish
  BY <1>15 DEF KernelEstablish
<1>16. CASE CloseInjector
  BY <1>16 DEF CloseInjector
<1>17. CASE RelayCopy
  BY <1>17 DEF RelayCopy, SocketsOpen
<1>18. ASSUME lpc # "idle", OnUnexpectedPacket PROVE ChannelOK'
  BY <1>18 DEF OnUnexpectedPacket, AbortUnexpectedCloseLocked, SendT2a, Verdict
<1>19. CASE InUnexpected
  BY <1>19, <1>18 DEF InUnexpected
<1>20. CASE InSynAck
  <2>1. CASE SynAckOK
    BY <1>20, <2>1 DEF InSynAck, Verdict
  <2>2. CASE ~SynAckOK
    BY <1>20, <2>2, <1>18 DEF InSynAck
  <2>3. QED
    BY <2>1, <2>2
<1>21. CASE InLoadProgress
  BY <1>21 DEF InLoadProgress, SeeAck
<1>22. CASE InLoadSent
  BY <1>22 DEF InLoadSent
<1>23. CASE InStore
  BY <1>23 DEF InStore, Verdict
<1>24. CASE InSignal
  <2>1. CASE PostFakeAckOK
    BY <1>24, <2>1 DEF InSignal, SendT2a, Verdict
  <2>2. CASE ~PostFakeAckOK
    BY <1>24, <2>2, <1>18 DEF InSignal
  <2>3. QED
    BY <2>1, <2>2
<1>25. CASE OutLoadSent
  BY <1>25 DEF OutLoadSent, Verdict
<1>26. CASE OutLoadProgress
  BY <1>26 DEF OutLoadProgress, Verdict
<1>27. CASE OutSyn
  <2>1. CASE SynOK
    BY <1>27, <2>1 DEF OutSyn, Verdict
  <2>2. CASE ~SynOK
    BY <1>27, <2>2, <1>18 DEF OutSyn
  <2>3. QED
    BY <2>1, <2>2
<1>28. CASE OutAck
  <2>1. CASE ThirdAckOK
    BY <1>28, <2>1 DEF OutAck, Verdict
  <2>2. CASE ~ThirdAckOK
    BY <1>28, <2>2, <1>18 DEF OutAck
  <2>3. QED
    BY <2>1, <2>2
<1>29. CASE OutUnexpected
  BY <1>29, <1>18 DEF OutUnexpected
<1>30. CASE InjCheck
  BY <1>30 DEF InjCheck, MuFree
<1>31. CASE InjSend
  BY <1>31 DEF InjSend
<1>32. CASE InjSendFail
  BY <1>32 DEF InjSendFail
<1>33. CASE InjAbort
  BY <1>33 DEF InjAbort, MuFree, AbortUnexpectedCloseLocked, SendT2a
<1>34. CASE InjStoreSent
  BY <1>34 DEF InjStoreSent
<1>35. CASE InjLoadAck
  BY <1>35 DEF InjLoadAck
<1>36. CASE InjSignal
  BY <1>36 DEF InjSignal, MuFree, SendT2a
<1>37. CASE InjEnd
  BY <1>37 DEF InjEnd
<1>38. ASSUME NEW d \in Directions, RelayEof(d) PROVE ChannelOK'
  BY <1>38 DEF RelayEof
<1>39. ASSUME NEW p \in Packets, ProcessPacket(p) PROVE ChannelOK'
  BY <1>39 DEF ProcessPacket
<1>40. ASSUME NEW p \in Packets, PassPacket(p) PROVE ChannelOK'
  BY <1>40 DEF PassPacket
<1>41. CASE UNCHANGED vars
  BY <1>41
<1>42. QED
  BY <1>1, <1>2, <1>3, <1>4, <1>5, <1>6, <1>7, <1>8, <1>9, <1>10, <1>11, <1>12, <1>13,
     <1>14, <1>15, <1>16, <1>17, <1>18, <1>19, <1>20, <1>21, <1>22, <1>23, <1>24, <1>25,
     <1>26, <1>27, <1>28, <1>29, <1>30, <1>31, <1>32, <1>33, <1>34, <1>35, <1>36, <1>37,
     <1>38, <1>39, <1>40, <1>41 DEF Next, HandlerStep, LoopStep, InjectorStep, Terminated

\* LoopInv is preserved: only the holder of conn.Mu clears Monitor.
LEMMA LoopStepInv ==
  ASSUME HandlerInv, LoopInv, InjectorInv, [Next]_vars
  PROVE  LoopInv'
<1> USE DEF vars, connVars, envVars, hVars, lVars, iVars, histVars, LoopInv, HandlerInv
<1>1. CASE SetupFail
  BY <1>1 DEF SetupFail
<1>2. CASE RegisterConn
  BY <1>2 DEF RegisterConn
<1>3. CASE DialFail
  BY <1>3 DEF DialFail, StopMonitoring, MuFree
<1>4. CASE DialOk
  BY <1>4 DEF DialOk
<1>5. CASE SetSock
  BY <1>5 DEF SetSock, MuFree
<1>6. CASE RecvSignal
  BY <1>6 DEF RecvSignal
<1>7. CASE AckTimeout
  BY <1>7 DEF AckTimeout
<1>8. CASE HandlerStop
  BY <1>8 DEF HandlerStop, StopMonitoring, MuFree
<1>9. CASE HandlerClose
  BY <1>9 DEF HandlerClose, ClosePair
<1>10. CASE ForwardFragments
  BY <1>10 DEF ForwardFragments, SocketsOpen
<1>11. CASE ForwardFail
  BY <1>11 DEF ForwardFail
<1>12. CASE StartRelay
  BY <1>12 DEF StartRelay
<1>13. CASE RelayFirstDone
  BY <1>13 DEF RelayFirstDone, ClosePair
<1>14. CASE RelayLastDone
  BY <1>14 DEF RelayLastDone
<1>15. CASE KernelEstablish
  BY <1>15 DEF KernelEstablish
<1>16. CASE CloseInjector
  BY <1>16 DEF CloseInjector
<1>17. CASE RelayCopy
  BY <1>17 DEF RelayCopy, SocketsOpen
<1>18. ASSUME lpc # "idle", OnUnexpectedPacket PROVE LoopInv'
  BY <1>18 DEF OnUnexpectedPacket, AbortUnexpectedCloseLocked, Verdict
<1>19. CASE InUnexpected
  BY <1>19, <1>18 DEF InUnexpected
<1>20. CASE InSynAck
  <2>1. CASE SynAckOK
    BY <1>20, <2>1 DEF InSynAck, Verdict
  <2>2. CASE ~SynAckOK
    BY <1>20, <2>2, <1>18 DEF InSynAck
  <2>3. QED
    BY <2>1, <2>2
<1>21. CASE InLoadProgress
  BY <1>21 DEF InLoadProgress, SeeAck
<1>22. CASE InLoadSent
  BY <1>22 DEF InLoadSent
<1>23. CASE InStore
  BY <1>23 DEF InStore, Verdict
<1>24. CASE InSignal
  <2>1. CASE PostFakeAckOK
    BY <1>24, <2>1 DEF InSignal, Verdict
  <2>2. CASE ~PostFakeAckOK
    BY <1>24, <2>2, <1>18 DEF InSignal
  <2>3. QED
    BY <2>1, <2>2
<1>25. CASE OutLoadSent
  BY <1>25 DEF OutLoadSent, Verdict
<1>26. CASE OutLoadProgress
  BY <1>26 DEF OutLoadProgress, Verdict
<1>27. CASE OutSyn
  <2>1. CASE SynOK
    BY <1>27, <2>1 DEF OutSyn, Verdict
  <2>2. CASE ~SynOK
    BY <1>27, <2>2, <1>18 DEF OutSyn
  <2>3. QED
    BY <2>1, <2>2
<1>28. CASE OutAck
  <2>1. CASE ThirdAckOK
    BY <1>28, <2>1 DEF OutAck, Verdict
  <2>2. CASE ~ThirdAckOK
    BY <1>28, <2>2, <1>18 DEF OutAck
  <2>3. QED
    BY <2>1, <2>2
<1>29. CASE OutUnexpected
  BY <1>29, <1>18 DEF OutUnexpected
<1>30. CASE InjCheck
  BY <1>30 DEF InjCheck, MuFree
<1>31. CASE InjSend
  BY <1>31 DEF InjSend
<1>32. CASE InjSendFail
  BY <1>32 DEF InjSendFail
<1>33. CASE InjAbort
  BY <1>33 DEF InjAbort, MuFree, AbortUnexpectedCloseLocked
<1>34. CASE InjStoreSent
  BY <1>34 DEF InjStoreSent
<1>35. CASE InjLoadAck
  BY <1>35 DEF InjLoadAck
<1>36. CASE InjSignal
  BY <1>36 DEF InjSignal, MuFree
<1>37. CASE InjEnd
  BY <1>37 DEF InjEnd
<1>38. ASSUME NEW d \in Directions, RelayEof(d) PROVE LoopInv'
  BY <1>38 DEF RelayEof
<1>39. ASSUME NEW p \in Packets, ProcessPacket(p) PROVE LoopInv'
  BY <1>39 DEF ProcessPacket
<1>40. ASSUME NEW p \in Packets, PassPacket(p) PROVE LoopInv'
  BY <1>40 DEF PassPacket
<1>41. CASE UNCHANGED vars
  BY <1>41
<1>42. QED
  BY <1>1, <1>2, <1>3, <1>4, <1>5, <1>6, <1>7, <1>8, <1>9, <1>10, <1>11, <1>12, <1>13,
     <1>14, <1>15, <1>16, <1>17, <1>18, <1>19, <1>20, <1>21, <1>22, <1>23, <1>24, <1>25,
     <1>26, <1>27, <1>28, <1>29, <1>30, <1>31, <1>32, <1>33, <1>34, <1>35, <1>36, <1>37,
     <1>38, <1>39, <1>40, <1>41 DEF Next, HandlerStep, LoopStep, InjectorStep, Terminated

\* HandlerInv is preserved: sockets and table follow the handler's program counter.
LEMMA HandlerStepInv ==
  ASSUME StateOK, HandlerInv, LoopInv, [Next]_vars
  PROVE  HandlerInv'
<1> USE DEF vars, connVars, envVars, hVars, lVars, iVars, histVars, HandlerInv, LoopInv,
    Directions, Available
<1>1. CASE SetupFail
  BY <1>1 DEF SetupFail
<1>2. CASE RegisterConn
  BY <1>2 DEF RegisterConn
<1>3. CASE DialFail
  BY <1>3 DEF DialFail, StopMonitoring, MuFree
<1>4. CASE DialOk
  BY <1>4 DEF DialOk
<1>5. CASE SetSock
  BY <1>5 DEF SetSock, MuFree
<1>6. CASE RecvSignal
  BY <1>6 DEF RecvSignal
<1>7. CASE AckTimeout
  BY <1>7 DEF AckTimeout
<1>8. CASE HandlerStop
  BY <1>8 DEF HandlerStop, StopMonitoring, MuFree
<1>9. CASE HandlerClose
  BY <1>9 DEF HandlerClose, ClosePair
<1>10. CASE ForwardFragments
  BY <1>10 DEF ForwardFragments, SocketsOpen
<1>11. CASE ForwardFail
  BY <1>11 DEF ForwardFail
<1>12. CASE StartRelay
  BY <1>12 DEF StartRelay
<1>13. CASE RelayFirstDone
  BY <1>13 DEF RelayFirstDone, ClosePair
<1>14. CASE RelayLastDone
  BY <1>14 DEF RelayLastDone
<1>15. CASE KernelEstablish
  BY <1>15 DEF KernelEstablish
<1>16. CASE CloseInjector
  BY <1>16 DEF CloseInjector
<1>17. CASE RelayCopy
  BY <1>17 DEF RelayCopy, SocketsOpen
<1>18. ASSUME lpc # "idle", OnUnexpectedPacket PROVE HandlerInv'
  BY <1>18 DEF OnUnexpectedPacket, AbortUnexpectedCloseLocked, Verdict, KernelAfter
<1>19. CASE InUnexpected
  BY <1>19, <1>18 DEF InUnexpected
<1>20. CASE InSynAck
  <2>1. CASE SynAckOK
    BY <1>20, <2>1 DEF InSynAck, Verdict, KernelAfter
  <2>2. CASE ~SynAckOK
    BY <1>20, <2>2, <1>18 DEF InSynAck
  <2>3. QED
    BY <2>1, <2>2
<1>21. CASE InLoadProgress
  BY <1>21 DEF InLoadProgress, SeeAck
<1>22. CASE InLoadSent
  BY <1>22 DEF InLoadSent
<1>23. CASE InStore
  BY <1>23 DEF InStore, Verdict, KernelAfter
<1>24. CASE InSignal
  <2>1. CASE PostFakeAckOK
    BY <1>24, <2>1 DEF InSignal, Verdict, KernelAfter
  <2>2. CASE ~PostFakeAckOK
    BY <1>24, <2>2, <1>18 DEF InSignal
  <2>3. QED
    BY <2>1, <2>2
<1>25. CASE OutLoadSent
  BY <1>25 DEF OutLoadSent, Verdict, KernelAfter
<1>26. CASE OutLoadProgress
  BY <1>26 DEF OutLoadProgress, Verdict, KernelAfter
<1>27. CASE OutSyn
  <2>1. CASE SynOK
    BY <1>27, <2>1 DEF OutSyn, Verdict, KernelAfter
  <2>2. CASE ~SynOK
    BY <1>27, <2>2, <1>18 DEF OutSyn
  <2>3. QED
    BY <2>1, <2>2
<1>28. CASE OutAck
  <2>1. CASE ThirdAckOK
    BY <1>28, <2>1 DEF OutAck, Verdict, KernelAfter
  <2>2. CASE ~ThirdAckOK
    BY <1>28, <2>2, <1>18 DEF OutAck
  <2>3. QED
    BY <2>1, <2>2
<1>29. CASE OutUnexpected
  BY <1>29, <1>18 DEF OutUnexpected
<1>30. CASE InjCheck
  BY <1>30 DEF InjCheck, MuFree
<1>31. CASE InjSend
  BY <1>31 DEF InjSend
<1>32. CASE InjSendFail
  BY <1>32 DEF InjSendFail
<1>33. CASE InjAbort
  BY <1>33 DEF InjAbort, MuFree, AbortUnexpectedCloseLocked
<1>34. CASE InjStoreSent
  BY <1>34 DEF InjStoreSent
<1>35. CASE InjLoadAck
  BY <1>35 DEF InjLoadAck
<1>36. CASE InjSignal
  BY <1>36 DEF InjSignal, MuFree
<1>37. CASE InjEnd
  BY <1>37 DEF InjEnd
<1>38. ASSUME NEW d \in Directions, RelayEof(d) PROVE HandlerInv'
  BY <1>38 DEF RelayEof
<1>39. ASSUME NEW p \in Packets, ProcessPacket(p) PROVE HandlerInv'
  BY <1>39 DEF ProcessPacket
<1>40. ASSUME NEW p \in Packets, PassPacket(p) PROVE HandlerInv'
  BY <1>40 DEF PassPacket, KernelAfter
<1>41. CASE UNCHANGED vars
  BY <1>41
<1>42. QED
  BY <1>1, <1>2, <1>3, <1>4, <1>5, <1>6, <1>7, <1>8, <1>9, <1>10, <1>11, <1>12, <1>13,
     <1>14, <1>15, <1>16, <1>17, <1>18, <1>19, <1>20, <1>21, <1>22, <1>23, <1>24, <1>25,
     <1>26, <1>27, <1>28, <1>29, <1>30, <1>31, <1>32, <1>33, <1>34, <1>35, <1>36, <1>37,
     <1>38, <1>39, <1>40, <1>41 DEF Next, HandlerStep, LoopStep, InjectorStep, Terminated

\* InjectorInv is preserved.  The case that matters is OutAck: a second start is
\* possible only with FakeSent already stored.
LEMMA InjectorStepInv ==
  ASSUME StateOK, HandlerInv, LoopInv, InjectorInv, [Next]_vars
  PROVE  InjectorInv'
<1> USE DEF vars, connVars, envVars, hVars, lVars, iVars, histVars, InjectorInv,
    HandlerInv, LoopInv, Injecting
<1>1. CASE SetupFail
  BY <1>1 DEF SetupFail
<1>2. CASE RegisterConn
  BY <1>2 DEF RegisterConn
<1>3. CASE DialFail
  BY <1>3 DEF DialFail, StopMonitoring, MuFree
<1>4. CASE DialOk
  BY <1>4 DEF DialOk
<1>5. CASE SetSock
  BY <1>5 DEF SetSock, MuFree
<1>6. CASE RecvSignal
  BY <1>6 DEF RecvSignal
<1>7. CASE AckTimeout
  BY <1>7 DEF AckTimeout
<1>8. CASE HandlerStop
  BY <1>8 DEF HandlerStop, StopMonitoring, MuFree
<1>9. CASE HandlerClose
  BY <1>9 DEF HandlerClose, ClosePair
<1>10. CASE ForwardFragments
  BY <1>10 DEF ForwardFragments, SocketsOpen
<1>11. CASE ForwardFail
  BY <1>11 DEF ForwardFail
<1>12. CASE StartRelay
  BY <1>12 DEF StartRelay
<1>13. CASE RelayFirstDone
  BY <1>13 DEF RelayFirstDone, ClosePair
<1>14. CASE RelayLastDone
  BY <1>14 DEF RelayLastDone
<1>15. CASE KernelEstablish
  BY <1>15 DEF KernelEstablish
<1>16. CASE CloseInjector
  BY <1>16 DEF CloseInjector
<1>17. CASE RelayCopy
  BY <1>17 DEF RelayCopy, SocketsOpen
<1>18. ASSUME lpc # "idle", OnUnexpectedPacket PROVE InjectorInv'
  BY <1>18 DEF OnUnexpectedPacket, AbortUnexpectedCloseLocked, Verdict
<1>19. CASE InUnexpected
  BY <1>19, <1>18 DEF InUnexpected
<1>20. CASE InSynAck
  <2>1. CASE SynAckOK
    BY <1>20, <2>1 DEF InSynAck, Verdict
  <2>2. CASE ~SynAckOK
    BY <1>20, <2>2, <1>18 DEF InSynAck
  <2>3. QED
    BY <2>1, <2>2
<1>21. CASE InLoadProgress
  BY <1>21 DEF InLoadProgress, SeeAck
<1>22. CASE InLoadSent
  BY <1>22 DEF InLoadSent
<1>23. CASE InStore
  BY <1>23 DEF InStore, Verdict
<1>24. CASE InSignal
  <2>1. CASE PostFakeAckOK
    BY <1>24, <2>1 DEF InSignal, Verdict
  <2>2. CASE ~PostFakeAckOK
    BY <1>24, <2>2, <1>18 DEF InSignal
  <2>3. QED
    BY <2>1, <2>2
<1>25. CASE OutLoadSent
  BY <1>25 DEF OutLoadSent, Verdict
<1>26. CASE OutLoadProgress
  BY <1>26 DEF OutLoadProgress, Verdict
<1>27. CASE OutSyn
  <2>1. CASE SynOK
    BY <1>27, <2>1 DEF OutSyn, Verdict
  <2>2. CASE ~SynOK
    BY <1>27, <2>2, <1>18 DEF OutSyn
  <2>3. QED
    BY <2>1, <2>2
<1>28. CASE OutAck
  <2>1. CASE ThirdAckOK
    BY <1>28, <2>1 DEF OutAck, Verdict
  <2>2. CASE ~ThirdAckOK
    BY <1>28, <2>2, <1>18 DEF OutAck
  <2>3. QED
    BY <2>1, <2>2
<1>29. CASE OutUnexpected
  BY <1>29, <1>18 DEF OutUnexpected
<1>30. CASE InjCheck
  BY <1>30 DEF InjCheck, MuFree
<1>31. CASE InjSend
  BY <1>31 DEF InjSend
<1>32. CASE InjSendFail
  BY <1>32 DEF InjSendFail
<1>33. CASE InjAbort
  BY <1>33 DEF InjAbort, MuFree, AbortUnexpectedCloseLocked
<1>34. CASE InjStoreSent
  BY <1>34 DEF InjStoreSent
<1>35. CASE InjLoadAck
  BY <1>35 DEF InjLoadAck
<1>36. CASE InjSignal
  BY <1>36 DEF InjSignal, MuFree
<1>37. CASE InjEnd
  BY <1>37 DEF InjEnd
<1>38. ASSUME NEW d \in Directions, RelayEof(d) PROVE InjectorInv'
  BY <1>38 DEF RelayEof
<1>39. ASSUME NEW p \in Packets, ProcessPacket(p) PROVE InjectorInv'
  BY <1>39 DEF ProcessPacket
<1>40. ASSUME NEW p \in Packets, PassPacket(p) PROVE InjectorInv'
  BY <1>40 DEF PassPacket
<1>41. CASE UNCHANGED vars
  BY <1>41
<1>42. QED
  BY <1>1, <1>2, <1>3, <1>4, <1>5, <1>6, <1>7, <1>8, <1>9, <1>10, <1>11, <1>12, <1>13,
     <1>14, <1>15, <1>16, <1>17, <1>18, <1>19, <1>20, <1>21, <1>22, <1>23, <1>24, <1>25,
     <1>26, <1>27, <1>28, <1>29, <1>30, <1>31, <1>32, <1>33, <1>34, <1>35, <1>36, <1>37,
     <1>38, <1>39, <1>40, <1>41 DEF Next, HandlerStep, LoopStep, InjectorStep, Terminated

\* fake_data_ack_recv enters T2aChan only from the inbound handler with the fake sent
\* or from the end of an injection.
LEMMA SignalSource ==
  ASSUME ChannelOK, [Next]_vars
  PROVE  AckSignalled' => AckSignalled \/ AckSource
<1> USE DEF vars, connVars, envVars, hVars, lVars, iVars, histVars, AckSignalled,
    AckSource, ChannelOK, Signals, T2aCap
<1>1. CASE SetupFail
  BY <1>1 DEF SetupFail
<1>2. CASE RegisterConn
  BY <1>2 DEF RegisterConn
<1>3. CASE DialFail
  BY <1>3 DEF DialFail, StopMonitoring
<1>4. CASE DialOk
  BY <1>4 DEF DialOk
<1>5. CASE SetSock
  BY <1>5 DEF SetSock
<1>6. CASE RecvSignal
  BY <1>6 DEF RecvSignal
<1>7. CASE AckTimeout
  BY <1>7 DEF AckTimeout
<1>8. CASE HandlerStop
  BY <1>8 DEF HandlerStop, StopMonitoring
<1>9. CASE HandlerClose
  BY <1>9 DEF HandlerClose, ClosePair
<1>10. CASE ForwardFragments
  BY <1>10 DEF ForwardFragments, SocketsOpen
<1>11. CASE ForwardFail
  BY <1>11 DEF ForwardFail
<1>12. CASE StartRelay
  BY <1>12 DEF StartRelay
<1>13. CASE RelayFirstDone
  BY <1>13 DEF RelayFirstDone, ClosePair
<1>14. CASE RelayLastDone
  BY <1>14 DEF RelayLastDone
<1>15. CASE KernelEstablish
  BY <1>15 DEF KernelEstablish
<1>16. CASE CloseInjector
  BY <1>16 DEF CloseInjector
<1>17. CASE RelayCopy
  BY <1>17 DEF RelayCopy, SocketsOpen
<1>18. ASSUME lpc # "idle", OnUnexpectedPacket PROVE AckSignalled' => AckSignalled \/ AckSource
  BY <1>18 DEF OnUnexpectedPacket, AbortUnexpectedCloseLocked, SendT2a, Verdict
<1>19. CASE InUnexpected
  BY <1>19, <1>18 DEF InUnexpected
<1>20. CASE InSynAck
  <2>1. CASE SynAckOK
    BY <1>20, <2>1 DEF InSynAck, Verdict
  <2>2. CASE ~SynAckOK
    BY <1>20, <2>2, <1>18 DEF InSynAck
  <2>3. QED
    BY <2>1, <2>2
<1>21. CASE InLoadProgress
  BY <1>21 DEF InLoadProgress, SeeAck
<1>22. CASE InLoadSent
  BY <1>22 DEF InLoadSent
<1>23. CASE InStore
  BY <1>23 DEF InStore, Verdict
<1>24. CASE InSignal
  <2>1. CASE PostFakeAckOK
    BY <1>24, <2>1 DEF InSignal, SendT2a, Verdict
  <2>2. CASE ~PostFakeAckOK
    BY <1>24, <2>2, <1>18 DEF InSignal
  <2>3. QED
    BY <2>1, <2>2
<1>25. CASE OutLoadSent
  BY <1>25 DEF OutLoadSent, Verdict
<1>26. CASE OutLoadProgress
  BY <1>26 DEF OutLoadProgress, Verdict
<1>27. CASE OutSyn
  <2>1. CASE SynOK
    BY <1>27, <2>1 DEF OutSyn, Verdict
  <2>2. CASE ~SynOK
    BY <1>27, <2>2, <1>18 DEF OutSyn
  <2>3. QED
    BY <2>1, <2>2
<1>28. CASE OutAck
  <2>1. CASE ThirdAckOK
    BY <1>28, <2>1 DEF OutAck, Verdict
  <2>2. CASE ~ThirdAckOK
    BY <1>28, <2>2, <1>18 DEF OutAck
  <2>3. QED
    BY <2>1, <2>2
<1>29. CASE OutUnexpected
  BY <1>29, <1>18 DEF OutUnexpected
<1>30. CASE InjCheck
  BY <1>30 DEF InjCheck
<1>31. CASE InjSend
  BY <1>31 DEF InjSend
<1>32. CASE InjSendFail
  BY <1>32 DEF InjSendFail
<1>33. CASE InjAbort
  BY <1>33 DEF InjAbort, AbortUnexpectedCloseLocked, SendT2a
<1>34. CASE InjStoreSent
  BY <1>34 DEF InjStoreSent
<1>35. CASE InjLoadAck
  BY <1>35 DEF InjLoadAck
<1>36. CASE InjSignal
  BY <1>36 DEF InjSignal, SendT2a
<1>37. CASE InjEnd
  BY <1>37 DEF InjEnd
<1>38. ASSUME NEW d \in Directions, RelayEof(d) PROVE AckSignalled' => AckSignalled \/ AckSource
  BY <1>38 DEF RelayEof
<1>39. ASSUME NEW p \in Packets, ProcessPacket(p) PROVE AckSignalled' => AckSignalled \/ AckSource
  BY <1>39 DEF ProcessPacket
<1>40. ASSUME NEW p \in Packets, PassPacket(p) PROVE AckSignalled' => AckSignalled \/ AckSource
  BY <1>40 DEF PassPacket
<1>41. CASE UNCHANGED vars
  BY <1>41
<1>42. QED
  BY <1>1, <1>2, <1>3, <1>4, <1>5, <1>6, <1>7, <1>8, <1>9, <1>10, <1>11, <1>12, <1>13,
     <1>14, <1>15, <1>16, <1>17, <1>18, <1>19, <1>20, <1>21, <1>22, <1>23, <1>24, <1>25,
     <1>26, <1>27, <1>28, <1>29, <1>30, <1>31, <1>32, <1>33, <1>34, <1>35, <1>36, <1>37,
     <1>38, <1>39, <1>40, <1>41 DEF Next, HandlerStep, LoopStep, InjectorStep, Terminated

\* FakeInv is preserved: the complete fake is on the wire before FakeSent is stored,
\* unless the injector was closed, and FakeSent is stored before anything that depends
\* on it.
LEMMA FakeStepInv ==
  ASSUME StateOK, HandlerInv, LoopInv, InjectorInv, FakeInv, ChannelOK, [Next]_vars
  PROVE  FakeInv'
<1>0. AckSignalled' => AckSignalled \/ AckSource
  BY SignalSource
<1> USE DEF vars, connVars, envVars, hVars, lVars, iVars, histVars, FakeInv, InjectorInv,
    StateOK, Cleared, Injecting, PostFakeAckOK, AckSource
<1>1. CASE SetupFail
  BY <1>1, <1>0 DEF SetupFail
<1>2. CASE RegisterConn
  BY <1>2, <1>0 DEF RegisterConn
<1>3. CASE DialFail
  BY <1>3, <1>0 DEF DialFail, StopMonitoring
<1>4. CASE DialOk
  BY <1>4, <1>0 DEF DialOk
<1>5. CASE SetSock
  BY <1>5, <1>0 DEF SetSock
<1>6. CASE RecvSignal
  BY <1>6, <1>0, HeadSignalled DEF RecvSignal
<1>7. CASE AckTimeout
  BY <1>7, <1>0 DEF AckTimeout
<1>8. CASE HandlerStop
  BY <1>8, <1>0 DEF HandlerStop, StopMonitoring
<1>9. CASE HandlerClose
  BY <1>9, <1>0 DEF HandlerClose, ClosePair
<1>10. CASE ForwardFragments
  BY <1>10, <1>0 DEF ForwardFragments, SocketsOpen
<1>11. CASE ForwardFail
  BY <1>11, <1>0 DEF ForwardFail
<1>12. CASE StartRelay
  BY <1>12, <1>0 DEF StartRelay
<1>13. CASE RelayFirstDone
  BY <1>13, <1>0 DEF RelayFirstDone, ClosePair
<1>14. CASE RelayLastDone
  BY <1>14, <1>0 DEF RelayLastDone
<1>15. CASE KernelEstablish
  BY <1>15, <1>0 DEF KernelEstablish
<1>16. CASE CloseInjector
  BY <1>16, <1>0 DEF CloseInjector
<1>17. CASE RelayCopy
  BY <1>17, <1>0 DEF RelayCopy, SocketsOpen
<1>18. ASSUME lpc # "idle", OnUnexpectedPacket PROVE FakeInv'
  BY <1>18, <1>0 DEF OnUnexpectedPacket, AbortUnexpectedCloseLocked, Verdict
<1>19. CASE InUnexpected
  BY <1>19, <1>18 DEF InUnexpected
<1>20. CASE InSynAck
  <2>1. CASE SynAckOK
    BY <1>20, <2>1, <1>0 DEF InSynAck, Verdict
  <2>2. CASE ~SynAckOK
    BY <1>20, <2>2, <1>18 DEF InSynAck
  <2>3. QED
    BY <2>1, <2>2
<1>21. CASE InLoadProgress
  BY <1>21, <1>0 DEF InLoadProgress, SeeAck
<1>22. CASE InLoadSent
  BY <1>22, <1>0 DEF InLoadSent
<1>23. CASE InStore
  BY <1>23, <1>0 DEF InStore, Verdict
<1>24. CASE InSignal
  <2>1. CASE PostFakeAckOK
    BY <1>24, <2>1, <1>0 DEF InSignal, Verdict
  <2>2. CASE ~PostFakeAckOK
    BY <1>24, <2>2, <1>18 DEF InSignal
  <2>3. QED
    BY <2>1, <2>2
<1>25. CASE OutLoadSent
  BY <1>25, <1>0 DEF OutLoadSent, Verdict
<1>26. CASE OutLoadProgress
  BY <1>26, <1>0 DEF OutLoadProgress, Verdict
<1>27. CASE OutSyn
  <2>1. CASE SynOK
    BY <1>27, <2>1, <1>0 DEF OutSyn, Verdict
  <2>2. CASE ~SynOK
    BY <1>27, <2>2, <1>18 DEF OutSyn
  <2>3. QED
    BY <2>1, <2>2
<1>28. CASE OutAck
  <2>1. CASE ThirdAckOK
    BY <1>28, <2>1, FakeTotalPositive, <1>0 DEF OutAck, Verdict
  <2>2. CASE ~ThirdAckOK
    BY <1>28, <2>2, <1>18 DEF OutAck
  <2>3. QED
    BY <2>1, <2>2
<1>29. CASE OutUnexpected
  BY <1>29, <1>18 DEF OutUnexpected
<1>30. CASE InjCheck
  BY <1>30, <1>0 DEF InjCheck
<1>31. CASE InjSend
  BY <1>31, <1>0, FakeTotalPositive DEF InjSend
<1>32. CASE InjSendFail
  BY <1>32, <1>0 DEF InjSendFail
<1>33. CASE InjAbort
  BY <1>33, <1>0 DEF InjAbort, AbortUnexpectedCloseLocked
<1>34. CASE InjStoreSent
  BY <1>34, <1>0 DEF InjStoreSent
<1>35. CASE InjLoadAck
  BY <1>35, <1>0 DEF InjLoadAck
<1>36. CASE InjSignal
  BY <1>36, <1>0 DEF InjSignal
<1>37. CASE InjEnd
  BY <1>37, <1>0 DEF InjEnd
<1>38. ASSUME NEW d \in Directions, RelayEof(d) PROVE FakeInv'
  BY <1>38, <1>0 DEF RelayEof
<1>39. ASSUME NEW p \in Packets, ProcessPacket(p) PROVE FakeInv'
  BY <1>39, <1>0 DEF ProcessPacket
<1>40. ASSUME NEW p \in Packets, PassPacket(p) PROVE FakeInv'
  BY <1>40, <1>0 DEF PassPacket
<1>41. CASE UNCHANGED vars
  BY <1>41, <1>0
<1>42. QED
  BY <1>1, <1>2, <1>3, <1>4, <1>5, <1>6, <1>7, <1>8, <1>9, <1>10, <1>11, <1>12, <1>13,
     <1>14, <1>15, <1>16, <1>17, <1>18, <1>19, <1>20, <1>21, <1>22, <1>23, <1>24, <1>25,
     <1>26, <1>27, <1>28, <1>29, <1>30, <1>31, <1>32, <1>33, <1>34, <1>35, <1>36, <1>37,
     <1>38, <1>39, <1>40, <1>41 DEF Next, HandlerStep, LoopStep, InjectorStep, Terminated

\* AckInv is preserved: the same for the server's ACK.
LEMMA AckStepInv ==
  ASSUME StateOK, HandlerInv, LoopInv, InjectorInv, FakeInv, AckInv, ChannelOK, [Next]_vars
  PROVE  AckInv'
<1>0. AckSignalled' => AckSignalled \/ AckSource
  BY SignalSource
<1> USE DEF vars, connVars, envVars, hVars, lVars, iVars, histVars, AckInv, InjectorInv,
    FakeInv, StateOK, Cleared, Injecting, PostFakeAckOK, AckSource
<1>1. CASE SetupFail
  BY <1>1, <1>0 DEF SetupFail
<1>2. CASE RegisterConn
  BY <1>2, <1>0 DEF RegisterConn
<1>3. CASE DialFail
  BY <1>3, <1>0 DEF DialFail, StopMonitoring
<1>4. CASE DialOk
  BY <1>4, <1>0 DEF DialOk
<1>5. CASE SetSock
  BY <1>5, <1>0 DEF SetSock
<1>6. CASE RecvSignal
  BY <1>6, <1>0, HeadSignalled DEF RecvSignal
<1>7. CASE AckTimeout
  BY <1>7, <1>0 DEF AckTimeout
<1>8. CASE HandlerStop
  BY <1>8, <1>0 DEF HandlerStop, StopMonitoring
<1>9. CASE HandlerClose
  BY <1>9, <1>0 DEF HandlerClose, ClosePair
<1>10. CASE ForwardFragments
  BY <1>10, <1>0 DEF ForwardFragments, SocketsOpen
<1>11. CASE ForwardFail
  BY <1>11, <1>0 DEF ForwardFail
<1>12. CASE StartRelay
  BY <1>12, <1>0 DEF StartRelay
<1>13. CASE RelayFirstDone
  BY <1>13, <1>0 DEF RelayFirstDone, ClosePair
<1>14. CASE RelayLastDone
  BY <1>14, <1>0 DEF RelayLastDone
<1>15. CASE KernelEstablish
  BY <1>15, <1>0 DEF KernelEstablish
<1>16. CASE CloseInjector
  BY <1>16, <1>0 DEF CloseInjector
<1>17. CASE RelayCopy
  BY <1>17, <1>0 DEF RelayCopy, SocketsOpen
<1>18. ASSUME lpc # "idle", OnUnexpectedPacket PROVE AckInv'
  BY <1>18, <1>0 DEF OnUnexpectedPacket, AbortUnexpectedCloseLocked, Verdict
<1>19. CASE InUnexpected
  BY <1>19, <1>18 DEF InUnexpected
<1>20. CASE InSynAck
  <2>1. CASE SynAckOK
    BY <1>20, <2>1, <1>0 DEF InSynAck, Verdict
  <2>2. CASE ~SynAckOK
    BY <1>20, <2>2, <1>18 DEF InSynAck
  <2>3. QED
    BY <2>1, <2>2
<1>21. CASE InLoadProgress
  BY <1>21, <1>0 DEF InLoadProgress, SeeAck
<1>22. CASE InLoadSent
  BY <1>22, <1>0 DEF InLoadSent
<1>23. CASE InStore
  BY <1>23, <1>0 DEF InStore, Verdict
<1>24. CASE InSignal
  <2>1. CASE PostFakeAckOK
    <3>1. ackSeen # "none"
      BY <1>24, <2>1 DEF InSignal
    <3>2. QED
      BY <1>24, <2>1, <3>1, <1>0 DEF InSignal, Verdict
  <2>2. CASE ~PostFakeAckOK
    BY <1>24, <2>2, <1>18 DEF InSignal
  <2>3. QED
    BY <2>1, <2>2
<1>25. CASE OutLoadSent
  BY <1>25, <1>0 DEF OutLoadSent, Verdict
<1>26. CASE OutLoadProgress
  BY <1>26, <1>0 DEF OutLoadProgress, Verdict
<1>27. CASE OutSyn
  <2>1. CASE SynOK
    BY <1>27, <2>1, <1>0 DEF OutSyn, Verdict
  <2>2. CASE ~SynOK
    BY <1>27, <2>2, <1>18 DEF OutSyn
  <2>3. QED
    BY <2>1, <2>2
<1>28. CASE OutAck
  <2>1. CASE ThirdAckOK
    BY <1>28, <2>1, <1>0 DEF OutAck, Verdict
  <2>2. CASE ~ThirdAckOK
    BY <1>28, <2>2, <1>18 DEF OutAck
  <2>3. QED
    BY <2>1, <2>2
<1>29. CASE OutUnexpected
  BY <1>29, <1>18 DEF OutUnexpected
<1>30. CASE InjCheck
  BY <1>30, <1>0 DEF InjCheck
<1>31. CASE InjSend
  BY <1>31, <1>0 DEF InjSend
<1>32. CASE InjSendFail
  BY <1>32, <1>0 DEF InjSendFail
<1>33. CASE InjAbort
  BY <1>33, <1>0 DEF InjAbort, AbortUnexpectedCloseLocked
<1>34. CASE InjStoreSent
  BY <1>34, <1>0 DEF InjStoreSent
<1>35. CASE InjLoadAck
  BY <1>35, <1>0 DEF InjLoadAck
<1>36. CASE InjSignal
  BY <1>36, <1>0 DEF InjSignal
<1>37. CASE InjEnd
  BY <1>37, <1>0 DEF InjEnd
<1>38. ASSUME NEW d \in Directions, RelayEof(d) PROVE AckInv'
  BY <1>38, <1>0 DEF RelayEof
<1>39. ASSUME NEW p \in Packets, ProcessPacket(p) PROVE AckInv'
  BY <1>39, <1>0 DEF ProcessPacket
<1>40. ASSUME NEW p \in Packets, PassPacket(p) PROVE AckInv'
  BY <1>40, <1>0 DEF PassPacket
<1>41. CASE UNCHANGED vars
  BY <1>41, <1>0
<1>42. QED
  BY <1>1, <1>2, <1>3, <1>4, <1>5, <1>6, <1>7, <1>8, <1>9, <1>10, <1>11, <1>12, <1>13,
     <1>14, <1>15, <1>16, <1>17, <1>18, <1>19, <1>20, <1>21, <1>22, <1>23, <1>24, <1>25,
     <1>26, <1>27, <1>28, <1>29, <1>30, <1>31, <1>32, <1>33, <1>34, <1>35, <1>36, <1>37,
     <1>38, <1>39, <1>40, <1>41 DEF Next, HandlerStep, LoopStep, InjectorStep, Terminated

\* StopInv is preserved: after Monitor is cleared only an injection that had already
\* passed its test can send or signal.
LEMMA StopStepInv ==
  ASSUME StateOK, HandlerInv, LoopInv, InjectorInv, StopInv, ChannelOK, [Next]_vars
  PROVE  StopInv'
<1> USE DEF vars, connVars, envVars, hVars, lVars, iVars, histVars, StopInv, InjectorInv,
    HandlerInv, LoopInv, Signals
<1>1. CASE SetupFail
  BY <1>1 DEF SetupFail
<1>2. CASE RegisterConn
  BY <1>2 DEF RegisterConn
<1>3. CASE DialFail
  BY <1>3 DEF DialFail, StopMonitoring, MuFree
<1>4. CASE DialOk
  BY <1>4 DEF DialOk
<1>5. CASE SetSock
  BY <1>5 DEF SetSock, MuFree
<1>6. CASE RecvSignal
  BY <1>6 DEF RecvSignal
<1>7. CASE AckTimeout
  BY <1>7 DEF AckTimeout
<1>8. CASE HandlerStop
  BY <1>8 DEF HandlerStop, StopMonitoring, MuFree
<1>9. CASE HandlerClose
  BY <1>9 DEF HandlerClose, ClosePair
<1>10. CASE ForwardFragments
  BY <1>10 DEF ForwardFragments, SocketsOpen
<1>11. CASE ForwardFail
  BY <1>11 DEF ForwardFail
<1>12. CASE StartRelay
  BY <1>12 DEF StartRelay
<1>13. CASE RelayFirstDone
  BY <1>13 DEF RelayFirstDone, ClosePair
<1>14. CASE RelayLastDone
  BY <1>14 DEF RelayLastDone
<1>15. CASE KernelEstablish
  BY <1>15 DEF KernelEstablish
<1>16. CASE CloseInjector
  BY <1>16 DEF CloseInjector
<1>17. CASE RelayCopy
  BY <1>17 DEF RelayCopy, SocketsOpen
<1>18. ASSUME lpc # "idle", OnUnexpectedPacket PROVE StopInv'
  <2>1. SendT2a("unexpected_close") /\ monitor' = FALSE /\ ipc' = ipc /\ late' = late
    BY <1>18 DEF OnUnexpectedPacket, AbortUnexpectedCloseLocked
  <2>2. t2a = <<>> /\ late = 0 /\ ~dropped
    BY <1>18
  <2>3. Len(t2a') = 1 /\ ~dropped'
    BY <2>1, <2>2, SendHasRoom
  <2>4. QED
    BY <2>1, <2>2, <2>3
<1>19. CASE InUnexpected
  BY <1>19, <1>18 DEF InUnexpected
<1>20. CASE InSynAck
  <2>1. CASE SynAckOK
    BY <1>20, <2>1 DEF InSynAck, Verdict
  <2>2. CASE ~SynAckOK
    BY <1>20, <2>2, <1>18 DEF InSynAck
  <2>3. QED
    BY <2>1, <2>2
<1>21. CASE InLoadProgress
  BY <1>21 DEF InLoadProgress, SeeAck
<1>22. CASE InLoadSent
  BY <1>22 DEF InLoadSent
<1>23. CASE InStore
  BY <1>23 DEF InStore, Verdict
<1>24. CASE InSignal
  <2>1. CASE PostFakeAckOK
    <3>1. SendT2a("fake_data_ack_recv") /\ monitor' = FALSE /\ ipc' = ipc /\ late' = late
      BY <1>24, <2>1 DEF InSignal
    <3>2. monitor /\ t2a = <<>> /\ late = 0 /\ ~dropped
      BY <1>24 DEF InSignal
    <3>3. Len(t2a') = 1 /\ ~dropped'
      BY <3>1, <3>2, SendHasRoom
    <3>4. QED
      BY <3>1, <3>2, <3>3
  <2>2. CASE ~PostFakeAckOK
    BY <1>24, <2>2, <1>18 DEF InSignal
  <2>3. QED
    BY <2>1, <2>2
<1>25. CASE OutLoadSent
  BY <1>25 DEF OutLoadSent, Verdict
<1>26. CASE OutLoadProgress
  BY <1>26 DEF OutLoadProgress, Verdict
<1>27. CASE OutSyn
  <2>1. CASE SynOK
    BY <1>27, <2>1 DEF OutSyn, Verdict
  <2>2. CASE ~SynOK
    BY <1>27, <2>2, <1>18 DEF OutSyn
  <2>3. QED
    BY <2>1, <2>2
<1>28. CASE OutAck
  <2>1. CASE ThirdAckOK
    BY <1>28, <2>1 DEF OutAck, Verdict
  <2>2. CASE ~ThirdAckOK
    BY <1>28, <2>2, <1>18 DEF OutAck
  <2>3. QED
    BY <2>1, <2>2
<1>29. CASE OutUnexpected
  BY <1>29, <1>18 DEF OutUnexpected
<1>30. CASE InjCheck
  BY <1>30 DEF InjCheck, MuFree
<1>31. CASE InjSend
  BY <1>31 DEF InjSend
<1>32. CASE InjSendFail
  BY <1>32 DEF InjSendFail
<1>33. CASE InjAbort
  BY <1>33, SendHasRoom DEF InjAbort, MuFree, AbortUnexpectedCloseLocked
<1>34. CASE InjStoreSent
  BY <1>34 DEF InjStoreSent
<1>35. CASE InjLoadAck
  BY <1>35 DEF InjLoadAck
<1>36. CASE InjSignal
  BY <1>36, SendHasRoom DEF InjSignal, MuFree
<1>37. CASE InjEnd
  BY <1>37 DEF InjEnd
<1>38. ASSUME NEW d \in Directions, RelayEof(d) PROVE StopInv'
  BY <1>38 DEF RelayEof
<1>39. ASSUME NEW p \in Packets, ProcessPacket(p) PROVE StopInv'
  BY <1>39 DEF ProcessPacket
<1>40. ASSUME NEW p \in Packets, PassPacket(p) PROVE StopInv'
  BY <1>40 DEF PassPacket
<1>41. CASE UNCHANGED vars
  BY <1>41
<1>42. QED
  BY <1>1, <1>2, <1>3, <1>4, <1>5, <1>6, <1>7, <1>8, <1>9, <1>10, <1>11, <1>12, <1>13,
     <1>14, <1>15, <1>16, <1>17, <1>18, <1>19, <1>20, <1>21, <1>22, <1>23, <1>24, <1>25,
     <1>26, <1>27, <1>28, <1>29, <1>30, <1>31, <1>32, <1>33, <1>34, <1>35, <1>36, <1>37,
     <1>38, <1>39, <1>40, <1>41 DEF Next, HandlerStep, LoopStep, InjectorStep, Terminated

\* Every step is a step of Session under the mapping Phase, or changes nothing there.
LEMMA SessionStep ==
  ASSUME StateOK, HandlerInv, FakeInv, ChannelOK, [Next]_vars
  PROVE  [Client!Next]_(Client!vars)
<1> USE DEF vars, connVars, envVars, hVars, lVars, iVars, histVars, StateOK, FakeInv,
    HandlerInv, Cleared, Phase, Client!Next, Client!Decoy, Client!Release, Client!Clear,
    Client!Forward, Client!Fail, Client!Close, Client!vars, Client!Undecided,
    Client!Phases
<1>1. CASE SetupFail
  BY <1>1, FakeTotalPositive DEF SetupFail
<1>2. CASE RegisterConn
  BY <1>2 DEF RegisterConn
<1>3. CASE DialFail
  BY <1>3 DEF DialFail, StopMonitoring
<1>4. CASE DialOk
  BY <1>4 DEF DialOk
<1>5. CASE SetSock
  BY <1>5 DEF SetSock
<1>6. CASE RecvSignal
  BY <1>6, HeadSignalled, FakeTotalPositive DEF RecvSignal
<1>7. CASE AckTimeout
  BY <1>7 DEF AckTimeout
<1>8. CASE HandlerStop
  BY <1>8 DEF HandlerStop, StopMonitoring
<1>9. CASE HandlerClose
  BY <1>9 DEF HandlerClose, ClosePair
<1>10. CASE ForwardFragments
  BY <1>10 DEF ForwardFragments, SocketsOpen
<1>11. CASE ForwardFail
  BY <1>11 DEF ForwardFail
<1>12. CASE StartRelay
  BY <1>12 DEF StartRelay
<1>13. CASE RelayFirstDone
  BY <1>13 DEF RelayFirstDone, ClosePair
<1>14. CASE RelayLastDone
  BY <1>14 DEF RelayLastDone
<1>15. CASE KernelEstablish
  BY <1>15 DEF KernelEstablish
<1>16. CASE CloseInjector
  BY <1>16 DEF CloseInjector
<1>17. CASE RelayCopy
  BY <1>17 DEF RelayCopy, SocketsOpen
<1>18. ASSUME lpc # "idle", OnUnexpectedPacket PROVE [Client!Next]_(Client!vars)
  BY <1>18 DEF OnUnexpectedPacket, AbortUnexpectedCloseLocked, Verdict
<1>19. CASE InUnexpected
  BY <1>19, <1>18 DEF InUnexpected
<1>20. CASE InSynAck
  <2>1. CASE SynAckOK
    BY <1>20, <2>1 DEF InSynAck, Verdict
  <2>2. CASE ~SynAckOK
    BY <1>20, <2>2, <1>18 DEF InSynAck
  <2>3. QED
    BY <2>1, <2>2
<1>21. CASE InLoadProgress
  BY <1>21 DEF InLoadProgress, SeeAck
<1>22. CASE InLoadSent
  BY <1>22 DEF InLoadSent
<1>23. CASE InStore
  BY <1>23 DEF InStore, Verdict
<1>24. CASE InSignal
  <2>1. CASE PostFakeAckOK
    BY <1>24, <2>1 DEF InSignal, Verdict
  <2>2. CASE ~PostFakeAckOK
    BY <1>24, <2>2, <1>18 DEF InSignal
  <2>3. QED
    BY <2>1, <2>2
<1>25. CASE OutLoadSent
  BY <1>25 DEF OutLoadSent, Verdict
<1>26. CASE OutLoadProgress
  BY <1>26 DEF OutLoadProgress, Verdict
<1>27. CASE OutSyn
  <2>1. CASE SynOK
    BY <1>27, <2>1 DEF OutSyn, Verdict
  <2>2. CASE ~SynOK
    BY <1>27, <2>2, <1>18 DEF OutSyn
  <2>3. QED
    BY <2>1, <2>2
<1>28. CASE OutAck
  <2>1. CASE ThirdAckOK
    BY <1>28, <2>1 DEF OutAck, Verdict
  <2>2. CASE ~ThirdAckOK
    BY <1>28, <2>2, <1>18 DEF OutAck
  <2>3. QED
    BY <2>1, <2>2
<1>29. CASE OutUnexpected
  BY <1>29, <1>18 DEF OutUnexpected
<1>30. CASE InjCheck
  BY <1>30 DEF InjCheck
<1>31. CASE InjSend
  BY <1>31, FakeTotalPositive DEF InjSend
<1>32. CASE InjSendFail
  BY <1>32 DEF InjSendFail
<1>33. CASE InjAbort
  BY <1>33 DEF InjAbort, AbortUnexpectedCloseLocked
<1>34. CASE InjStoreSent
  BY <1>34 DEF InjStoreSent
<1>35. CASE InjLoadAck
  BY <1>35 DEF InjLoadAck
<1>36. CASE InjSignal
  BY <1>36 DEF InjSignal
<1>37. CASE InjEnd
  BY <1>37 DEF InjEnd
<1>38. ASSUME NEW d \in Directions, RelayEof(d) PROVE [Client!Next]_(Client!vars)
  BY <1>38 DEF RelayEof
<1>39. ASSUME NEW p \in Packets, ProcessPacket(p) PROVE [Client!Next]_(Client!vars)
  BY <1>39 DEF ProcessPacket
<1>40. ASSUME NEW p \in Packets, PassPacket(p) PROVE [Client!Next]_(Client!vars)
  BY <1>40 DEF PassPacket
<1>41. CASE UNCHANGED vars
  BY <1>41
<1>42. QED
  BY <1>1, <1>2, <1>3, <1>4, <1>5, <1>6, <1>7, <1>8, <1>9, <1>10, <1>11, <1>12, <1>13,
     <1>14, <1>15, <1>16, <1>17, <1>18, <1>19, <1>20, <1>21, <1>22, <1>23, <1>24, <1>25,
     <1>26, <1>27, <1>28, <1>29, <1>30, <1>31, <1>32, <1>33, <1>34, <1>35, <1>36, <1>37,
     <1>38, <1>39, <1>40, <1>41 DEF Next, HandlerStep, LoopStep, InjectorStep, Terminated

-----------------------------------------------------------------------------
\* The initial state satisfies the inductive invariant.
LEMMA InitInv ==
  ASSUME Init
  PROVE  Inv
<1>1. FlagsOK
  BY Zenon DEF Init, FlagsOK
<1>2. StateOK
  BY DEF Init, StateOK
<1>3. ChannelOK
  BY DEF Init, ChannelOK, T2aCap
<1>4. HandlerInv /\ LoopInv /\ InjectorInv
  BY DEF Init, HandlerInv, LoopInv, InjectorInv, Injecting
<1>5. ~AckSignalled
  BY DEF Init, AckSignalled
<1>6. FakeInv /\ AckInv /\ StopInv
  BY <1>5 DEF Init, FakeInv, AckInv, StopInv, Cleared
<1>7. QED
  BY <1>1, <1>2, <1>3, <1>4, <1>6 DEF Inv, TypeOK

\* Every step preserves the inductive invariant.
LEMMA NextInv ==
  ASSUME Inv, [Next]_vars
  PROVE  Inv'
<1>1. /\ FlagsOK /\ StateOK /\ ChannelOK
      /\ HandlerInv /\ LoopInv /\ InjectorInv /\ FakeInv /\ AckInv /\ StopInv
  BY DEF Inv, TypeOK
<1>2. FlagsOK' /\ StateOK'
  BY <1>1, FlagsStep, StateStep
<1>3. ChannelOK'
  BY <1>1, ChannelStep
<1>4. HandlerInv' /\ LoopInv' /\ InjectorInv'
  BY <1>1, HandlerStepInv, LoopStepInv, InjectorStepInv
<1>5. FakeInv' /\ AckInv' /\ StopInv'
  BY <1>1, FakeStepInv, AckStepInv, StopStepInv
<1>6. QED
  BY <1>2, <1>3, <1>4, <1>5 DEF Inv, TypeOK

\* The inductive invariant holds in every reachable state.
THEOREM Invariance == Spec => []Inv
BY InitInv, NextInv, PTL DEF Spec

\* Every variable keeps its type and T2aChan its capacity.
THEOREM TypeCorrect == Spec => []TypeOK
<1>1. Inv => TypeOK
  BY DEF Inv
<1>2. QED
  BY <1>1, Invariance, PTL

\* No byte of the client is forwarded before the complete fake ClientHello was sent
\* the configured number of times, whatever the number of segments and repetitions,
\* unless the injector was closed.
THEOREM ForwardOnlyAfterFake == Spec => []RealAfterFake
<1>1. Inv => RealAfterFake
  BY DEF Inv, FakeInv, RealAfterFake
<1>2. QED
  BY <1>1, Invariance, PTL

\* No byte of the client is forwarded before the server sent an ACK-class packet with
\* the injection started.
THEOREM ForwardOnlyAfterAck == Spec => []RealAfterAck
<1>1. Inv => RealAfterAck
  BY DEF Inv, AckInv, RealAfterAck
<1>2. QED
  BY <1>1, Invariance, PTL

\* FakeInjectInProgress tells exactly whether an injection goroutine lives; a
\* connection starts at most two, however many packets the loop sees.
THEOREM InjectorsBounded == Spec => []OneInjectorAtATime
<1>1. Inv => OneInjectorAtATime
  BY DEF Inv, InjectorInv, OneInjectorAtATime
<1>2. QED
  BY <1>1, Invariance, PTL

\* The handler that writes SynSeq never runs while an injection goroutine, which reads
\* it without the lock, is alive.
THEOREM SynSeqRaceFree == Spec => []NoSynSeqRace
<1>1. Inv => NoSynSeqRace
  BY DEF Inv, InjectorInv, NoSynSeqRace
<1>2. QED
  BY <1>1, Invariance, PTL

\* A channel of two signals is enough: no send on T2aChan takes the default branch.
THEOREM ChannelLargeEnough == Spec => []NoSignalDropped
<1>1. Inv => NoSignalDropped
  BY DEF Inv, StopInv, NoSignalDropped
<1>2. QED
  BY <1>1, Invariance, PTL

\* At most one fake segment leaves after Monitor was cleared.
THEOREM LateSegmentsBounded == Spec => []AtMostOneLateSegment
<1>1. Inv => AtMostOneLateSegment
  BY DEF Inv, StopInv, AtMostOneLateSegment
<1>2. QED
  BY <1>1, Invariance, PTL

\* An injection that was the only one never closes the sockets of a connection that
\* already forwards.
THEOREM FirstInjectionHarmless == Spec => []OnlySecondInjectionDisturbsRelay
<1>1. Inv => OnlySecondInjectionDisturbsRelay
  BY DEF Inv, InjectorInv, FakeInv, OnlySecondInjectionDisturbsRelay, Injecting, Cleared
<1>2. QED
  BY <1>1, Invariance, PTL

\* However handleConnection returns, sockets, table entry and monitoring are released.
THEOREM ReleasedAtReturn == Spec => []NothingLeftBehind
<1>1. Inv => NothingLeftBehind
  BY DEF Inv, HandlerInv, NothingLeftBehind
<1>2. QED
  BY <1>1, Invariance, PTL

\* The goroutines, the lock, the atomics and the channel together implement the safety
\* part of Session: decoy, then clearance, then forwarding.
THEOREM FlowImplementsSession == Spec => Client!Safety
<1>1. Init => Client!Init
  BY FakeTotalPositive DEF Init, Client!Init, Phase
<1>2. Inv /\ [Next]_vars => [Client!Next]_(Client!vars)
  <2>1. Inv => StateOK /\ HandlerInv /\ FakeInv /\ ChannelOK
    BY DEF Inv, TypeOK
  <2>2. QED
    BY <2>1, SessionStep
<1>3. QED
  BY <1>1, <1>2, Invariance, PTL DEF Spec, Client!Safety
=============================================================================
