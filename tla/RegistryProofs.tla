--------------------------- MODULE RegistryProofs ---------------------------
(***************************************************************************)
(* Proofs about Registry for every set of connections, ports and wire      *)
(* addresses and both kinds of dialer.  The invariant Inv is preserved     *)
(* action by action; the properties are consequences of it.                *)
(***************************************************************************)
EXTENDS Registry, TLAPS

\* The handler has not called connect() yet.
Unconnected == {"new", "regID", "regPort"}

\* What a handler's position says about its connection: it has a port from Bind on, its
\* socket is open until connect() returns, Sock is set only after connect(), and Monitor is
\* not set again once it was cleared.
HandlerInv ==
  \A c \in Conns :
    /\ pc[c] = "new" => srcPort[c] = NoPort /\ ~open[c] /\ ~monitor[c]
    /\ pc[c] # "new" => srcPort[c] \in Ports
    /\ pc[c] \in {"regID", "regPort", "dial"} => open[c]
    /\ sock[c] => pc[c] \notin Unconnected \cup {"dial"}
    /\ pc[c] \in {"unregID", "unregPort", "relay", "done"} => ~monitor[c]

\* The kernel gives a port to one open socket at a time.
PortInv ==
  \A c, d \in Conns : open[c] /\ open[d] /\ srcPort[c] = srcPort[d] => c = d

\* The packet in the loop belongs to a connection that has called connect(), and the
\* connection found for it has the same port.
LoopInv ==
  /\ loop.at # "idle" => loop.owner \in Conns /\ pc[loop.owner] \notin Unconnected
  /\ loop.at \in {"bind", "handle"} \cup Rebinding => loop.found \in Conns
  /\ loop.found \in Conns => loop.at # "idle" /\ srcPort[loop.found] = srcPort[loop.owner]

\* Windows: a monitored connection still has its socket.
WinsockInv == platform = "winsock" => \A c \in Conns : monitor[c] => open[c]

\* Linux and Darwin: the address on the wire is the registered one and nothing is rebound ...
DialerAddress ==
  /\ wireIP = LocalIP /\ \A c \in Conns : srcIP[c] = LocalIP
  /\ \A id \in DOMAIN connections : id[1] = LocalIP
  /\ loop.at \notin {"bind"} \cup Rebinding

\* ... an open socket that has registered owns the entries of its port ...
DialerOwns ==
  \A c \in Conns : open[c] =>
    /\ pc[c] \notin {"new", "regID"} =>
         \A id \in DOMAIN connections : id[2] = srcPort[c] => connections[id] = c
    /\ pc[c] \notin Unconnected =>
         \A p \in DOMAIN byLocalPort : p = srcPort[c] => byLocalPort[p] = c

\* ... and an entry leaves its table when its handler deletes it.
DialerDeletes ==
  /\ \A id \in DOMAIN connections :
       pc[connections[id]] \notin {"regID", "unregPort", "relay", "done"}
  /\ \A p \in DOMAIN byLocalPort :
       pc[byLocalPort[p]] \notin {"regID", "regPort", "relay", "done"}

DialerFound == loop.at = "handle" => loop.found = loop.owner \/ ~open[loop.owner]

DialerInv ==
  platform = "dialer" => DialerAddress /\ DialerOwns /\ DialerDeletes /\ DialerFound

\* A port that was given out clean belongs to its connection alone until the socket is
\* closed: in the tables, in the loop and among the handlers.
AloneOwns ==
  \A c \in Conns : alone[c] /\ open[c] =>
    /\ \A d \in Conns \ {c} : srcPort[d] = srcPort[c] => pc[d] = "done"
    /\ \A id \in DOMAIN connections : id[2] = srcPort[c] => connections[id] = c
    /\ \A p \in DOMAIN byLocalPort : p = srcPort[c] => byLocalPort[p] = c
    /\ loop.found \in Conns /\ srcPort[loop.found] = srcPort[c] => loop.found = c

\* It stays in the port index while it is monitored, except between two steps of a
\* rebinding, which holds conn.Mu.
AloneIndexed ==
  \A c \in Conns : alone[c] /\ Live(c) =>
    \/ srcPort[c] \in DOMAIN byLocalPort
    \/ loop.at \in {"storeID", "storePort"} /\ loop.found = c

Inv ==
  /\ TypeOK /\ HandlerInv /\ PortInv /\ LoopInv
  /\ WinsockInv /\ DialerInv /\ AloneOwns /\ AloneIndexed

-----------------------------------------------------------------------------
\* The tables are only written with the port of the connection that is stored: a
\* rebinding changes the address of a key, never its port, and it stores the connection
\* it found under the port of the packet, which LoopInv says is that connection's own.
LEMMA TypeStep ==
  ASSUME TypeOK, HandlerInv, LoopInv, [Next]_vars
  PROVE  TypeOK'
<1> USE DEF vars, connVars, tables, TypeOK, HandlerInv, LoopInv, Unconnected, Rebinding,
            IPs, IDs, NoPort, Restrict
<1>1. ASSUME NEW c \in Conns, NEW p \in Ports, Bind(c, p) PROVE TypeOK'
  BY <1>1, RegistryAssumption DEF Bind, Traces
<1>2. ASSUME NEW c \in Conns, RegisterID(c) PROVE TypeOK'
  BY <1>2 DEF RegisterID, Store
<1>3. ASSUME NEW c \in Conns, RegisterPort(c) PROVE TypeOK'
  BY <1>3 DEF RegisterPort, Store
<1>4. ASSUME NEW c \in Conns, DialOk(c) PROVE TypeOK'
  BY <1>4 DEF DialOk, MuFree
<1>5. ASSUME NEW c \in Conns, DialFail(c) PROVE TypeOK'
  BY <1>5 DEF DialFail
<1>6. ASSUME NEW c \in Conns, DialRetry(c) PROVE TypeOK'
  BY <1>6 DEF DialRetry
<1>7. ASSUME NEW c \in Conns, WaitOver(c) PROVE TypeOK'
  BY <1>7 DEF WaitOver
<1>8. ASSUME NEW c \in Conns, StopMonitor(c) PROVE TypeOK'
  BY <1>8 DEF StopMonitor, MuFree
<1>9. ASSUME NEW c \in Conns, UnregisterID(c) PROVE TypeOK'
  BY <1>9 DEF UnregisterID, ReadIP, Delete
<1>10. ASSUME NEW c \in Conns, UnregisterPort(c) PROVE TypeOK'
  BY <1>10 DEF UnregisterPort, Delete
<1>11. ASSUME NEW c \in Conns, Close(c) PROVE TypeOK'
  BY <1>11 DEF Close
<1>12. ASSUME NEW c \in Conns, InjectionAbort(c) PROVE TypeOK'
  BY <1>12 DEF InjectionAbort, MuFree, Abort
<1>13. ASSUME NEW c \in Conns, NEW out \in BOOLEAN, Capture(c, out) PROVE TypeOK'
  BY <1>13 DEF Capture, Idle
<1>14. CASE LookupID
  BY <1>14 DEF LookupID, Load, LocalPort
<1>15. CASE LookupPort
  BY <1>15 DEF LookupPort, Idle, Load, LocalPort
<1>16. CASE BindObserved
  BY <1>16 DEF BindObserved, Goto
<1>17. CASE BindWrite
  BY <1>17 DEF BindWrite
<1>18. CASE BindDeleteID
  BY <1>18 DEF BindDeleteID, Goto, Delete
<1>19. CASE BindDeletePort
  BY <1>19 DEF BindDeletePort, Goto, Delete
<1>20. CASE BindStoreID
  BY <1>20 DEF BindStoreID, Goto, Store
<1>21. CASE BindStorePort
  BY <1>21 DEF BindStorePort, Goto, Store
<1>22. CASE Handle
  <2>1. loop.found \in Conns
    BY <1>22 DEF Handle
  <2>2. (open[loop.found] /\ ~sock[loop.found]) \in BOOLEAN
    OBVIOUS
  <2>3. monitor' \in [Conns -> BOOLEAN]
    BY <1>22, <2>1 DEF Handle, Abort
  <2>4. open' \in [Conns -> BOOLEAN]
    <3>1. CASE UNCHANGED open
      BY <3>1
    <3>2. CASE Abort(loop.found)
      BY <2>1, <2>2, <3>2 DEF Abort
    <3>3. QED
      BY <1>22, <3>1, <3>2 DEF Handle
  <2>5. loop' \in [at : {"idle", "byID", "byPort", "bind", "handle"} \cup Rebinding,
                   owner : Conns \cup {NoConn}, out : BOOLEAN,
                   found : Conns \cup {NoConn}, oldIP : IPs]
    BY <1>22 DEF Handle, Idle
  <2>6. QED
    BY <1>22, <2>3, <2>4, <2>5 DEF Handle
<1>23. CASE UNCHANGED vars
  BY <1>23
<1>24. QED
  BY <1>1, <1>2, <1>3, <1>4, <1>5, <1>6, <1>7, <1>8, <1>9, <1>10, <1>11, <1>12, <1>13,
     <1>14, <1>15, <1>16, <1>17, <1>18, <1>19, <1>20, <1>21, <1>22, <1>23 DEF Next,
     Handler, Loop, Terminated

\* What a handler's position says of its connection is kept by the loop too: it closes a
\* socket only when Sock is set, and it only ever clears Monitor.
LEMMA HandlerStep ==
  ASSUME TypeOK, HandlerInv, LoopInv, [Next]_vars
  PROVE  HandlerInv'
<1> USE DEF vars, connVars, tables, TypeOK, HandlerInv, LoopInv, Unconnected, Rebinding
<1>1. ASSUME NEW c \in Conns, NEW p \in Ports, Bind(c, p) PROVE HandlerInv'
  BY <1>1 DEF Bind, Traces
<1>2. ASSUME NEW c \in Conns, RegisterID(c) PROVE HandlerInv'
  BY <1>2 DEF RegisterID
<1>3. ASSUME NEW c \in Conns, RegisterPort(c) PROVE HandlerInv'
  BY <1>3 DEF RegisterPort
<1>4. ASSUME NEW c \in Conns, DialOk(c) PROVE HandlerInv'
  BY <1>4 DEF DialOk, MuFree
<1>5. ASSUME NEW c \in Conns, DialFail(c) PROVE HandlerInv'
  BY <1>5 DEF DialFail
<1>6. ASSUME NEW c \in Conns, DialRetry(c) PROVE HandlerInv'
  BY <1>6 DEF DialRetry
<1>7. ASSUME NEW c \in Conns, WaitOver(c) PROVE HandlerInv'
  BY <1>7 DEF WaitOver
<1>8. ASSUME NEW c \in Conns, StopMonitor(c) PROVE HandlerInv'
  BY <1>8 DEF StopMonitor, MuFree
<1>9. ASSUME NEW c \in Conns, UnregisterID(c) PROVE HandlerInv'
  BY <1>9 DEF UnregisterID, ReadIP
<1>10. ASSUME NEW c \in Conns, UnregisterPort(c) PROVE HandlerInv'
  BY <1>10 DEF UnregisterPort
<1>11. ASSUME NEW c \in Conns, Close(c) PROVE HandlerInv'
  BY <1>11 DEF Close
<1>12. ASSUME NEW c \in Conns, InjectionAbort(c) PROVE HandlerInv'
  BY <1>12 DEF InjectionAbort, MuFree, Abort
<1>13. ASSUME NEW c \in Conns, NEW out \in BOOLEAN, Capture(c, out) PROVE HandlerInv'
  BY <1>13 DEF Capture, Idle
<1>14. CASE LookupID
  BY <1>14 DEF LookupID, Load, LocalPort
<1>15. CASE LookupPort
  BY <1>15 DEF LookupPort, Idle, Load, LocalPort
<1>16. CASE BindObserved
  BY <1>16 DEF BindObserved, Goto
<1>17. CASE BindWrite
  BY <1>17 DEF BindWrite
<1>18. CASE BindDeleteID
  BY <1>18 DEF BindDeleteID, Goto
<1>19. CASE BindDeletePort
  BY <1>19 DEF BindDeletePort, Goto
<1>20. CASE BindStoreID
  BY <1>20 DEF BindStoreID, Goto
<1>21. CASE BindStorePort
  BY <1>21 DEF BindStorePort, Goto
<1>22. CASE Handle
  BY <1>22 DEF Handle, Abort, Idle
<1>23. CASE UNCHANGED vars
  BY <1>23
<1>24. QED
  BY <1>1, <1>2, <1>3, <1>4, <1>5, <1>6, <1>7, <1>8, <1>9, <1>10, <1>11, <1>12, <1>13,
     <1>14, <1>15, <1>16, <1>17, <1>18, <1>19, <1>20, <1>21, <1>22, <1>23 DEF Next,
     Handler, Loop, Terminated

\* Two open sockets have two ports: a port is given out when no open socket has it, and
\* no step but Bind opens a socket or changes a port.
LEMMA PortStep ==
  ASSUME TypeOK, HandlerInv, PortInv, LoopInv, [Next]_vars
  PROVE  PortInv'
<1> USE DEF vars, connVars, tables, TypeOK, HandlerInv, PortInv, LoopInv
<1>1. ASSUME NEW c \in Conns, NEW p \in Ports, Bind(c, p) PROVE PortInv'
  BY <1>1 DEF Bind, Traces
<1>2. ASSUME NEW c \in Conns, RegisterID(c) PROVE PortInv'
  BY <1>2 DEF RegisterID
<1>3. ASSUME NEW c \in Conns, RegisterPort(c) PROVE PortInv'
  BY <1>3 DEF RegisterPort
<1>4. ASSUME NEW c \in Conns, DialOk(c) PROVE PortInv'
  BY <1>4 DEF DialOk, MuFree
<1>5. ASSUME NEW c \in Conns, DialFail(c) PROVE PortInv'
  BY <1>5 DEF DialFail
<1>6. ASSUME NEW c \in Conns, DialRetry(c) PROVE PortInv'
  BY <1>6 DEF DialRetry
<1>7. ASSUME NEW c \in Conns, WaitOver(c) PROVE PortInv'
  BY <1>7 DEF WaitOver
<1>8. ASSUME NEW c \in Conns, StopMonitor(c) PROVE PortInv'
  BY <1>8 DEF StopMonitor, MuFree
<1>9. ASSUME NEW c \in Conns, UnregisterID(c) PROVE PortInv'
  BY <1>9 DEF UnregisterID, ReadIP
<1>10. ASSUME NEW c \in Conns, UnregisterPort(c) PROVE PortInv'
  BY <1>10 DEF UnregisterPort
<1>11. ASSUME NEW c \in Conns, Close(c) PROVE PortInv'
  BY <1>11 DEF Close
<1>12. ASSUME NEW c \in Conns, InjectionAbort(c) PROVE PortInv'
  BY <1>12 DEF InjectionAbort, MuFree, Abort
<1>13. ASSUME NEW c \in Conns, NEW out \in BOOLEAN, Capture(c, out) PROVE PortInv'
  BY <1>13 DEF Capture, Idle
<1>14. CASE LookupID
  BY <1>14 DEF LookupID, Load, LocalPort
<1>15. CASE LookupPort
  BY <1>15 DEF LookupPort, Idle, Load, LocalPort
<1>16. CASE BindObserved
  BY <1>16 DEF BindObserved, Goto
<1>17. CASE BindWrite
  BY <1>17 DEF BindWrite
<1>18. CASE BindDeleteID
  BY <1>18 DEF BindDeleteID, Goto
<1>19. CASE BindDeletePort
  BY <1>19 DEF BindDeletePort, Goto
<1>20. CASE BindStoreID
  BY <1>20 DEF BindStoreID, Goto
<1>21. CASE BindStorePort
  BY <1>21 DEF BindStorePort, Goto
<1>22. CASE Handle
  BY <1>22 DEF Handle, Abort, Idle
<1>23. CASE UNCHANGED vars
  BY <1>23
<1>24. QED
  BY <1>1, <1>2, <1>3, <1>4, <1>5, <1>6, <1>7, <1>8, <1>9, <1>10, <1>11, <1>12, <1>13,
     <1>14, <1>15, <1>16, <1>17, <1>18, <1>19, <1>20, <1>21, <1>22, <1>23 DEF Next,
     Handler, Loop, Terminated

\* Both lookups use the port of the packet, so the connection they find has that port,
\* whichever table it came from and however stale the entry was.
LEMMA LoopStep ==
  ASSUME TypeOK, HandlerInv, LoopInv, [Next]_vars
  PROVE  LoopInv'
<1> USE DEF vars, connVars, tables, TypeOK, HandlerInv, LoopInv, Unconnected, Rebinding
<1>1. ASSUME NEW c \in Conns, NEW p \in Ports, Bind(c, p) PROVE LoopInv'
  BY <1>1, RegistryAssumption DEF Bind, Traces
<1>2. ASSUME NEW c \in Conns, RegisterID(c) PROVE LoopInv'
  BY <1>2 DEF RegisterID
<1>3. ASSUME NEW c \in Conns, RegisterPort(c) PROVE LoopInv'
  BY <1>3 DEF RegisterPort
<1>4. ASSUME NEW c \in Conns, DialOk(c) PROVE LoopInv'
  BY <1>4 DEF DialOk, MuFree
<1>5. ASSUME NEW c \in Conns, DialFail(c) PROVE LoopInv'
  BY <1>5 DEF DialFail
<1>6. ASSUME NEW c \in Conns, DialRetry(c) PROVE LoopInv'
  BY <1>6 DEF DialRetry
<1>7. ASSUME NEW c \in Conns, WaitOver(c) PROVE LoopInv'
  BY <1>7 DEF WaitOver
<1>8. ASSUME NEW c \in Conns, StopMonitor(c) PROVE LoopInv'
  BY <1>8 DEF StopMonitor, MuFree
<1>9. ASSUME NEW c \in Conns, UnregisterID(c) PROVE LoopInv'
  BY <1>9 DEF UnregisterID, ReadIP
<1>10. ASSUME NEW c \in Conns, UnregisterPort(c) PROVE LoopInv'
  BY <1>10 DEF UnregisterPort
<1>11. ASSUME NEW c \in Conns, Close(c) PROVE LoopInv'
  BY <1>11 DEF Close
<1>12. ASSUME NEW c \in Conns, InjectionAbort(c) PROVE LoopInv'
  BY <1>12 DEF InjectionAbort, MuFree, Abort
<1>13. ASSUME NEW c \in Conns, NEW out \in BOOLEAN, Capture(c, out) PROVE LoopInv'
  BY <1>13 DEF Capture, Idle
<1>14. CASE LookupID
  BY <1>14, RegistryAssumption DEF LookupID, Load, LocalPort
<1>15. CASE LookupPort
  BY <1>15, RegistryAssumption DEF LookupPort, Idle, Load, LocalPort
<1>16. CASE BindObserved
  BY <1>16 DEF BindObserved, Goto
<1>17. CASE BindWrite
  BY <1>17 DEF BindWrite
<1>18. CASE BindDeleteID
  BY <1>18 DEF BindDeleteID, Goto
<1>19. CASE BindDeletePort
  BY <1>19 DEF BindDeletePort, Goto
<1>20. CASE BindStoreID
  BY <1>20 DEF BindStoreID, Goto
<1>21. CASE BindStorePort
  BY <1>21 DEF BindStorePort, Goto
<1>22. CASE Handle
  BY <1>22, RegistryAssumption DEF Handle, Abort, Idle
<1>23. CASE UNCHANGED vars
  BY <1>23
<1>24. QED
  BY <1>1, <1>2, <1>3, <1>4, <1>5, <1>6, <1>7, <1>8, <1>9, <1>10, <1>11, <1>12, <1>13,
     <1>14, <1>15, <1>16, <1>17, <1>18, <1>19, <1>20, <1>21, <1>22, <1>23 DEF Next,
     Handler, Loop, Terminated

\* Windows: the socket is closed after Monitor was cleared, by the handler and by an
\* abort.
LEMMA WinsockStep ==
  ASSUME TypeOK, HandlerInv, LoopInv, WinsockInv, [Next]_vars
  PROVE  WinsockInv'
<1> USE DEF vars, connVars, tables, TypeOK, HandlerInv, LoopInv, WinsockInv, Unconnected,
            Rebinding
<1>1. ASSUME NEW c \in Conns, NEW p \in Ports, Bind(c, p) PROVE WinsockInv'
  BY <1>1 DEF Bind, Traces
<1>2. ASSUME NEW c \in Conns, RegisterID(c) PROVE WinsockInv'
  BY <1>2 DEF RegisterID
<1>3. ASSUME NEW c \in Conns, RegisterPort(c) PROVE WinsockInv'
  BY <1>3 DEF RegisterPort
<1>4. ASSUME NEW c \in Conns, DialOk(c) PROVE WinsockInv'
  BY <1>4 DEF DialOk, MuFree
<1>5. ASSUME NEW c \in Conns, DialFail(c) PROVE WinsockInv'
  BY <1>5 DEF DialFail
<1>6. ASSUME NEW c \in Conns, DialRetry(c) PROVE WinsockInv'
  BY <1>6 DEF DialRetry
<1>7. ASSUME NEW c \in Conns, WaitOver(c) PROVE WinsockInv'
  BY <1>7 DEF WaitOver
<1>8. ASSUME NEW c \in Conns, StopMonitor(c) PROVE WinsockInv'
  BY <1>8 DEF StopMonitor, MuFree
<1>9. ASSUME NEW c \in Conns, UnregisterID(c) PROVE WinsockInv'
  BY <1>9 DEF UnregisterID, ReadIP
<1>10. ASSUME NEW c \in Conns, UnregisterPort(c) PROVE WinsockInv'
  BY <1>10 DEF UnregisterPort
<1>11. ASSUME NEW c \in Conns, Close(c) PROVE WinsockInv'
  BY <1>11 DEF Close
<1>12. ASSUME NEW c \in Conns, InjectionAbort(c) PROVE WinsockInv'
  BY <1>12 DEF InjectionAbort, MuFree, Abort
<1>13. ASSUME NEW c \in Conns, NEW out \in BOOLEAN, Capture(c, out) PROVE WinsockInv'
  BY <1>13 DEF Capture, Idle
<1>14. CASE LookupID
  BY <1>14 DEF LookupID, Load, LocalPort
<1>15. CASE LookupPort
  BY <1>15 DEF LookupPort, Idle, Load, LocalPort
<1>16. CASE BindObserved
  BY <1>16 DEF BindObserved, Goto
<1>17. CASE BindWrite
  BY <1>17 DEF BindWrite
<1>18. CASE BindDeleteID
  BY <1>18 DEF BindDeleteID, Goto
<1>19. CASE BindDeletePort
  BY <1>19 DEF BindDeletePort, Goto
<1>20. CASE BindStoreID
  BY <1>20 DEF BindStoreID, Goto
<1>21. CASE BindStorePort
  BY <1>21 DEF BindStorePort, Goto
<1>22. CASE Handle
  BY <1>22 DEF Handle, Abort, Idle
<1>23. CASE UNCHANGED vars
  BY <1>23
<1>24. QED
  BY <1>1, <1>2, <1>3, <1>4, <1>5, <1>6, <1>7, <1>8, <1>9, <1>10, <1>11, <1>12, <1>13,
     <1>14, <1>15, <1>16, <1>17, <1>18, <1>19, <1>20, <1>21, <1>22, <1>23 DEF Next,
     Handler, Loop, Terminated

\* Linux and Darwin: every key has the one local address, because nothing is rebound.
LEMMA DialerAddressStep ==
  ASSUME TypeOK, HandlerInv, LoopInv, platform = "dialer", DialerAddress, [Next]_vars
  PROVE  DialerAddress'
<1> USE DEF vars, connVars, tables, TypeOK, HandlerInv, LoopInv, Unconnected, Rebinding,
            Restrict, IPs, IDs, DialerAddress
<1>1. ASSUME NEW c \in Conns, NEW p \in Ports, Bind(c, p) PROVE DialerAddress'
  BY <1>1 DEF Bind, Traces
<1>2. ASSUME NEW c \in Conns, RegisterID(c) PROVE DialerAddress'
  BY <1>2 DEF RegisterID, Store
<1>3. ASSUME NEW c \in Conns, RegisterPort(c) PROVE DialerAddress'
  BY <1>3 DEF RegisterPort, Store
<1>4. ASSUME NEW c \in Conns, DialOk(c) PROVE DialerAddress'
  BY <1>4 DEF DialOk, MuFree
<1>5. ASSUME NEW c \in Conns, DialFail(c) PROVE DialerAddress'
  BY <1>5 DEF DialFail
<1>6. ASSUME NEW c \in Conns, DialRetry(c) PROVE DialerAddress'
  BY <1>6 DEF DialRetry
<1>7. ASSUME NEW c \in Conns, WaitOver(c) PROVE DialerAddress'
  BY <1>7 DEF WaitOver
<1>8. ASSUME NEW c \in Conns, StopMonitor(c) PROVE DialerAddress'
  BY <1>8 DEF StopMonitor, MuFree
<1>9. ASSUME NEW c \in Conns, UnregisterID(c) PROVE DialerAddress'
  BY <1>9 DEF UnregisterID, ReadIP, Delete
<1>10. ASSUME NEW c \in Conns, UnregisterPort(c) PROVE DialerAddress'
  BY <1>10 DEF UnregisterPort, Delete
<1>11. ASSUME NEW c \in Conns, Close(c) PROVE DialerAddress'
  BY <1>11 DEF Close
<1>12. ASSUME NEW c \in Conns, InjectionAbort(c) PROVE DialerAddress'
  BY <1>12 DEF InjectionAbort, MuFree, Abort
<1>13. ASSUME NEW c \in Conns, NEW out \in BOOLEAN, Capture(c, out) PROVE DialerAddress'
  BY <1>13 DEF Capture, Idle
<1>14. CASE LookupID
  BY <1>14 DEF LookupID, Load, LocalPort
<1>15. CASE LookupPort
  BY <1>15 DEF LookupPort, Idle, Load, LocalPort
<1>16. CASE BindObserved
  BY <1>16 DEF BindObserved, Goto
<1>17. CASE BindWrite
  BY <1>17 DEF BindWrite
<1>18. CASE BindDeleteID
  BY <1>18 DEF BindDeleteID, Goto, Delete
<1>19. CASE BindDeletePort
  BY <1>19 DEF BindDeletePort, Goto, Delete
<1>20. CASE BindStoreID
  BY <1>20 DEF BindStoreID, Goto, Store
<1>21. CASE BindStorePort
  BY <1>21 DEF BindStorePort, Goto, Store
<1>22. CASE Handle
  BY <1>22 DEF Handle, Abort, Idle
<1>23. CASE UNCHANGED vars
  BY <1>23
<1>24. QED
  BY <1>1, <1>2, <1>3, <1>4, <1>5, <1>6, <1>7, <1>8, <1>9, <1>10, <1>11, <1>12, <1>13,
     <1>14, <1>15, <1>16, <1>17, <1>18, <1>19, <1>20, <1>21, <1>22, <1>23 DEF Next,
     Handler, Loop, Terminated

\* Linux and Darwin: an entry of an open connection's port that is not its own could only
\* be stored by another open connection with that port.
LEMMA DialerOwnsStep ==
  ASSUME TypeOK, HandlerInv, PortInv, LoopInv, platform = "dialer", DialerAddress,
         DialerOwns, [Next]_vars
  PROVE  DialerOwns'
<1> USE DEF vars, connVars, tables, TypeOK, HandlerInv, PortInv, LoopInv, Unconnected,
            Rebinding, Restrict, IPs, IDs, DialerAddress, DialerOwns
<1>1. ASSUME NEW c \in Conns, NEW p \in Ports, Bind(c, p) PROVE DialerOwns'
  BY <1>1 DEF Bind, Traces
<1>2. ASSUME NEW c \in Conns, RegisterID(c) PROVE DialerOwns'
  BY <1>2 DEF RegisterID, Store
<1>3. ASSUME NEW c \in Conns, RegisterPort(c) PROVE DialerOwns'
  BY <1>3 DEF RegisterPort, Store
<1>4. ASSUME NEW c \in Conns, DialOk(c) PROVE DialerOwns'
  BY <1>4 DEF DialOk, MuFree
<1>5. ASSUME NEW c \in Conns, DialFail(c) PROVE DialerOwns'
  BY <1>5 DEF DialFail
<1>6. ASSUME NEW c \in Conns, DialRetry(c) PROVE DialerOwns'
  BY <1>6 DEF DialRetry
<1>7. ASSUME NEW c \in Conns, WaitOver(c) PROVE DialerOwns'
  BY <1>7 DEF WaitOver
<1>8. ASSUME NEW c \in Conns, StopMonitor(c) PROVE DialerOwns'
  BY <1>8 DEF StopMonitor, MuFree
<1>9. ASSUME NEW c \in Conns, UnregisterID(c) PROVE DialerOwns'
  BY <1>9 DEF UnregisterID, ReadIP, Delete
<1>10. ASSUME NEW c \in Conns, UnregisterPort(c) PROVE DialerOwns'
  BY <1>10 DEF UnregisterPort, Delete
<1>11. ASSUME NEW c \in Conns, Close(c) PROVE DialerOwns'
  BY <1>11 DEF Close
<1>12. ASSUME NEW c \in Conns, InjectionAbort(c) PROVE DialerOwns'
  BY <1>12 DEF InjectionAbort, MuFree, Abort
<1>13. ASSUME NEW c \in Conns, NEW out \in BOOLEAN, Capture(c, out) PROVE DialerOwns'
  BY <1>13 DEF Capture, Idle
<1>14. CASE LookupID
  BY <1>14 DEF LookupID, Load, LocalPort
<1>15. CASE LookupPort
  BY <1>15 DEF LookupPort, Idle, Load, LocalPort
<1>16. CASE BindObserved
  BY <1>16 DEF BindObserved, Goto
<1>17. CASE BindWrite
  BY <1>17 DEF BindWrite
<1>18. CASE BindDeleteID
  BY <1>18 DEF BindDeleteID, Goto, Delete
<1>19. CASE BindDeletePort
  BY <1>19 DEF BindDeletePort, Goto, Delete
<1>20. CASE BindStoreID
  BY <1>20 DEF BindStoreID, Goto, Store
<1>21. CASE BindStorePort
  BY <1>21 DEF BindStorePort, Goto, Store
<1>22. CASE Handle
  BY <1>22 DEF Handle, Abort, Idle
<1>23. CASE UNCHANGED vars
  BY <1>23
<1>24. QED
  BY <1>1, <1>2, <1>3, <1>4, <1>5, <1>6, <1>7, <1>8, <1>9, <1>10, <1>11, <1>12, <1>13,
     <1>14, <1>15, <1>16, <1>17, <1>18, <1>19, <1>20, <1>21, <1>22, <1>23 DEF Next,
     Handler, Loop, Terminated

\* Linux and Darwin: the entry a handler deletes is under the key it was stored under, so
\* nothing of the connection is left when the handler goes on.
LEMMA DialerDeletesStep ==
  ASSUME TypeOK, HandlerInv, PortInv, LoopInv, platform = "dialer", DialerAddress,
         DialerDeletes, [Next]_vars
  PROVE  DialerDeletes'
<1> USE DEF vars, connVars, tables, TypeOK, HandlerInv, PortInv, LoopInv, Unconnected,
            Rebinding, Restrict, IPs, IDs, DialerAddress, DialerDeletes
<1>1. ASSUME NEW c \in Conns, NEW p \in Ports, Bind(c, p) PROVE DialerDeletes'
  BY <1>1, RegistryAssumption DEF Bind, Traces
<1>2. ASSUME NEW c \in Conns, RegisterID(c) PROVE DialerDeletes'
  BY <1>2 DEF RegisterID, Store
<1>3. ASSUME NEW c \in Conns, RegisterPort(c) PROVE DialerDeletes'
  BY <1>3 DEF RegisterPort, Store
<1>4. ASSUME NEW c \in Conns, DialOk(c) PROVE DialerDeletes'
  BY <1>4 DEF DialOk, MuFree
<1>5. ASSUME NEW c \in Conns, DialFail(c) PROVE DialerDeletes'
  BY <1>5 DEF DialFail
<1>6. ASSUME NEW c \in Conns, DialRetry(c) PROVE DialerDeletes'
  BY <1>6 DEF DialRetry
<1>7. ASSUME NEW c \in Conns, WaitOver(c) PROVE DialerDeletes'
  BY <1>7 DEF WaitOver
<1>8. ASSUME NEW c \in Conns, StopMonitor(c) PROVE DialerDeletes'
  BY <1>8 DEF StopMonitor, MuFree
<1>9. ASSUME NEW c \in Conns, UnregisterID(c) PROVE DialerDeletes'
  BY <1>9 DEF UnregisterID, ReadIP, Delete
<1>10. ASSUME NEW c \in Conns, UnregisterPort(c) PROVE DialerDeletes'
  BY <1>10 DEF UnregisterPort, Delete
<1>11. ASSUME NEW c \in Conns, Close(c) PROVE DialerDeletes'
  BY <1>11 DEF Close
<1>12. ASSUME NEW c \in Conns, InjectionAbort(c) PROVE DialerDeletes'
  BY <1>12 DEF InjectionAbort, MuFree, Abort
<1>13. ASSUME NEW c \in Conns, NEW out \in BOOLEAN, Capture(c, out) PROVE DialerDeletes'
  BY <1>13 DEF Capture, Idle
<1>14. CASE LookupID
  BY <1>14 DEF LookupID, Load, LocalPort
<1>15. CASE LookupPort
  BY <1>15 DEF LookupPort, Idle, Load, LocalPort
<1>16. CASE BindObserved
  BY <1>16 DEF BindObserved, Goto
<1>17. CASE BindWrite
  BY <1>17 DEF BindWrite
<1>18. CASE BindDeleteID
  BY <1>18 DEF BindDeleteID, Goto, Delete
<1>19. CASE BindDeletePort
  BY <1>19 DEF BindDeletePort, Goto, Delete
<1>20. CASE BindStoreID
  BY <1>20 DEF BindStoreID, Goto, Store
<1>21. CASE BindStorePort
  BY <1>21 DEF BindStorePort, Goto, Store
<1>22. CASE Handle
  BY <1>22 DEF Handle, Abort, Idle
<1>23. CASE UNCHANGED vars
  BY <1>23
<1>24. QED
  BY <1>1, <1>2, <1>3, <1>4, <1>5, <1>6, <1>7, <1>8, <1>9, <1>10, <1>11, <1>12, <1>13,
     <1>14, <1>15, <1>16, <1>17, <1>18, <1>19, <1>20, <1>21, <1>22, <1>23 DEF Next,
     Handler, Loop, Terminated

\* Linux and Darwin: a lookup finds the packet's connection or, once that one's socket is
\* closed, possibly another.
LEMMA DialerFoundStep ==
  ASSUME TypeOK, HandlerInv, PortInv, LoopInv, platform = "dialer", DialerAddress,
         DialerOwns, DialerFound, [Next]_vars
  PROVE  DialerFound'
<1> USE DEF vars, connVars, tables, TypeOK, HandlerInv, PortInv, LoopInv, Unconnected,
            Rebinding, Restrict, IPs, IDs, DialerAddress, DialerOwns, DialerFound
<1>1. ASSUME NEW c \in Conns, NEW p \in Ports, Bind(c, p) PROVE DialerFound'
  BY <1>1 DEF Bind, Traces
<1>2. ASSUME NEW c \in Conns, RegisterID(c) PROVE DialerFound'
  BY <1>2 DEF RegisterID, Store
<1>3. ASSUME NEW c \in Conns, RegisterPort(c) PROVE DialerFound'
  BY <1>3 DEF RegisterPort, Store
<1>4. ASSUME NEW c \in Conns, DialOk(c) PROVE DialerFound'
  BY <1>4 DEF DialOk, MuFree
<1>5. ASSUME NEW c \in Conns, DialFail(c) PROVE DialerFound'
  BY <1>5 DEF DialFail
<1>6. ASSUME NEW c \in Conns, DialRetry(c) PROVE DialerFound'
  BY <1>6 DEF DialRetry
<1>7. ASSUME NEW c \in Conns, WaitOver(c) PROVE DialerFound'
  BY <1>7 DEF WaitOver
<1>8. ASSUME NEW c \in Conns, StopMonitor(c) PROVE DialerFound'
  BY <1>8 DEF StopMonitor, MuFree
<1>9. ASSUME NEW c \in Conns, UnregisterID(c) PROVE DialerFound'
  BY <1>9 DEF UnregisterID, ReadIP, Delete
<1>10. ASSUME NEW c \in Conns, UnregisterPort(c) PROVE DialerFound'
  BY <1>10 DEF UnregisterPort, Delete
<1>11. ASSUME NEW c \in Conns, Close(c) PROVE DialerFound'
  BY <1>11 DEF Close
<1>12. ASSUME NEW c \in Conns, InjectionAbort(c) PROVE DialerFound'
  BY <1>12 DEF InjectionAbort, MuFree, Abort
<1>13. ASSUME NEW c \in Conns, NEW out \in BOOLEAN, Capture(c, out) PROVE DialerFound'
  BY <1>13 DEF Capture, Idle
<1>14. CASE LookupID
  BY <1>14 DEF LookupID, Load, LocalPort
<1>15. CASE LookupPort
  BY <1>15 DEF LookupPort, Idle, Load, LocalPort
<1>16. CASE BindObserved
  BY <1>16 DEF BindObserved, Goto
<1>17. CASE BindWrite
  BY <1>17 DEF BindWrite
<1>18. CASE BindDeleteID
  BY <1>18 DEF BindDeleteID, Goto, Delete
<1>19. CASE BindDeletePort
  BY <1>19 DEF BindDeletePort, Goto, Delete
<1>20. CASE BindStoreID
  BY <1>20 DEF BindStoreID, Goto, Store
<1>21. CASE BindStorePort
  BY <1>21 DEF BindStorePort, Goto, Store
<1>22. CASE Handle
  BY <1>22 DEF Handle, Abort, Idle
<1>23. CASE UNCHANGED vars
  BY <1>23
<1>24. QED
  BY <1>1, <1>2, <1>3, <1>4, <1>5, <1>6, <1>7, <1>8, <1>9, <1>10, <1>11, <1>12, <1>13,
     <1>14, <1>15, <1>16, <1>17, <1>18, <1>19, <1>20, <1>21, <1>22, <1>23 DEF Next,
     Handler, Loop, Terminated

\* A port that was clean when it was given out stays its connection's own: while the
\* socket is open nobody else gets the port, and only a connection that has the port
\* stores or deletes entries of it.
LEMMA AloneOwnsStep ==
  ASSUME TypeOK, HandlerInv, PortInv, LoopInv, AloneOwns, [Next]_vars
  PROVE  AloneOwns'
<1> USE DEF vars, connVars, tables, TypeOK, HandlerInv, PortInv, LoopInv, Unconnected,
            Rebinding, Restrict, IPs, IDs, AloneOwns
<1>1. ASSUME NEW c \in Conns, NEW p \in Ports, Bind(c, p) PROVE AloneOwns'
  <2>1. /\ \A d \in Conns \ {c} : /\ srcPort'[d] = srcPort[d] /\ open'[d] = open[d]
                                /\ pc'[d] = pc[d] /\ alone'[d] = alone[d]
        /\ srcPort'[c] = p /\ pc'[c] # "done" /\ alone'[c] = ~Traces(p)
        /\ UNCHANGED <<connections, byLocalPort, loop>>
    BY <1>1 DEF Bind
  <2>2. loop.found # c
    BY <1>1, RegistryAssumption DEF Bind
  <2>3. SUFFICES ASSUME NEW e \in Conns, alone'[e], open'[e]
                 PROVE  /\ \A d \in Conns \ {e} :
                             srcPort'[d] = srcPort'[e] => pc'[d] = "done"
                        /\ \A id \in DOMAIN connections :
                             id[2] = srcPort'[e] => connections[id] = e
                        /\ \A q \in DOMAIN byLocalPort : q = srcPort'[e] => byLocalPort[q] = e
                        /\ loop.found \in Conns /\ srcPort'[loop.found] = srcPort'[e]
                             => loop.found = e
    BY <2>1
  <2>4. CASE e = c
    <3>1. ~Traces(p)
      BY <2>1, <2>3, <2>4
    <3>2. \A id \in DOMAIN connections : id[2] # p
      <4>1. \A id \in IDs : id = <<id[1], id[2]>> /\ id[1] \in IPs
        OBVIOUS
      <4>2. \A ip \in IPs : <<ip, p>> \notin DOMAIN connections
        BY <3>1 DEF Traces
      <4>3. TAKE id \in DOMAIN connections
      <4>4. id = <<id[1], id[2]>> /\ id[1] \in IPs
        BY <4>1
      <4>5. QED
        BY <4>2, <4>4
    <3>3. \A d \in Conns \ {c} : srcPort[d] = p => pc[d] = "done"
      BY <3>1 DEF Traces
    <3>4. p \notin DOMAIN byLocalPort /\ (loop.found \in Conns => srcPort[loop.found] # p)
      BY <3>1, RegistryAssumption DEF Traces
    <3>5. QED
      BY <2>1, <2>2, <2>4, <3>2, <3>3, <3>4
  <2>5. CASE e # c
    BY <1>1, <2>1, <2>2, <2>3, <2>5 DEF Bind
  <2>6. QED
    BY <2>4, <2>5
<1>2. ASSUME NEW c \in Conns, RegisterID(c) PROVE AloneOwns'
  BY <1>2 DEF RegisterID, Store
<1>3. ASSUME NEW c \in Conns, RegisterPort(c) PROVE AloneOwns'
  BY <1>3 DEF RegisterPort, Store
<1>4. ASSUME NEW c \in Conns, DialOk(c) PROVE AloneOwns'
  BY <1>4 DEF DialOk, MuFree
<1>5. ASSUME NEW c \in Conns, DialFail(c) PROVE AloneOwns'
  BY <1>5 DEF DialFail
<1>6. ASSUME NEW c \in Conns, DialRetry(c) PROVE AloneOwns'
  BY <1>6 DEF DialRetry
<1>7. ASSUME NEW c \in Conns, WaitOver(c) PROVE AloneOwns'
  BY <1>7 DEF WaitOver
<1>8. ASSUME NEW c \in Conns, StopMonitor(c) PROVE AloneOwns'
  BY <1>8 DEF StopMonitor, MuFree
<1>9. ASSUME NEW c \in Conns, UnregisterID(c) PROVE AloneOwns'
  BY <1>9 DEF UnregisterID, ReadIP, Delete
<1>10. ASSUME NEW c \in Conns, UnregisterPort(c) PROVE AloneOwns'
  BY <1>10 DEF UnregisterPort, Delete
<1>11. ASSUME NEW c \in Conns, Close(c) PROVE AloneOwns'
  BY <1>11 DEF Close
<1>12. ASSUME NEW c \in Conns, InjectionAbort(c) PROVE AloneOwns'
  BY <1>12 DEF InjectionAbort, MuFree, Abort
<1>13. ASSUME NEW c \in Conns, NEW out \in BOOLEAN, Capture(c, out) PROVE AloneOwns'
  BY <1>13 DEF Capture, Idle
<1>14. CASE LookupID
  BY <1>14, RegistryAssumption DEF LookupID, Load, LocalPort
<1>15. CASE LookupPort
  BY <1>15, RegistryAssumption DEF LookupPort, Idle, Load, LocalPort
<1>16. CASE BindObserved
  BY <1>16 DEF BindObserved, Goto
<1>17. CASE BindWrite
  BY <1>17 DEF BindWrite
<1>18. CASE BindDeleteID
  BY <1>18 DEF BindDeleteID, Goto, Delete
<1>19. CASE BindDeletePort
  BY <1>19 DEF BindDeletePort, Goto, Delete
<1>20. CASE BindStoreID
  BY <1>20 DEF BindStoreID, Goto, Store
<1>21. CASE BindStorePort
  BY <1>21 DEF BindStorePort, Goto, Store
<1>22. CASE Handle
  BY <1>22, RegistryAssumption DEF Handle, Abort, Idle
<1>23. CASE UNCHANGED vars
  BY <1>23
<1>24. QED
  BY <1>1, <1>2, <1>3, <1>4, <1>5, <1>6, <1>7, <1>8, <1>9, <1>10, <1>11, <1>12, <1>13,
     <1>14, <1>15, <1>16, <1>17, <1>18, <1>19, <1>20, <1>21, <1>22, <1>23 DEF Next,
     Handler, Loop, Terminated

\* The entry of such a port leaves the index only by a deletion of the connection itself:
\* its handler's, after Monitor was cleared, or a rebinding's, which stores it again.
LEMMA AloneIndexedStep ==
  ASSUME TypeOK, HandlerInv, PortInv, LoopInv, AloneOwns, AloneIndexed, [Next]_vars
  PROVE  AloneIndexed'
<1> USE DEF vars, connVars, tables, TypeOK, HandlerInv, PortInv, LoopInv, Unconnected,
            Rebinding, Restrict, IPs, IDs, AloneOwns, AloneIndexed, Live
<1>1. ASSUME NEW c \in Conns, NEW p \in Ports, Bind(c, p) PROVE AloneIndexed'
  BY <1>1 DEF Bind, Traces
<1>2. ASSUME NEW c \in Conns, RegisterID(c) PROVE AloneIndexed'
  BY <1>2 DEF RegisterID, Store
<1>3. ASSUME NEW c \in Conns, RegisterPort(c) PROVE AloneIndexed'
  BY <1>3 DEF RegisterPort, Store
<1>4. ASSUME NEW c \in Conns, DialOk(c) PROVE AloneIndexed'
  BY <1>4 DEF DialOk, MuFree
<1>5. ASSUME NEW c \in Conns, DialFail(c) PROVE AloneIndexed'
  BY <1>5 DEF DialFail
<1>6. ASSUME NEW c \in Conns, DialRetry(c) PROVE AloneIndexed'
  BY <1>6 DEF DialRetry
<1>7. ASSUME NEW c \in Conns, WaitOver(c) PROVE AloneIndexed'
  BY <1>7 DEF WaitOver
<1>8. ASSUME NEW c \in Conns, StopMonitor(c) PROVE AloneIndexed'
  BY <1>8 DEF StopMonitor, MuFree
<1>9. ASSUME NEW c \in Conns, UnregisterID(c) PROVE AloneIndexed'
  BY <1>9 DEF UnregisterID, ReadIP, Delete
<1>10. ASSUME NEW c \in Conns, UnregisterPort(c) PROVE AloneIndexed'
  BY <1>10 DEF UnregisterPort, Delete
<1>11. ASSUME NEW c \in Conns, Close(c) PROVE AloneIndexed'
  BY <1>11 DEF Close
<1>12. ASSUME NEW c \in Conns, InjectionAbort(c) PROVE AloneIndexed'
  BY <1>12 DEF InjectionAbort, MuFree, Abort
<1>13. ASSUME NEW c \in Conns, NEW out \in BOOLEAN, Capture(c, out) PROVE AloneIndexed'
  BY <1>13 DEF Capture, Idle
<1>14. CASE LookupID
  BY <1>14 DEF LookupID, Load, LocalPort
<1>15. CASE LookupPort
  BY <1>15 DEF LookupPort, Idle, Load, LocalPort
<1>16. CASE BindObserved
  BY <1>16 DEF BindObserved, Goto
<1>17. CASE BindWrite
  BY <1>17 DEF BindWrite
<1>18. CASE BindDeleteID
  BY <1>18 DEF BindDeleteID, Goto, Delete
<1>19. CASE BindDeletePort
  BY <1>19 DEF BindDeletePort, Goto, Delete
<1>20. CASE BindStoreID
  BY <1>20 DEF BindStoreID, Goto, Store
<1>21. CASE BindStorePort
  BY <1>21 DEF BindStorePort, Goto, Store
<1>22. CASE Handle
  BY <1>22 DEF Handle, Abort, Idle
<1>23. CASE UNCHANGED vars
  BY <1>23
<1>24. QED
  BY <1>1, <1>2, <1>3, <1>4, <1>5, <1>6, <1>7, <1>8, <1>9, <1>10, <1>11, <1>12, <1>13,
     <1>14, <1>15, <1>16, <1>17, <1>18, <1>19, <1>20, <1>21, <1>22, <1>23 DEF Next,
     Handler, Loop, Terminated

\* The build and the address on the wire are chosen once.
LEMMA PlatformFixed == ASSUME [Next]_vars PROVE UNCHANGED <<platform, wireIP>>
BY DEF Next, vars, connVars, tables, Handler, Bind, RegisterID, RegisterPort, DialOk,
       DialFail, DialRetry, WaitOver, StopMonitor, UnregisterID, UnregisterPort, Close,
       InjectionAbort, Loop, Capture, LookupID, LookupPort, BindObserved, BindWrite,
       BindDeleteID, BindDeletePort, BindStoreID, BindStorePort, Handle, Terminated

-----------------------------------------------------------------------------
\* Every reachable state of every instance satisfies Inv.
THEOREM RegistryInvariant == Spec => []Inv
<1>1. Init => Inv
  <2> SUFFICES ASSUME Init PROVE Inv
    OBVIOUS
  <2> USE RegistryAssumption DEF Init, Idle
  <2>1. TypeOK
    BY DEF TypeOK, IPs, Rebinding
  <2>2. HandlerInv /\ PortInv /\ LoopInv
    BY DEF HandlerInv, PortInv, LoopInv, Unconnected, Rebinding
  <2>3. WinsockInv /\ DialerInv
    BY DEF WinsockInv, DialerInv, DialerAddress, DialerOwns, DialerDeletes, DialerFound,
           Rebinding
  <2>4. AloneOwns /\ AloneIndexed
    BY DEF AloneOwns, AloneIndexed
  <2>5. QED
    BY <2>1, <2>2, <2>3, <2>4 DEF Inv
<1>2. Inv /\ [Next]_vars => Inv'
  <2> SUFFICES ASSUME Inv, [Next]_vars PROVE Inv'
    OBVIOUS
  <2> USE DEF Inv
  <2>1. TypeOK' /\ HandlerInv' /\ PortInv' /\ LoopInv' /\ WinsockInv'
    BY TypeStep, HandlerStep, PortStep, LoopStep, WinsockStep
  <2>2. platform' = platform
    BY PlatformFixed
  <2>3. DialerInv'
    BY <2>2, DialerAddressStep, DialerOwnsStep, DialerDeletesStep, DialerFoundStep
       DEF DialerInv
  <2>4. AloneOwns' /\ AloneIndexed'
    BY AloneOwnsStep, AloneIndexedStep
  <2>5. QED
    BY <2>1, <2>3, <2>4
<1>3. QED
  BY <1>1, <1>2, PTL DEF Spec

\* The tables never hold a connection under another port than its own, although
\* bindObservedTuple stores connections again while their handlers unregister them.
THEOREM RegistryTypeCorrect == Spec => []TypeOK
BY RegistryInvariant, PTL DEF Inv

\* handlePacket never works on one connection's state with another connection's packet
\* while the packet's socket is open, for any number of connections, ports and retried
\* dials.  On Windows this rests on monitored connections having their sockets and the
\* kernel giving out a port once; on Linux and Darwin on who owns the entries of a port.
THEOREM PacketsNotMixedUp == Spec => []NotHandledAsAnother
<1>1. Inv => NotHandledAsAnother
  <2> SUFFICES ASSUME Inv, loop.at = "handle", monitor[loop.found], open[loop.owner]
               PROVE  loop.found = loop.owner
    BY DEF NotHandledAsAnother
  <2>1. loop.found \in Conns /\ loop.owner \in Conns
    BY DEF Inv, LoopInv
  <2>2. srcPort[loop.found] = srcPort[loop.owner]
    BY <2>1 DEF Inv, LoopInv
  <2>3. CASE platform = "winsock"
    BY <2>1, <2>2, <2>3 DEF Inv, WinsockInv, PortInv
  <2>4. CASE platform = "dialer"
    BY <2>4 DEF Inv, DialerInv, DialerFound
  <2>5. QED
    BY <2>3, <2>4, RegistryAssumption DEF Inv, TypeOK
<1>2. QED
  BY <1>1, RegistryInvariant, PTL

\* A connection whose port carried no trace of an earlier one is found by every packet of
\* its own while it is monitored: registration before connect() does what it is for.
THEOREM CleanPortFound == Spec => []UndisturbedFound
<1>1. Inv => UndisturbedFound
  <2> SUFFICES ASSUME Inv, NEW c \in Conns, Live(c), alone[c], MuFree(c)
               PROVE  Lookup(c) = c
    BY DEF UndisturbedFound
  <2>1. srcPort[c] \in DOMAIN byLocalPort
    BY DEF Inv, AloneIndexed, MuFree, Rebinding
  <2>2. /\ \A id \in DOMAIN connections : id[2] = srcPort[c] => connections[id] = c
        /\ byLocalPort[srcPort[c]] = c
    BY <2>1 DEF Inv, AloneOwns, Live
  <2>3. c # NoConn
    BY RegistryAssumption
  <2>4. QED
    BY <2>1, <2>2, <2>3 DEF Lookup, Load
<1>2. QED
  BY <1>1, RegistryInvariant, PTL

\* When a handler has returned its connection is not monitored, and with net.Dialer
\* neither table refers to it: what UnregisterConn deletes is all there was.
THEOREM FinishedForgotten == Spec => []DoneForgotten
<1>1. Inv => DoneForgotten
  <2> SUFFICES ASSUME Inv, NEW c \in Conns, pc[c] = "done"
               PROVE  /\ ~monitor[c]
                      /\ platform = "dialer" =>
                           c \notin Range(connections) \cup Range(byLocalPort)
    BY DEF DoneForgotten
  <2>1. ~monitor[c]
    BY DEF Inv, HandlerInv
  <2>2. ASSUME platform = "dialer" PROVE c \notin Range(connections)
    BY <2>2 DEF Inv, DialerInv, DialerDeletes, Range
  <2>3. ASSUME platform = "dialer" PROVE c \notin Range(byLocalPort)
    BY <2>3 DEF Inv, DialerInv, DialerDeletes, Range
  <2>4. QED
    BY <2>1, <2>2, <2>3
<1>2. QED
  BY <1>1, RegistryInvariant, PTL
=============================================================================
