------------------------------ MODULE Registry ------------------------------
(***************************************************************************)
(* The tables of the injector when several connections are served:         *)
(* Connections (4-tuple -> connection) and byLocalPort (local port ->      *)
(* connection).  A handler registers its connection before connect() and   *)
(* unregisters it when monitoring ends; the packet loop looks up every     *)
(* packet and, on Windows, stores a connection again under the source      *)
(* address it observes (bindObservedTuple).  The tables are sync.Maps:     *)
(* every Load, Store and Delete is a step of its own.                      *)
(*                                                                         *)
(* A member of Conns is one FakeInjectiveConnection with the handler that  *)
(* made it.  All connections go to one server, so a tuple is a local       *)
(* address and a port.  What a handler does with a packet is Flow; here it *)
(* may keep, clear or abort the connection.                                *)
(***************************************************************************)
EXTENDS Naturals, FiniteSets, Functions

CONSTANTS
  Conns,      \* connections
  Ports,      \* local ports the kernel may give out
  LocalIP,    \* the configured interface address
  WireIPs,    \* addresses the route may choose for a socket bound to 0.0.0.0
  Platforms   \* "dialer" (Linux, Darwin) and "winsock" (Windows)

NoConn == "no connection"
NoPort == 0

ASSUME RegistryAssumption ==
  /\ NoConn \notin Conns
  /\ Ports # {} /\ NoPort \notin Ports
  /\ WireIPs # {}
  /\ Platforms # {} /\ Platforms \subseteq {"dialer", "winsock"}

VARIABLES
  platform, wireIP,          \* chosen once: the build, and the address on the wire
  connections, byLocalPort,  \* the two tables, as partial functions
  pc,                        \* the handler of a connection
  srcIP, srcPort,            \* SrcIP and SrcPort; ID is the pair of them
  monitor, sock,             \* Monitor, and whether Sock is set
  open,                      \* the outgoing socket is open and holds its port
  loop,                      \* the packet loop: its step and the packet's lookup
  alone                      \* history: nothing of another connection was left of
                             \* the port when the kernel gave it out

connVars == <<pc, srcIP, srcPort, monitor, sock, open>>
tables == <<connections, byLocalPort>>
vars == <<platform, wireIP, tables, connVars, loop, alone>>

IPs == {LocalIP} \cup WireIPs
IDs == IPs \X Ports

Idle ==
  [at |-> "idle", owner |-> NoConn, out |-> FALSE, found |-> NoConn, oldIP |-> LocalIP]

Init ==
  /\ platform \in Platforms
  /\ wireIP \in IF platform = "winsock" THEN WireIPs ELSE {LocalIP}
  /\ connections = <<>> /\ byLocalPort = <<>>
  /\ pc = [c \in Conns |-> "new"]
  /\ srcIP = [c \in Conns |-> LocalIP] /\ srcPort = [c \in Conns |-> NoPort]
  /\ monitor = [c \in Conns |-> FALSE] /\ sock = [c \in Conns |-> FALSE]
  /\ open = [c \in Conns |-> FALSE]
  /\ loop = Idle
  /\ alone = [c \in Conns |-> FALSE]

\* sync.Map: Store, Delete, and Load with NoConn for "not there".
Store(table, key, c) == [k \in DOMAIN table \cup {key} |-> IF k = key THEN c ELSE table[k]]
Delete(table, key) == Restrict(table, DOMAIN table \ {key})
Load(table, key) == IF key \in DOMAIN table THEN table[key] ELSE NoConn

\* The steps of bindObservedTuple between its Lock and its Unlock.
Rebinding == {"write", "delID", "delPort", "storeID", "storePort"}

\* conn.Mu is not held by the loop.  Handling a packet is one step.
MuFree(c) == ~(loop.at \in Rebinding /\ loop.found = c)

-----------------------------------------------------------------------------
(***************************************************************************)
(* The handler: dialOutgoing and stopMonitoring.                           *)
(***************************************************************************)

\* Some trace of an earlier connection with this port: its handler has not finished
\* unregistering, a table still holds it, or the loop is working on it.
Traces(p) ==
  \/ \E d \in Conns : srcPort[d] = p /\ pc[d] # "done"
  \/ p \in DOMAIN byLocalPort \/ \E ip \in IPs : <<ip, p>> \in DOMAIN connections
  \/ loop.found # NoConn /\ srcPort[loop.found] = p

\* Mutant: getsockname is left out and the connection registers with port 0.
MutBind(c, p) ==
  /\ pc[c] = "new"
  /\ open' = [open EXCEPT ![c] = TRUE]
  /\ monitor' = [monitor EXCEPT ![c] = TRUE]
  /\ pc' = [pc EXCEPT ![c] = "regID"]
  /\ UNCHANGED <<platform, wireIP, tables, srcIP, srcPort, sock, loop, alone>>

\* bind to port 0 and getsockname: the kernel gives out a port no open socket has.
\* NewFakeInjectiveConnection sets Monitor.
Bind(c, p) ==
  /\ pc[c] = "new"
  /\ \A d \in Conns : open[d] => srcPort[d] # p
  /\ srcPort' = [srcPort EXCEPT ![c] = p]
  /\ open' = [open EXCEPT ![c] = TRUE]
  /\ monitor' = [monitor EXCEPT ![c] = TRUE]
  /\ alone' = [alone EXCEPT ![c] = ~Traces(p)]
  /\ pc' = [pc EXCEPT ![c] = "regID"]
  /\ UNCHANGED <<platform, wireIP, tables, srcIP, sock, loop>>

\* Mutant: an entry that is there is kept (LoadOrStore).
MutRegisterID(c) ==
  /\ pc[c] = "regID"
  /\ connections' = IF <<srcIP[c], srcPort[c]>> \in DOMAIN connections THEN connections
                    ELSE Store(connections, <<srcIP[c], srcPort[c]>>, c)
  /\ pc' = [pc EXCEPT ![c] = "regPort"]
  /\ UNCHANGED <<platform, wireIP, byLocalPort, srcIP, srcPort, monitor, sock, open,
                 loop, alone>>

\* RegisterConn: Connections.Store(conn.ID, conn) ...
RegisterID(c) ==
  /\ pc[c] = "regID"
  /\ connections' = Store(connections, <<srcIP[c], srcPort[c]>>, c)
  /\ pc' = [pc EXCEPT ![c] = "regPort"]
  /\ UNCHANGED <<platform, wireIP, byLocalPort, srcIP, srcPort, monitor, sock, open,
                 loop, alone>>

\* Mutant: the port index is not filled.
MutRegisterPort(c) ==
  /\ pc[c] = "regPort"
  /\ pc' = [pc EXCEPT ![c] = "dial"]
  /\ UNCHANGED <<platform, wireIP, tables, srcIP, srcPort, monitor, sock, open, loop,
                 alone>>

\* ... byLocalPort.Store(conn.SrcPort, conn); then connect() sends the SYN.
RegisterPort(c) ==
  /\ pc[c] = "regPort"
  /\ byLocalPort' = Store(byLocalPort, srcPort[c], c)
  /\ pc' = [pc EXCEPT ![c] = "dial"]
  /\ UNCHANGED <<platform, wireIP, connections, srcIP, srcPort, monitor, sock, open,
                 loop, alone>>

\* connect() succeeds and conn.Sock is set.
DialOk(c) ==
  /\ pc[c] = "dial" /\ MuFree(c)
  /\ sock' = [sock EXCEPT ![c] = TRUE]
  /\ pc' = [pc EXCEPT ![c] = "wait"]
  /\ UNCHANGED <<platform, wireIP, tables, srcIP, srcPort, monitor, open, loop, alone>>

\* connect() fails.  net.Dialer closes the socket before Dial returns; on Windows it
\* is closed after the connection was unregistered.
DialFail(c) ==
  /\ pc[c] = "dial"
  /\ open' = [open EXCEPT ![c] = platform = "winsock"]
  /\ pc' = [pc EXCEPT ![c] = "stop"]
  /\ UNCHANGED <<platform, wireIP, tables, srcIP, srcPort, monitor, sock, loop, alone>>

\* net.Dialer closes the socket and tries again (a self-connect, or EADDRNOTAVAIL):
\* Control is called once more and its new connection, another member of Conns, takes
\* the place of this one, which nobody unregisters.
DialRetry(c) ==
  /\ pc[c] = "dial" /\ platform = "dialer"
  /\ open' = [open EXCEPT ![c] = FALSE]
  /\ pc' = [pc EXCEPT ![c] = "leaked"]
  /\ UNCHANGED <<platform, wireIP, tables, srcIP, srcPort, monitor, sock, loop, alone>>

\* A signal or the ACK timeout ends the wait.
WaitOver(c) ==
  /\ pc[c] = "wait"
  /\ pc' = [pc EXCEPT ![c] = "stop"]
  /\ UNCHANGED <<platform, wireIP, tables, srcIP, srcPort, monitor, sock, open, loop,
                 alone>>

\* conn.Monitor = false under conn.Mu.
StopMonitor(c) ==
  /\ pc[c] = "stop" /\ MuFree(c)
  /\ monitor' = [monitor EXCEPT ![c] = FALSE]
  /\ pc' = [pc EXCEPT ![c] = "unregID"]
  /\ UNCHANGED <<platform, wireIP, tables, srcIP, srcPort, sock, open, loop, alone>>

\* What an unlocked read of conn.ID may return: while the loop assigns it, the old or
\* the new address or a mixture that is no key.
ReadIP(c) ==
  IF loop.at = "write" /\ loop.found = c THEN {srcIP[c], wireIP, "torn"} ELSE {srcIP[c]}

\* UnregisterConn: Connections.Delete(conn.ID) ...
UnregisterID(c) ==
  /\ pc[c] = "unregID"
  /\ \E ip \in ReadIP(c) : connections' = Delete(connections, <<ip, srcPort[c]>>)
  /\ pc' = [pc EXCEPT ![c] = "unregPort"]
  /\ UNCHANGED <<platform, wireIP, byLocalPort, srcIP, srcPort, monitor, sock, open,
                 loop, alone>>

\* Mutant: the port index is forgotten.
MutUnregisterPort(c) ==
  /\ pc[c] = "unregPort"
  /\ pc' = [pc EXCEPT ![c] = "relay"]
  /\ UNCHANGED <<platform, wireIP, tables, srcIP, srcPort, monitor, sock, open, loop,
                 alone>>

\* ... byLocalPort.Delete(conn.SrcPort); rebinding never changes the port.
UnregisterPort(c) ==
  /\ pc[c] = "unregPort"
  /\ byLocalPort' = Delete(byLocalPort, srcPort[c])
  /\ pc' = [pc EXCEPT ![c] = "relay"]
  /\ UNCHANGED <<platform, wireIP, connections, srcIP, srcPort, monitor, sock, open,
                 loop, alone>>

\* The relay ends, or there was none: the socket is closed and its port is free.
Close(c) ==
  /\ pc[c] = "relay"
  /\ open' = [open EXCEPT ![c] = FALSE]
  /\ pc' = [pc EXCEPT ![c] = "done"]
  /\ UNCHANGED <<platform, wireIP, tables, srcIP, srcPort, monitor, sock, loop, alone>>

Handler(c) ==
  \/ \E p \in Ports : Bind(c, p)
  \/ RegisterID(c) \/ RegisterPort(c) \/ DialOk(c) \/ DialFail(c) \/ DialRetry(c)
  \/ WaitOver(c) \/ StopMonitor(c) \/ UnregisterID(c) \/ UnregisterPort(c) \/ Close(c)

-----------------------------------------------------------------------------
(***************************************************************************)
(* The packet loop.                                                        *)
(***************************************************************************)

Goto(step) == loop' = [loop EXCEPT !.at = step]

\* A packet of an open socket that has called connect(), in either direction.
Capture(c, out) ==
  /\ loop.at = "idle" /\ open[c] /\ pc[c] \notin {"regID", "regPort"}
  /\ loop' = [Idle EXCEPT !.at = "byID", !.owner = c, !.out = out]
  /\ UNCHANGED <<platform, wireIP, tables, connVars, alone>>

\* The port of the packet's local end.
LocalPort == srcPort[loop.owner]

\* lookupConnQuad: the 4-tuple first ...
LookupID ==
  /\ loop.at = "byID"
  /\ LET c == Load(connections, <<wireIP, LocalPort>>)
     IN loop' = [loop EXCEPT !.found = c, !.at = IF c = NoConn THEN "byPort" ELSE "handle"]
  /\ UNCHANGED <<platform, wireIP, tables, connVars, alone>>

\* ... then the local port; on Windows an outbound packet also rebinds the connection.
LookupPort ==
  /\ loop.at = "byPort"
  /\ LET c == Load(byLocalPort, LocalPort)
     IN loop' = CASE c = NoConn -> Idle
                  [] c # NoConn /\ platform = "winsock" /\ loop.out ->
                       [loop EXCEPT !.found = c, !.at = "bind"]
                  [] OTHER -> [loop EXCEPT !.found = c, !.at = "handle"]
  /\ UNCHANGED <<platform, wireIP, tables, connVars, alone>>

\* bindObservedTuple: lock conn.Mu; nothing to do for the registered address.
BindObserved ==
  /\ loop.at = "bind"
  /\ Goto(IF srcIP[loop.found] = wireIP THEN "handle" ELSE "write")
  /\ UNCHANGED <<platform, wireIP, tables, connVars, alone>>

\* conn.SrcIP and conn.ID are assigned.
BindWrite ==
  /\ loop.at = "write"
  /\ srcIP' = [srcIP EXCEPT ![loop.found] = wireIP]
  /\ loop' = [loop EXCEPT !.at = "delID", !.oldIP = srcIP[loop.found]]
  /\ UNCHANGED <<platform, wireIP, tables, pc, srcPort, monitor, sock, open, alone>>

BindDeleteID ==
  /\ loop.at = "delID"
  /\ connections' = Delete(connections, <<loop.oldIP, srcPort[loop.found]>>)
  /\ Goto("delPort")
  /\ UNCHANGED <<platform, wireIP, byLocalPort, connVars, alone>>

BindDeletePort ==
  /\ loop.at = "delPort"
  /\ byLocalPort' = Delete(byLocalPort, srcPort[loop.found])
  /\ Goto("storeID")
  /\ UNCHANGED <<platform, wireIP, connections, connVars, alone>>

BindStoreID ==
  /\ loop.at = "storeID"
  /\ connections' = Store(connections, <<wireIP, srcPort[loop.found]>>, loop.found)
  /\ Goto("storePort")
  /\ UNCHANGED <<platform, wireIP, byLocalPort, connVars, alone>>

BindStorePort ==
  /\ loop.at = "storePort"
  /\ byLocalPort' = Store(byLocalPort, srcPort[loop.found], loop.found)
  /\ Goto("handle")
  /\ UNCHANGED <<platform, wireIP, connections, connVars, alone>>

\* AbortUnexpectedCloseLocked: close conn.Sock if it is set, stop monitoring.
Abort(c) ==
  /\ open' = [open EXCEPT ![c] = open[c] /\ ~sock[c]]
  /\ monitor' = [monitor EXCEPT ![c] = FALSE]

\* Lock conn.Mu; a monitored connection's packet goes to its handlers, which leave the
\* connection alone, take the server's ACK, or abort it.
Handle ==
  /\ loop.at = "handle"
  /\ \/ UNCHANGED <<monitor, open>>
     \/ monitor[loop.found] /\ monitor' = [monitor EXCEPT ![loop.found] = FALSE]
                            /\ UNCHANGED open
     \/ monitor[loop.found] /\ Abort(loop.found)
  /\ loop' = Idle
  /\ UNCHANGED <<platform, wireIP, tables, pc, srcIP, srcPort, sock, alone>>

\* The injection goroutine of a connection aborts it after a send error, whatever the
\* handler does meanwhile.
InjectionAbort(c) ==
  /\ pc[c] \notin {"new", "regID", "regPort"} /\ MuFree(c)
  /\ Abort(c)
  /\ UNCHANGED <<platform, wireIP, tables, pc, srcIP, srcPort, sock, loop, alone>>

Loop ==
  \/ \E c \in Conns, out \in BOOLEAN : Capture(c, out)
  \/ LookupID \/ LookupPort
  \/ BindObserved \/ BindWrite
  \/ BindDeleteID \/ BindDeletePort \/ BindStoreID \/ BindStorePort
  \/ Handle

Terminated ==
  /\ \A c \in Conns : pc[c] \in {"done", "leaked"}
  /\ loop = Idle
  /\ UNCHANGED vars

Next ==
  \/ \E c \in Conns : Handler(c) \/ InjectionAbort(c)
  \/ Loop
  \/ Terminated

Spec == Init /\ [][Next]_vars

-----------------------------------------------------------------------------
(***************************************************************************)
(* Properties.                                                             *)
(***************************************************************************)

\* Every variable has its type, and a connection is only ever indexed under its own
\* port, whatever the loop rebinds meanwhile.
TypeOK ==
  /\ platform \in Platforms /\ wireIP \in IPs
  /\ pc \in [Conns -> {"new", "regID", "regPort", "dial", "wait", "stop", "unregID",
                       "unregPort", "relay", "done", "leaked"}]
  /\ srcIP \in [Conns -> IPs] /\ srcPort \in [Conns -> Ports \cup {NoPort}]
  /\ monitor \in [Conns -> BOOLEAN] /\ sock \in [Conns -> BOOLEAN]
  /\ open \in [Conns -> BOOLEAN] /\ alone \in [Conns -> BOOLEAN]
  /\ loop \in [at : {"idle", "byID", "byPort", "bind", "handle"} \cup Rebinding,
               owner : Conns \cup {NoConn}, out : BOOLEAN,
               found : Conns \cup {NoConn}, oldIP : IPs]
  /\ DOMAIN connections \subseteq IDs /\ DOMAIN byLocalPort \subseteq Ports
  /\ \A id \in DOMAIN connections :
       connections[id] \in Conns /\ srcPort[connections[id]] = id[2]
  /\ \A p \in DOMAIN byLocalPort :
       byLocalPort[p] \in Conns /\ srcPort[byLocalPort[p]] = p

\* A packet of an open socket is never handled as a packet of another connection,
\* although ports are reused, failed and retried dials stay registered and monitored
\* after their port is free, and the loop may store a finished connection again.
NotHandledAsAnother ==
  loop.at = "handle" /\ monitor[loop.found] => loop.found = loop.owner \/ ~open[loop.owner]

\* The connection whose packets the loop must see: from connect() to the end of
\* monitoring.
Live(c) == open[c] /\ monitor[c] /\ pc[c] \notin {"regID", "regPort"}

\* The connection lookupConnQuad finds for a packet of c.
Lookup(c) ==
  LET byID == Load(connections, <<wireIP, srcPort[c]>>)
  IN IF byID # NoConn THEN byID ELSE Load(byLocalPort, srcPort[c])

\* A connection that got a port nothing was left of is found by its own packets for as
\* long as it is monitored: no registration, unregistration or rebinding of the others,
\* finished or not, touches its entries.
UndisturbedFound ==
  \A c \in Conns : Live(c) /\ alone[c] /\ MuFree(c) => Lookup(c) = c

\* A connection whose handler has returned is not monitored and, with the dialers of
\* Linux and Darwin, in no table: only a retried dial leaves an entry behind.
DoneForgotten ==
  \A c \in Conns : pc[c] = "done" =>
    /\ ~monitor[c]
    /\ platform = "dialer" => c \notin Range(connections) \cup Range(byLocalPort)

(***************************************************************************)
(* What comments claim; TLC refutes these.                                 *)
(***************************************************************************)

\* The flow is registered before the handshake so that SYN, SYN-ACK and ACK are
\* observed: the packets of a monitored connection find it.
LiveFlowFound == \A c \in Conns : Live(c) /\ MuFree(c) => Lookup(c) = c

\* byLocalPort finds a flow whose source address on the wire is not the registered one,
\* at least when every other connection that had the port is finished.
IndexedFlowFound ==
  \A c \in Conns :
    /\ Live(c) /\ Load(byLocalPort, srcPort[c]) = c /\ loop.at = "idle"
    /\ \A d \in Conns \ {c} : srcPort[d] = srcPort[c] => pc[d] = "done"
    => Lookup(c) = c
=============================================================================
