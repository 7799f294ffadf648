---------------------------- MODULE ProxyProofs -----------------------------
(***************************************************************************)
(* Proofs about Proxy for every set of backends and any number of cases of *)
(* the test matrix.  The invariant Inv follows one run from the injector's *)
(* constructor to the last step of Close; the properties are consequences  *)
(* of it.                                                                  *)
(***************************************************************************)
EXTENDS Proxy, SequenceTheorems, TLAPS

\* A run is over for main or the matrix (a signal may have killed the matrix in the
\* middle of its current case).
Over(c) == c < cur \/ (c = cur /\ mpc \in {"next", "exitKey", "exited"})

\* main and the matrix: the runs up to cur were started, a run that is over has returned
\* or has failed, and a result is on proxyErr only when runProxy has returned.
MainInv ==
  /\ cur \in 0 .. Runs
  /\ mpc \in {"run", "waitReady", "fetch", "waitStop"} => cur # 0
  /\ \A c \in Cases : /\ ppc[c] = "none" <=> c > cur
                      /\ Over(c) => ppc[c] = "returned" \/ c \in failed
                      /\ c \in proxyErr => ppc[c] = "returned"

\* runProxy and the goroutine of Start: injectorReady is closed exactly when the loop
\* runs or has stopped, the WinDivert handles are stored exactly when it was closed
\* without an error, and nothing after WaitInjectorReady happens before that.
StartInv(c) ==
  /\ ppc[c] \in {"none", "setup"} => spc[c] = "none"
  /\ ppc[c] \in {"ready", "accept", "deferListener", "deferClose"} => spc[c] # "none"
  /\ ppc[c] \in {"accept", "deferListener"} => c \in injReady /\ c \notin openErr
  /\ ppc[c] = "deferClose" => c \in injReady
  /\ c \in injReady <=> spc[c] \in {"running", "stopped"}
  /\ c \in openErr => spc[c] = "stopped"
  /\ spc[c] = "stopped" /\ c \notin openErr => backend = "bpf" \/ c \in injCtx
  /\ spc[c] \in {"opened", "assign"} => backend \in WinDivert
  /\ c \in assigned <=> backend \in WinDivert /\ c \in injReady /\ c \notin openErr

\* Close: it is entered by runProxy's defer or, after a cancellation, by the watcher,
\* never before WaitInjectorReady returned; who waits for it sees its last step done.
CloseInv(c) ==
  /\ once[c] = "no" => cstep[c] = 1 /\ c \notin injCtx
  /\ once[c] = "running" => cstep[c] \in 1 .. Len(CloseOrder)
  /\ once[c] = "done" => cstep[c] = Len(CloseOrder) + 1
  /\ once[c] # "no" => /\ c \in injReady
                       /\ \/ ppc[c] \in {"deferClose", "returned"}
                          \/ wpc[c] \in {"close", "done"}
  /\ wpc[c] # "none" =>
       /\ c \in injReady /\ c \notin openErr
       /\ ppc[c] \in {"accept", "deferListener", "deferClose", "returned"}
  /\ wpc[c] \in {"close", "done"} => c \in runCtx
  /\ ppc[c] = "returned" /\ spc[c] # "none" => once[c] = "done"

\* What the first n steps of the constructor have acquired for certain (the ip rule is
\* not needed when marked packets have a route).
Acquired(n) == {SetupOrder[i] : i \in 1 .. n} \cap (Resources \ {"rule"})

\* What Close has still to release from its n-th step on.
ToClose(n) == {CloseOrder[i] : i \in n .. Len(CloseOrder)}

\* The resources of a run, from above: what the error branch of the next step, or the
\* rest of Close, will release, and the rules that could not be deleted.
HeldAtMost(c) ==
  /\ "listener" \in held[c] => ppc[c] \in {"accept", "deferListener"}
  /\ ppc[c] = "none" => step[c] = 1 /\ held[c] = {}
  /\ ppc[c] = "setup" =>
       step[c] \in 1 .. Len(SetupOrder) /\ held[c] \subseteq Undo(SetupOrder[step[c]])
  /\ spc[c] = "none" /\ ppc[c] # "setup" => held[c] \subseteq stuck[c]
  /\ spc[c] # "none" => held[c] \subseteq ToClose(cstep[c]) \cup {"listener"} \cup stuck[c]
  /\ backend \in WinDivert /\ (spc[c] = "begin" \/ c \in openErr)
       => held[c] \subseteq {"listener"}

\* The resources of a run, from below, until Close is entered.
HeldAtLeast(c) ==
  /\ ppc[c] = "setup" => Acquired(step[c] - 1) \subseteq held[c]
  /\ spc[c] # "none" /\ once[c] = "no" =>
       /\ Acquired(Len(SetupOrder)) \subseteq held[c]
       /\ backend \in WinDivert /\ spc[c] \in {"opened", "assign", "running"}
            => Handles \subseteq held[c]

RunInv(c) == StartInv(c) /\ CloseInv(c) /\ HeldAtMost(c) /\ HeldAtLeast(c)

Inv == TypeOK /\ MainInv /\ \A c \in Cases : RunInv(c)

-----------------------------------------------------------------------------
\* The backend is chosen once, so the order of the constructor and of Close is fixed.
LEMMA OrdersFixed ==
  ASSUME [Next]_vars
  PROVE  /\ UNCHANGED <<backend, testMode>>
         /\ SetupOrder' = SetupOrder /\ CloseOrder' = CloseOrder /\ Handles' = Handles
<1>1. UNCHANGED <<backend, testMode>>
  BY DEF Next, vars, config, CaseStep, MainStep, Exited, SetupStep, SetupFail, StartBegin,
         StartOpen, StartCheck, StartAssign, StartEnd, StartDies, CloseStep, InjectorFailed,
         Listen, AcceptEnds, DeferListener, DeferClose, Return, WatchCloseListener,
         WatchClose, NextCase, PreflightFails, Signal, Interrupt, RunReturned, TestReady,
         TestFail, TestOk, TestStopped, Exit
<1>2. QED
  BY <1>1 DEF SetupOrder, CloseOrder, Handles

\* NewInjector on macOS: the arguments, then openBPF.
LEMMA BPFSetup == <<"args">> \o <<"fd", "opts">> = <<"args", "fd", "opts">>
<1> DEFINE S == {"args", "fd", "opts"}
           a == <<"args">>
           b == <<"fd", "opts">>
           t == <<"args", "fd", "opts">>
<1>1. /\ a \in Seq(S) /\ b \in Seq(S) /\ t \in Seq(S)
      /\ Len(a) = 1 /\ Len(b) = 2 /\ Len(t) = 3
  OBVIOUS
<1>2. a \o b \in Seq(S) /\ Len(a \o b) = 3
  BY <1>1, ConcatProperties
<1>3. (a \o b)[1] = t[1] /\ (a \o b)[2] = t[2] /\ (a \o b)[3] = t[3]
  BY <1>1, ConcatProperties
<1>4. \A i \in 1 .. 3 : (a \o b)[i] = t[i]
  BY <1>3
<1> HIDE DEF S, a, b, t
<1>5. a \o b = t
  BY <1>1, <1>2, <1>4, SeqEqual
<1>6. QED
  BY <1>5 DEF a, b, t

\* What the constructors acquire, step by step, and what their error branches release.
LEMMA SetupFacts ==
  ASSUME backend \in Backends
  PROVE  /\ Len(SetupOrder) \in Nat \ {0}
         /\ Undo(SetupOrder[1]) = {}
         /\ \A i \in 1 .. Len(SetupOrder) :
              "listener" \notin {SetupOrder[i]} \cup Undo(SetupOrder[i])
         /\ \A i \in 1 .. Len(SetupOrder) - 1 :
              Undo(SetupOrder[i]) \cup ({SetupOrder[i]} \cap Resources)
                \subseteq Undo(SetupOrder[i + 1])
         /\ Undo(SetupOrder[Len(SetupOrder)])
              \cup ({SetupOrder[Len(SetupOrder)]} \cap Resources) \subseteq ToClose(1)
         /\ backend \in WinDivert => SetupOrder = <<"args">>
         /\ backend \notin WinDivert => "fd" \in Acquired(Len(SetupOrder))
         /\ backend = "nfqueue" => {"out", "in", "nfq"} \subseteq Acquired(Len(SetupOrder))
<1> USE DEF Undo, Resources, ToClose, Acquired, WinDivert
<1>1. CASE backend = "nfqueue"
  <2>1. SetupOrder = <<"args", "fd", "opts", "rule", "out", "in", "nfq">>
    BY <1>1 DEF SetupOrder, NFQueueSetup
  <2>2. CloseOrder = <<"ctx", "nfq", "fd", "out", "in", "rule">>
    BY <1>1 DEF CloseOrder
  <2>3. QED
    BY <1>1, <2>1, <2>2
<1>2. CASE backend = "afpacket"
  <2>1. SetupOrder = <<"args", "fd", "opts">>
    BY <1>2 DEF SetupOrder, PassiveSetup
  <2>2. CloseOrder = <<"ctx", "fd">>
    BY <1>2 DEF CloseOrder
  <2>3. QED
    BY <1>2, <2>1, <2>2
<1>3. CASE backend = "bpf"
  <2>1. SetupOrder = <<"args", "fd", "opts">>
    <3>1. SetupOrder = <<"args">> \o <<"fd", "opts">>
      BY <1>3 DEF SetupOrder, OpenBPF
    <3>2. QED
      BY <3>1, BPFSetup
  <2>2. CloseOrder = <<"ctx", "fd">>
    BY <1>3 DEF CloseOrder
  <2>3. QED
    BY <1>3, <2>1, <2>2
<1>4. CASE backend \in WinDivert
  <2>1. SetupOrder = <<"args">>
    BY <1>4 DEF SetupOrder, WinDivertSetup
  <2>2. QED
    BY <1>4, <2>1
<1>5. QED
  BY <1>1, <1>2, <1>3, <1>4, ProxyAssumption

\* Close begins with the context and releases whatever Start opened.
LEMMA CloseFacts ==
  ASSUME backend \in Backends
  PROVE  /\ Len(CloseOrder) \in Nat \ {0}
         /\ backend \in WinDivert => Handles \subseteq ToClose(1)
         /\ \A n \in 1 .. Len(CloseOrder) :
              ToClose(n) \subseteq {CloseOrder[n]} \cup ToClose(n + 1)
         /\ ToClose(Len(CloseOrder) + 1) = {}
<1>1. Len(CloseOrder) \in Nat \ {0}
  BY DEF CloseOrder
<1>2. backend \in WinDivert => Handles \subseteq ToClose(1)
  BY DEF Handles, WinDivert, ToClose, CloseOrder
<1>3. \A n \in 1 .. Len(CloseOrder) : \A i \in n .. Len(CloseOrder) :
        i = n \/ i \in n + 1 .. Len(CloseOrder)
  BY <1>1
<1>4. \A n \in 1 .. Len(CloseOrder) : ToClose(n) \subseteq {CloseOrder[n]} \cup ToClose(n + 1)
  BY <1>3 DEF ToClose
<1>5. ToClose(Len(CloseOrder) + 1) = {}
  BY <1>1 DEF ToClose
<1>6. QED
  BY <1>1, <1>2, <1>4, <1>5

\* The resources the operations name are resources.
LEMMA ResourceFacts ==
  ASSUME backend \in Backends
  PROVE  /\ {"rule", "listener"} \subseteq Resources /\ Handles \subseteq Resources
         /\ MayStick \subseteq Persistent /\ Persistent \subseteq Resources
         /\ "listener" \notin Persistent
BY ProxyAssumption DEF Resources, Handles, Persistent

\* Replacing what one run holds by another set of resources keeps the type.
LEMMA HeldType ==
  ASSUME held \in [Cases -> SUBSET Resources], NEW c \in Cases, NEW R \in SUBSET Resources
  PROVE  [held EXCEPT ![c] = R] \in [Cases -> SUBSET Resources]
OBVIOUS

\* The same for the rules that could not be deleted.
LEMMA StuckType ==
  ASSUME stuck \in [Cases -> SUBSET Persistent], NEW c \in Cases, NEW R \in SUBSET Persistent
  PROVE  [stuck EXCEPT ![c] = R] \in [Cases -> SUBSET Persistent]
OBVIOUS

\* A run whose state did not change, or whose context was cancelled.
Same(c) ==
  /\ ppc'[c] = ppc[c] /\ step'[c] = step[c] /\ held'[c] = held[c] /\ stuck'[c] = stuck[c]
  /\ spc'[c] = spc[c]
  /\ wpc'[c] = wpc[c] /\ once'[c] = once[c] /\ cstep'[c] = cstep[c]
  /\ c \in injReady' <=> c \in injReady
  /\ c \in openErr' <=> c \in openErr
  /\ c \in assigned' <=> c \in assigned
  /\ c \in injCtx' <=> c \in injCtx
  /\ c \in runCtx => c \in runCtx'

\* What holds of such a run still holds.
LEMMA SameRun ==
  ASSUME NEW c \in Cases, [Next]_vars, Same(c), RunInv(c)
  PROVE  RunInv(c)'
<1>1. /\ backend' = backend /\ SetupOrder' = SetupOrder /\ CloseOrder' = CloseOrder
      /\ Handles' = Handles
  BY OrdersFixed
<1>2. StartInv(c)'
  BY <1>1 DEF Same, RunInv, StartInv
<1>3. CloseInv(c)'
  BY <1>1 DEF Same, RunInv, CloseInv
<1>4. HeldAtMost(c)'
  BY <1>1 DEF Same, RunInv, HeldAtMost, ToClose
<1>5. HeldAtLeast(c)'
  BY <1>1 DEF Same, RunInv, HeldAtLeast, Acquired
<1>6. QED
  BY <1>2, <1>3, <1>4, <1>5 DEF RunInv

\* The steps of the goroutines of run c.
CaseAction(c) == CaseStep(c) \/ StartEnd(c) \/ StartDies(c) \/ AcceptEnds(c)

\* A goroutine of one run leaves the other runs alone.
LEMMA Frame ==
  ASSUME TypeOK, NEW c \in Cases, CaseAction(c)
  PROVE  \A d \in Cases \ {c} : Same(d)
<1> USE DEF config, mainVars, onceVars, resVars, startVars, TypeOK, Same
<1>1. CASE SetupStep(c)
  BY <1>1 DEF SetupStep, EnsureMarkedRoute
<1>2. CASE SetupFail(c)
  BY <1>2 DEF SetupFail
<1>3. CASE StartBegin(c)
  BY <1>3 DEF StartBegin
<1>4. CASE StartOpen(c)
  BY <1>4 DEF StartOpen
<1>5. CASE StartCheck(c)
  BY <1>5 DEF StartCheck
<1>6. CASE StartAssign(c)
  BY <1>6 DEF StartAssign
<1>7. CASE StartEnd(c)
  BY <1>7 DEF StartEnd
<1>8. CASE StartDies(c)
  BY <1>8 DEF StartDies
<1>9. CASE CloseStep(c)
  BY <1>9 DEF CloseStep, Released
<1>10. CASE InjectorFailed(c)
  BY <1>10 DEF InjectorFailed
<1>11. CASE Listen(c)
  BY <1>11 DEF Listen
<1>12. CASE AcceptEnds(c)
  BY <1>12 DEF AcceptEnds
<1>13. CASE DeferListener(c)
  BY <1>13 DEF DeferListener
<1>14. CASE DeferClose(c)
  BY <1>14 DEF DeferClose, EnterClose
<1>15. CASE Return(c)
  BY <1>15 DEF Return, CloseReturns
<1>16. CASE WatchCloseListener(c)
  BY <1>16 DEF WatchCloseListener
<1>17. CASE WatchClose(c)
  BY <1>17 DEF WatchClose, EnterClose, CloseReturns
<1>18. QED
  BY <1>1, <1>2, <1>3, <1>4, <1>5, <1>6, <1>7, <1>8, <1>9, <1>10, <1>11, <1>12, <1>13,
     <1>14, <1>15, <1>16, <1>17 DEF CaseAction, CaseStep

\* What StartInv says of a run is kept by its own goroutines: runProxy goes past
\* WaitInjectorReady only when Start has said how it ended.
LEMMA StartStep ==
  ASSUME [Next]_vars, TypeOK, NEW c \in Cases, CaseAction(c), RunInv(c)
  PROVE  StartInv(c)'
<1>0. /\ backend' = backend /\ SetupOrder' = SetupOrder /\ CloseOrder' = CloseOrder
      /\ Handles' = Handles
  BY OrdersFixed
<1> USE DEF config, mainVars, onceVars, resVars, startVars, TypeOK, RunInv, StartInv, CloseInv
<1>1. CASE SetupStep(c)
  BY <1>1, <1>0 DEF SetupStep, EnsureMarkedRoute
<1>2. CASE SetupFail(c)
  BY <1>2, <1>0 DEF SetupFail
<1>3. CASE StartBegin(c)
  BY <1>3, <1>0 DEF StartBegin
<1>4. CASE StartOpen(c)
  BY <1>4, <1>0 DEF StartOpen
<1>5. CASE StartCheck(c)
  BY <1>5, <1>0 DEF StartCheck
<1>6. CASE StartAssign(c)
  BY <1>6, <1>0 DEF StartAssign
<1>7. CASE StartEnd(c)
  BY <1>7, <1>0 DEF StartEnd
<1>8. CASE StartDies(c)
  BY <1>8, <1>0 DEF StartDies
<1>9. CASE CloseStep(c)
  BY <1>9, <1>0 DEF CloseStep, Released
<1>10. CASE InjectorFailed(c)
  BY <1>10, <1>0 DEF InjectorFailed
<1>11. CASE Listen(c)
  BY <1>11, <1>0 DEF Listen
<1>12. CASE AcceptEnds(c)
  BY <1>12, <1>0 DEF AcceptEnds
<1>13. CASE DeferListener(c)
  BY <1>13, <1>0 DEF DeferListener
<1>14. CASE DeferClose(c)
  BY <1>14, <1>0 DEF DeferClose, EnterClose
<1>15. CASE Return(c)
  BY <1>15, <1>0 DEF Return, CloseReturns
<1>16. CASE WatchCloseListener(c)
  BY <1>16, <1>0 DEF WatchCloseListener
<1>17. CASE WatchClose(c)
  BY <1>17, <1>0 DEF WatchClose, EnterClose, CloseReturns
<1>18. QED
  BY <1>1, <1>2, <1>3, <1>4, <1>5, <1>6, <1>7, <1>8, <1>9, <1>10, <1>11, <1>12, <1>13,
     <1>14, <1>15, <1>16, <1>17 DEF CaseAction, CaseStep

\* Close is entered once: both callers find it not yet entered or wait for its last step,
\* and the watcher exists only after a successful Listen.
LEMMA CloseInvStep ==
  ASSUME [Next]_vars, TypeOK, NEW c \in Cases, CaseAction(c), RunInv(c)
  PROVE  CloseInv(c)'
<1>0. /\ backend' = backend /\ SetupOrder' = SetupOrder /\ CloseOrder' = CloseOrder
      /\ Handles' = Handles
  BY OrdersFixed
<1> USE DEF config, mainVars, onceVars, resVars, startVars, TypeOK, RunInv, StartInv, CloseInv
<1>1. CASE SetupStep(c)
  BY <1>1, <1>0 DEF SetupStep, EnsureMarkedRoute
<1>2. CASE SetupFail(c)
  BY <1>2, <1>0 DEF SetupFail
<1>3. CASE StartBegin(c)
  BY <1>3, <1>0 DEF StartBegin
<1>4. CASE StartOpen(c)
  BY <1>4, <1>0 DEF StartOpen
<1>5. CASE StartCheck(c)
  BY <1>5, <1>0 DEF StartCheck
<1>6. CASE StartAssign(c)
  BY <1>6, <1>0 DEF StartAssign
<1>7. CASE StartEnd(c)
  BY <1>7, <1>0 DEF StartEnd
<1>8. CASE StartDies(c)
  BY <1>8, <1>0 DEF StartDies
<1>9. CASE CloseStep(c)
  BY <1>9, <1>0 DEF CloseStep, Released
<1>10. CASE InjectorFailed(c)
  BY <1>10, <1>0 DEF InjectorFailed
<1>11. CASE Listen(c)
  BY <1>11, <1>0 DEF Listen
<1>12. CASE AcceptEnds(c)
  BY <1>12, <1>0 DEF AcceptEnds
<1>13. CASE DeferListener(c)
  BY <1>13, <1>0 DEF DeferListener
<1>14. CASE DeferClose(c)
  BY <1>14, <1>0, CloseFacts DEF DeferClose, EnterClose
<1>15. CASE Return(c)
  BY <1>15, <1>0 DEF Return, CloseReturns
<1>16. CASE WatchCloseListener(c)
  BY <1>16, <1>0 DEF WatchCloseListener
<1>17. CASE WatchClose(c)
  BY <1>17, <1>0, CloseFacts DEF WatchClose, EnterClose, CloseReturns
<1>18. QED
  BY <1>1, <1>2, <1>3, <1>4, <1>5, <1>6, <1>7, <1>8, <1>9, <1>10, <1>11, <1>12, <1>13,
     <1>14, <1>15, <1>16, <1>17 DEF CaseAction, CaseStep

\* Nothing is acquired that nobody will release: each step of the constructor is covered
\* by the next error branch, the last one by Close, and each step of Close releases its
\* resource.
LEMMA HeldAtMostStep ==
  ASSUME [Next]_vars, TypeOK, NEW c \in Cases, CaseAction(c), RunInv(c)
  PROVE  HeldAtMost(c)'
<1>0. /\ backend' = backend /\ SetupOrder' = SetupOrder /\ CloseOrder' = CloseOrder
      /\ Handles' = Handles
  BY OrdersFixed
<1> USE DEF config, mainVars, onceVars, resVars, startVars, TypeOK, RunInv, StartInv, CloseInv,
            HeldAtMost, ToClose
<1>1. CASE SetupStep(c)
  <2>1. /\ held'[c] \subseteq held[c] \cup ({SetupOrder[step[c]]} \cap Resources)
        /\ step'[c] = step[c] + 1
        /\ UNCHANGED <<cstep, openErr>>
    BY <1>1, ResourceFacts DEF SetupStep, EnsureMarkedRoute
  <2>2. /\ ppc[c] = "setup" /\ spc[c] = "none" /\ step[c] \in 1 .. Len(SetupOrder)
        /\ cstep[c] = 1 /\ c \notin openErr
        /\ held[c] \subseteq Undo(SetupOrder[step[c]])
    BY <1>1 DEF SetupStep
  <2>3. CASE step[c] = Len(SetupOrder)
    <3>1. ppc'[c] = "ready" /\ spc'[c] = "begin"
      BY <1>1, <2>3 DEF SetupStep
    <3>2. held'[c] \subseteq ToClose(1)
      BY <2>1, <2>2, <2>3, SetupFacts
    <3>3. backend \in WinDivert => held'[c] = {}
      <4> SUFFICES ASSUME backend \in WinDivert PROVE held'[c] = {}
        OBVIOUS
      <4>1. SetupOrder = <<"args">> /\ step[c] = 1
        BY <2>3, SetupFacts
      <4>2. held[c] = {}
        BY <2>2, <4>1, SetupFacts
      <4>3. "args" \notin Resources
        BY DEF Resources
      <4>4. QED
        BY <2>1, <4>1, <4>2, <4>3
    <3>4. "listener" \notin held'[c]
      BY <2>1, <2>2, SetupFacts
    <3>5. QED
      BY <1>0, <2>1, <2>2, <3>1, <3>2, <3>3, <3>4
  <2>4. CASE step[c] # Len(SetupOrder)
    <3>1. step[c] \in 1 .. Len(SetupOrder) - 1
      BY <2>2, <2>4, SetupFacts
    <3>2. held'[c] \subseteq Undo(SetupOrder[step[c] + 1])
      BY <2>1, <2>2, <3>1, SetupFacts
    <3>3. ppc'[c] = "setup" /\ spc'[c] = "none"
      BY <1>1, <2>2, <2>4 DEF SetupStep
    <3>4. "listener" \notin held'[c]
      BY <2>1, <2>2, SetupFacts
    <3>5. QED
      BY <1>0, <2>1, <2>2, <3>1, <3>2, <3>3, <3>4, SetupFacts
  <2>5. QED
    BY <2>3, <2>4
<1>2. CASE SetupFail(c)
  BY <1>2, <1>0, SetupFacts DEF SetupFail
<1>3. CASE StartBegin(c)
  BY <1>3, <1>0 DEF StartBegin
<1>4. CASE StartOpen(c)
  <2>1. spc[c] = "begin" /\ cstep[c] = 1 /\ c \notin openErr /\ backend \in WinDivert
    BY <1>4 DEF StartOpen
  <2>2. Handles \subseteq ToClose(1)
    BY <2>1, CloseFacts
  <2>3. CASE spc'[c] = "opened"
    <3>1. held'[c] = held[c] \cup Handles /\ UNCHANGED <<ppc, cstep, openErr, step>>
      BY <1>4, <2>3 DEF StartOpen
    <3>2. /\ "listener" \notin held[c] /\ held[c] \subseteq {"listener"}
          /\ ppc[c] \notin {"none", "setup"}
      BY <2>1
    <3>3. "listener" \notin Handles
      BY DEF Handles
    <3>4. QED
      BY <1>0, <2>1, <2>2, <2>3, <3>1, <3>2, <3>3
  <2>4. CASE spc'[c] = "stopped"
    BY <1>4, <1>0, <2>1, <2>4 DEF StartOpen
  <2>5. QED
    BY <1>4, <2>3, <2>4 DEF StartOpen
<1>5. CASE StartCheck(c)
  BY <1>5, <1>0 DEF StartCheck
<1>6. CASE StartAssign(c)
  BY <1>6, <1>0 DEF StartAssign
<1>7. CASE StartEnd(c)
  BY <1>7, <1>0 DEF StartEnd
<1>8. CASE StartDies(c)
  BY <1>8, <1>0 DEF StartDies
<1>9. CASE CloseStep(c)
  BY <1>9, <1>0, CloseFacts DEF CloseStep, Released
<1>10. CASE InjectorFailed(c)
  BY <1>10, <1>0 DEF InjectorFailed
<1>11. CASE Listen(c)
  BY <1>11, <1>0 DEF Listen
<1>12. CASE AcceptEnds(c)
  BY <1>12, <1>0 DEF AcceptEnds
<1>13. CASE DeferListener(c)
  BY <1>13, <1>0 DEF DeferListener
<1>14. CASE DeferClose(c)
  BY <1>14, <1>0 DEF DeferClose, EnterClose
<1>15. CASE Return(c)
  BY <1>15, <1>0 DEF Return, CloseReturns
<1>16. CASE WatchCloseListener(c)
  BY <1>16, <1>0 DEF WatchCloseListener
<1>17. CASE WatchClose(c)
  BY <1>17, <1>0 DEF WatchClose, EnterClose, CloseReturns
<1>18. QED
  BY <1>1, <1>2, <1>3, <1>4, <1>5, <1>6, <1>7, <1>8, <1>9, <1>10, <1>11, <1>12, <1>13,
     <1>14, <1>15, <1>16, <1>17 DEF CaseAction, CaseStep

\* Nothing is released early: until Close is entered a run keeps what its constructor and
\* Start acquired.
LEMMA HeldAtLeastStep ==
  ASSUME [Next]_vars, TypeOK, NEW c \in Cases, CaseAction(c), RunInv(c)
  PROVE  HeldAtLeast(c)'
<1>0. /\ backend' = backend /\ SetupOrder' = SetupOrder /\ CloseOrder' = CloseOrder
      /\ Handles' = Handles
  BY OrdersFixed
<1>a. \A n \in 1 .. Len(SetupOrder) : "listener" \notin Acquired(n) \cup Handles
  BY SetupFacts DEF TypeOK, Acquired, Handles
<1> USE DEF config, mainVars, onceVars, resVars, startVars, TypeOK, RunInv, StartInv, CloseInv,
            HeldAtMost, HeldAtLeast, Acquired
<1>1. CASE SetupStep(c)
  BY <1>1, <1>0, SetupFacts DEF SetupStep, EnsureMarkedRoute
<1>2. CASE SetupFail(c)
  BY <1>2, <1>0, SetupFacts DEF SetupFail
<1>3. CASE StartBegin(c)
  BY <1>3, <1>0 DEF StartBegin
<1>4. CASE StartOpen(c)
  BY <1>4, <1>0 DEF StartOpen
<1>5. CASE StartCheck(c)
  BY <1>5, <1>0 DEF StartCheck
<1>6. CASE StartAssign(c)
  BY <1>6, <1>0 DEF StartAssign
<1>7. CASE StartEnd(c)
  BY <1>7, <1>0 DEF StartEnd
<1>8. CASE StartDies(c)
  BY <1>8, <1>0 DEF StartDies
<1>9. CASE CloseStep(c)
  BY <1>9, <1>0, CloseFacts DEF CloseStep, Released
<1>10. CASE InjectorFailed(c)
  BY <1>10, <1>0 DEF InjectorFailed
<1>11. CASE Listen(c)
  BY <1>11, <1>0 DEF Listen
<1>12. CASE AcceptEnds(c)
  BY <1>12, <1>0 DEF AcceptEnds
<1>13. CASE DeferListener(c)
  <2>1. /\ held'[c] = held[c] \ {"listener"} /\ spc[c] # "none" /\ ppc'[c] # "setup"
        /\ UNCHANGED <<spc, once>>
    BY <1>13 DEF DeferListener
  <2>2. Len(SetupOrder) \in 1 .. Len(SetupOrder)
    BY SetupFacts
  <2>3. QED
    BY <1>0, <1>a, <2>1, <2>2
<1>14. CASE DeferClose(c)
  BY <1>14, <1>0 DEF DeferClose, EnterClose
<1>15. CASE Return(c)
  BY <1>15, <1>0 DEF Return, CloseReturns
<1>16. CASE WatchCloseListener(c)
  <2>1. /\ held'[c] = held[c] \ {"listener"} /\ spc[c] # "none" /\ ppc'[c] # "setup"
        /\ UNCHANGED <<spc, once>>
    BY <1>16 DEF WatchCloseListener
  <2>2. Len(SetupOrder) \in 1 .. Len(SetupOrder)
    BY SetupFacts
  <2>3. QED
    BY <1>0, <1>a, <2>1, <2>2
<1>17. CASE WatchClose(c)
  BY <1>17, <1>0 DEF WatchClose, EnterClose, CloseReturns
<1>18. QED
  BY <1>1, <1>2, <1>3, <1>4, <1>5, <1>6, <1>7, <1>8, <1>9, <1>10, <1>11, <1>12, <1>13,
     <1>14, <1>15, <1>16, <1>17 DEF CaseAction, CaseStep

\* Every step keeps the types; the counters of the constructor and of Close stay within
\* their orders because of HeldAtMost and CloseInv.
LEMMA TypeStep ==
  ASSUME Inv, [Next]_vars
  PROVE  TypeOK'
<1>0. /\ backend' = backend /\ SetupOrder' = SetupOrder /\ CloseOrder' = CloseOrder
      /\ Handles' = Handles
  BY OrdersFixed
<1>a. mpc \in {"run", "waitReady", "fetch", "waitStop"} => cur \in Cases
  BY ProxyAssumption DEF Inv, TypeOK, MainInv, Cases
<1>b. cur # Runs => cur + 1 \in Cases
  BY ProxyAssumption DEF Inv, TypeOK, MainInv, Cases, Runs
<1> USE DEF config, mainVars, onceVars, resVars, startVars, TypeOK, Inv
<1>1. ASSUME NEW c \in Cases, SetupStep(c) PROVE TypeOK'
  <2>1. held' \in [Cases -> SUBSET Resources]
    <3> DEFINE r == SetupOrder[step[c]]
    <3>1. held[c] \cup {"rule"} \in SUBSET Resources
      BY ResourceFacts
    <3>2. held[c] \cup ({r} \cap Resources) \in SUBSET Resources
      OBVIOUS
    <3> HIDE DEF r
    <3>3. \/ held' = held
          \/ held' = [held EXCEPT ![c] = held[c] \cup {"rule"}]
          \/ held' = [held EXCEPT ![c] = held[c] \cup ({r} \cap Resources)]
      BY <1>1 DEF SetupStep, EnsureMarkedRoute, r
    <3>4. QED
      <4>1. [held EXCEPT ![c] = held[c] \cup {"rule"}] \in [Cases -> SUBSET Resources]
        BY <3>1, HeldType, Zenon
      <4>2. [held EXCEPT ![c] = held[c] \cup ({r} \cap Resources)]
              \in [Cases -> SUBSET Resources]
        BY <3>2, HeldType, Zenon
      <4>3. QED
        BY <3>3, <4>1, <4>2
  <2>2. step[c] + 1 \in 1 .. Len(SetupOrder) + 1
    BY <1>1, SetupFacts DEF SetupStep, RunInv, HeldAtMost
  <2>3. ppc' \in [Cases -> {"none", "setup", "ready", "accept", "deferListener",
                           "deferClose", "returned"}]
    <3>1. ppc' = ppc \/ ppc' = [ppc EXCEPT ![c] = "ready"]
      BY <1>1 DEF SetupStep
    <3>2. QED
      BY <3>1
  <2>4. spc' \in [Cases -> {"none", "begin", "opened", "assign", "running", "stopped"}]
    BY <1>1 DEF SetupStep
  <2>5. QED
    BY <1>1, <1>0, <2>1, <2>2, <2>3, <2>4 DEF SetupStep
<1>2. ASSUME NEW c \in Cases, SetupFail(c) PROVE TypeOK'
  <2>1. PICK lost \in SUBSET (Persistent \cap Resources) :
          /\ held' = [held EXCEPT ![c] = (held[c] \ Undo(SetupOrder[step[c]])) \cup lost]
          /\ stuck' = [stuck EXCEPT ![c] = stuck[c] \cup lost]
    BY <1>2, ResourceFacts DEF SetupFail
  <2>2. held' \in [Cases -> SUBSET Resources]
    <3>1. (held[c] \ Undo(SetupOrder[step[c]])) \cup lost \in SUBSET Resources
      OBVIOUS
    <3>2. QED
      BY <2>1, <3>1, HeldType, Zenon
  <2>3. stuck' \in [Cases -> SUBSET Persistent]
    <3>1. stuck[c] \cup lost \in SUBSET Persistent
      OBVIOUS
    <3>2. QED
      BY <2>1, <3>1, StuckType, Zenon
  <2>4. QED
    BY <1>2, <1>0, <2>2, <2>3 DEF SetupFail
<1>3. ASSUME NEW c \in Cases, StartBegin(c) PROVE TypeOK'
  BY <1>3, <1>0 DEF StartBegin
<1>4. ASSUME NEW c \in Cases, StartOpen(c) PROVE TypeOK'
  <2>1. held' = held \/ held' = [held EXCEPT ![c] = held[c] \cup Handles]
    BY <1>4 DEF StartOpen
  <2>2. held[c] \cup Handles \in SUBSET Resources
    BY ResourceFacts
  <2>3. held' \in [Cases -> SUBSET Resources]
    <3>1. [held EXCEPT ![c] = held[c] \cup Handles] \in [Cases -> SUBSET Resources]
      BY <2>2, HeldType, Zenon
    <3>2. QED
      BY <2>1, <3>1
  <2>4. QED
    BY <1>4, <1>0, <2>3 DEF StartOpen
<1>5. ASSUME NEW c \in Cases, StartCheck(c) PROVE TypeOK'
  <2>1. held' = held \/ held' = [held EXCEPT ![c] = held[c] \ Handles]
    BY <1>5 DEF StartCheck
  <2>2. held[c] \ Handles \in SUBSET Resources
    OBVIOUS
  <2>3. held' \in [Cases -> SUBSET Resources]
    <3>1. [held EXCEPT ![c] = held[c] \ Handles] \in [Cases -> SUBSET Resources]
      BY <2>2, HeldType, Zenon
    <3>2. QED
      BY <2>1, <3>1
  <2>4. \/ spc' = [spc EXCEPT ![c] = "stopped"]
        \/ spc' = [spc EXCEPT ![c] = "assign"]
    BY <1>5 DEF StartCheck
  <2>5. spc' \in [Cases -> {"none", "begin", "opened", "assign", "running", "stopped"}]
    BY <2>4
  <2>6. openErr' \subseteq Cases /\ injReady' \subseteq Cases
    BY <1>5 DEF StartCheck
  <2>7. QED
    BY <1>5, <1>0, <2>3, <2>5, <2>6 DEF StartCheck
<1>6. ASSUME NEW c \in Cases, StartAssign(c) PROVE TypeOK'
  BY <1>6, <1>0 DEF StartAssign
<1>7. ASSUME NEW c \in Cases, StartEnd(c) PROVE TypeOK'
  BY <1>7, <1>0 DEF StartEnd
<1>8. ASSUME NEW c \in Cases, StartDies(c) PROVE TypeOK'
  BY <1>8, <1>0 DEF StartDies
<1>9. ASSUME NEW c \in Cases, CloseStep(c) PROVE TypeOK'
  <2>1. held' \in [Cases -> SUBSET Resources]
    BY <1>9 DEF CloseStep
  <2>2. cstep[c] + 1 \in 1 .. Len(CloseOrder) + 1
    BY <1>9, CloseFacts DEF CloseStep, RunInv, CloseInv
  <2>3. injCtx' \subseteq Cases
    BY <1>9 DEF CloseStep
  <2>4. stuck' \in [Cases -> SUBSET Persistent]
    <3>1. \/ stuck' = stuck
          \/ \E r \in Persistent : stuck' = [stuck EXCEPT ![c] = stuck[c] \cup {r}]
      BY <1>9, ResourceFacts DEF CloseStep
    <3>2. ASSUME NEW r \in Persistent
          PROVE  [stuck EXCEPT ![c] = stuck[c] \cup {r}] \in [Cases -> SUBSET Persistent]
      BY StuckType
    <3>3. QED
      BY <3>1, <3>2
  <2>5. QED
    BY <1>9, <1>0, <2>1, <2>2, <2>3, <2>4 DEF CloseStep
<1>10. ASSUME NEW c \in Cases, InjectorFailed(c) PROVE TypeOK'
  BY <1>10, <1>0 DEF InjectorFailed
<1>11. ASSUME NEW c \in Cases, Listen(c) PROVE TypeOK'
  <2>1. held' = held \/ held' = [held EXCEPT ![c] = held[c] \cup {"listener"}]
    BY <1>11 DEF Listen
  <2>2. held[c] \cup {"listener"} \in SUBSET Resources
    BY ResourceFacts
  <2>3. held' \in [Cases -> SUBSET Resources]
    <3>1. [held EXCEPT ![c] = held[c] \cup {"listener"}] \in [Cases -> SUBSET Resources]
      BY <2>2, HeldType, Zenon
    <3>2. QED
      BY <2>1, <3>1
  <2>4. QED
    BY <1>11, <1>0, <2>3 DEF Listen
<1>12. ASSUME NEW c \in Cases, AcceptEnds(c) PROVE TypeOK'
  BY <1>12, <1>0 DEF AcceptEnds
<1>13. ASSUME NEW c \in Cases, DeferListener(c) PROVE TypeOK'
  BY <1>13, <1>0 DEF DeferListener
<1>14. ASSUME NEW c \in Cases, DeferClose(c) PROVE TypeOK'
  BY <1>14, <1>0 DEF DeferClose, EnterClose
<1>15. ASSUME NEW c \in Cases, Return(c) PROVE TypeOK'
  BY <1>15, <1>0 DEF Return, CloseReturns
<1>16. ASSUME NEW c \in Cases, WatchCloseListener(c) PROVE TypeOK'
  BY <1>16, <1>0 DEF WatchCloseListener
<1>17. ASSUME NEW c \in Cases, WatchClose(c) PROVE TypeOK'
  BY <1>17, <1>0 DEF WatchClose, EnterClose, CloseReturns
<1>18. CASE NextCase
  <2>1. CASE cur = Runs
    BY <1>18, <1>0, <2>1 DEF NextCase
  <2>2. CASE cur # Runs
    <3>1. cur' = cur + 1 /\ ppc' = [ppc EXCEPT ![cur + 1] = "setup"]
      BY <1>18, <2>2 DEF NextCase
    <3>2. cur + 1 \in Cases /\ cur + 1 \in 0 .. NCases
      BY <1>b, <2>2 DEF Cases
    <3>3. QED
      BY <1>18, <1>0, <3>1, <3>2 DEF NextCase
  <2>3. QED
    BY <2>1, <2>2
<1>19. CASE Signal
  BY <1>19, <1>0, <1>a DEF Signal
<1>20. CASE RunReturned
  BY <1>20, <1>0 DEF RunReturned
<1>21. CASE TestReady
  BY <1>21, <1>0 DEF TestReady
<1>22. CASE TestFail
  BY <1>22, <1>0, <1>a DEF TestFail
<1>23. CASE TestOk
  BY <1>23, <1>0, <1>a DEF TestOk
<1>24. CASE TestStopped
  BY <1>24, <1>0 DEF TestStopped
<1>25. CASE Exit
  BY <1>25, <1>0 DEF Exit
<1>26. CASE UNCHANGED vars
  BY <1>26, <1>0 DEF vars
<1>27. CASE PreflightFails
  BY <1>27, <1>0 DEF PreflightFails
<1>28. CASE Interrupt
  BY <1>28, <1>0 DEF Interrupt
<1>29. QED
  BY <1>1, <1>2, <1>3, <1>4, <1>5, <1>6, <1>7, <1>8, <1>9, <1>10, <1>11, <1>12, <1>13,
     <1>14, <1>15, <1>16, <1>17, <1>18, <1>19, <1>20, <1>21, <1>22, <1>23, <1>24, <1>25,
     <1>26, <1>27, <1>28 DEF Next, CaseStep, MainStep, Exited

\* Every step keeps what main and the matrix know of the runs: a run goes from none to
\* setup when it becomes the current one, and never leaves returned.
LEMMA MainInvStep ==
  ASSUME TypeOK, MainInv, \A c \in Cases : StartInv(c), [Next]_vars
  PROVE  MainInv'
<1>0. Runs' = Runs /\ Runs \in 1 .. NCases /\ NCases \in Nat \ {0}
  BY OrdersFixed, ProxyAssumption DEF Runs, TypeOK
<1> USE DEF config, mainVars, TypeOK, MainInv, Cases, Over
<1>1. ASSUME NEW c \in Cases, SetupStep(c) PROVE MainInv'
  <2>1. /\ ppc[c] = "setup" /\ ppc'[c] \in {"setup", "ready"}
        /\ \A d \in Cases \ {c} : ppc'[d] = ppc[d]
        /\ UNCHANGED <<mpc, cur, failed, proxyErr>>
    BY <1>1 DEF SetupStep
  <2>2. QED
    BY <1>0, <2>1
<1>2. ASSUME NEW c \in Cases, SetupFail(c) PROVE MainInv'
  BY <1>2, <1>0 DEF SetupFail
<1>3. ASSUME NEW c \in Cases, StartBegin(c) PROVE MainInv'
  BY <1>3, <1>0 DEF StartBegin
<1>4. ASSUME NEW c \in Cases, StartOpen(c) PROVE MainInv'
  BY <1>4, <1>0 DEF StartOpen
<1>5. ASSUME NEW c \in Cases, StartCheck(c) PROVE MainInv'
  BY <1>5, <1>0 DEF StartCheck
<1>6. ASSUME NEW c \in Cases, StartAssign(c) PROVE MainInv'
  BY <1>6, <1>0 DEF StartAssign
<1>7. ASSUME NEW c \in Cases, StartEnd(c) PROVE MainInv'
  BY <1>7, <1>0 DEF StartEnd
<1>8. ASSUME NEW c \in Cases, StartDies(c) PROVE MainInv'
  BY <1>8, <1>0 DEF StartDies
<1>9. ASSUME NEW c \in Cases, CloseStep(c) PROVE MainInv'
  BY <1>9, <1>0 DEF CloseStep, Released
<1>10. ASSUME NEW c \in Cases, InjectorFailed(c) PROVE MainInv'
  BY <1>10, <1>0 DEF InjectorFailed
<1>11. ASSUME NEW c \in Cases, Listen(c) PROVE MainInv'
  <2>1. /\ ppc[c] = "ready" /\ ppc'[c] \in {"accept", "deferClose"}
        /\ \A d \in Cases \ {c} : ppc'[d] = ppc[d]
        /\ UNCHANGED <<mpc, cur, failed, proxyErr>>
    BY <1>11 DEF Listen
  <2>2. QED
    BY <1>0, <2>1
<1>12. ASSUME NEW c \in Cases, AcceptEnds(c) PROVE MainInv'
  BY <1>12, <1>0 DEF AcceptEnds
<1>13. ASSUME NEW c \in Cases, DeferListener(c) PROVE MainInv'
  BY <1>13, <1>0 DEF DeferListener
<1>14. ASSUME NEW c \in Cases, DeferClose(c) PROVE MainInv'
  BY <1>14, <1>0 DEF DeferClose, EnterClose
<1>15. ASSUME NEW c \in Cases, Return(c) PROVE MainInv'
  BY <1>15, <1>0 DEF Return, CloseReturns
<1>16. ASSUME NEW c \in Cases, WatchCloseListener(c) PROVE MainInv'
  BY <1>16, <1>0 DEF WatchCloseListener
<1>17. ASSUME NEW c \in Cases, WatchClose(c) PROVE MainInv'
  BY <1>17, <1>0 DEF WatchClose, EnterClose, CloseReturns
<1>18. CASE NextCase
  <2>1. CASE cur = Runs
    BY <1>18, <1>0, <2>1 DEF NextCase
  <2>2. CASE cur # Runs
    <3>1. /\ cur + 1 \in 0 .. Runs /\ cur + 1 \in Cases /\ cur' = cur + 1
          /\ ppc' = [ppc EXCEPT ![cur + 1] = "setup"]
          /\ mpc' \in {"waitReady", "run"} /\ UNCHANGED <<failed, proxyErr>>
      BY <1>0, <1>18, <2>2 DEF NextCase
    <3>2. \A c \in Cases : ppc'[c] = IF c = cur + 1 THEN "setup" ELSE ppc[c]
      BY <3>1
    <3>3. \A c \in Cases : ppc'[c] = "none" <=> c > cur'
      BY <1>0, <3>1, <3>2
    <3>4. \A c \in Cases : c < cur' => ppc'[c] = "returned" \/ c \in failed'
      BY <1>0, <1>18, <3>1, <3>2 DEF NextCase
    <3>5. \A c \in Cases : c \in proxyErr' => ppc'[c] = "returned"
      BY <1>0, <3>1, <3>2
    <3>6. QED
      BY <1>0, <3>1, <3>3, <3>4, <3>5
  <2>3. QED
    BY <2>1, <2>2
<1>19. CASE Signal
  BY <1>19, <1>0 DEF Signal
<1>20. CASE RunReturned
  BY <1>20, <1>0 DEF RunReturned
<1>21. CASE TestReady
  BY <1>21, <1>0 DEF TestReady
<1>22. CASE TestFail
  BY <1>22, <1>0 DEF TestFail
<1>23. CASE TestOk
  BY <1>23, <1>0 DEF TestOk
<1>24. CASE TestStopped
  BY <1>24, <1>0 DEF TestStopped
<1>25. CASE Exit
  BY <1>25, <1>0 DEF Exit
<1>26. CASE UNCHANGED vars
  BY <1>26, <1>0 DEF vars
<1>27. CASE PreflightFails
  BY <1>27, <1>0 DEF PreflightFails
<1>28. CASE Interrupt
  BY <1>28, <1>0 DEF Interrupt
<1>29. QED
  BY <1>1, <1>2, <1>3, <1>4, <1>5, <1>6, <1>7, <1>8, <1>9, <1>10, <1>11, <1>12, <1>13,
     <1>14, <1>15, <1>16, <1>17, <1>18, <1>19, <1>20, <1>21, <1>22, <1>23, <1>24, <1>25,
     <1>26, <1>27, <1>28 DEF Next, CaseStep, MainStep, Exited

\* The next run begins with nothing held.
LEMMA NextCaseRun ==
  ASSUME Inv, [Next]_vars, NextCase, NEW c \in Cases
  PROVE  RunInv(c)'
<1>0. /\ backend' = backend /\ SetupOrder' = SetupOrder /\ CloseOrder' = CloseOrder
      /\ Handles' = Handles
  BY OrdersFixed
<1>1. UNCHANGED <<runCtx, step, held, stuck, spc, wpc, once, cstep, injReady, openErr,
                  assigned, injCtx>>
  BY DEF NextCase, startVars, onceVars, resVars
<1>2. CASE ppc'[c] = ppc[c]
  BY <1>1, <1>2, SameRun DEF Inv, Same
<1>3. CASE ppc'[c] # ppc[c]
  <2>1. cur # Runs /\ c = cur + 1 /\ ppc'[c] = "setup"
    BY <1>3 DEF NextCase, Inv, TypeOK
  <2>2. ppc[c] = "none"
    BY <2>1 DEF Inv, MainInv, TypeOK
  <2>3. RunInv(c)
    BY DEF Inv
  <2>4. spc[c] = "none" /\ held[c] = {} /\ step[c] = 1
    BY <2>2, <2>3 DEF RunInv, StartInv, HeldAtMost
  <2>5. StartInv(c)' /\ CloseInv(c)'
    BY <1>0, <1>1, <2>1, <2>2, <2>3, <2>4 DEF RunInv, StartInv, CloseInv
  <2>6. HeldAtMost(c)'
    BY <1>0, <1>1, <2>1, <2>3, <2>4, SetupFacts DEF RunInv, HeldAtMost, Inv, TypeOK, StartInv
  <2>7. HeldAtLeast(c)'
    BY <1>0, <1>1, <2>1, <2>4 DEF HeldAtLeast, Acquired
  <2>8. QED
    BY <2>5, <2>6, <2>7 DEF RunInv
<1>4. QED
  BY <1>2, <1>3

\* Every step keeps what holds of every run.
LEMMA RunStep ==
  ASSUME Inv, [Next]_vars, NEW c \in Cases
  PROVE  RunInv(c)'
<1>1. ASSUME NEW d \in Cases, CaseAction(d) PROVE RunInv(c)'
  <2>1. CASE d = c
    <3>1. CaseAction(c) /\ RunInv(c) /\ TypeOK
      BY <1>1, <2>1 DEF Inv
    <3>2. StartInv(c)' /\ CloseInv(c)' /\ HeldAtMost(c)' /\ HeldAtLeast(c)'
      BY <3>1, StartStep, CloseInvStep, HeldAtMostStep, HeldAtLeastStep
    <3>3. QED
      BY <3>2 DEF RunInv
  <2>2. CASE d # c
    BY <1>1, <2>2, Frame, SameRun DEF Inv
  <2>3. QED
    BY <2>1, <2>2
<1>2. CASE NextCase
  BY <1>2, NextCaseRun
<1>3. CASE \/ PreflightFails \/ Signal \/ Interrupt \/ RunReturned
         \/ TestReady \/ TestFail \/ TestOk \/ TestStopped \/ Exit
  <2>1. Same(c)
    BY <1>3 DEF Same, PreflightFails, Signal, Interrupt, RunReturned, TestReady, TestFail,
                TestOk, TestStopped, Exit, onceVars, resVars, startVars
  <2>2. QED
    BY <2>1, SameRun DEF Inv
<1>4. CASE UNCHANGED vars
  <2>1. Same(c)
    BY <1>4 DEF Same, vars, onceVars, resVars, startVars
  <2>2. QED
    BY <2>1, SameRun DEF Inv
<1>5. QED
  BY <1>1, <1>2, <1>3, <1>4 DEF Next, MainStep, CaseAction, Exited

-----------------------------------------------------------------------------
\* Every reachable state, with any backend and any number of cases, satisfies Inv.
THEOREM ProxyInvariant == Spec => []Inv
<1>1. Init => Inv
  <2> SUFFICES ASSUME Init PROVE Inv
    OBVIOUS
  <2>1. Len(SetupOrder) \in Nat \ {0} /\ Len(CloseOrder) \in Nat \ {0}
    BY SetupFacts, CloseFacts DEF Init
  <2>2. TypeOK
    BY <2>1, ProxyAssumption DEF TypeOK, Init
  <2>3. MainInv
    BY ProxyAssumption DEF MainInv, Init, Runs, Cases, Over
  <2>4. ASSUME NEW c \in Cases PROVE RunInv(c)
    BY DEF Init, RunInv, StartInv, CloseInv, HeldAtMost, HeldAtLeast
  <2>5. QED
    BY <2>2, <2>3, <2>4 DEF Inv
<1>2. Inv /\ [Next]_vars => Inv'
  <2> SUFFICES ASSUME Inv, [Next]_vars PROVE Inv'
    OBVIOUS
  <2>1. TypeOK'
    BY TypeStep
  <2>2. MainInv'
    BY MainInvStep DEF Inv, RunInv
  <2>3. \A c \in Cases : RunInv(c)'
    BY RunStep
  <2>4. Cases' = Cases
    BY DEF Cases
  <2>5. QED
    BY <2>1, <2>2, <2>3, <2>4 DEF Inv
<1>3. QED
  BY <1>1, <1>2, PTL DEF Spec

\* Every variable keeps its type; in particular neither the constructor nor Close runs
\* past its last step, whoever calls Close.
THEOREM ProxyTypeCorrect == Spec => []TypeOK
BY ProxyInvariant, PTL DEF Inv

\* A run that has returned holds nothing but rules that could not be deleted.
LEMMA ReturnedHoldsStuckOnly ==
  ASSUME Inv, NEW c \in Cases, ppc[c] = "returned"
  PROVE  held[c] \subseteq stuck[c]
<1> USE DEF Inv, RunInv
<1>1. CASE spc[c] = "none"
  BY <1>1 DEF HeldAtMost
<1>2. CASE spc[c] # "none"
  <2>1. cstep[c] = Len(CloseOrder) + 1
    BY <1>2 DEF CloseInv
  <2>2. held[c] \subseteq ToClose(Len(CloseOrder) + 1) \cup {"listener"} \cup stuck[c]
    BY <1>2, <2>1 DEF HeldAtMost
  <2>3. "listener" \notin held[c]
    BY DEF HeldAtMost
  <2>4. QED
    BY <2>2, <2>3, CloseFacts DEF TypeOK
<1>3. QED
  BY <1>1, <1>2

\* However runProxy returns, with whatever backend - its constructor failed at any step,
\* Start failed, Close ran in the watcher or in the deferred call - no socket, queue or
\* handle of the run is left, and no rule but those whose deletion was tried and failed.
THEOREM ProxyReturnsClean == Spec => []ReturnedClean
<1>1. Inv => ReturnedClean
  BY ReturnedHoldsStuckOnly DEF ReturnedClean
<1>2. QED
  BY <1>1, ProxyInvariant, PTL

\* A rule that outlives the process could not be deleted, or is of a failed case, or of
\* the current case of a matrix that was killed: main and a passing case have waited for
\* runProxy, and a run that was never started holds nothing.
THEOREM LeftRulesAccountedFor == Spec => []RulesLeftAccountedFor
<1>1. Inv => RulesLeftAccountedFor
  <2> SUFFICES ASSUME Inv, ~Alive, NEW c \in Cases, ~(held[c] \subseteq stuck[c]),
                      ~(mpc = "killed" /\ c = cur)
               PROVE  c \in failed
    BY DEF RulesLeftAccountedFor
  <2>1. CASE c > cur
    <3>1. ppc[c] = "none"
      BY <2>1 DEF Inv, MainInv
    <3>2. QED
      BY <3>1 DEF Inv, RunInv, HeldAtMost
  <2>2. CASE ~(c > cur)
    <3>1. Over(c)
      BY <2>2, ProxyAssumption DEF Inv, TypeOK, Over, Cases, Alive
    <3>2. QED
      BY <3>1, ReturnedHoldsStuckOnly DEF Inv, MainInv
  <2>3. QED
    BY <2>1, <2>2
<1>2. QED
  BY <1>1, ProxyInvariant, PTL

\* While clients are accepted and nobody asked for a shutdown, the injector has all it
\* needs and its loop runs: WaitInjectorReady is enough of a barrier for every backend.
THEOREM CapturesWhileAccepting == Spec => []AcceptingMeansCapturing
<1>1. Inv => AcceptingMeansCapturing
  <2> SUFFICES ASSUME Inv, NEW c \in Cases, ppc[c] = "accept", c \notin runCtx
               PROVE  /\ spc[c] = "running" \/ (backend = "bpf" /\ spc[c] = "stopped")
                      /\ "fd" \in held[c]
                      /\ backend = "nfqueue" => {"out", "in", "nfq"} \subseteq held[c]
                      /\ backend \in WinDivert => c \in assigned /\ Handles \subseteq held[c]
    BY DEF AcceptingMeansCapturing
  <2>1. RunInv(c) /\ backend \in Backends
    BY DEF Inv, TypeOK
  <2>2. /\ c \in injReady /\ c \notin openErr /\ spc[c] \in {"running", "stopped"}
        /\ backend \in WinDivert => c \in assigned
    BY <2>1 DEF RunInv, StartInv
  <2>3. once[c] = "no" /\ c \notin injCtx
    BY <2>1 DEF RunInv, CloseInv, Inv, TypeOK
  <2>4. spc[c] = "running" \/ (backend = "bpf" /\ spc[c] = "stopped")
    BY <2>1, <2>2, <2>3 DEF RunInv, StartInv
  <2>5. Acquired(Len(SetupOrder)) \subseteq held[c]
    BY <2>1, <2>2, <2>3 DEF RunInv, HeldAtLeast
  <2>6. CASE backend \in WinDivert
    <3>1. Handles \subseteq held[c]
      BY <2>1, <2>2, <2>3, <2>4, <2>6 DEF RunInv, HeldAtLeast, WinDivert
    <3>2. QED
      BY <2>2, <2>4, <2>6, <3>1 DEF Handles, WinDivert
  <2>7. CASE backend \notin WinDivert
    BY <2>1, <2>4, <2>5, <2>7, SetupFacts
  <2>8. QED
    BY <2>6, <2>7
<1>2. QED
  BY <1>1, ProxyInvariant, PTL
=============================================================================
