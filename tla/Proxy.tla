------------------------------- MODULE Proxy --------------------------------
(***************************************************************************)
(* The life of the proxy process: main starts runProxy once and lets a     *)
(* signal stop it, or (-test) runMethodMatrix runs it once per case through *)
(* runMethodE2E and a signal ends the process.  Each run creates an        *)
(* injector, starts its packet loop, waits until it is ready, listens, and *)
(* is shut down by two goroutines at once: the one that watches the        *)
(* context and runProxy's deferred calls.                                  *)
(*                                                                         *)
(* Kept are the resources outside the process (iptables and ip rules stay  *)
(* behind when it dies) and every channel, context and sync.Once the       *)
(* goroutines meet at.  The connections served are the module Flow.        *)
(***************************************************************************)
EXTENDS Integers, Sequences

CONSTANTS
  Backends,    \* the injectors the process may be built and started with
  NCases,      \* runs of the proxy with -test, one per case of the matrix
  MayStick     \* bound: the rules whose deletion command may fail (any may in the code)

\* The backends on WinDivert: the active one diverts packets, the passive one sniffs
\* with one handle and injects with another.
WinDivert == {"windivert", "winsniff"}

ASSUME ProxyAssumption ==
  /\ Backends \subseteq {"nfqueue", "afpacket", "bpf"} \cup WinDivert
  /\ NCases \in Nat \ {0}
  /\ MayStick \subseteq {"rule", "out", "in"}

Cases == 1 .. NCases

\* Resources: the raw or capture socket, BPF device or first WinDivert handle, the handle
\* passive WinDivert injects with, the ip rule for marked packets, the two iptables
\* rules, the nfqueue, the listening socket.
Resources == {"fd", "inject", "rule", "out", "in", "nfq", "listener"}

\* What outlives the process.
Persistent == {"rule", "out", "in"}

VARIABLES
  backend,          \* "nfqueue" (Linux active), "afpacket" (Linux passive), "bpf" (macOS),
                    \* "windivert" and "winsniff" (Windows active and passive)
  testMode,         \* -test
  mpc, cur,         \* main or the test matrix, and the case it is at
  failed,           \* cases reported as FAIL
  runCtx,           \* cases whose run context is cancelled
  ppc, step,        \* runProxy per case, next step of the injector's constructor
  held,             \* resources per case
  stuck,            \* history: rules per case whose deletion command failed
  spc,              \* the goroutine of injector.Start
  injReady, openErr,  \* injectorReady is closed; injectorOpenErr is set
  assigned,         \* WinDivert: cases whose handles are in the injector's fields
  injCtx,           \* cases whose injector context is cancelled (shutdown is set)
  readyMsg,         \* the buffered channel ready
  proxyErr,         \* the buffered channel proxyErr: runProxy has returned
  wpc,              \* the goroutine that waits for the run context
  once, cstep       \* closeOnce and the next step of Close

config == <<backend, testMode>>
mainVars == <<mpc, cur, failed>>
onceVars == <<once, cstep>>
resVars == <<held, stuck>>
startVars == <<injReady, openErr, assigned>>
vars == <<config, mainVars, runCtx, ppc, step, resVars, spc, startVars, injCtx,
          readyMsg, proxyErr, wpc, onceVars>>

Init ==
  /\ backend \in Backends /\ testMode \in BOOLEAN
  /\ mpc = "next" /\ cur = 0 /\ failed = {} /\ runCtx = {}
  /\ ppc = [c \in Cases |-> "none"] /\ step = [c \in Cases |-> 1]
  /\ held = [c \in Cases |-> {}] /\ stuck = [c \in Cases |-> {}]
  /\ spc = [c \in Cases |-> "none"]
  /\ injReady = {} /\ openErr = {} /\ assigned = {} /\ injCtx = {}
  /\ readyMsg = [c \in Cases |-> "none"] /\ proxyErr = {}
  /\ wpc = [c \in Cases |-> "none"]
  /\ once = [c \in Cases |-> "no"] /\ cstep = [c \in Cases |-> 1]

\* The process runs: os.Exit, the return of main and a signal nobody handles end every
\* goroutine.
Alive == mpc \notin {"exited", "killed"}

-----------------------------------------------------------------------------
(***************************************************************************)
(* The injector's constructor, Start and Close.                            *)
(***************************************************************************)

\* What the constructors do, in order: check the arguments and the interface ("args"),
\* open a socket and set its options ("opts"), install the rules and open the queue ...
NFQueueSetup == <<"args", "fd", "opts", "rule", "out", "in", "nfq">>

\* ... or find the interface, open an AF_PACKET socket and bind it ...
PassiveSetup == <<"args", "fd", "opts">>

\* ... or open a free BPF device and attach it to the interface ...
OpenBPF == <<"fd", "opts">>

\* ... while with WinDivert nothing is opened before Start.
WinDivertSetup == <<"args">>

SetupOrder ==
  CASE backend = "nfqueue"     -> NFQueueSetup
    [] backend = "afpacket"    -> PassiveSetup
    [] backend = "bpf"         -> <<"args">> \o OpenBPF
    [] backend \in WinDivert   -> WinDivertSetup

\* Mutant: a failing nfqueue.Open leaves the iptables rules.
MutUndo(r) ==
  CASE r \in {"args", "fd"}      -> {}
    [] r = "opts" -> {"fd"}
    [] r \in {"rule", "out"}     -> {"rule", "fd"}
    [] r = "in"   -> {"out", "rule", "fd"}
    [] r = "nfq"  -> {"rule", "fd"}

\* What the error branches release, or run a command to delete, when acquiring r fails;
\* ensureMarkedRoute deletes a rule of its own that did not help.
Undo(r) ==
  CASE r \in {"args", "fd"}      -> {}
    [] r = "opts" -> {"fd"}
    [] r \in {"rule", "out"}     -> {"rule", "fd"}
    [] r = "in"   -> {"out", "rule", "fd"}
    [] r = "nfq"  -> {"out", "in", "rule", "fd"}

\* ensureMarkedRoute adds no rule when marked packets have a route already.
EnsureMarkedRoute(c) == held' \in {held, [held EXCEPT ![c] = @ \cup {"rule"}]}

\* One step succeeds; after the last one the goroutine of Start begins.
SetupStep(c) ==
  /\ Alive /\ ppc[c] = "setup"
  /\ LET r == SetupOrder[step[c]]
     IN  IF r = "rule" THEN EnsureMarkedRoute(c)
         ELSE held' = [held EXCEPT ![c] = @ \cup ({r} \cap Resources)]
  /\ IF step[c] = Len(SetupOrder)
     THEN ppc' = [ppc EXCEPT ![c] = "ready"] /\ spc' = [spc EXCEPT ![c] = "begin"]
     ELSE UNCHANGED <<ppc, spc>>
  /\ step' = [step EXCEPT ![c] = @ + 1]
  /\ UNCHANGED <<config, mainVars, runCtx, stuck, startVars, injCtx, readyMsg, proxyErr,
                 wpc, onceVars>>

\* One step fails: runProxy returns the error without a message on ready.  The result of
\* the commands that delete rules is ignored: some may have failed.
SetupFail(c) ==
  /\ Alive /\ ppc[c] = "setup"
  /\ LET r == SetupOrder[step[c]]
     IN  \E lost \in SUBSET (Undo(r) \cap MayStick \cap (held[c] \cup {r})) :
           /\ held' = [held EXCEPT ![c] = (@ \ Undo(r)) \cup lost]
           /\ stuck' = [stuck EXCEPT ![c] = @ \cup lost]
  /\ ppc' = [ppc EXCEPT ![c] = "returned"]
  /\ proxyErr' = proxyErr \cup {c}
  /\ UNCHANGED <<config, mainVars, runCtx, step, spc, startVars, injCtx, readyMsg, wpc,
                 onceVars>>

\* Start: registering with nfqueue may fail; AF_PACKET and BPF are ready at once.
StartBegin(c) ==
  /\ Alive /\ spc[c] = "begin" /\ backend \notin WinDivert
  /\ injReady' = injReady \cup {c}
  /\ \/ spc' = [spc EXCEPT ![c] = "running"] /\ UNCHANGED openErr
     \/ /\ backend = "nfqueue"
        /\ spc' = [spc EXCEPT ![c] = "stopped"]
        /\ openErr' = openErr \cup {c}
  /\ UNCHANGED <<config, mainVars, runCtx, ppc, step, resVars, assigned, injCtx, readyMsg,
                 proxyErr, wpc, onceVars>>

\* The WinDivert handles.
Handles == IF backend = "winsniff" THEN {"fd", "inject"} ELSE {"fd"}

\* Start of the WinDivert backends opens its handles, or reports the error and closes
\* what it had opened ...
StartOpen(c) ==
  /\ Alive /\ spc[c] = "begin" /\ backend \in WinDivert
  /\ \/ /\ held' = [held EXCEPT ![c] = @ \cup Handles]
        /\ spc' = [spc EXCEPT ![c] = "opened"]
        /\ UNCHANGED <<injReady, openErr>>
     \/ /\ spc' = [spc EXCEPT ![c] = "stopped"]
        /\ openErr' = openErr \cup {c} /\ injReady' = injReady \cup {c}
        /\ UNCHANGED held
  /\ UNCHANGED <<config, mainVars, runCtx, ppc, step, stuck, assigned, injCtx, readyMsg,
                 proxyErr, wpc, onceVars>>

\* ... loads shutdown ...
StartCheck(c) ==
  /\ Alive /\ spc[c] = "opened"
  /\ IF c \in injCtx
     THEN /\ held' = [held EXCEPT ![c] = @ \ Handles]
          /\ spc' = [spc EXCEPT ![c] = "stopped"]
          /\ openErr' = openErr \cup {c} /\ injReady' = injReady \cup {c}
     ELSE spc' = [spc EXCEPT ![c] = "assign"] /\ UNCHANGED <<held, openErr, injReady>>
  /\ UNCHANGED <<config, mainVars, runCtx, ppc, step, stuck, assigned, injCtx, readyMsg,
                 proxyErr, wpc, onceVars>>

\* ... and only then stores the handles where Close finds them.
StartAssign(c) ==
  /\ Alive /\ spc[c] = "assign"
  /\ assigned' = assigned \cup {c} /\ injReady' = injReady \cup {c}
  /\ spc' = [spc EXCEPT ![c] = "running"]
  /\ UNCHANGED <<config, mainVars, runCtx, ppc, step, resVars, openErr, injCtx, readyMsg,
                 proxyErr, wpc, onceVars>>

\* Start returns nil once the injector's context is cancelled; WinDivert looks at shutdown
\* only when Recv fails.
StartEnd(c) ==
  /\ Alive /\ spc[c] = "running" /\ c \in injCtx
  /\ spc' = [spc EXCEPT ![c] = "stopped"]
  /\ UNCHANGED <<config, mainVars, runCtx, ppc, step, resVars, startVars, injCtx, readyMsg,
                 proxyErr, wpc, onceVars>>

\* macOS: any other read error also ends the loop, with nil, while AF_PACKET and
\* nfqueue carry on.
StartDies(c) ==
  /\ Alive /\ backend = "bpf" /\ spc[c] = "running"
  /\ spc' = [spc EXCEPT ![c] = "stopped"]
  /\ UNCHANGED <<config, mainVars, runCtx, ppc, step, resVars, startVars, injCtx, readyMsg,
                 proxyErr, wpc, onceVars>>

\* Mutant: the injector's context is not cancelled.
MutCloseNoCancel ==
  IF backend = "nfqueue" THEN <<"nfq", "fd", "out", "in", "rule">> ELSE <<"fd">>

\* What Close releases, in order.
CloseOrder ==
  CASE backend = "nfqueue"  -> <<"ctx", "nfq", "fd", "out", "in", "rule">>
    [] backend = "winsniff" -> <<"ctx", "fd", "inject">>
    [] OTHER                -> <<"ctx", "fd">>

\* A WinDivert handle is closed only if its field is set.
Released(c, r) == IF backend \in WinDivert /\ c \notin assigned THEN {} ELSE {r}

\* closeOnce.Do: the first caller runs Close ...
EnterClose(c) == once[c] = "no" /\ once' = [once EXCEPT ![c] = "running"] /\ UNCHANGED cstep

\* Mutant: Close forgets that it has run.
MutCloseStep(c) ==
  /\ Alive /\ once[c] = "running"
  /\ LET r == CloseOrder[IF cstep[c] > Len(CloseOrder) THEN 1 ELSE cstep[c]]
     IN  /\ held' = [held EXCEPT ![c] = @ \ {r}] /\ UNCHANGED stuck
         /\ injCtx' = IF r = "ctx" THEN injCtx \cup {c} ELSE injCtx
  /\ cstep' = [cstep EXCEPT ![c] = @ + 1]
  /\ UNCHANGED <<config, mainVars, runCtx, ppc, step, spc, startVars, readyMsg, proxyErr,
                 wpc, once>>

\* ... step by step; cleanupIptables and cleanupMarkedRoute ignore the result of the
\* commands that delete rules ...
CloseStep(c) ==
  /\ Alive /\ once[c] = "running"
  /\ LET r == CloseOrder[cstep[c]]
     IN  /\ \/ held' = [held EXCEPT ![c] = @ \ Released(c, r)] /\ UNCHANGED stuck
            \/ /\ r \in MayStick \cap held[c]
               /\ stuck' = [stuck EXCEPT ![c] = @ \cup {r}] /\ UNCHANGED held
         /\ injCtx' = IF r = "ctx" THEN injCtx \cup {c} ELSE injCtx
  /\ cstep' = [cstep EXCEPT ![c] = @ + 1]
  /\ once' = IF cstep[c] = Len(CloseOrder) THEN [once EXCEPT ![c] = "done"] ELSE once
  /\ UNCHANGED <<config, mainVars, runCtx, ppc, step, spc, startVars, readyMsg, proxyErr,
                 wpc>>

\* Mutant: a plain flag instead of sync.Once does not make the second caller wait.
MutCloseReturns(c) == once[c] # "no"

\* ... and every caller returns when it is done.
CloseReturns(c) == once[c] = "done"

-----------------------------------------------------------------------------
(***************************************************************************)
(* runProxy                                                                *)
(***************************************************************************)

\* WaitInjectorReady returns an error: report it, run the deferred Close.
InjectorFailed(c) ==
  /\ Alive /\ ppc[c] = "ready" /\ c \in injReady /\ c \in openErr
  /\ readyMsg' = [readyMsg EXCEPT ![c] = "err"]
  /\ ppc' = [ppc EXCEPT ![c] = "deferClose"]
  /\ UNCHANGED <<config, mainVars, runCtx, step, resVars, spc, startVars, injCtx, proxyErr,
                 wpc, onceVars>>

\* Mutant: the listener is opened without waiting for the injector.
MutListen(c) ==
  /\ Alive /\ ppc[c] = "ready"
  /\ held' = [held EXCEPT ![c] = @ \cup {"listener"}]
  /\ wpc' = [wpc EXCEPT ![c] = "wait"]
  /\ ppc' = [ppc EXCEPT ![c] = "accept"]
  /\ readyMsg' = [readyMsg EXCEPT ![c] = "ok"]
  /\ UNCHANGED <<config, mainVars, runCtx, step, stuck, spc, startVars, injCtx, proxyErr,
                 onceVars>>

\* net.Listen; on success the watcher of the run context starts.
Listen(c) ==
  /\ Alive /\ ppc[c] = "ready" /\ c \in injReady /\ c \notin openErr
  /\ \/ /\ held' = [held EXCEPT ![c] = @ \cup {"listener"}]
        /\ wpc' = [wpc EXCEPT ![c] = "wait"]
        /\ ppc' = [ppc EXCEPT ![c] = "accept"]
        /\ readyMsg' = [readyMsg EXCEPT ![c] = "ok"]
     \/ /\ ppc' = [ppc EXCEPT ![c] = "deferClose"]
        /\ readyMsg' = [readyMsg EXCEPT ![c] = "err"]
        /\ UNCHANGED <<held, wpc>>
  /\ UNCHANGED <<config, mainVars, runCtx, step, stuck, spc, startVars, injCtx, proxyErr,
                 onceVars>>

\* Accept fails, at the latest because the watcher closed the listener, and the run
\* context is cancelled: return.  Any other error of Accept, and every accepted client,
\* leaves the loop where it is; injectorErr never holds anything, since no Start
\* returns an error.
AcceptEnds(c) ==
  /\ Alive /\ ppc[c] = "accept" /\ c \in runCtx
  /\ ppc' = [ppc EXCEPT ![c] = "deferListener"]
  /\ UNCHANGED <<config, mainVars, runCtx, step, resVars, spc, startVars, injCtx, readyMsg,
                 proxyErr, wpc, onceVars>>

\* defer listener.Close()
DeferListener(c) ==
  /\ Alive /\ ppc[c] = "deferListener"
  /\ held' = [held EXCEPT ![c] = @ \ {"listener"}]
  /\ ppc' = [ppc EXCEPT ![c] = "deferClose"]
  /\ UNCHANGED <<config, mainVars, runCtx, step, stuck, spc, startVars, injCtx, readyMsg,
                 proxyErr, wpc, onceVars>>

\* defer fakeInjector.Close()
DeferClose(c) ==
  /\ Alive /\ ppc[c] = "deferClose"
  /\ EnterClose(c)
  /\ UNCHANGED <<config, mainVars, runCtx, ppc, step, resVars, spc, startVars, injCtx,
                 readyMsg, proxyErr, wpc>>

\* Mutant: the result of runProxy is lost.
MutReturn(c) ==
  /\ Alive /\ ppc[c] = "deferClose" /\ CloseReturns(c)
  /\ ppc' = [ppc EXCEPT ![c] = "returned"]
  /\ UNCHANGED <<config, mainVars, runCtx, step, resVars, spc, startVars, injCtx, readyMsg,
                 wpc, proxyErr, onceVars>>

Return(c) ==
  /\ Alive /\ ppc[c] = "deferClose" /\ CloseReturns(c)
  /\ ppc' = [ppc EXCEPT ![c] = "returned"]
  /\ proxyErr' = proxyErr \cup {c}
  /\ UNCHANGED <<config, mainVars, runCtx, step, resVars, spc, startVars, injCtx, readyMsg,
                 wpc, onceVars>>

\* Mutant: the watcher closes the injector only.
MutWatchCloseListener(c) ==
  /\ Alive /\ wpc[c] = "wait" /\ c \in runCtx
  /\ wpc' = [wpc EXCEPT ![c] = "close"]
  /\ UNCHANGED <<config, mainVars, runCtx, ppc, step, resVars, spc, startVars, injCtx,
                 readyMsg, proxyErr, onceVars>>

\* The watcher: <-ctx.Done(), listener.Close(), then fakeInjector.Close().
WatchCloseListener(c) ==
  /\ Alive /\ wpc[c] = "wait" /\ c \in runCtx
  /\ held' = [held EXCEPT ![c] = @ \ {"listener"}]
  /\ wpc' = [wpc EXCEPT ![c] = "close"]
  /\ UNCHANGED <<config, mainVars, runCtx, ppc, step, stuck, spc, startVars, injCtx, readyMsg,
                 proxyErr, onceVars>>

WatchClose(c) ==
  /\ Alive /\ wpc[c] = "close"
  /\ \/ EnterClose(c) /\ UNCHANGED wpc
     \/ CloseReturns(c) /\ wpc' = [wpc EXCEPT ![c] = "done"] /\ UNCHANGED onceVars
  /\ UNCHANGED <<config, mainVars, runCtx, ppc, step, resVars, spc, startVars, injCtx,
                 readyMsg, proxyErr>>

-----------------------------------------------------------------------------
(***************************************************************************)
(* main, runMethodMatrix and runMethodE2E                                  *)
(***************************************************************************)

\* main calls runProxy once, the matrix once per case.
Runs == IF testMode THEN NCases ELSE 1

\* The next run starts; after the last one the process goes on to exit.
NextCase ==
  /\ mpc = "next"
  /\ IF cur = Runs
     THEN mpc' = "exitKey" /\ UNCHANGED <<cur, ppc>>
     ELSE /\ cur' = cur + 1
          /\ ppc' = [ppc EXCEPT ![cur + 1] = "setup"]
          /\ mpc' = IF testMode THEN "waitReady" ELSE "run"
  /\ UNCHANGED <<config, failed, runCtx, step, resVars, spc, startVars, injCtx, readyMsg,
                 proxyErr, wpc, onceVars>>

\* The preflight of the matrix fails: no case is run.
PreflightFails ==
  /\ mpc = "next" /\ testMode /\ cur = 0
  /\ mpc' = "exitKey"
  /\ UNCHANGED <<config, cur, failed, runCtx, ppc, step, resVars, spc, startVars, injCtx,
                 readyMsg, proxyErr, wpc, onceVars>>

\* SIGINT or SIGTERM in a normal run ...
Signal ==
  /\ mpc = "run" /\ cur \notin runCtx
  /\ runCtx' = runCtx \cup {cur}
  /\ UNCHANGED <<config, mainVars, ppc, step, resVars, spc, startVars, injCtx, readyMsg,
                 proxyErr, wpc, onceVars>>

\* ... and with -test, where no handler is installed.
Interrupt ==
  /\ testMode /\ Alive
  /\ mpc' = "killed"
  /\ UNCHANGED <<config, cur, failed, runCtx, ppc, step, resVars, spc, startVars, injCtx,
                 readyMsg, proxyErr, wpc, onceVars>>

\* runProxy has returned to main.
RunReturned ==
  /\ mpc = "run" /\ ppc[cur] = "returned"
  /\ mpc' = "next"
  /\ UNCHANGED <<config, cur, failed, runCtx, ppc, step, resVars, spc, startVars, injCtx,
                 readyMsg, proxyErr, wpc, onceVars>>

\* runMethodE2E: the tunnel is ready.
TestReady ==
  /\ mpc = "waitReady" /\ readyMsg[cur] = "ok"
  /\ mpc' = "fetch"
  /\ UNCHANGED <<config, cur, failed, runCtx, ppc, step, resVars, spc, startVars, injCtx,
                 readyMsg, proxyErr, wpc, onceVars>>

\* The tunnel reports an error or has stopped, the 15 s pass, or the request fails: the
\* deferred cancel runs and the case has failed, without waiting for runProxy.
TestFail ==
  /\ mpc \in {"waitReady", "fetch"}
  /\ mpc' = "next" /\ failed' = failed \cup {cur} /\ runCtx' = runCtx \cup {cur}
  /\ UNCHANGED <<config, cur, ppc, step, resVars, spc, startVars, injCtx, readyMsg, proxyErr,
                 wpc, onceVars>>

\* The request succeeds: cancel(), then wait for runProxy.
TestOk ==
  /\ mpc = "fetch"
  /\ mpc' = "waitStop" /\ runCtx' = runCtx \cup {cur}
  /\ UNCHANGED <<config, cur, failed, ppc, step, resVars, spc, startVars, injCtx, readyMsg,
                 proxyErr, wpc, onceVars>>

\* Mutant: the passing case does not wait either.
MutTestStopped ==
  /\ mpc = "waitStop"
  /\ mpc' = "next"
  /\ UNCHANGED <<config, cur, failed, runCtx, ppc, step, resVars, spc, startVars, injCtx,
                 readyMsg, proxyErr, wpc, onceVars>>

\* <-proxyErr
TestStopped ==
  /\ mpc = "waitStop" /\ cur \in proxyErr
  /\ mpc' = "next"
  /\ UNCHANGED <<config, cur, failed, runCtx, ppc, step, resVars, spc, startVars, injCtx,
                 readyMsg, proxyErr, wpc, onceVars>>

\* Enter is pressed (-test), or main returns.
Exit ==
  /\ mpc = "exitKey"
  /\ mpc' = "exited"
  /\ UNCHANGED <<config, cur, failed, runCtx, ppc, step, resVars, spc, startVars, injCtx,
                 readyMsg, proxyErr, wpc, onceVars>>

Exited == ~Alive /\ UNCHANGED vars

\* What the goroutines of a run do by themselves; Accept returns by itself only once
\* the listener is closed, Recv of WinDivert once its handle is.
CaseStep(c) ==
  \/ SetupStep(c) \/ SetupFail(c)
  \/ StartBegin(c) \/ StartOpen(c) \/ StartCheck(c) \/ StartAssign(c)
  \/ (backend \in WinDivert => "fd" \notin held[c]) /\ StartEnd(c)
  \/ CloseStep(c)
  \/ InjectorFailed(c) \/ Listen(c) \/ DeferListener(c) \/ DeferClose(c)
  \/ Return(c) \/ WatchCloseListener(c) \/ WatchClose(c)
  \/ "listener" \notin held[c] /\ AcceptEnds(c)

MainStep ==
  \/ NextCase \/ PreflightFails \/ RunReturned
  \/ TestReady \/ TestFail \/ TestOk \/ TestStopped \/ Exit

Next ==
  \/ MainStep \/ Signal \/ Interrupt
  \/ \E c \in Cases : CaseStep(c) \/ StartEnd(c) \/ StartDies(c) \/ AcceptEnds(c)
  \/ Exited

Spec == Init /\ [][Next]_vars

(***************************************************************************)
(* The process does not stop while one of its goroutines can run: the Go   *)
(* scheduler sees to that, the commands Close runs end, the tunnel's start *)
(* and the request of a test have time limits.  Nothing repeats (no step   *)
(* leads back to an earlier state), so no goroutine can be starved by the  *)
(* others.  Nobody has to send a signal or to press Enter.                 *)
(***************************************************************************)
Fairness ==
  WF_vars(\/ \E c \in Cases : CaseStep(c)
          \/ NextCase \/ PreflightFails \/ RunReturned
          \/ TestReady \/ TestFail \/ TestOk \/ TestStopped)

FairSpec == Spec /\ Fairness

-----------------------------------------------------------------------------
\* Every variable has its type.
TypeOK ==
  /\ backend \in Backends /\ testMode \in BOOLEAN
  /\ mpc \in {"next", "run", "waitReady", "fetch", "waitStop", "exitKey", "exited",
              "killed"}
  /\ cur \in 0 .. NCases
  /\ failed \subseteq Cases /\ runCtx \subseteq Cases /\ injReady \subseteq Cases
  /\ openErr \subseteq Cases /\ injCtx \subseteq Cases /\ assigned \subseteq Cases
  /\ proxyErr \subseteq Cases
  /\ ppc \in [Cases -> {"none", "setup", "ready", "accept", "deferListener", "deferClose",
                        "returned"}]
  /\ step \in [Cases -> 1 .. Len(SetupOrder) + 1]
  /\ held \in [Cases -> SUBSET Resources] /\ stuck \in [Cases -> SUBSET Persistent]
  /\ spc \in [Cases -> {"none", "begin", "opened", "assign", "running", "stopped"}]
  /\ readyMsg \in [Cases -> {"none", "ok", "err"}]
  /\ wpc \in [Cases -> {"none", "wait", "close", "done"}]
  /\ once \in [Cases -> {"no", "running", "done"}]
  /\ cstep \in [Cases -> 1 .. Len(CloseOrder) + 1]

\* Whichever way runProxy returns - the constructor failed half way, the queue could
\* not be registered, a handle not opened, the port was taken, a shutdown ran in two
\* goroutines at once, Close came while handles were not yet stored - every socket, queue
\* and handle of the run is gone by then, and a rule is left only if the command that was
\* to delete it was run and failed, which nobody is told.
ReturnedClean == \A c \in Cases : ppc[c] = "returned" => held[c] \subseteq stuck[c]

\* When the process ends, a rule left behind has one of three reasons: the command that
\* was to delete it failed, it belongs to a test case that failed (the matrix does not wait
\* for it), or to the current case of a matrix that a signal killed.  A normal run, and a
\* passing case, have waited for Close.
RulesLeftAccountedFor ==
  ~Alive => \A c \in Cases :
              \/ held[c] \cap Persistent \subseteq stuck[c]
              \/ c \in failed
              \/ mpc = "killed" /\ c = cur

\* Clients are accepted only with the injector complete and its loop running, until a
\* shutdown is requested.  On macOS a read error may have ended the loop since.
AcceptingMeansCapturing ==
  \A c \in Cases :
    ppc[c] = "accept" /\ c \notin runCtx =>
      /\ spc[c] = "running" \/ (backend = "bpf" /\ spc[c] = "stopped")
      /\ "fd" \in held[c]
      /\ backend = "nfqueue" => {"out", "in", "nfq"} \subseteq held[c]
      /\ backend \in WinDivert => c \in assigned /\ Handles \subseteq held[c]

\* A shutdown that was requested completes: the two goroutines that call Close do not
\* block each other and runProxy returns.
ShutdownCompletes == \A c \in Cases : c \in runCtx ~> ppc[c] = "returned" \/ ~Alive

\* The packet loop of a run that is over ends too.
LoopEnds ==
  \A c \in Cases : ppc[c] = "returned" ~> spc[c] \in {"none", "stopped"} \/ ~Alive

\* The test matrix always comes to its end, unless it is killed: no case waits for ever
\* for a tunnel that has already stopped.
MatrixFinishes == testMode => <>(mpc \in {"exitKey", "killed"})
=============================================================================
