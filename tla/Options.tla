------------------------------- MODULE Options ------------------------------
(***************************************************************************)
(* How main builds its options: built-in defaults, the INI file            *)
(* (config/file.go), the command line (package flag), the checks before    *)
(* the proxy starts (main.go, config/connect.go), and what the cases of    *)
(* the test matrix set themselves.                                         *)
(*                                                                         *)
(* A value is where it came from and what the checks can tell of it:       *)
(*   "ok"          valid                                                   *)
(*   "empty"       the empty string (after TrimSpace)                      *)
(*   "ipv4"        a -connect address that is an IPv4, so has no host name *)
(*   "refused"     well formed, refused by a check of main or connect.go   *)
(*   "unparsable"  not a number, duration or boolean                       *)
(***************************************************************************)
EXTENDS Integers

CONSTANTS
  MaxLines,    \* bound: lines of the config file
  MaxFlags     \* bound: flags on the command line

ASSUME OptionsAssumption == MaxLines \in Nat /\ MaxFlags \in Nat

StringKeys == {"listen", "connect", "fake-sni", "utls", "injector"}
TypedKeys ==
  {"fake-repeat", "sni-chunk", "ack-timeout", "fake-delay", "fragment-delay", "enable-fragment"}
Keys == StringKeys \cup TypedKeys

\* What a line or a flag for key k can hold.
Classes(k) ==
  CASE k = "connect"            -> {"ok", "ipv4", "empty", "refused"}
    [] k = "fake-sni"           -> {"ok", "empty"}
    [] k \in {"listen", "utls", "injector"}               -> {"ok", "empty", "refused"}
    [] k \in {"fake-repeat", "sni-chunk", "ack-timeout"}  -> {"ok", "refused", "unparsable"}
    [] OTHER                    -> {"ok", "unparsable"}

Values == {"ok", "empty", "ipv4", "refused", "unparsable"}

VARIABLES
  pc,
  testMode,   \* -test is given
  fileOpts,   \* FileOptions: the last value of each key seen in the file
  opts,       \* the option variables of main, and what runProxy is started with
  nlines, nflags,
  cli         \* history: the last value of each flag given

vars == <<pc, testMode, fileOpts, opts, nlines, nflags, cli>>

Absent == [src |-> "absent", class |-> "empty"]
From(src, class) == [src |-> src, class |-> class]

Init ==
  /\ pc = "file" /\ testMode \in BOOLEAN
  /\ fileOpts = [k \in Keys |-> Absent] /\ cli = [k \in Keys |-> Absent]
  /\ opts = [k \in Keys |-> From("default", "empty")]
  /\ nlines = 0 /\ nflags = 0

Fatal == pc' = "fatal" /\ UNCHANGED <<testMode, fileOpts, opts, nlines, nflags, cli>>

-----------------------------------------------------------------------------
(***************************************************************************)
(* loadInitialFileOptions, LoadFileOptions, setFileOption                  *)
(***************************************************************************)

\* -config without a path, a file that cannot be read, a line without a separator or
\* with an unknown key.
FileBadLine ==
  /\ pc = "file" /\ nlines < MaxLines
  /\ Fatal

\* One key = value; a later line for the same key replaces the earlier one.
FileLine(k, class) ==
  /\ pc = "file" /\ nlines < MaxLines
  /\ IF class = "unparsable"
     THEN Fatal
     ELSE /\ fileOpts' = [fileOpts EXCEPT ![k] = From("file", class)]
          /\ nlines' = nlines + 1
          /\ UNCHANGED <<pc, testMode, opts, nflags, cli>>

\* The end of the file, or no file.
FileEnd ==
  /\ pc = "file"
  /\ pc' = "defaults"
  /\ UNCHANGED <<testMode, fileOpts, opts, nlines, nflags, cli>>

-----------------------------------------------------------------------------
(***************************************************************************)
(* applyOptionDefaults, the registration of the flags, flag.Parse          *)
(***************************************************************************)

\* Mutant: options without a value in the file stay unset.
MutDefault(k) == From("default", IF k \in StringKeys THEN "empty" ELSE "unset")

\* Built-in defaults: all but the string options have a valid one.
Default(k) == From("default", IF k \in StringKeys THEN "empty" ELSE "ok")

\* Mutant: the defaults are applied after the file.
MutApplyOptionDefaults ==
  /\ pc = "defaults"
  /\ opts' = [k \in Keys |->
       IF k \in StringKeys /\ fileOpts[k] # Absent THEN fileOpts[k] ELSE Default(k)]
  /\ pc' = "register"
  /\ UNCHANGED <<testMode, fileOpts, nlines, nflags, cli>>

ApplyOptionDefaults ==
  /\ pc = "defaults"
  /\ opts' = [k \in Keys |-> IF fileOpts[k] # Absent THEN fileOpts[k] ELSE Default(k)]
  /\ pc' = "register"
  /\ UNCHANGED <<testMode, fileOpts, nlines, nflags, cli>>

\* flag.StringVar and its kind store the flag's default into the variable: every flag
\* is given the variable's own value, -injector the platform's mode.
RegisterFlags ==
  /\ pc = "register"
  /\ opts' = [opts EXCEPT !["injector"] = From("default", "ok")]
  /\ pc' = "flags"
  /\ UNCHANGED <<testMode, fileOpts, nlines, nflags, cli>>

\* flag.Parse: one flag; a value that does not parse ends the program.
ParseFlag(k, class) ==
  /\ pc = "flags" /\ nflags < MaxFlags
  /\ nflags' = nflags + 1
  /\ cli' = [cli EXCEPT ![k] = From("cli", class)]
  /\ IF class = "unparsable" THEN pc' = "fatal" /\ UNCHANGED opts
     ELSE opts' = [opts EXCEPT ![k] = From("cli", class)] /\ UNCHANGED pc
  /\ UNCHANGED <<testMode, fileOpts, nlines>>

\* Left-over arguments or missing privileges end the program; -test replaces -listen.
FlagsEnd ==
  /\ pc = "flags"
  /\ \/ /\ pc' = "check"
        /\ opts' = IF testMode THEN [opts EXCEPT !["listen"] = From("test", "ok")] ELSE opts
     \/ pc' = "fatal" /\ UNCHANGED opts
  /\ UNCHANGED <<testMode, fileOpts, nlines, nflags, cli>>

-----------------------------------------------------------------------------
(***************************************************************************)
(* The checks of main and connectFromCLI.                                  *)
(***************************************************************************)

Class(k) == opts[k].class

\* -listen, -connect and the ranges; parseInjectorMode takes "" for active.
RangesOK ==
  /\ Class("listen") # "empty" /\ Class("connect") # "empty"
  /\ \A k \in {"fake-repeat", "sni-chunk", "ack-timeout", "injector"} : Class(k) # "refused"

\* Mutant: an address without a host name needs no -fake-sni.
MutConnectOK == Class("listen") # "refused" /\ Class("connect") # "refused"

\* connectFromCLI; an IPv4 address gives no name for the decoy.
ConnectOK ==
  /\ Class("listen") # "refused" /\ Class("connect") # "refused"
  /\ Class("connect") = "ipv4" => Class("fake-sni") # "empty"

\* An empty -utls means the default; -test tries presets of its own.
UtlsOK == testMode \/ Class("utls") # "refused"

\* What every case of the test matrix sets, whatever file and command line say.
MatrixKeys == TypedKeys \cup {"utls"}

\* The options runProxy is given: main's, or with -test those of the case.
ProxyOptions ==
  [k \in Keys |-> IF testMode /\ k \in MatrixKeys THEN From("matrix", "ok") ELSE opts[k]]

\* The checks in their order, of main's variables in either mode; name resolution, and
\* the preflight of -test, may fail as well.
Start ==
  /\ pc = "check"
  /\ \/ /\ RangesOK /\ ConnectOK /\ UtlsOK
        /\ pc' = "started" /\ opts' = ProxyOptions
     \/ /\ ~(RangesOK /\ ConnectOK /\ UtlsOK) \/ Class("connect") = "ok" \/ testMode
        /\ pc' = "fatal" /\ UNCHANGED opts
  /\ UNCHANGED <<testMode, fileOpts, nlines, nflags, cli>>

Ended == pc \in {"fatal", "started"} /\ UNCHANGED vars

Next ==
  \/ FileBadLine
  \/ \E k \in Keys : \E class \in Classes(k) : FileLine(k, class) \/ ParseFlag(k, class)
  \/ FileEnd \/ ApplyOptionDefaults \/ RegisterFlags \/ FlagsEnd \/ Start
  \/ Ended

Spec == Init /\ [][Next]_vars

-----------------------------------------------------------------------------
\* Every variable has its type.
TypeOK ==
  /\ pc \in {"file", "defaults", "register", "flags", "check", "started", "fatal"}
  /\ LET Opt == [src : {"absent", "default", "file", "cli", "test", "matrix"},
                 class : Values]
     IN  fileOpts \in [Keys -> Opt] /\ opts \in [Keys -> Opt] /\ cli \in [Keys -> Opt]
  /\ nlines \in 0 .. MaxLines /\ nflags \in 0 .. MaxFlags
  /\ testMode \in BOOLEAN

\* "CLI flags override config values": which value of k should count.
Effective(k) ==
  IF cli[k] # Absent THEN cli[k]
  ELSE IF fileOpts[k] # Absent THEN fileOpts[k]
  ELSE IF k = "injector" THEN From("default", "ok") ELSE Default(k)

\* Through three passes over the same variables: a normal run has, for every option but
\* -injector, the flag's value, else the file's, else the default.  With -test that holds
\* of -connect and -fake-sni only; the listening address and the options of the matrix are
\* the test's own, and no value of the user's gets past them.
Precedence ==
  pc = "started" =>
    \A k \in Keys \ {"injector"} :
      opts[k] = CASE testMode /\ k = "listen"       -> From("test", "ok")
                  [] testMode /\ k \in MatrixKeys   -> From("matrix", "ok")
                  [] OTHER                          -> Effective(k)

\* Whatever its source, no value that a check refuses reaches the proxy (with -test, where
\* main does not look at -utls, because the matrix replaces it), and the name for the
\* decoy is known.
OnlyValidRuns ==
  pc = "started" =>
    /\ \A k \in Keys : Class(k) # "refused"
    /\ \A k \in TypedKeys : Class(k) = "ok"
    /\ Class("connect") = "ok" \/ (Class("connect") = "ipv4" /\ Class("fake-sni") = "ok")

\* "CLI flags override config values", for -injector too: TLC refutes it.
InjectorFromFile == pc = "started" => opts["injector"] = Effective("injector")
=============================================================================
