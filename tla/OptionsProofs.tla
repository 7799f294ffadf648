--------------------------- MODULE OptionsProofs ----------------------------
(***************************************************************************)
(* Proofs about Options for files and command lines of any length.         *)
(***************************************************************************)
EXTENDS Options, TLAPS

\* What an option variable can hold once a value was parsed, or by default.
Settable(k) == Classes(k) \ {"unparsable"}

\* The file's values are parsed ones, no flag is read before flag.Parse, and a flag that
\* does not parse ends the program.
SourcesInv ==
  \A k \in Keys :
    /\ fileOpts[k] = Absent \/ fileOpts[k] \in [src : {"file"}, class : Settable(k)]
    /\ pc # "fatal" => cli[k] = Absent \/ cli[k] \in [src : {"cli"}, class : Settable(k)]
    /\ pc \in {"file", "defaults", "register"} => cli[k] = Absent

\* The variables hold parsed values from the moment the defaults are applied ...
ParsedInv ==
  pc \in {"register", "flags", "check", "started"} =>
    \A k \in Keys : Class(k) \in Settable(k)

\* ... and the right ones: registering the flags overwrites -injector only, every flag
\* that is read replaces its own variable, and -test replaces -listen after the last one.
PrecedenceInv ==
  pc \in {"register", "flags", "check"} =>
    \A k \in Keys \ {"injector"} :
      opts[k] = IF testMode /\ k = "listen" /\ pc = "check" THEN From("test", "ok")
                ELSE Effective(k)

\* The proxy starts only when every check has passed.
CheckedInv == pc = "started" => RangesOK /\ ConnectOK /\ UtlsOK

Inv == TypeOK /\ SourcesInv /\ ParsedInv /\ PrecedenceInv /\ CheckedInv /\ Precedence

-----------------------------------------------------------------------------
\* The classes, key by key: a default is always one of them.
LEMMA SettableFacts ==
  ASSUME NEW k \in Keys
  PROVE  /\ Classes(k) \subseteq Values
         /\ "ok" \in Settable(k) /\ Default(k).class \in Settable(k)
         /\ Settable(k) \subseteq Values \ {"unparsable"}
BY DEF Keys, StringKeys, TypedKeys, Classes, Settable, Values, Default, From

\* The keys main names.
LEMMA KeyFacts ==
  /\ {"listen", "connect", "fake-sni", "utls", "injector", "fake-repeat", "sni-chunk",
      "ack-timeout"} \subseteq Keys
  /\ TypedKeys \subseteq Keys
BY DEF Keys, StringKeys, TypedKeys

\* The reading of the file and the command line keeps types and sources.
LEMMA SourcesStep ==
  ASSUME TypeOK, SourcesInv, [Next]_vars
  PROVE  TypeOK' /\ SourcesInv'
<1> USE DEF TypeOK, SourcesInv, Absent, From
<1>1. CASE FileBadLine
  BY <1>1 DEF FileBadLine, Fatal
<1>2. ASSUME NEW k \in Keys, NEW class \in Classes(k), FileLine(k, class)
      PROVE  TypeOK' /\ SourcesInv'
  BY <1>2, SettableFacts, OptionsAssumption DEF FileLine, Fatal, Settable
<1>3. ASSUME NEW k \in Keys, NEW class \in Classes(k), ParseFlag(k, class)
      PROVE  TypeOK' /\ SourcesInv'
  <2>1. pc = "flags" /\ nflags \in 0 .. MaxFlags - 1 /\ nflags' = nflags + 1
    BY <1>3, OptionsAssumption DEF ParseFlag
  <2>2. cli' = [cli EXCEPT ![k] = From("cli", class)] /\ class \in Values
    BY <1>3, SettableFacts DEF ParseFlag
  <2>3. CASE class = "unparsable"
    BY <1>3, <2>1, <2>2, <2>3, OptionsAssumption DEF ParseFlag
  <2>4. CASE class # "unparsable"
    <3>1. class \in Settable(k)
      BY <2>4 DEF Settable
    <3>2. pc' = pc /\ opts' = [opts EXCEPT ![k] = From("cli", class)]
      BY <1>3, <2>4 DEF ParseFlag
    <3>3. TypeOK'
      BY <1>3, <2>1, <2>2, <3>2, OptionsAssumption DEF ParseFlag
    <3>4. SourcesInv'
      BY <1>3, <2>1, <2>2, <3>1, <3>2 DEF ParseFlag
    <3>5. QED
      BY <3>3, <3>4
  <2>5. QED
    BY <2>3, <2>4
<1>4. CASE FileEnd
  BY <1>4 DEF FileEnd
<1>5. CASE ApplyOptionDefaults
  BY <1>5, SettableFacts DEF ApplyOptionDefaults, Default
<1>6. CASE RegisterFlags
  BY <1>6, KeyFacts, SettableFacts DEF RegisterFlags
<1>7. CASE FlagsEnd
  <2>1. opts' = opts \/ opts' = [opts EXCEPT !["listen"] = From("test", "ok")]
    BY <1>7 DEF FlagsEnd
  <2>2. QED
    BY <1>7, <2>1 DEF FlagsEnd, Values
<1>8. CASE Start
  <2>1. opts' = opts \/ opts' = ProxyOptions
    BY <1>8 DEF Start
  <2>2. opts' \in [Keys -> [src : {"absent", "default", "file", "cli", "test", "matrix"},
                            class : Values]]
    BY <2>1 DEF ProxyOptions, Values
  <2>3. QED
    BY <1>8, <2>2 DEF Start
<1>9. CASE UNCHANGED vars
  BY <1>9 DEF vars
<1>10. QED
  BY <1>1, <1>2, <1>3, <1>4, <1>5, <1>6, <1>7, <1>8, <1>9 DEF Next, Ended

\* No variable ever holds a value that was not parsed.
LEMMA ParsedStep ==
  ASSUME TypeOK, SourcesInv, ParsedInv, [Next]_vars
  PROVE  ParsedInv'
<1> USE DEF TypeOK, SourcesInv, ParsedInv, Class, From
<1>1. CASE FileBadLine
  BY <1>1 DEF FileBadLine, Fatal
<1>2. ASSUME NEW k \in Keys, NEW class \in Classes(k), FileLine(k, class)
      PROVE  ParsedInv'
  BY <1>2 DEF FileLine, Fatal
<1>3. ASSUME NEW k \in Keys, NEW class \in Classes(k), ParseFlag(k, class)
      PROVE  ParsedInv'
  BY <1>3 DEF ParseFlag, Settable
<1>4. CASE FileEnd
  BY <1>4 DEF FileEnd
<1>5. CASE ApplyOptionDefaults
  BY <1>5, SettableFacts DEF ApplyOptionDefaults
<1>6. CASE RegisterFlags
  BY <1>6, SettableFacts DEF RegisterFlags
<1>7. CASE FlagsEnd
  BY <1>7, SettableFacts DEF FlagsEnd
<1>8. CASE Start
  BY <1>8, SettableFacts DEF Start, ProxyOptions
<1>9. CASE UNCHANGED vars
  BY <1>9 DEF vars
<1>10. QED
  BY <1>1, <1>2, <1>3, <1>4, <1>5, <1>6, <1>7, <1>8, <1>9 DEF Next, Ended

\* Flag over file over default, through the three passes.
LEMMA PrecedenceStep ==
  ASSUME TypeOK, SourcesInv, PrecedenceInv, [Next]_vars
  PROVE  PrecedenceInv'
<1> USE DEF TypeOK, SourcesInv, PrecedenceInv, Effective
<1>1. CASE FileBadLine
  BY <1>1 DEF FileBadLine, Fatal
<1>2. ASSUME NEW k \in Keys, NEW class \in Classes(k), FileLine(k, class)
      PROVE  PrecedenceInv'
  BY <1>2 DEF FileLine, Fatal
<1>3. ASSUME NEW k \in Keys, NEW class \in Classes(k), ParseFlag(k, class)
      PROVE  PrecedenceInv'
  BY <1>3 DEF ParseFlag, Absent, From
<1>4. CASE FileEnd
  BY <1>4 DEF FileEnd
<1>5. CASE ApplyOptionDefaults
  BY <1>5 DEF ApplyOptionDefaults
<1>6. CASE RegisterFlags
  BY <1>6 DEF RegisterFlags
<1>7. CASE FlagsEnd
  BY <1>7, KeyFacts DEF FlagsEnd
<1>8. CASE Start
  BY <1>8 DEF Start
<1>9. CASE UNCHANGED vars
  BY <1>9 DEF vars
<1>10. QED
  BY <1>1, <1>2, <1>3, <1>4, <1>5, <1>6, <1>7, <1>8, <1>9 DEF Next, Ended

\* runProxy gets the variables of main, or the options of the case.
LEMMA StartedStep ==
  ASSUME TypeOK, PrecedenceInv, Precedence, [Next]_vars
  PROVE  Precedence'
<1>1. CASE pc = "started"
  BY <1>1 DEF Precedence, Effective, Next, vars, FileBadLine, FileLine, ParseFlag, FileEnd,
     ApplyOptionDefaults, RegisterFlags, FlagsEnd, Start, Ended
<1>2. CASE pc # "started" /\ pc' = "started"
  <2>1. /\ pc = "check" /\ opts' = ProxyOptions
        /\ UNCHANGED <<testMode, fileOpts, cli>>
    BY <1>2 DEF Next, vars, FileBadLine, FileLine, ParseFlag, FileEnd, Fatal,
       ApplyOptionDefaults, RegisterFlags, FlagsEnd, Start, Ended
  <2>2. ASSUME NEW k \in Keys \ {"injector"}
        PROVE  opts'[k] = IF testMode /\ k \in MatrixKeys THEN From("matrix", "ok")
                          ELSE IF testMode /\ k = "listen" THEN From("test", "ok")
                          ELSE Effective(k)
    BY <2>1 DEF ProxyOptions, PrecedenceInv
  <2>3. "listen" \notin MatrixKeys
    BY DEF MatrixKeys, TypedKeys
  <2>4. \A k \in Keys : Effective(k)' = Effective(k)
    BY <2>1 DEF Effective
  <2>5. QED
    BY <2>1, <2>2, <2>3, <2>4 DEF Precedence
<1>3. CASE pc # "started" /\ pc' # "started"
  BY <1>3 DEF Precedence
<1>4. QED
  BY <1>1, <1>2, <1>3

\* The checks decide on main's variables, and the options of a case would pass them too.
LEMMA CheckedStep ==
  ASSUME TypeOK, CheckedInv, [Next]_vars
  PROVE  CheckedInv'
<1> USE DEF CheckedInv, RangesOK, ConnectOK, UtlsOK, Class
<1>1. CASE FileBadLine \/ FileEnd \/ ApplyOptionDefaults \/ RegisterFlags \/ FlagsEnd
  BY <1>1 DEF FileBadLine, FileEnd, ApplyOptionDefaults, RegisterFlags, FlagsEnd, Fatal
<1>2. ASSUME NEW k \in Keys, NEW class \in Classes(k), FileLine(k, class)
      PROVE  CheckedInv'
  BY <1>2 DEF FileLine, Fatal
<1>3. ASSUME NEW k \in Keys, NEW class \in Classes(k), ParseFlag(k, class)
      PROVE  CheckedInv'
  BY <1>3 DEF ParseFlag
<1>4. CASE Start
  BY <1>4, KeyFacts DEF Start, ProxyOptions, MatrixKeys, TypedKeys, From
<1>5. CASE UNCHANGED vars
  BY <1>5 DEF vars
<1>6. QED
  BY <1>1, <1>2, <1>3, <1>4, <1>5 DEF Next, Ended

-----------------------------------------------------------------------------
\* Every reachable state satisfies Inv, however many lines and flags are given.
THEOREM OptionsInvariant == Spec => []Inv
<1>1. Init => Inv
  BY OptionsAssumption DEF Init, Inv, TypeOK, SourcesInv, ParsedInv, PrecedenceInv,
     CheckedInv, Precedence, Absent, From, Values
<1>2. Inv /\ [Next]_vars => Inv'
  BY SourcesStep, ParsedStep, PrecedenceStep, StartedStep, CheckedStep DEF Inv
<1>3. QED
  BY <1>1, <1>2, PTL DEF Spec

\* Every variable has its type.
THEOREM OptionsTypeCorrect == Spec => []TypeOK
BY OptionsInvariant, PTL DEF Inv

\* For any file and any command line, repeated keys and flags included: in a normal run
\* "CLI flags override config values" holds of every option but -injector; with -test it
\* holds of -connect and -fake-sni, and the eight options the test sets are the test's.
THEOREM FlagOverFileOverDefault == Spec => []Precedence
BY OptionsInvariant, PTL DEF Inv

\* No value main refuses reaches the proxy, from whichever source it came, and there is
\* always a host name for the fake ClientHello.
THEOREM StartedWithValidOptions == Spec => []OnlyValidRuns
<1>1. Inv => OnlyValidRuns
  <2> SUFFICES ASSUME Inv, pc = "started" PROVE OnlyValidRuns
    BY DEF OnlyValidRuns
  <2>1. \A k \in Keys : Class(k) \in Settable(k)
    BY DEF Inv, ParsedInv
  <2>2. RangesOK /\ ConnectOK /\ UtlsOK
    BY DEF Inv, CheckedInv
  <2>0. testMode => Class("utls") = "ok"
    BY KeyFacts DEF Inv, Precedence, MatrixKeys, Class, From
  <2>3. \A k \in Keys : Class(k) # "refused"
    <3>1. TAKE k \in Keys
    <3>2. CASE k \in {"listen", "connect", "utls", "injector", "fake-repeat", "sni-chunk",
                      "ack-timeout"}
      BY <2>0, <2>2, <3>2 DEF RangesOK, ConnectOK, UtlsOK
    <3>3. CASE k \in {"fake-sni", "fake-delay", "fragment-delay", "enable-fragment"}
      BY <2>1, <3>3 DEF Settable, Classes
    <3>4. QED
      BY <3>2, <3>3 DEF Keys, StringKeys, TypedKeys
  <2>4. \A k \in TypedKeys : Class(k) = "ok"
    BY <2>1, <2>3, KeyFacts DEF Settable, Classes, TypedKeys
  <2>5. Class("connect") = "ok" \/ (Class("connect") = "ipv4" /\ Class("fake-sni") = "ok")
    <3>1. Class("connect") \in {"ok", "ipv4", "empty", "refused"}
          /\ Class("fake-sni") \in {"ok", "empty"}
      BY <2>1, KeyFacts DEF Settable, Classes
    <3>2. QED
      BY <2>2, <3>1 DEF RangesOK, ConnectOK
  <2>6. QED
    BY <2>3, <2>4, <2>5 DEF OnlyValidRuns
<1>2. QED
  BY <1>1, OptionsInvariant, PTL
=============================================================================
