---------------------------- MODULE ECall_proofs ----------------------------
(***************************************************************************)
(* Theorems about ECall, for any number of tries, of calls of the PSAP and *)
(* of lines in the serial buffer, and whatever happens meanwhile.          *)
(***************************************************************************)
EXTENDS ECall, TLAPS

Reports == {"ACTIVE", "HANGUP", "INCOMING"}

Types ==
    /\ tries \in Nat /\ stage \in {"tries", "short", "long"}
    /\ dtmf \in Keys \cup {NoKey} /\ {acked, passed, pressed} \subseteq BOOLEAN
    /\ state \in {"IDLE", "DIALING", "CONNECTED", "INCOMING", "ANSWERED"}
    /\ lines \in Seq(Keys \cup Reports)

\* A key that eCall knows of, or that is on its way, was pressed.
Heard ==
    /\ acked \/ dtmf \in Keys \/ place = "passed" => pressed
    /\ ~pressed => lines \in Seq(Reports)

Calling == {"none", "starting", "open", "try", "connect", "connect2", "check",
            "intro", "playing", "talking", "passed", "failed", "stuck", "gone"}
Sending == {"send", "sending", "open", "gone"}
Waiting == Sending \cup {"wait", "answer", "intro", "playing", "talking", "hangup", "stuck"}

\* Where main is says which part of it was done: the tries, the event of a
\* failure, the waits.
Progress ==
    \/ /\ stage = "tries" /\ tries <= MaxTries /\ place \in Calling
       /\ logged = <<>> /\ ~passed
       /\ place \in {"none", "starting", "open"} => port = "never"
    \/ /\ stage = "tries" /\ tries > MaxTries /\ place \in Sending
       /\ logged = <<"FAILED">> /\ ~passed
       /\ place \in {"sending", "open"} => port = "closed"
    \/ /\ stage # "tries" /\ place \in Waiting
       /\ logged = (IF Unlogged THEN <<>> ELSE IF passed THEN <<"PASSED">> ELSE <<"FAILED">>)
       /\ (passed => pressed) /\ (passed \/ tries > MaxTries \/ "hours" \in world)
       /\ place \in {"sending", "open"} => port = "closed"

ECallInv == Types /\ Heard /\ LineKept /\ Progress

-----------------------------------------------------------------------------
(* Looking at the modem                                                    *)

LEMMA ShortLines ==
  /\ <<>> \in Seq(Reports) /\ <<>> \in Seq(Keys \cup Reports)
  /\ \A line \in Reports :
       <<line>> \in Seq(Reports) /\ <<line>> \in Seq(Keys \cup Reports)
OBVIOUS

\* hangupCall leaves no call, and at most the report of its end.
LEMMA HangupCallKeeps ==
  ASSUME Types, Heard, LineKept, HangupCall
  PROVE  /\ state' = "IDLE" /\ LineKept'
         /\ lines' \in Seq(Keys \cup Reports)
         /\ ~pressed => lines' \in Seq(Reports)
<1>1. CASE state = "IDLE"
  BY <1>1 DEF Types, Heard, LineKept, HangupCall
<1>2. CASE state # "IDLE"
  <2>1. state' = "IDLE" /\ call' = "none" /\ lines' \in {<<>>, <<"HANGUP">>}
    BY <1>2 DEF HangupCall
  <2>2. lines' \in Seq(Reports) /\ lines' \in Seq(Keys \cup Reports)
    <3>1. "HANGUP" \in Reports
      BY DEF Reports
    <3> QED BY <2>1, <3>1, ShortLines
  <2> QED BY <2>1, <2>2 DEF LineKept
<1> QED BY <1>1, <1>2

\* A look at the modem hears a key only when one was pressed, and does not take
\* a call that stands for ended.
LEMMA MonitorCallKeeps ==
  ASSUME Types, Heard, LineKept, NEW key \in Keys \cup {NoKey}, MonitorCall(key)
  PROVE  /\ LineKept'
         /\ state' \in {"IDLE", "DIALING", "CONNECTED", "INCOMING", "ANSWERED"}
         /\ lines' \in Seq(Keys \cup Reports)
         /\ ~pressed => lines' \in Seq(Reports)
         /\ key \in Keys => pressed
<1>1. CASE hup
  BY <1>1, HangupCallKeeps DEF MonitorCall, Types, Heard
<1>2. CASE ~hup
  <2>1. key \in Keys => pressed
    <3>1. CASE lines # <<>> /\ Head(lines) \in Keys
      <4>1. ~pressed => Head(lines) \in Reports
        BY <3>1 DEF Heard
      <4> QED BY <4>1, <3>1 DEF Keys, Reports
    <3>2. CASE ~(lines # <<>> /\ Head(lines) \in Keys)
      BY <1>2, <3>2 DEF MonitorCall, Heard
    <3> QED BY <3>1, <3>2
  <2>2. CASE lines # <<>> /\ Head(lines) = "HANGUP" /\ state # "IDLE"
    BY <1>2, <2>1, <2>2, HangupCallKeeps DEF MonitorCall
  <2>3. CASE ~(lines # <<>> /\ Head(lines) = "HANGUP" /\ state # "IDLE")
    <3>1. /\ lines' = <<>> /\ call' = call
          /\ state' \in {state, "CONNECTED", "INCOMING"}
      BY <1>2, <2>3 DEF MonitorCall
    <3>2. LineKept'
      BY <3>1 DEF LineKept
    <3> QED BY <2>1, <3>1, <3>2 DEF Types
  <2> QED BY <2>2, <2>3
<1> QED BY <1>1, <1>2

\* What the process leaves behind when it exits, whatever its descriptor is.
LEMMA CloseAndExitKeeps ==
  ASSUME Types, Heard, LineKept, NEW ser, CloseAndExit(ser)
  PROVE  /\ place' = "gone" /\ LineKept'
         /\ state' \in {"IDLE", "DIALING", "CONNECTED", "INCOMING", "ANSWERED"}
         /\ lines' \in Seq(Keys \cup Reports)
         /\ ~pressed => lines' \in Seq(Reports)
<1>1. CASE ser = "open"
  BY <1>1, HangupCallKeeps DEF CloseAndExit
<1>2. CASE ser # "open"
  BY <1>2 DEF CloseAndExit, modemVars, Types, Heard, LineKept
<1> QED BY <1>1, <1>2

\* What the modem reports.
LEMMA ReportKeeps ==
  ASSUME Types, Heard, NEW line \in Keys \cup Reports, Report(line)
  PROVE  /\ lines' \in Seq(Keys \cup Reports)
         /\ line \in Reports /\ ~pressed => lines' \in Seq(Reports)
<1>1. lines' \in {lines, Append(lines, line)}
  BY DEF Report
<1> QED BY <1>1 DEF Types, Heard

-----------------------------------------------------------------------------
(* The invariant                                                           *)

LEMMA SomeTries == MaxTries \in Nat /\ 0 <= MaxTries
BY ECallConstants

LEMMA InitECallInv == Init => ECallInv
<1> SUFFICES ASSUME Init  PROVE ECallInv
  OBVIOUS
<1> USE DEF Init
<1>1. Types
  BY ShortLines, ECallConstants DEF Types
<1>2. Heard
  BY ShortLines DEF Heard, Keys, NoKey
<1>3. LineKept
  BY DEF LineKept
<1>4. Progress
  <2>1. stage = "tries" /\ tries = 0 /\ place \in Calling
    BY DEF Calling
  <2>2. logged = <<>> /\ ~passed /\ port = "never"
    OBVIOUS
  <2> QED BY <2>1, <2>2, SomeTries DEF Progress, Unlogged
<1> QED BY <1>1, <1>2, <1>3, <1>4 DEF ECallInv

\* What every look at the modem keeps, wherever main goes on.
LEMMA LookKeeps ==
  ASSUME ECallInv, NEW key \in Keys \cup {NoKey}, MonitorCall(key),
         UNCHANGED <<stage, tries, passed, logged, pressed>>,
         dtmf' \in {key, NoKey}, acked' \in BOOLEAN,
         acked' => acked \/ key \in Keys,
         place' = "passed" => pressed
  PROVE  Types' /\ Heard' /\ LineKept'
<1>1. Types /\ Heard /\ LineKept
  BY DEF ECallInv
<1>2. /\ LineKept'
      /\ state' \in {"IDLE", "DIALING", "CONNECTED", "INCOMING", "ANSWERED"}
      /\ lines' \in Seq(Keys \cup Reports)
      /\ ~pressed => lines' \in Seq(Reports)
      /\ key \in Keys => pressed
  BY <1>1, MonitorCallKeeps
<1>3. Types'
  BY <1>1, <1>2 DEF Types
<1>4. Heard'
  BY <1>1, <1>2 DEF Heard, Keys, NoKey
<1> QED BY <1>2, <1>3, <1>4

LEMMA WorldStays == [Next]_vars => world' = world
BY DEF Next, Main, Timeouts, World, Start, OpenPort, PlaceCall, TriesOver, Connecting, Check,
  Failed, Passed, Play, PlayEnds, Listen, Talk, Wait, AnswerCall, CallbackOver, Send, Sent,
  ConnectTimeout, IntroTimeout, WaitTimeout, TwoHours, StartEcall, SecondEcall, OnHup, OnTerm,
  EndOfFile, TalkerStarts, TalkerEnds, EventsSent, PsapAnswers, PsapHangsUp, PsapPresses,
  PsapCalls, Rings, PeerStep, boundVars, vars

LEMMA MainKeeps == ECallInv /\ Main => ECallInv'
<1> SUFFICES ASSUME ECallInv, Main  PROVE ECallInv'
  OBVIOUS
<1> USE DEF lookVars, historyVars
<1>0. Types /\ Heard /\ LineKept /\ Progress /\ world' = world
  BY WorldStays DEF ECallInv, Next
<1>1. ASSUME Start \/ Sent \/ Play \/ PlayEnds  PROVE ECallInv'
  <2>1. Types' /\ Heard' /\ LineKept'
    BY <1>0, <1>1 DEF Start, Sent, Play, PlayEnds, Types, Heard, LineKept, modemVars
  <2>2. Progress'
    BY <1>0, <1>1 DEF Start, Sent, Play, PlayEnds, Progress, Unlogged, Calling, Sending, Waiting
  <2> QED BY <2>1, <2>2 DEF ECallInv
<1>2. ASSUME OpenPort  PROVE ECallInv'
  <2>1. ASSUME lock = "", place' # "gone"  PROVE ECallInv'
    <3>1. lines' = <<>> /\ UNCHANGED <<call, state, tries, passed, acked, dtmf, logged, pressed>>
      BY <1>2, <2>1 DEF OpenPort, CloseAndExit
    <3>2. /\ place = "open" /\ port' = "open"
          /\ \/ port = "never" /\ place' = "try" /\ stage' = stage
             \/ /\ port # "never" /\ place' = "wait"
                /\ stage' = IF stage = "tries" THEN "short" ELSE "long"
      BY <1>2, <2>1 DEF OpenPort, CloseAndExit
    <3>3. Types' /\ Heard' /\ LineKept'
      BY <1>0, <3>1, <3>2, ShortLines DEF Types, Heard, LineKept
    <3>4. Progress'
      <4>1. CASE port = "never"
        BY <1>0, <3>1, <3>2, <4>1 DEF Progress, Unlogged, Calling, Sending, Waiting
      <4>2. CASE port # "never"
        <5>1. place' = "wait" /\ stage' # "tries" /\ tries' = tries /\ passed' = passed
          BY <3>1, <3>2, <4>2
        <5>2. \/ stage = "tries" /\ tries > MaxTries /\ logged = <<"FAILED">> /\ ~passed
              \/ /\ stage # "tries"
                 /\ logged = (IF Unlogged THEN <<>> ELSE IF passed THEN <<"PASSED">> ELSE <<"FAILED">>)
                 /\ passed => pressed
                 /\ passed \/ tries > MaxTries \/ "hours" \in world
          BY <1>0, <3>2, <4>2 DEF Progress
        <5>3. Unlogged' = Unlogged /\ (tries > MaxTries => ~Unlogged)
          BY <1>0, <5>1, ECallConstants DEF Unlogged, Types
        <5>4. UNCHANGED <<logged, pressed, world>>
          BY <1>0, <3>1
        <5> HIDE DEF Unlogged
        <5>5. "wait" \in Waiting
          BY DEF Waiting
        <5> QED BY <5>1, <5>2, <5>3, <5>4, <5>5 DEF Progress
      <4> QED BY <4>1, <4>2
    <3> QED BY <3>3, <3>4 DEF ECallInv
  <2>2. ASSUME lock # "" \/ place' = "gone"  PROVE ECallInv'
    <3>1. PICK ser \in {port, "never"} : CloseAndExit(ser)
      BY <1>2, <2>2 DEF OpenPort
    <3>4. UNCHANGED <<stage, tries, passed, acked, dtmf, logged, pressed>>
      BY <1>2, <2>2 DEF OpenPort
    <3>2. Types' /\ Heard' /\ LineKept'
      BY <1>0, <3>1, <3>4, CloseAndExitKeeps DEF Types, Heard
    <3>3. Progress'
      BY <1>0, <3>1, <3>4, CloseAndExitKeeps DEF Progress, Unlogged, Calling, Sending, Waiting
    <3> QED BY <3>2, <3>3 DEF ECallInv
  <2> QED BY <2>1, <2>2
<1>3. ASSUME PlaceCall  PROVE ECallInv'
  <2>1. lines' = <<>> /\ state' = "DIALING"
    BY <1>3 DEF PlaceCall
  <2>2. Types' /\ Heard' /\ LineKept'
    BY <1>0, <1>3, <2>1, ShortLines DEF PlaceCall, Types, Heard, LineKept
  <2>3. Progress'
    BY <1>0, <1>3, ECallConstants DEF PlaceCall, Progress, Unlogged, Calling, Sending, Waiting, Types
  <2> QED BY <2>2, <2>3 DEF ECallInv
<1>4. ASSUME TriesOver  PROVE ECallInv'
  <2>1. /\ place = "try" /\ place' = "send" /\ tries = MaxTries /\ tries' = tries + 1
        /\ logged' = Append(logged, "FAILED")
        /\ UNCHANGED <<stage, passed, lookVars, port, pressed, modemVars>>
    BY <1>4 DEF TriesOver
  <2>2. Types' /\ Heard' /\ LineKept'
    BY <1>0, <2>1 DEF Types, Heard, LineKept, modemVars
  <2>3. stage = "tries" /\ logged = <<>> /\ ~passed
    BY <1>0, <2>1 DEF Progress, Unlogged, Sending, Waiting
  <2>4. logged' = <<"FAILED">> /\ tries' > MaxTries
    BY <2>1, <2>3, ECallConstants
  <2>5. Progress'
    BY <2>1, <2>3, <2>4 DEF Progress, Unlogged, Sending
  <2> QED BY <2>2, <2>5 DEF ECallInv
<1>10. ASSUME Passed  PROVE ECallInv'
  <2>1. /\ place = "passed" /\ place' = "wait" /\ stage' = "short" /\ passed' = TRUE
        /\ logged' = Append(logged, "PASSED")
        /\ UNCHANGED <<tries, lookVars, port, pressed, modemVars>>
    BY <1>10 DEF Passed
  <2>2. Types' /\ Heard' /\ LineKept'
    BY <1>0, <2>1 DEF Types, Heard, LineKept, modemVars
  <2>3. logged = <<>> /\ pressed
    BY <1>0, <2>1 DEF Progress, Unlogged, Sending, Waiting, Heard
  <2>4. logged' = <<"PASSED">>
    BY <2>1, <2>3
  <2>5. Progress'
    BY <2>1, <2>3, <2>4 DEF Progress, Unlogged, Waiting
  <2> QED BY <2>2, <2>5 DEF ECallInv
<1>5. ASSUME Connecting \/ Check \/ Talk \/ Wait  PROVE ECallInv'
  <2>1. PICK key \in Keys \cup {NoKey} : MonitorCall(key) /\ dtmf' = key
    BY <1>5 DEF Connecting, Check, Talk, Wait
  <2>2. /\ UNCHANGED <<stage, tries, passed, logged, pressed>>
        /\ acked' \in BOOLEAN /\ (acked' => acked) /\ (place' = "passed" => pressed)
    BY <1>0, <1>5 DEF Connecting, Check, Talk, Wait, Return, Types, Heard
  <2>3. Types' /\ Heard' /\ LineKept'
    BY <2>1, <2>2, LookKeeps
  <2>4. Progress'
    BY <1>0, <1>5 DEF Connecting, Check, Talk, Wait, Return, Progress, Unlogged, Calling, Sending, Waiting
  <2> QED BY <2>3, <2>4 DEF ECallInv
<1>6. ASSUME Listen  PROVE ECallInv'
  <2>1. PICK key \in Keys \cup {NoKey} :
          /\ MonitorCall(key)
          /\ IF state' = "IDLE" THEN Return(acked) /\ dtmf' = key /\ UNCHANGED acked
             ELSE /\ dtmf' = NoKey /\ acked' = (acked \/ key \in Keys)
                  /\ place' = IF key # "talk" THEN place ELSE IF voice THEN "talking" ELSE "intro"
    BY <1>6 DEF Listen
  <2>2. UNCHANGED <<stage, tries, passed, logged, pressed, port>> /\ place = "playing"
    BY <1>6 DEF Listen
  <2>3. /\ dtmf' \in {key, NoKey} /\ acked' \in BOOLEAN
        /\ acked' => acked \/ key \in Keys
        /\ place' = "passed" => pressed
    BY <1>0, <2>1, <2>2 DEF Return, Types, Heard
  <2>4. Types' /\ Heard' /\ LineKept'
    BY <2>1, <2>2, <2>3, LookKeeps
  <2>5. Progress'
    BY <1>0, <2>1, <2>2 DEF Return, Progress, Unlogged, Calling, Sending, Waiting
  <2> QED BY <2>4, <2>5 DEF ECallInv
<1>7. ASSUME Failed \/ CallbackOver  PROVE ECallInv'
  <2>1. HangupCall /\ UNCHANGED <<stage, tries, passed, acked, dtmf, port, logged, pressed>>
    BY <1>7 DEF Failed, CallbackOver
  <2>2. place' \in {"try", "wait"}
    BY <1>7 DEF Failed, CallbackOver
  <2>3. Types' /\ Heard' /\ LineKept'
    BY <1>0, <2>1, <2>2, HangupCallKeeps DEF Types, Heard
  <2>4. Progress'
    BY <1>0, <1>7 DEF Failed, CallbackOver, Progress, Unlogged, Calling, Sending, Waiting
  <2> QED BY <2>3, <2>4 DEF ECallInv
<1>8. ASSUME AnswerCall  PROVE ECallInv'
  <2>1. lines' \in {<<>>, <<"ACTIVE">>} /\ state' = "ANSWERED"
    BY <1>8 DEF AnswerCall
  <2>2. lines' \in Seq(Reports) /\ lines' \in Seq(Keys \cup Reports)
    <3>1. "ACTIVE" \in Reports
      BY DEF Reports
    <3> QED BY <2>1, <3>1, ShortLines
  <2>3. Types' /\ Heard' /\ LineKept'
    BY <1>0, <1>8, <2>1, <2>2 DEF AnswerCall, Types, Heard, LineKept
  <2>4. Progress'
    BY <1>0, <1>8 DEF AnswerCall, Progress, Unlogged, Calling, Sending, Waiting
  <2> QED BY <2>3, <2>4 DEF ECallInv
<1>9. ASSUME Send  PROVE ECallInv'
  <2>1. lines' = <<>>
    BY <1>9 DEF Send
  <2>2. Types' /\ Heard' /\ LineKept'
    BY <1>0, <1>9, <2>1, ShortLines DEF Send, Types, Heard, LineKept
  <2>3. Progress'
    BY <1>0, <1>9 DEF Send, Progress, Unlogged, Calling, Sending, Waiting
  <2> QED BY <2>2, <2>3 DEF ECallInv
<1> QED BY <1>1, <1>2, <1>3, <1>4, <1>5, <1>6, <1>7, <1>8, <1>9, <1>10 DEF Main

LEMMA TimeoutsKeep == ECallInv /\ Timeouts => ECallInv'
<1> SUFFICES ASSUME ECallInv, Timeouts  PROVE ECallInv'
  OBVIOUS
<1> USE DEF lookVars, historyVars
<1>0. Types /\ Heard /\ LineKept /\ Progress /\ world' = world
  BY WorldStays DEF ECallInv, Next
<1>1. ASSUME ConnectTimeout \/ IntroTimeout  PROVE ECallInv'
  <2>1. Types' /\ Heard' /\ LineKept'
    BY <1>0, <1>1 DEF ConnectTimeout, IntroTimeout, Return, Types, Heard, LineKept, modemVars
  <2>2. Progress'
    BY <1>0, <1>1 DEF ConnectTimeout, IntroTimeout, Return, Progress, Unlogged, Calling, Sending, Waiting
  <2> QED BY <2>1, <2>2 DEF ECallInv
<1>2. ASSUME WaitTimeout  PROVE ECallInv'
  <2>1. UNCHANGED <<stage, tries, passed, acked, dtmf, port, logged, pressed>>
    BY <1>2 DEF WaitTimeout
  <2>2. CASE stage = "short"
    <3>1. Types' /\ Heard' /\ LineKept'
      BY <1>0, <1>2, <2>1, <2>2 DEF WaitTimeout, modemVars, Types, Heard, LineKept
    <3>2. Progress'
      BY <1>0, <1>2, <2>1, <2>2 DEF WaitTimeout, Progress, Unlogged, Calling, Sending, Waiting
    <3> QED BY <3>1, <3>2 DEF ECallInv
  <2>3. CASE stage # "short"
    <3>1. CloseAndExit(port)
      BY <1>2, <2>3 DEF WaitTimeout
    <3>2. Types' /\ Heard' /\ LineKept'
      BY <1>0, <2>1, <3>1, CloseAndExitKeeps DEF Types, Heard
    <3>3. Progress'
      BY <1>0, <2>1, <3>1, CloseAndExitKeeps DEF Progress, Unlogged, Calling, Sending, Waiting
    <3> QED BY <3>2, <3>3 DEF ECallInv
  <2> QED BY <2>2, <2>3
<1>3. ASSUME TwoHours  PROVE ECallInv'
  <2>1. /\ place = "try" /\ place' = "wait" /\ stage' = "short" /\ tries <= MaxTries
        /\ "hours" \in world
        /\ logged' = IF tries < MaxTries THEN Append(logged, "FAILED") ELSE logged
        /\ UNCHANGED <<tries, passed, lookVars, port, pressed, modemVars>>
    BY <1>3 DEF TwoHours
  <2>2. Types' /\ Heard' /\ LineKept'
    BY <1>0, <2>1 DEF Types, Heard, LineKept, modemVars
  <2>3. logged = <<>> /\ ~passed
    BY <1>0, <2>1, ECallConstants DEF Progress, Unlogged, Sending, Waiting, Types
  <2>4. logged' = IF tries = MaxTries THEN <<>> ELSE <<"FAILED">>
    BY <1>0, <2>1, <2>3, ECallConstants DEF Types
  <2>5. Progress'
    BY <1>0, <2>1, <2>3, <2>4 DEF Progress, Unlogged, Waiting
  <2> QED BY <2>2, <2>5 DEF ECallInv
<1> QED BY <1>1, <1>2, <1>3 DEF Timeouts

LEMMA WorldKeeps == ECallInv /\ World => ECallInv'
<1> SUFFICES ASSUME ECallInv, World  PROVE ECallInv'
  OBVIOUS
<1> USE DEF flowVars, lookVars, historyVars, modemVars
<1>0. Types /\ Heard /\ LineKept /\ Progress /\ world' = world
  BY WorldStays DEF ECallInv, Next
<1>1. ASSUME StartEcall \/ SecondEcall \/ OnHup \/ TalkerStarts \/ TalkerEnds \/ EventsSent
      PROVE  ECallInv'
  <2>1. UNCHANGED <<stage, tries, passed, acked, dtmf, state, port, logged, pressed, call, lines>>
    BY <1>1 DEF StartEcall, SecondEcall, OnHup, TalkerStarts, TalkerEnds, EventsSent
  <2>2. place' = place \/ (place = "none" /\ place' = "starting")
    BY <1>1 DEF StartEcall, SecondEcall, OnHup, TalkerStarts, TalkerEnds, EventsSent
  <2>3. Types' /\ Heard' /\ LineKept'
    BY <1>0, <2>1, <2>2 DEF Types, Heard, LineKept
  <2>4. Progress'
    BY <1>0, <2>1, <2>2 DEF Progress, Unlogged, Calling, Sending, Waiting
  <2> QED BY <2>3, <2>4 DEF ECallInv
<1>2. ASSUME OnTerm  PROVE ECallInv'
  <2>1. CloseAndExit(port) /\ UNCHANGED <<stage, tries, passed, acked, dtmf, port, logged, pressed>>
    BY <1>2 DEF OnTerm
  <2>2. Types' /\ Heard' /\ LineKept'
    BY <1>0, <2>1, CloseAndExitKeeps DEF Types, Heard
  <2>3. Progress'
    BY <1>0, <2>1, CloseAndExitKeeps DEF Progress, Unlogged, Calling, Sending, Waiting
  <2> QED BY <2>2, <2>3 DEF ECallInv
<1>3. ASSUME PsapAnswers \/ PsapHangsUp \/ PsapCalls \/ Rings  PROVE ECallInv'
  <2>1. PICK line \in Reports : Report(line)
    BY <1>3 DEF PsapAnswers, PsapHangsUp, PsapCalls, Rings, Reports
  <2>2. /\ lines' \in Seq(Keys \cup Reports)
        /\ ~pressed => lines' \in Seq(Reports)
    BY <1>0, <2>1, ReportKeeps
  <2>3. UNCHANGED <<flowVars, lookVars, port, logged, pressed>>
    BY <1>3 DEF PsapAnswers, PsapHangsUp, PsapCalls, Rings, PeerStep
  <2>4. Types' /\ Heard'
    BY <1>0, <2>2, <2>3 DEF Types, Heard
  <2>5. LineKept'
    BY <1>0, <1>3, <2>3 DEF PsapAnswers, PsapHangsUp, PsapCalls, Rings, LineKept
  <2>6. Progress'
    BY <1>0, <2>3 DEF Progress, Unlogged
  <2> QED BY <2>4, <2>5, <2>6 DEF ECallInv
<1>5. ASSUME EndOfFile  PROVE ECallInv'
  <2>1. /\ place \notin {"none", "starting", "send", "sending", "open", "stuck", "gone"}
        /\ place' = "stuck"
        /\ UNCHANGED <<stage, tries, passed, acked, dtmf, state, port, logged, pressed, call, lines>>
    BY <1>5 DEF EndOfFile, Reads
  <2>2. Types' /\ Heard' /\ LineKept'
    BY <1>0, <2>1 DEF Types, Heard, LineKept
  <2>3. Progress'
    BY <1>0, <2>1 DEF Progress, Unlogged, Calling, Sending, Waiting
  <2> QED BY <2>2, <2>3 DEF ECallInv
<1>4. ASSUME PsapPresses  PROVE ECallInv'
  <2>1. PICK key \in Keys : Report(key)
    BY <1>4 DEF PsapPresses
  <2>2. lines' \in Seq(Keys \cup Reports)
    BY <1>0, <2>1, ReportKeeps
  <2>3. UNCHANGED <<flowVars, lookVars, port, logged, call>> /\ pressed' = TRUE
    BY <1>4 DEF PsapPresses, PeerStep
  <2>4. Types' /\ Heard' /\ LineKept'
    BY <1>0, <2>2, <2>3 DEF Types, Heard, LineKept
  <2>5. Progress'
    BY <1>0, <2>3 DEF Progress, Unlogged
  <2> QED BY <2>4, <2>5 DEF ECallInv
<1> QED BY <1>1, <1>2, <1>3, <1>4, <1>5 DEF World

LEMMA ECallInvariant == Spec => []ECallInv
<1>1. ECallInv /\ UNCHANGED vars => ECallInv'
  BY DEF ECallInv, Types, Heard, LineKept, Progress, Unlogged, vars, flowVars, lookVars, historyVars,
     modemVars, boundVars
<1>2. ECallInv /\ [Next]_vars => ECallInv'
  BY <1>1, MainKeeps, TimeoutsKeep, WorldKeeps DEF Next
<1> QED BY InitECallInv, <1>2, PTL DEF Spec

\* However often it calls, is called, hung up and ended, and whatever the PSAP
\* presses when: once main goes on to wait for a call, it has logged exactly one
\* outcome, unless the two hours ended after the last call, where it logs none;
\* PASSED only if a key was pressed, FAILED only after all calls or two hours.
THEOREM ECallOutcomeLogged == Spec => []OutcomeLogged
<1>1. ECallInv => OutcomeLogged
  BY DEF ECallInv, Progress, Unlogged, OutcomeLogged
<1> QED BY <1>1, ECallInvariant, PTL

\* A report of an earlier call, read late, never makes eCall take the call it
\* is in for ended.
THEOREM ECallLineKept == Spec => []LineKept
<1>1. ECallInv => LineKept
  BY DEF ECallInv
<1> QED BY <1>1, ECallInvariant, PTL

-----------------------------------------------------------------------------
(* Types                                                                   *)

UnitTypes ==
    /\ hup \in BOOLEAN /\ voice \in BOOLEAN /\ blocked \in BOOLEAN
    /\ suspended \in BOOLEAN /\ events \in BOOLEAN
    /\ port \in {"never", "open", "closed"}
    /\ ecallFile \in {"", "running", "suspended"}
    /\ talker \in {"none", "up", "ending"} /\ lock \in {"", "eCall", "talker"}

LEMMA NextUnitTypes == UnitTypes /\ [Next]_vars => UnitTypes'
<1> SUFFICES ASSUME UnitTypes, [Next]_vars  PROVE UnitTypes'
  OBVIOUS
<1> USE DEF UnitTypes, flowVars, lookVars, historyVars, unitVars, modemVars, boundVars
<1>1. CASE UNCHANGED vars
  BY <1>1 DEF vars
<1>2. CASE Start \/ Sent \/ Play \/ PlayEnds
  BY <1>2 DEF Start, Sent, Play, PlayEnds, StopMonitor
<1>3. CASE OpenPort
  BY <1>3 DEF OpenPort, CloseAndExit, HangupCall
<1>4. CASE PlaceCall \/ TriesOver \/ Passed
  BY <1>4 DEF PlaceCall, TriesOver, Passed
<1>5. CASE Connecting \/ Check
  <2>1. hup' \in {hup, FALSE} /\ UNCHANGED <<port, voice, unitVars>>
    BY <1>5 DEF Connecting, Check, MonitorCall
  <2> QED  BY <2>1
<1>6. CASE Talk \/ Wait
  <2>1. hup' \in {hup, FALSE} /\ UNCHANGED <<port, voice, unitVars>>
    BY <1>6 DEF Talk, Wait, MonitorCall
  <2> QED  BY <2>1
<1>7. CASE Listen
  <2>1. hup' \in {hup, FALSE} /\ UNCHANGED <<port, voice, unitVars>>
    BY <1>7 DEF Listen, MonitorCall
  <2> QED  BY <2>1
<1>8. CASE Failed \/ CallbackOver \/ AnswerCall \/ Send
  BY <1>8 DEF Failed, CallbackOver, AnswerCall, Send, HangupCall
<1>9. CASE ConnectTimeout \/ IntroTimeout \/ TwoHours
  BY <1>9 DEF ConnectTimeout, IntroTimeout, TwoHours, Return
<1>10. CASE WaitTimeout \/ OnTerm
  <2>1. UNCHANGED <<hup, port, voice, talker, events>>
    BY <1>10 DEF WaitTimeout, OnTerm
  <2>2. \/ UNCHANGED <<ecallFile, blocked, suspended, lock>>
        \/ /\ ecallFile' = "" /\ blocked' = FALSE /\ suspended' = FALSE
           /\ lock' \in {"", lock}
    BY <1>10 DEF WaitTimeout, OnTerm, CloseAndExit
  <2> QED  BY <2>1, <2>2
<1>11. CASE StartEcall \/ SecondEcall \/ OnHup \/ EndOfFile
  <2>1. CASE StartEcall \/ OnHup \/ EndOfFile
    <3>1. hup' \in {hup, TRUE} /\ UNCHANGED <<port, voice, unitVars>>
      BY <2>1 DEF StartEcall, OnHup, EndOfFile
    <3> QED  BY <3>1
  <2>2. CASE SecondEcall
    <3>1. /\ talker' \in {talker, "ending"} /\ events' = FALSE
          /\ ecallFile' \in {"", "running"} /\ UNCHANGED <<hup, port, voice, lock>>
      BY <2>2 DEF SecondEcall
    <3>2. blocked' \in BOOLEAN /\ suspended' \in BOOLEAN
      BY <2>2 DEF SecondEcall
    <3> QED  BY <3>1, <3>2
  <2> QED  BY <1>11, <2>1, <2>2
<1>12. CASE TalkerStarts \/ TalkerEnds \/ EventsSent
  BY <1>12 DEF TalkerStarts, TalkerEnds, EventsSent
<1>13. CASE PsapAnswers \/ PsapHangsUp \/ PsapPresses \/ PsapCalls \/ Rings
  BY <1>13 DEF PsapAnswers, PsapHangsUp, PsapPresses, PsapCalls, Rings, PeerStep
<1> QED
  BY <1>1, <1>2, <1>3, <1>4, <1>5, <1>6, <1>7, <1>8, <1>9, <1>10, <1>11, <1>12, <1>13
  DEF Next, Main, Timeouts, World

PlaceTypes ==
    /\ place \in {"none", "starting", "open", "try", "connect", "connect2", "check",
                  "intro", "playing", "talking", "passed", "failed", "send", "sending",
                  "wait", "answer", "hangup", "stuck", "gone"}
    /\ call \in {"none", "dialing", "active", "incoming"} /\ world \in Worlds

LEMMA NextPlaceTypes == PlaceTypes /\ [Next]_vars => PlaceTypes'
<1> SUFFICES ASSUME PlaceTypes, [Next]_vars  PROVE PlaceTypes'
  OBVIOUS
<1> USE DEF PlaceTypes, flowVars, lookVars, historyVars, unitVars, modemVars, boundVars
<1>1. CASE UNCHANGED vars
  BY <1>1 DEF vars
<1>2. CASE Start \/ Sent \/ Play \/ PlayEnds
  BY <1>2 DEF Start, Sent, Play, PlayEnds, StopMonitor
<1>3. CASE OpenPort
  BY <1>3 DEF OpenPort, CloseAndExit, HangupCall
<1>4. CASE PlaceCall \/ TriesOver \/ Passed
  BY <1>4 DEF PlaceCall, TriesOver, Passed
<1>5. CASE Connecting \/ Check
  BY <1>5 DEF Connecting, Check, MonitorCall, HangupCall
<1>6. CASE Talk \/ Wait
  BY <1>6 DEF Talk, Wait, Return, MonitorCall, HangupCall
<1>7. CASE Listen
  BY <1>7 DEF Listen, Return, MonitorCall, HangupCall
<1>8. CASE Failed \/ CallbackOver \/ AnswerCall \/ Send
  BY <1>8 DEF Failed, CallbackOver, AnswerCall, Send, HangupCall
<1>9. CASE ConnectTimeout \/ IntroTimeout \/ TwoHours
  BY <1>9 DEF ConnectTimeout, IntroTimeout, TwoHours, Return
<1>10. CASE WaitTimeout \/ OnTerm
  BY <1>10 DEF WaitTimeout, OnTerm, CloseAndExit, HangupCall
<1>11. CASE StartEcall \/ SecondEcall \/ OnHup \/ EndOfFile
  BY <1>11 DEF StartEcall, SecondEcall, OnHup, EndOfFile
<1>12. CASE TalkerStarts \/ TalkerEnds \/ EventsSent
  BY <1>12 DEF TalkerStarts, TalkerEnds, EventsSent
<1>13. CASE PsapAnswers \/ PsapHangsUp \/ PsapPresses \/ PsapCalls \/ Rings
  BY <1>13 DEF PsapAnswers, PsapHangsUp, PsapPresses, PsapCalls, Rings, PeerStep
<1> QED
  BY <1>1, <1>2, <1>3, <1>4, <1>5, <1>6, <1>7, <1>8, <1>9, <1>10, <1>11, <1>12, <1>13
  DEF Next, Main, Timeouts, World

BoundTypes ==
    /\ tries \in 0..(MaxTries + 1) /\ callbacks \in 0..MaxCallbacks
    /\ Len(lines) <= MaxLines

\* What the modem says fits its buffer.
LEMMA ShortLinesFit ==
  /\ Len(<<>>) <= MaxLines
  /\ \A line \in Reports : Len(<<line>>) <= MaxLines
BY ECallConstants

LEMMA HangupCallFits ==
  ASSUME BoundTypes, HangupCall
  PROVE  Len(lines') <= MaxLines
<1>1. "HANGUP" \in Reports
  BY DEF Reports
<1> QED  BY <1>1, ShortLinesFit DEF BoundTypes, HangupCall

LEMMA MonitorCallFits ==
  ASSUME BoundTypes, NEW key, MonitorCall(key)
  PROVE  Len(lines') <= MaxLines
BY HangupCallFits, ShortLinesFit DEF MonitorCall

LEMMA ReportFits ==
  ASSUME BoundTypes, Types, NEW line \in Keys \cup Reports, Report(line)
  PROVE  Len(lines') <= MaxLines
<1>1. CASE lines' = lines
  BY <1>1 DEF BoundTypes
<1>2. CASE Len(lines) < MaxLines /\ lines' = Append(lines, line)
  <2>1. Len(lines') = Len(lines) + 1 /\ Len(lines) \in Nat
    BY <1>2 DEF Types
  <2> QED  BY <1>2, <2>1, ECallConstants
<1> QED  BY <1>1, <1>2 DEF Report

LEMMA NextBounds == BoundTypes /\ Types /\ [Next]_vars => BoundTypes'
<1> SUFFICES ASSUME BoundTypes, Types, [Next]_vars  PROVE BoundTypes'
  OBVIOUS
<1>1. tries' \in 0..(MaxTries + 1)
  <2>1. \/ tries' = tries
        \/ tries \in Nat /\ tries <= MaxTries /\ tries' = tries + 1
    <3>1. CASE PlaceCall \/ TriesOver
      BY <3>1, ECallConstants DEF PlaceCall, TriesOver, Types
    <3>2. CASE ~(PlaceCall \/ TriesOver)
      <4>1. tries' = tries
        BY <3>2 DEF Next, Main, Timeouts, World, Start, OpenPort, Connecting, Check, Failed,
          Passed, Play, PlayEnds, Listen, Talk, Wait, AnswerCall, CallbackOver, Send, Sent,
          ConnectTimeout, IntroTimeout, WaitTimeout, TwoHours, StartEcall, SecondEcall, OnHup, OnTerm, EndOfFile,
          TalkerStarts, TalkerEnds, EventsSent, PsapAnswers, PsapHangsUp, PsapPresses, PsapCalls,
          Rings, PeerStep, flowVars, vars
      <4> QED  BY <4>1
    <3> QED  BY <3>1, <3>2
  <2> QED  BY <2>1, ECallConstants DEF BoundTypes
<1>2. callbacks' \in 0..MaxCallbacks
  <2>1. CASE PsapCalls
    BY <2>1, ECallConstants DEF PsapCalls, BoundTypes
  <2>2. CASE ~PsapCalls
    <3>1. callbacks' = callbacks
      BY <2>2 DEF Next, Main, Timeouts, World, Start, OpenPort, PlaceCall, TriesOver, Connecting,
        Check, Failed, Passed, Play, PlayEnds, Listen, Talk, Wait, AnswerCall, CallbackOver, Send,
        Sent, ConnectTimeout, IntroTimeout, WaitTimeout, TwoHours, StartEcall, SecondEcall, OnHup, OnTerm, EndOfFile,
        TalkerStarts, TalkerEnds, EventsSent, PsapAnswers, PsapHangsUp, PsapPresses, Rings,
        boundVars, vars
    <3> QED  BY <3>1 DEF BoundTypes
  <2> QED  BY <2>1, <2>2
<1>3. Len(lines') <= MaxLines
  <2>1. CASE Connecting \/ Check \/ Listen \/ Talk \/ Wait
    BY <2>1, MonitorCallFits DEF Connecting, Check, Listen, Talk, Wait
  <2>2. CASE Failed \/ CallbackOver
    BY <2>2, HangupCallFits DEF Failed, CallbackOver
  <2>3. CASE OpenPort \/ WaitTimeout \/ OnTerm
    <3>1. lines' = <<>> \/ HangupCall \/ lines' = lines
      BY <2>3 DEF OpenPort, WaitTimeout, OnTerm, CloseAndExit, modemVars
    <3> QED  BY <3>1, HangupCallFits, ShortLinesFit DEF BoundTypes
  <2>4. CASE PlaceCall \/ AnswerCall \/ Send
    <3>1. lines' = <<>> \/ lines' = <<"ACTIVE">>
      BY <2>4 DEF PlaceCall, AnswerCall, Send
    <3>2. "ACTIVE" \in Reports
      BY DEF Reports
    <3> QED  BY <3>1, <3>2, ShortLinesFit
  <2>5. CASE PsapAnswers \/ PsapHangsUp \/ PsapPresses \/ PsapCalls \/ Rings
    <3>1. PICK line \in Keys \cup Reports : Report(line)
      BY <2>5 DEF PsapAnswers, PsapHangsUp, PsapPresses, PsapCalls, Rings, Reports
    <3> QED  BY <3>1, ReportFits
  <2>6. CASE \/ Start \/ TriesOver \/ Passed \/ Play \/ PlayEnds \/ Sent \/ ConnectTimeout
             \/ IntroTimeout \/ TwoHours \/ EndOfFile \/ StartEcall \/ SecondEcall \/ OnHup \/ TalkerStarts \/ TalkerEnds
             \/ EventsSent \/ UNCHANGED vars
    <3>1. lines' = lines
      BY <2>6 DEF Start, TriesOver, Passed, Play, PlayEnds, Sent, ConnectTimeout, IntroTimeout,
        TwoHours, EndOfFile, StartEcall, SecondEcall, OnHup, TalkerStarts, TalkerEnds, EventsSent, modemVars, vars
    <3> QED  BY <3>1 DEF BoundTypes
  <2> QED  BY <2>1, <2>2, <2>3, <2>4, <2>5, <2>6 DEF Next, Main, Timeouts, World
<1> QED  BY <1>1, <1>2, <1>3 DEF BoundTypes

\* Type correctness of the process, of the modem and of what it leaves in the
\* unit, for every set of worlds and every bound.
THEOREM ECallTypeOK == Spec => []TypeOK
<1>1. Init => UnitTypes /\ PlaceTypes
  BY DEF Init, UnitTypes, PlaceTypes
<1>2. Init => BoundTypes
  <2>1. 0 \in 0..(MaxTries + 1) /\ 0 \in 0..MaxCallbacks /\ Len(<<>>) <= MaxLines
    BY ShortLinesFit, ECallConstants
  <2> QED  BY <2>1 DEF Init, BoundTypes
<1>3. ECallInv /\ UnitTypes /\ PlaceTypes /\ BoundTypes => TypeOK
  <2> SUFFICES ASSUME ECallInv, UnitTypes, PlaceTypes, BoundTypes  PROVE TypeOK
    OBVIOUS
  <2>1. logged \in Seq({"PASSED", "FAILED"})
    <3>1. logged = <<>> \/ logged = <<"PASSED">> \/ logged = <<"FAILED">>
      BY DEF ECallInv, Progress, Unlogged
    <3>2. \A S, x : x \in S => <<>> \in Seq(S) /\ <<x>> \in Seq(S)
      OBVIOUS
    <3> QED  BY <3>1, <3>2
  <2>2. Types
    BY DEF ECallInv
  <2>3. {passed, acked, hup, voice, pressed, blocked, suspended, events} \subseteq BOOLEAN
    BY <2>2 DEF Types, UnitTypes
  <2>4. lines \in Seq(Keys \cup {"ACTIVE", "HANGUP", "INCOMING"})
    BY <2>2 DEF Types, Reports
  <2> QED
    BY <2>1, <2>2, <2>3, <2>4 DEF Types, UnitTypes, PlaceTypes, BoundTypes, TypeOK
<1>4. ECallInv => Types
  BY DEF ECallInv
<1> QED
  BY <1>1, <1>2, <1>3, <1>4, ECallInvariant, NextUnitTypes, NextPlaceTypes, NextBounds, PTL
  DEF Spec
=============================================================================
