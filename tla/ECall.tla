------------------------------- MODULE ECall -------------------------------
(***************************************************************************)
(* eCall (src/application/eCallTTS.cpp): after a crash vic_talker starts   *)
(* this process, which takes the modem away from monitor and its talker,   *)
(* calls an emergency centre (PSAP) until somebody there presses a key,    *)
(* reports the outcome, and waits for a call back.  An action is the work  *)
(* between two looks at the modem's unsolicited lines (monitorCall).       *)
(* Modelled for the internal modem (usingIntele is false); the talker and  *)
(* respawner by what stopMonitor and startMonitor do to them.              *)
(***************************************************************************)
EXTENDS Integers, Sequences

CONSTANTS
    MaxTries,      \* calls before the failure is reported (5)
    MaxCallbacks,  \* bound: calls of the PSAP
    MaxLines,      \* bound: lines in the serial buffer
    Worlds         \* the sets world may be, see the actions that name a member

Kinds == {"keys", "hup", "term", "slow", "second", "together", "hours", "noport", "eof"}

ASSUME ECallConstants ==
    /\ MaxTries \in Nat \ {0} /\ MaxCallbacks \in Nat /\ MaxLines \in Nat \ {0}
    /\ Worlds \subseteq SUBSET Kinds

VARIABLES
    place,      \* where main is
    stage,      \* "tries", then waitForPSAPCallback for 5 minutes ("short") and a day
    tries,      \* retries
    passed,     \* ~fail
    acked,      \* ecallAckd
    dtmf,       \* dtmfTTS
    hup,        \* hangupRequested
    state,      \* callState
    port,       \* ser_s: -1 ("never"), "open", or a descriptor that was closed
    voice,      \* /tmp/hasVoice, as connectHFM left it
    logged,     \* history: the events logEvent wrote
    pressed,    \* history: somebody pressed a key of the menu
    \* the unit
    ecallFile,  \* EcallFile
    blocked,    \* DontConnectFile and NoCellCommandsFile
    suspended,  \* respawner does not respawn
    talker,     \* ow_talker: "none", "up", "ending"
    lock,       \* who made the lock file of the port
    events,     \* EventCountFile exists
    \* the modem and the PSAP
    call,       \* the call as it is: "none", "dialing", "active", "incoming"
    lines,      \* lines in the serial buffer
    callbacks,
    world       \* what may happen in this behaviour

flowVars == <<place, stage, tries, passed>>
lookVars == <<acked, dtmf, hup, state>>
historyVars == <<logged, pressed>>
unitVars == <<ecallFile, blocked, suspended, talker, lock, events>>
modemVars == <<call, lines>>
boundVars == <<callbacks, world>>
vars == <<flowVars, lookVars, port, voice, historyVars, unitVars, modemVars, boundVars>>

\* Keys of the menu: 0, and 1 to 3.
Keys == {"talk", "menu"}
NoKey == ""

TypeOK ==
    /\ place \in {"none", "starting", "open", "try", "connect", "connect2", "check",
                  "intro", "playing", "talking", "passed", "failed", "send", "sending",
                  "wait", "answer", "hangup", "stuck", "gone"}
    /\ stage \in {"tries", "short", "long"} /\ tries \in 0..(MaxTries + 1)
    /\ {passed, acked, hup, voice, pressed, blocked, suspended, events} \subseteq BOOLEAN
    /\ dtmf \in Keys \cup {NoKey}
    /\ state \in {"IDLE", "DIALING", "CONNECTED", "INCOMING", "ANSWERED"}
    /\ port \in {"never", "open", "closed"}
    /\ logged \in Seq({"PASSED", "FAILED"})
    /\ ecallFile \in {"", "running", "suspended"}
    /\ talker \in {"none", "up", "ending"} /\ lock \in {"", "eCall", "talker"}
    /\ call \in {"none", "dialing", "active", "incoming"}
    /\ lines \in Seq(Keys \cup {"ACTIVE", "HANGUP", "INCOMING"}) /\ Len(lines) <= MaxLines
    /\ callbacks \in 0..MaxCallbacks /\ world \in Worlds

Init ==
    /\ place = "none" /\ stage = "tries" /\ tries = 0 /\ passed = FALSE
    /\ acked = FALSE /\ dtmf = NoKey /\ hup = FALSE /\ state = "IDLE"
    /\ port = "never" /\ voice \in BOOLEAN /\ logged = <<>> /\ pressed = FALSE
    /\ ecallFile = "" /\ blocked = FALSE /\ suspended = FALSE
    /\ talker = "up" /\ lock = "talker" /\ events = TRUE
    /\ call = "none" /\ lines = <<>> /\ callbacks = 0
    /\ world \in Worlds

-----------------------------------------------------------------------------
(* Looking at the modem                                                    *)

\* Mutant of HangupCall: only a call that is connected is hung up.
HangupConnected ==
    IF state = "IDLE" THEN UNCHANGED <<state, call, lines>>
    ELSE /\ state' = "IDLE" /\ call' = IF state = "CONNECTED" THEN "none" ELSE call
         /\ \/ lines' = <<>>
            \/ call # "none" /\ lines' = <<"HANGUP">>

\* hangupCall: the answer to at+chv is read, and with it every line before it.
\* The modem reports the end of a call before or after it.
HangupCall ==
    IF state = "IDLE" THEN UNCHANGED <<state, call, lines>>
    ELSE /\ state' = "IDLE" /\ call' = "none"
         /\ \/ lines' = <<>>
            \/ call # "none" /\ lines' = <<"HANGUP">>

\* monitorCall, with the key dtmfTTS holds after it: a requested hangup, or one
\* unsolicited line.  getUnsolicited reads what there is and returns the first
\* line of it; what follows in its buffer is lost.
MonitorCall(key) ==
    IF hup THEN hup' = FALSE /\ key = dtmf /\ HangupCall
    ELSE /\ UNCHANGED hup
         /\ key = IF lines # <<>> /\ Head(lines) \in Keys THEN Head(lines) ELSE dtmf
         /\ IF lines # <<>> /\ Head(lines) = "HANGUP" /\ state # "IDLE"
            THEN HangupCall
            ELSE /\ lines' = <<>> /\ UNCHANGED call
                 /\ state' = IF lines = <<>> THEN state
                             ELSE IF Head(lines) = "ACTIVE" THEN "CONNECTED"
                             ELSE IF Head(lines) = "INCOMING" THEN "INCOMING"
                             ELSE state

-----------------------------------------------------------------------------
(* The rest of the unit                                                    *)

\* stopMonitor
StopMonitor ==
    /\ blocked' = TRUE /\ suspended' = TRUE
    /\ talker' = IF talker = "up" THEN "ending" ELSE talker

\* closeAndExit with the descriptor ser_s: hang up, at_olcc=0, close the port,
\* then give the connection back.  With a descriptor that was closed before,
\* select fails in getCellResponse, which exits at once; with -1, FD_SET is
\* undefined and goes on until the timeout or breaks.
CloseAndExit(ser) ==
    /\ place' = "gone"
    /\ \/ /\ ser # "closed"
          /\ ecallFile' = "" /\ blocked' = FALSE /\ suspended' = FALSE
          /\ lock' = IF ser = "open" THEN "" ELSE lock
       \/ /\ ser # "open"
          /\ UNCHANGED <<ecallFile, blocked, suspended, lock>>
    /\ IF ser = "open" THEN HangupCall ELSE UNCHANGED <<state, modemVars>>

\* Where main reads what the modem says or answers.
Reads ==
    \/ place \in {"connect", "connect2", "check", "playing", "talking", "wait", "answer"}
    \/ place = "try" /\ tries < MaxTries
    \/ place \in {"failed", "hangup"} /\ state # "IDLE"

\* The modem went away: reading finds the end of the file.  getUnsolicited calls
\* closeAndExit; getCellResponse, there and elsewhere, reads on for ever, because
\* it looks at its timeout only when there is nothing to read.
EndOfFile ==
    /\ "eof" \in world /\ port = "open" /\ Reads /\ place' = "stuck"
    /\ UNCHANGED <<stage, tries, passed, lookVars, port, voice, historyVars, unitVars,
                   modemVars, boundVars>>

\* vic_talker, startEcall: a process of its own.
StartEcall ==
    /\ place = "none" /\ place' = "starting"
    /\ UNCHANGED <<stage, tries, passed, lookVars, port, voice, historyVars, unitVars,
                   modemVars, boundVars>>

\* Twelve hours later a crash starts a second one, while the first waits for a
\* call for a day.  The port is in use and it exits: closeAndExit of a process
\* that never opened the port.
SecondEcall ==
    /\ "second" \in world /\ place = "wait" /\ stage = "long"
    /\ events' = FALSE
    /\ talker' = IF talker = "up" THEN "ending" ELSE talker
    /\ \/ ecallFile' = "" /\ blocked' = FALSE /\ suspended' = FALSE
       \/ ecallFile' = "running" /\ blocked' = TRUE /\ suspended' = TRUE
    /\ UNCHANGED <<flowVars, lookVars, port, voice, historyVars, lock, modemVars, boundVars>>

-----------------------------------------------------------------------------
(* main                                                                    *)

\* Mutant of Start: respawner goes on to respawn.
StartRespawning ==
    /\ place = "starting" /\ place' = "open"
    /\ ecallFile' = "running" /\ blocked' = TRUE
    /\ talker' = (IF talker = "up" THEN "ending" ELSE talker) /\ events' = FALSE
    /\ UNCHANGED <<stage, tries, passed, lookVars, port, voice, historyVars, suspended,
                   lock, modemVars, boundVars>>

\* Up to the port: EcallFile, stopMonitor, and the events in the list are
\* flushed.
Start ==
    /\ place = "starting" /\ place' = "open"
    /\ ecallFile' = "running" /\ StopMonitor /\ events' = FALSE
    /\ UNCHANGED <<stage, tries, passed, lookVars, port, voice, historyVars, lock,
                   modemVars, boundVars>>

\* openPort, here and at the end of sendEvent.  The second in stopMonitor is
\* enough for the talker to end, but in the world "slow".  In the world "noport"
\* open() may fail: the lock is removed and ser_s is -1.
OpenPort ==
    /\ place = "open" /\ (talker = "ending" => "slow" \in world)
    /\ \/ /\ lock = "" /\ lock' = "eCall" /\ port' = "open" /\ lines' = <<>>
          /\ IF port = "never"
             THEN place' = "try" /\ UNCHANGED stage
             ELSE place' = "wait" /\ stage' = IF stage = "tries" THEN "short" ELSE "long"
          /\ UNCHANGED <<state, ecallFile, blocked, suspended, call>>
       \/ lock # "" /\ CloseAndExit(port) /\ UNCHANGED <<port, stage>>
       \/ /\ "noport" \in world /\ lock = ""
          /\ port' = "never" /\ CloseAndExit("never") /\ UNCHANGED stage
    /\ UNCHANGED <<tries, passed, acked, dtmf, hup, voice, historyVars, talker, events, boundVars>>

\* placeCall: what the modem says before it answers at+cdv is read with it, and
\* the call may have failed by then.
PlaceCall ==
    /\ place = "try" /\ tries < MaxTries /\ tries' = tries + 1
    /\ place' = "connect" /\ state' = "DIALING" /\ lines' = <<>>
    /\ IF call = "incoming" THEN UNCHANGED call ELSE call' \in {"dialing", "none"}
    /\ UNCHANGED <<stage, passed, acked, dtmf, hup, port, voice, historyVars, unitVars, boundVars>>

\* Mutant of TriesOver: main goes on as if the failure had not been logged.
TriesOverCounted ==
    /\ place = "try" /\ tries = MaxTries /\ UNCHANGED tries
    /\ logged' = Append(logged, "FAILED") /\ events' = TRUE
    /\ place' = "passed"
    /\ UNCHANGED <<stage, passed, lookVars, port, voice, pressed, ecallFile, blocked,
                   suspended, talker, lock, modemVars, boundVars>>

\* Without success the failure is logged and sent before the loop is left.
TriesOver ==
    /\ place = "try" /\ tries = MaxTries /\ tries' = tries + 1
    /\ logged' = Append(logged, "FAILED") /\ events' = TRUE
    /\ place' = "send"
    /\ UNCHANGED <<stage, passed, lookVars, port, voice, pressed, ecallFile, blocked,
                   suspended, talker, lock, modemVars, boundVars>>

\* The loop is left after two hours, which five calls do not take unless the
\* clock is set.  After the fifth call the failure is not logged.
TwoHours ==
    /\ "hours" \in world /\ place = "try" /\ tries <= MaxTries
    /\ IF tries < MaxTries THEN logged' = Append(logged, "FAILED") /\ events' = TRUE
       ELSE UNCHANGED <<logged, events>>
    /\ place' = "wait" /\ stage' = "short"
    /\ UNCHANGED <<tries, passed, lookVars, port, voice, pressed, ecallFile, blocked,
                   suspended, talker, lock, modemVars, boundVars>>

\* The wait for the call to connect: isCallConnected() or hasCallTerminated(),
\* for five minutes.
Connecting ==
    /\ \E key \in Keys \cup {NoKey} : MonitorCall(key) /\ dtmf' = key
    /\ \/ place = "connect" /\ place' = IF state' = "CONNECTED" THEN "check" ELSE "connect2"
       \/ place = "connect2" /\ place' = IF state' = "IDLE" THEN "check" ELSE "connect"
    /\ UNCHANGED <<stage, tries, passed, acked, port, voice, historyVars, unitVars, boundVars>>
ConnectTimeout ==
    /\ place = "connect" /\ place' = "check"
    /\ UNCHANGED <<stage, tries, passed, lookVars, port, voice, historyVars, unitVars,
                   modemVars, boundVars>>
Check ==
    /\ place = "check"
    /\ \E key \in Keys \cup {NoKey} : MonitorCall(key) /\ dtmf' = key
    /\ place' = IF state' = "CONNECTED" THEN "intro" ELSE "failed"
    /\ UNCHANGED <<stage, tries, passed, acked, port, voice, historyVars, unitVars, boundVars>>

\* A call without success is hung up and, maybe, tried again.
Failed ==
    /\ place = "failed" /\ place' = "try" /\ HangupCall
    /\ UNCHANGED <<stage, tries, passed, acked, dtmf, hup, port, voice, historyVars,
                   unitVars, boundVars>>
Passed ==
    /\ place = "passed" /\ place' = "wait" /\ stage' = "short"
    /\ passed' = TRUE /\ logged' = Append(logged, "PASSED") /\ events' = TRUE
    /\ UNCHANGED <<tries, lookVars, port, voice, pressed, ecallFile, blocked, suspended,
                   talker, lock, modemVars, boundVars>>

-----------------------------------------------------------------------------
(* sendTTSintroduction                                                     *)

\* It returns to main or to waitForPSAPCallback.
Return(success) ==
    place' = IF stage # "tries" THEN "hangup" ELSE IF success THEN "passed" ELSE "failed"

\* The opening or the menu is played; nobody pressed a key for two minutes.
Play ==
    /\ place = "intro" /\ place' = "playing"
    /\ UNCHANGED <<stage, tries, passed, lookVars, port, voice, historyVars, unitVars,
                   modemVars, boundVars>>
IntroTimeout ==
    /\ place = "intro" /\ ~acked /\ Return(FALSE)
    /\ UNCHANGED <<stage, tries, passed, lookVars, port, voice, historyVars, unitVars,
                   modemVars, boundVars>>
PlayEnds ==
    /\ place = "playing" /\ place' = "intro"
    /\ UNCHANGED <<stage, tries, passed, lookVars, port, voice, historyVars, unitVars,
                   modemVars, boundVars>>

\* While it is played: the call may be over, a key acknowledges it.
Listen ==
    /\ place = "playing"
    /\ \E key \in Keys \cup {NoKey} :
         /\ MonitorCall(key)
         /\ IF state' = "IDLE" THEN Return(acked) /\ dtmf' = key /\ UNCHANGED acked
            ELSE /\ dtmf' = NoKey /\ acked' = (acked \/ key \in Keys)
                 /\ place' = IF key # "talk" THEN place ELSE IF voice THEN "talking" ELSE "intro"
    /\ UNCHANGED <<stage, tries, passed, port, voice, historyVars, unitVars, boundVars>>

\* The PSAP talks with the people in the car.
Talk ==
    /\ place = "talking"
    /\ \E key \in Keys \cup {NoKey} : MonitorCall(key) /\ dtmf' = key
    /\ IF state' = "IDLE" THEN Return(acked) ELSE UNCHANGED place
    /\ UNCHANGED <<stage, tries, passed, acked, port, voice, historyVars, unitVars, boundVars>>

-----------------------------------------------------------------------------
(* waitForPSAPCallback and sendEvent                                       *)

Wait ==
    /\ place = "wait"
    /\ \E key \in Keys \cup {NoKey} : MonitorCall(key) /\ dtmf' = key
    /\ IF state' = "INCOMING" THEN place' = "answer" /\ acked' = FALSE
       ELSE UNCHANGED <<place, acked>>
    /\ UNCHANGED <<stage, tries, passed, port, voice, historyVars, unitVars, boundVars>>

\* answerCall, after the driver was alerted.  The caller may be gone, then or
\* while the answer to ata is read.
AnswerCall ==
    /\ place = "answer" /\ place' = "intro" /\ state' = "ANSWERED"
    /\ call' \in (IF call = "incoming" THEN {"active", "none"} ELSE {call})
    /\ lines' \in {<<>>} \cup (IF call' = "active" THEN {<<"ACTIVE">>} ELSE {})
    /\ UNCHANGED <<stage, tries, passed, acked, dtmf, hup, port, voice, historyVars,
                   unitVars, boundVars>>
CallbackOver ==
    /\ place = "hangup" /\ place' = "wait" /\ HangupCall
    /\ UNCHANGED <<stage, tries, passed, acked, dtmf, hup, port, voice, historyVars,
                   unitVars, boundVars>>

\* Five minutes, or a day, without a call.
WaitTimeout ==
    /\ place = "wait"
    /\ IF stage = "short"
       THEN place' = "send" /\ UNCHANGED <<state, ecallFile, blocked, suspended, lock, modemVars>>
       ELSE CloseAndExit(port)
    /\ UNCHANGED <<stage, tries, passed, acked, dtmf, hup, port, voice, historyVars,
                   talker, events, boundVars>>

\* sendEvent: the unit gets its modem back for two minutes, or until the
\* events are gone.
Send ==
    /\ place = "send" /\ place' = "sending"
    /\ ecallFile' = "suspended" /\ port' = "closed" /\ lock' = "" /\ lines' = <<>>
    /\ blocked' = FALSE /\ suspended' = FALSE
    /\ UNCHANGED <<stage, tries, passed, lookVars, voice, historyVars, talker, events,
                   call, boundVars>>
Sent ==
    /\ place = "sending" /\ place' = "open"
    /\ ecallFile' = "running" /\ StopMonitor
    /\ UNCHANGED <<stage, tries, passed, lookVars, port, voice, historyVars, lock, events,
                   modemVars, boundVars>>

-----------------------------------------------------------------------------
(* Signals                                                                 *)

OnHup ==
    /\ "hup" \in world /\ place \notin {"none", "gone"} /\ hup' = TRUE
    /\ UNCHANGED <<flowVars, acked, dtmf, state, port, voice, historyVars, unitVars,
                   modemVars, boundVars>>
OnTerm ==
    /\ "term" \in world /\ place \notin {"none", "stuck", "gone"}
    /\ CloseAndExit(port)
    /\ UNCHANGED <<stage, tries, passed, acked, dtmf, hup, port, voice, historyVars,
                   talker, events, boundVars>>

-----------------------------------------------------------------------------
(* The talker, the network and the PSAP                                    *)

\* respawner starts the talker, which ends at once when the port is in use.
TalkerStarts ==
    /\ talker = "none" /\ ~suspended /\ lock = ""
    /\ talker' = "up" /\ lock' = "talker"
    /\ UNCHANGED <<flowVars, lookVars, port, voice, historyVars, ecallFile, blocked,
                   suspended, events, modemVars, boundVars>>
TalkerEnds ==
    /\ talker = "ending" /\ talker' = "none"
    /\ lock' = IF lock = "talker" THEN "" ELSE lock
    /\ UNCHANGED <<flowVars, lookVars, port, voice, historyVars, ecallFile, blocked,
                   suspended, events, modemVars, boundVars>>

\* With a connection the list of events is emptied.
EventsSent ==
    /\ events /\ ~blocked /\ talker = "up" /\ events' = FALSE
    /\ UNCHANGED <<flowVars, lookVars, port, voice, historyVars, ecallFile, blocked,
                   suspended, talker, lock, modemVars, boundVars>>

\* The modem reports a line, to eCall when it has the port.  Lines come apart
\* from each other, so that each is read by itself, but in the world "together".
Report(line) ==
    IF port = "open" /\ place \notin {"stuck", "gone"}
    THEN /\ Len(lines) < MaxLines /\ ("together" \notin world => lines = <<>>)
         /\ lines' = Append(lines, line)
    ELSE UNCHANGED lines

PeerStep == UNCHANGED <<flowVars, lookVars, port, voice, logged, unitVars, world>>

PsapAnswers ==
    /\ call = "dialing" /\ call' = "active" /\ Report("ACTIVE")
    /\ UNCHANGED <<pressed, callbacks>> /\ PeerStep
PsapHangsUp ==
    /\ call # "none" /\ call' = "none" /\ Report("HANGUP")
    /\ UNCHANGED <<pressed, callbacks>> /\ PeerStep

\* A key is pressed when the menu is heard; with "keys" at any time.
PsapPresses ==
    /\ call = "active" /\ (place \in {"intro", "playing"} \/ "keys" \in world)
    /\ \E key \in Keys : Report(key)
    /\ pressed' = TRUE /\ UNCHANGED <<call, callbacks>> /\ PeerStep
PsapCalls ==
    /\ call = "none" /\ callbacks < MaxCallbacks /\ callbacks' = callbacks + 1
    /\ call' = "incoming" /\ Report("INCOMING")
    /\ UNCHANGED pressed /\ PeerStep
Rings ==
    /\ call = "incoming" /\ lines = <<>> /\ Report("INCOMING")
    /\ UNCHANGED <<call, pressed, callbacks>> /\ PeerStep

Main ==
    \/ Start \/ OpenPort \/ PlaceCall \/ TriesOver \/ Connecting \/ Check
    \/ Failed \/ Passed \/ Play \/ PlayEnds \/ Listen \/ Talk
    \/ Wait \/ AnswerCall \/ CallbackOver \/ Send \/ Sent
Timeouts == ConnectTimeout \/ IntroTimeout \/ WaitTimeout \/ TwoHours
World ==
    \/ StartEcall \/ SecondEcall \/ OnHup \/ OnTerm \/ EndOfFile
    \/ TalkerStarts \/ TalkerEnds \/ EventsSent
    \/ PsapAnswers \/ PsapHangsUp \/ PsapPresses \/ PsapCalls \/ Rings

Next == Main \/ Timeouts \/ World

Spec == Init /\ [][Next]_vars

\* The process runs, and looks at the modem while it plays (every 250 ms);
\* minutes go by, a talker that was told to end does, and nobody holds the line
\* for ever.
LiveSpec ==
    /\ Spec /\ WF_vars(Main) /\ SF_vars(Listen) /\ WF_vars(TalkerEnds)
    /\ SF_vars(ConnectTimeout) /\ SF_vars(IntroTimeout) /\ SF_vars(WaitTimeout)
    /\ SF_vars(PsapHangsUp)

-----------------------------------------------------------------------------
(* Properties                                                              *)

\* The hole between the two places that log: the two hours end after the last
\* of the calls.
Unlogged == "hours" \in world /\ ~passed /\ tries = MaxTries

\* "try 5 times before reporting event": once main has left the loop its
\* outcome is logged, once, but for that hole.  It is PASSED only if somebody
\* pressed a key, and FAILED only after all calls or two hours.
OutcomeLogged ==
    stage # "tries" =>
        /\ ~Unlogged => logged = IF passed THEN <<"PASSED">> ELSE <<"FAILED">>
        /\ passed => pressed
        /\ passed \/ tries > MaxTries \/ "hours" \in world

\* A call that eCall takes for ended is: a report of the call before, read
\* late, does not make it forget the call it is in.
LineKept == state = "IDLE" => call \notin {"dialing", "active"}

\* A crash leads to a call, and in the end the unit has its modem, its
\* respawner and its power management back, also after SIGTERM, a second crash
\* or two hours.  With SIGTERM, a slow talker and a port that does not open it
\* holds as long as closeAndExit finds the port open.  A key that is pressed
\* before the menu or read together with the end of the call, and a modem that
\* goes away, may keep the process for ever.
GivesBack ==
    /\ world \cap {"keys", "together", "eof"} = {}
    /\ world \cap {"term", "slow", "noport"} # {} => [](place = "gone" => port = "open")
    => (place = "starting" ~>
            /\ place = "gone" /\ (tries > 0 \/ world \cap {"term", "hours"} # {})
            /\ ecallFile = "" /\ ~blocked /\ ~suspended /\ lock # "eCall")
=============================================================================
