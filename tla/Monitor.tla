------------------------------ MODULE Monitor ------------------------------
(***************************************************************************)
(* monitor (src/application/monitor.cpp), the main control program: when   *)
(* the unit connects to the network, when it hangs up, and when it powers  *)
(* off.  It decides on what getStateInfo computed last, and it shares the  *)
(* connection with unitcomm through CommNeededFile, CommStateFile and      *)
(* signals.  An action is the work between two waits of a second (monWait) *)
(* or a signal handler.  The steps of unitcomm, pppd and the car are the   *)
(* ones monitor can see.                                                   *)
(***************************************************************************)
EXTENDS Integers

CONSTANT Worlds  \* what happens together around monitor: the kind of modem
                 \* ("lte", or else ppp) and what the actions below name

ASSUME MonitorConstants == \A w \in Worlds : w \subseteq STRING

VARIABLES
    place,        \* where the main loop is
    need, can, keep, low,   \* need_connection, can_connect, keepon, low_battery
    eventsToSend, \* events_to_send
    fails,        \* temp_fail_cnt, four stands for more than three
    connected,    \* cellinfo.connected
    pid, child,   \* waninfo.pid # 0, waninfo.child_pid # 0
    exited,       \* waninfo.pppd_exited
    comm,         \* comminfo.state
    stopDue,      \* more than 60 seconds since comminfo.stop_time
    upWait, hold, \* up_wait and command_timeout: "off", "running", "due"
    lastSeen,     \* last_commstate # ""
    \* unitcomm
    needed,       \* CommNeededFile
    alive,        \* the process runs and has its handlers
    commState,    \* CommStateFile, "none" when there is no such file
    session, srv, \* handleConnections runs; the connection to the server
    stopAsked, restartAsked,  \* close_comm_requested, restart_connection
    unsent,       \* EventCountFile exists
    \* the network
    pppd,         \* "none", "running", "hup" once it is told to end
    link,         \* "none", "bare" without address or route, "up", "kept" when
                  \* the talker did not disconnect and the route is gone
    \* the car and its user
    ign, users, signal, shut, battery, sms,
    world         \* what happens in this behaviour

cachedVars == <<need, can, keep, low>>
dialVars == <<fails, connected, exited>>
pidVars == <<pid, child>>
upVars == <<comm, stopDue, upWait, hold, lastSeen>>
unitVars == <<alive, commState, session, srv, stopAsked, restartAsked>>
netVars == <<pppd, link>>
carVars == <<ign, users, signal, shut, battery>>
vars == <<place, cachedVars, eventsToSend, dialVars, pidVars, upVars, needed,
          unitVars, unsent, netVars, carVars, sms, world>>

\* cellinfo.type
LinkType == IF "lte" \in world THEN "lte" ELSE "ppp"

TypeOK ==
    /\ place \in {"outer", "inner", "dial", "dialing", "failed", "backoff",
                  "dialed", "up", "body", "down", "waiting", "leave", "off"}
    /\ {need, can, keep, low, eventsToSend, connected, pid, child,
        exited, stopDue, lastSeen, needed, alive, session, stopAsked, restartAsked,
        unsent, ign, users, signal, shut, battery, sms} \subseteq BOOLEAN
    /\ fails \in 0..4
    /\ comm \in {"RUNNING", "STOPPING", "PPPDKILLED", "STOPPED"}
    /\ {upWait, hold} \subseteq {"off", "running", "due"}
    /\ commState \in {"NoWAN", "Connecting", "Connected", "Closed", "none"}
    /\ srv \in {"start", "up", "down"}
    /\ pppd \in {"none", "running", "hup"} /\ link \in {"none", "bare", "up", "kept"}
    /\ world \in Worlds

Init ==
    /\ place = "outer" /\ need = FALSE /\ can = TRUE /\ keep = TRUE /\ low = FALSE
    /\ eventsToSend = FALSE /\ fails = 0 /\ connected = FALSE
    /\ exited = FALSE /\ pid = FALSE /\ child = FALSE
    /\ comm = "STOPPED" /\ stopDue = FALSE /\ upWait = "off" /\ hold = "off"
    /\ lastSeen = FALSE
    /\ needed = FALSE /\ alive = TRUE
    /\ commState = "NoWAN" /\ session = FALSE /\ srv = "down"
    /\ stopAsked = FALSE /\ restartAsked = FALSE /\ unsent = FALSE
    /\ pppd = "none" /\ link = "none"
    /\ ign = TRUE /\ users = FALSE /\ signal = TRUE /\ shut = FALSE
    /\ battery = TRUE /\ sms = FALSE
    /\ world \in Worlds

-----------------------------------------------------------------------------
(* What is computed once a second                                          *)

\* The battery was low for two minutes: sendLowBatteryEvent, once; like any
\* event it is announced only when canConnect() was true last.
LowBattery == low \/ ~battery
Announced == eventsToSend \/ (LowBattery /\ ~low /\ can)

\* checkNeedConnection.  users stands for what asks for a connection by
\* itself (wlan0, a hold, fleet); for events alone it is tried three times
\* while the ignition is off.
NeedConnection ==
    /\ ~shut /\ (LowBattery => Announced)
    /\ users \/ (Announced /\ (ign \/ fails < 3)) \/ hold = "running"

\* Mutant of GetStateInfo: checkKeepOn does not look for ShutdownFile.
GetStateInfoKeeps ==
    /\ low' = LowBattery
    /\ unsent' = (unsent \/ (LowBattery /\ ~low))
    /\ keep' = (~LowBattery /\ ign)
    /\ need' = NeedConnection
    /\ can' = signal

\* getStateInfo, but for events_to_send.
GetStateInfo ==
    /\ low' = LowBattery
    /\ unsent' = (unsent \/ (LowBattery /\ ~low))
    /\ keep' = (~LowBattery /\ ~shut /\ ign)
    /\ need' = NeedConnection
    /\ can' = signal

\* killWan for LTE deletes the route; what the talker says to "disconnect" is
\* only logged.
Disconnect ==
    link' \in IF "kept" \in world /\ link # "none" THEN {"none", "kept"} ELSE {"none"}

\* killWan
KillWan ==
    IF LinkType = "ppp"
    THEN /\ pppd' = IF pid THEN "hup" ELSE pppd
         /\ pid' = FALSE /\ UNCHANGED <<link, child>>
    ELSE Disconnect /\ UNCHANGED <<pppd, pid, child>>

-----------------------------------------------------------------------------
(* main                                                                    *)

\* A dial takes longer than the second in which unitcomm sees that the link
\* is gone.
Noticed == link = "none" => ~session

\* while (keepOn() or (needConnection() and canConnect()))
Outer ==
    /\ place = "outer"
    /\ place' = IF keep \/ (need /\ can) THEN "inner" ELSE "leave"
    /\ UNCHANGED <<cachedVars, eventsToSend, dialVars, pidVars, upVars, needed,
                   unitVars, unsent, netVars, carVars, sms, world>>

\* The inner loop and connect(): an interface that is up is taken as it is.
Inner ==
    /\ place = "inner"
    /\ IF can /\ need
       THEN IF link = "up"
            THEN /\ connected' = TRUE /\ fails' = 0
                 /\ place' = "dialed"
            ELSE /\ fails' = IF LinkType = "ppp" THEN 0 ELSE fails
                 /\ place' = "dial" /\ UNCHANGED connected
       ELSE /\ place' = IF low THEN "leave" ELSE "waiting"
            /\ UNCHANGED <<connected, fails>>
    /\ UNCHANGED <<cachedVars, eventsToSend, exited, pidVars, upVars, needed,
                   unitVars, unsent, netVars, carVars, sms, world>>

\* connect_ppp and connect_lte, head of the loop.  dial kills a pppd that
\* still runs; dial_lte waits for the talker and may have no success.
Dial ==
    /\ place = "dial"
    /\ IF connected \/ ~can \/ ~need
       THEN place' = "dialed" /\ UNCHANGED <<dialVars, pidVars, netVars>>
       ELSE \/ /\ LinkType = "ppp" /\ place' = "dialing"
               /\ connected' = FALSE /\ exited' = FALSE
               /\ pid' = TRUE /\ child' = TRUE
               /\ pppd' = "running" /\ link' = "none"
               /\ UNCHANGED fails
            \/ /\ LinkType = "lte" /\ place' = "dialing" /\ Noticed
               /\ exited' = FALSE /\ link' = "bare"
               /\ connected' \in BOOLEAN
               /\ UNCHANGED <<fails, pidVars, pppd>>
            \/ /\ LinkType = "lte" /\ place' = "dialed"
               /\ UNCHANGED <<dialVars, pidVars, netVars>>
    /\ UNCHANGED <<cachedVars, eventsToSend, upVars, needed, unitVars, unsent,
                   carVars, sms, world>>

\* A second of waiting for the address; without one for long, pppd is told to
\* hang up.
Dialing ==
    /\ place = "dialing" /\ ~exited /\ ~connected
    /\ GetStateInfo /\ eventsToSend' = Announced
    /\ IF link = "up"
       THEN connected' = TRUE /\ fails' = 0
       ELSE UNCHANGED <<connected, fails>>
    /\ \/ UNCHANGED <<place, pidVars, netVars>>
       \/ LinkType = "ppp" /\ link = "bare" /\ KillWan /\ UNCHANGED place
    /\ UNCHANGED <<exited, upVars, needed, unitVars, carVars, sms, world>>

\* Five minutes without a connection: pppd is locked up and killed, also when
\* this very second brought the connection.
LockedUp ==
    /\ place = "dialing" /\ LinkType = "ppp" /\ ~exited /\ ~connected
    /\ IF link = "up"
       THEN connected' = TRUE /\ fails' = 0
       ELSE UNCHANGED <<connected, fails>>
    /\ GetStateInfo /\ eventsToSend' = Announced
    /\ pppd' = "none" /\ link' = "none" /\ exited' = TRUE
    /\ pid' = FALSE /\ child' = FALSE
    /\ UNCHANGED <<place, upVars, needed, unitVars, carVars, sms, world>>

\* The LTE modem is given a minute.
GivenUp ==
    /\ place = "dialing" /\ LinkType = "lte" /\ ~connected
    /\ IF link = "up"
       THEN connected' = TRUE /\ fails' = 0
       ELSE UNCHANGED <<connected, fails>>
    /\ GetStateInfo /\ eventsToSend' = Announced
    /\ place' = "dial"
    /\ UNCHANGED <<exited, pidVars, upVars, needed, unitVars, netVars, carVars, sms, world>>

\* The end of an attempt.  A pppd that is gone is a failure.
Attempted ==
    /\ place = "dialing" /\ (exited \/ connected)
    /\ IF exited
       THEN /\ fails' = IF fails < 4 THEN fails + 1 ELSE fails
            /\ place' = IF need THEN "failed" ELSE "dialed"
       ELSE place' = "dial" /\ UNCHANGED fails
    /\ UNCHANGED <<cachedVars, eventsToSend, connected, exited, pidVars,
                   upVars, needed, unitVars, unsent, netVars, carVars, sms, world>>

\* No backoff after the first three failures.
Again ==
    /\ place = "failed"
    /\ place' = IF fails < 4 THEN "dial" ELSE "backoff"
    /\ UNCHANGED <<cachedVars, eventsToSend, dialVars, pidVars, upVars, needed,
                   unitVars, unsent, netVars, carVars, sms, world>>

\* A second of the backoff, maybe the last.
Backoff(next) ==
    /\ place = "backoff"
    /\ IF can /\ need
       THEN GetStateInfo /\ eventsToSend' = Announced /\ place' = next
       ELSE place' = "dial" /\ UNCHANGED <<cachedVars, eventsToSend, unsent>>
    /\ UNCHANGED <<dialVars, pidVars, upVars, needed, unitVars, netVars, carVars, sms, world>>

\* After connect(): the events of a new connection, CommNeededFile, and the
\* first lines of upLoop.
Established ==
    /\ place = "dialed" /\ connected
    /\ place' = "up" /\ unsent' = TRUE /\ needed' = TRUE
    /\ comm' = "RUNNING" /\ stopDue' = FALSE /\ lastSeen' = FALSE
    /\ upWait' = IF eventsToSend THEN "running" ELSE "off"
    /\ eventsToSend' = FALSE
    /\ UNCHANGED <<cachedVars, dialVars, pidVars, hold, unitVars, netVars, carVars, sms, world>>
NotEstablished ==
    /\ place = "dialed" /\ ~connected /\ place' = "inner"
    /\ UNCHANGED <<cachedVars, eventsToSend, dialVars, pidVars, upVars, needed,
                   unitVars, unsent, netVars, carVars, sms, world>>

-----------------------------------------------------------------------------
(* upLoop                                                                  *)

\* A pass begins: getStateInfo, an SMS restarts unitcomm, and the interface
\* is looked for.
Pass ==
    /\ place = "up" /\ GetStateInfo /\ eventsToSend' = Announced
    /\ IF sms
       THEN sms' = FALSE /\ hold' = "running" /\ restartAsked' = (restartAsked \/ alive)
       ELSE UNCHANGED <<sms, hold, restartAsked>>
    /\ IF link = "none"
       THEN place' = "down" /\ connected' = FALSE /\ KillWan
       ELSE place' = "body" /\ UNCHANGED <<connected, pidVars, netVars>>
    /\ UNCHANGED <<fails, exited, comm, stopDue, upWait, lastSeen,
                   needed, alive, commState, session, srv, stopAsked, carVars, world>>

\* Once a minute: pgrep pppd.
PppdGone ==
    /\ place = "body" /\ LinkType = "ppp" /\ pppd = "none"
    /\ place' = "down"
    /\ UNCHANGED <<cachedVars, eventsToSend, dialVars, pidVars, upVars, needed,
                   unitVars, unsent, netVars, carVars, sms, world>>

\* up_wait, command_timeout and events_to_send after a look at CommStateFile
\* and EventCountFile.
Timers ==
    IF upWait = "off" /\ hold = "off"
    THEN eventsToSend' = FALSE /\ UNCHANGED <<upWait, hold, lastSeen>>
    ELSE LET first == ~lastSeen /\ commState = "Connected"
             w == IF first \/ eventsToSend THEN "running" ELSE upWait
         IN /\ lastSeen' = (lastSeen \/ first)
            /\ eventsToSend' = FALSE
            /\ upWait' = IF w = "due" \/ ~unsent THEN "off" ELSE w
            /\ hold' = IF hold = "due" THEN "off" ELSE hold

\* Mutant of StopComm: pppd goes on when unitcomm is not connected.
StopCommKeeps ==
    /\ comm = "RUNNING" /\ ~need /\ upWait' = "off"
    /\ IF commState = "Connected"
       THEN comm' = "STOPPING" /\ stopDue' = FALSE /\ unsent' = TRUE
            /\ stopAsked' = (stopAsked \/ alive)
       ELSE comm' = "PPPDKILLED" /\ UNCHANGED <<stopDue, stopAsked, unsent>>
    /\ place' = "up" /\ UNCHANGED <<pidVars, netVars>>

\* Hang up, or let unitcomm close first: the signal of sendStopToUnitcomm is
\* lost on a unitcomm that is not there.
StopComm ==
    /\ comm = "RUNNING" /\ ~need /\ upWait' = "off"
    /\ IF commState = "Connected"
       THEN /\ comm' = "STOPPING" /\ stopDue' = FALSE
            /\ stopAsked' = (stopAsked \/ alive)
            /\ unsent' = TRUE /\ UNCHANGED <<pidVars, netVars>>
       ELSE /\ comm' = "PPPDKILLED" /\ KillWan
            /\ UNCHANGED <<stopDue, stopAsked, unsent>>
    /\ place' = "up"

\* Mutant of AwaitClosed: a connection that is needed again is kept.
AwaitClosedUnlessNeeded ==
    /\ comm = "STOPPING"
    /\ IF need THEN comm' = "RUNNING" /\ UNCHANGED <<pidVars, netVars>>
       ELSE IF commState = "Closed" \/ stopDue
       THEN comm' = "PPPDKILLED" /\ KillWan
       ELSE UNCHANGED <<comm, pidVars, netVars>>
    /\ place' = "up" /\ UNCHANGED <<stopDue, stopAsked, unsent>>

AwaitClosed ==
    /\ comm = "STOPPING"
    /\ IF commState = "Closed" \/ stopDue
       THEN comm' = "PPPDKILLED" /\ KillWan
       ELSE UNCHANGED <<comm, pidVars, netVars>>
    /\ place' = "up" /\ UNCHANGED <<stopDue, stopAsked, unsent>>

\* Otherwise: every five minutes the event Stats, and checkLink when nothing
\* was received, which is so without a route.
CheckLink ==
    /\ comm # "STOPPING" /\ (comm = "RUNNING" => need \/ upWait' # "off")
    /\ \/ place' = "up" /\ unsent' \in {unsent, TRUE} /\ UNCHANGED <<pidVars, netVars>>
       \/ /\ "deadlink" \in world \/ link = "kept"
          /\ place' = "down" /\ unsent' = TRUE /\ KillWan
    /\ UNCHANGED <<comm, stopDue, stopAsked>>

Body ==
    /\ place = "body"
    /\ Timers
    /\ StopComm \/ AwaitClosed \/ CheckLink
    /\ UNCHANGED <<cachedVars, dialVars, needed, alive, commState, session, srv,
                   restartAsked, carVars, sms, world>>

\* The end of upLoop: an event when the connection was not closed, some seconds
\* for pppd to go, then main goes on.
Down ==
    /\ place = "down" /\ place' = "inner" /\ unsent' \in {unsent, TRUE}
    /\ comm' = "STOPPED" /\ needed' = FALSE
    /\ UNCHANGED <<cachedVars, eventsToSend, fails, connected, exited, pidVars,
                   stopDue, upWait, hold, lastSeen, unitVars, netVars,
                   carVars, sms, world>>

-----------------------------------------------------------------------------
(* waitingLoop and the end                                                 *)

Waiting ==
    /\ place = "waiting"
    /\ IF low \/ ~keep \/ (need /\ can)
       THEN place' = "outer" /\ UNCHANGED <<cachedVars, eventsToSend, unsent, hold, sms>>
       ELSE /\ UNCHANGED place
            /\ GetStateInfo
            /\ eventsToSend' = (Announced \/ sms)
            /\ hold' = IF sms THEN "running" ELSE hold
            /\ sms' = FALSE
    /\ UNCHANGED <<dialVars, pidVars, comm, stopDue, upWait, lastSeen, needed,
                   unitVars, netVars, carVars, world>>

\* powerOff.  With a pending OTA schedule main just returns.
Leave ==
    /\ place = "leave" /\ place' = "off"
    /\ UNCHANGED <<cachedVars, eventsToSend, dialVars, pidVars, upVars, needed,
                   unitVars, unsent, netVars, carVars, sms, world>>

\* on_usr1: an event was appended and announced (signalMonitor).
Usr1 ==
    /\ "event" \in world /\ place # "off"
    /\ unsent' = TRUE
    /\ eventsToSend' = (eventsToSend \/ ~need)
    /\ UNCHANGED <<place, cachedVars, dialVars, pidVars, upVars, needed, unitVars,
                   netVars, carVars, sms, world>>

\* The process is started again: main up to its loop.
Restarted ==
    /\ place # "off" /\ place' = "outer"
    /\ need' = (users /\ ~shut) /\ can' = signal /\ keep' = (ign /\ ~shut)
    /\ low' = FALSE /\ eventsToSend' = FALSE /\ fails' = 0
    /\ connected' = FALSE /\ exited' = FALSE
    /\ pid' = FALSE /\ child' = FALSE
    /\ comm' = "STOPPED" /\ stopDue' = FALSE /\ upWait' = "off" /\ hold' = "off"
    /\ lastSeen' = FALSE
    /\ UNCHANGED <<needed, unitVars, unsent, carVars, sms, world>>

\* It breaks by a signal it has no handler for ...
Crash == "crash" \in world /\ Restarted /\ UNCHANGED netVars

\* ... or is told to end: on_term hangs up first.
Terminate ==
    /\ "term" \in world /\ Restarted
    /\ IF LinkType = "ppp"
       THEN pppd' = (IF pid THEN "hup" ELSE pppd) /\ UNCHANGED link
       ELSE Disconnect /\ UNCHANGED pppd

\* Sixty seconds are enough for a unitcomm that has the request, unless a frame
\* that nobody acknowledges keeps it from closing ("late").
Expire ==
    /\ \/ upWait = "running" /\ upWait' = "due" /\ UNCHANGED <<hold, stopDue>>
       \/ hold = "running" /\ hold' = "due" /\ UNCHANGED <<upWait, stopDue>>
       \/ comm = "STOPPING" /\ ("late" \in world \/ ~stopAsked)
          /\ ~stopDue /\ stopDue' = TRUE /\ UNCHANGED <<upWait, hold>>
    /\ UNCHANGED <<place, cachedVars, eventsToSend, dialVars, pidVars, comm, lastSeen,
                   needed, unitVars, unsent, netVars, carVars, sms, world>>

-----------------------------------------------------------------------------
(* pppd or the modem, and on_child                                         *)

Progress ==
    /\ LinkType = "ppp" => pppd = "running"
    /\ \/ link = "none" /\ LinkType = "ppp" /\ Noticed /\ link' = "bare"
       \/ link = "bare" /\ link' = "up"
    /\ signal /\ UNCHANGED pppd
    /\ UNCHANGED <<place, cachedVars, eventsToSend, dialVars, pidVars, upVars, needed,
                   unitVars, unsent, carVars, sms, world>>

LinkEnds ==
    /\ \/ LinkType = "ppp" /\ pppd # "none"
          /\ pppd = "running" => "drop" \in world \/ ~signal
       \/ LinkType = "lte" /\ link # "none" /\ ("drop" \in world \/ ~signal)
    /\ pppd' = "none" /\ link' = "none"
    /\ exited' = (exited \/ child)
    /\ pid' = (pid /\ ~child) /\ child' = FALSE
    /\ UNCHANGED <<place, cachedVars, eventsToSend, fails, connected, upVars,
                   needed, unitVars, unsent, carVars, sms, world>>

-----------------------------------------------------------------------------
(* unitcomm (module UnitComm), as far as monitor can see it                *)

NotMonitor == UNCHANGED <<place, cachedVars, eventsToSend, dialVars, pidVars, upVars,
                          needed, netVars, carVars, sms, world>>

NotProcess == UNCHANGED <<alive, stopAsked, restartAsked, unsent>>

UnitBegins ==
    /\ alive /\ ~session /\ link = "up" /\ needed
    /\ session' = TRUE /\ srv' = "start" /\ commState' = "Connecting"
    /\ NotMonitor /\ NotProcess
UnitEnds ==
    /\ session /\ (link = "none" \/ ~needed)
    /\ session' = FALSE /\ srv' = "down" /\ commState' = "NoWAN"
    /\ NotMonitor /\ NotProcess
UnitConnects ==
    /\ session /\ link = "up" /\ srv = "start"
    /\ srv' = "up" /\ commState' = "Connected"
    /\ NotMonitor /\ NotProcess /\ UNCHANGED session
UnitReopens ==
    /\ {"drop", "late"} \cap world # {}
    /\ srv = "up" /\ srv' = "start" /\ commState' = "Connecting"
    /\ NotMonitor /\ NotProcess /\ UNCHANGED session
UnitDelivers ==
    /\ srv = "up" /\ unsent /\ unsent' = FALSE
    /\ NotMonitor /\ UNCHANGED unitVars

\* Mutant of UnitCloses: CommStateFile is not written.
UnitClosesQuietly ==
    /\ session /\ stopAsked /\ stopAsked' = FALSE
    /\ srv' = "down"
    /\ NotMonitor /\ UNCHANGED <<alive, session, commState, restartAsked, unsent>>

\* The close request is looked at in a session only and outlives it.  Until
\* nothing is outstanding and the CLOSE is answered the file says what it said.
UnitCloses ==
    /\ session /\ stopAsked /\ stopAsked' = FALSE
    /\ srv' = "down" /\ commState' = "Closed"
    /\ NotMonitor /\ UNCHANGED <<alive, session, restartAsked, unsent>>
UnitRestarts ==
    /\ session /\ restartAsked /\ restartAsked' = FALSE
    /\ srv' = "start"
    /\ NotMonitor /\ UNCHANGED <<alive, session, commState, stopAsked, unsent>>

\* A CLOSE of the server: the connection is down, the file says Connected.
ServerCloses ==
    /\ "close" \in world /\ srv = "up" /\ srv' = "down"
    /\ NotMonitor /\ NotProcess /\ UNCHANGED <<session, commState>>

\* unitcomm ends, and with it every request it was sent.  closeAndExit removes
\* CommStateFile, an end by SIGPIPE leaves it as it was.
UnitDies ==
    /\ "unitdies" \in world /\ alive /\ alive' = FALSE
    /\ session' = FALSE /\ srv' = "down" /\ commState' \in {commState, "none"}
    /\ stopAsked' = FALSE /\ restartAsked' = FALSE
    /\ NotMonitor /\ UNCHANGED unsent

\* respawner starts it again.
UnitStarts ==
    /\ ~alive /\ alive' = TRUE /\ commState' = "NoWAN"
    /\ NotMonitor /\ UNCHANGED <<session, srv, stopAsked, restartAsked, unsent>>

-----------------------------------------------------------------------------
(* The car                                                                 *)

Car ==
    /\ \/ "ign" \in world /\ ign' = ~ign /\ UNCHANGED <<users, signal, shut, battery, sms>>
       \/ "users" \in world /\ users' = ~users
          /\ UNCHANGED <<ign, signal, shut, battery, sms>>
       \/ "signal" \in world /\ signal' = ~signal
          /\ UNCHANGED <<ign, users, shut, battery, sms>>
       \/ "shut" \in world /\ ~shut /\ shut' = TRUE
          /\ UNCHANGED <<ign, users, signal, battery, sms>>
       \/ "battery" \in world /\ battery /\ battery' = FALSE
          /\ UNCHANGED <<ign, users, signal, shut, sms>>
       \/ "sms" \in world /\ ~sms /\ sms' = TRUE
          /\ UNCHANGED <<ign, users, signal, shut, battery>>
    /\ place # "off"
    /\ UNCHANGED <<place, cachedVars, eventsToSend, dialVars, pidVars, upVars, needed,
                   unitVars, unsent, netVars, world>>

MonitorStep ==
    \/ Outer \/ Inner \/ Dial \/ Dialing \/ Attempted \/ Again \/ Established
    \/ NotEstablished \/ Pass \/ Body \/ Down \/ Waiting \/ Leave
UnitStep ==
    \/ UnitBegins \/ UnitEnds \/ UnitConnects \/ UnitReopens \/ UnitDelivers
    \/ UnitCloses \/ UnitRestarts \/ ServerCloses \/ UnitDies \/ UnitStarts

Next ==
    \/ MonitorStep \/ Backoff("backoff") \/ Backoff("dial") \/ LockedUp \/ GivenUp
    \/ PppdGone \/ Usr1 \/ Crash \/ Terminate \/ Expire
    \/ Progress \/ LinkEnds
    \/ UnitStep \/ Car

Spec == Init /\ [][Next]_vars

\* monitor and unitcomm run, timers expire, a pppd that is told to ends, a link
\* without a route is found dead, and the talker of the LTE modem accepts a
\* connect again and again.
LiveSpec ==
    /\ Spec /\ WF_vars(MonitorStep) /\ WF_vars(LockedUp) /\ WF_vars(GivenUp) /\ WF_vars(Expire)
    /\ WF_vars(Backoff("dial"))
    /\ WF_vars(LinkEnds /\ pppd = "hup")
    /\ WF_vars(Progress) /\ WF_vars(UnitBegins) /\ WF_vars(UnitEnds) /\ WF_vars(UnitConnects)
    /\ WF_vars(UnitCloses) /\ WF_vars(UnitRestarts) /\ WF_vars(UnitStarts)
    /\ SF_vars(link = "kept" /\ Body /\ place' = "down")
    /\ SF_vars("lte" \in world /\ Dial /\ place' = "dialing")

-----------------------------------------------------------------------------
(* Properties                                                              *)

\* "AUT-115: Shutdown if ShutdownFile exists": once it does, or the ignition
\* stays off and nothing asks for a connection, the unit powers off, wherever
\* the main loop is and whatever the network and unitcomm do, one that dies
\* while monitor waits for it and one that does not close in time included, and
\* though an LTE talker may not disconnect: then checkLink ends upLoop.  It needs
\* programs that stop announcing events (each keeps a connection for a minute)
\* and a monitor that is not told to end again and again.  Not so when monitor
\* was killed under a pppd whose pid it then does not know, and with SMS or links
\* found dead while they are used, which keep a connection too.
Quiet == shut \/ (~ign /\ ~users)
ShutsDown ==
    world \cap {"crash", "deadlink", "sms"} = {} /\ <>[][~(Usr1 \/ Terminate)]_vars =>
        (Quiet ~> (place = "off" \/ ~Quiet))

\* A unit that has users and can connect for good is connected to the server
\* again and again: no order of hang-ups, stops and deaths of unitcomm ends
\* with a link that stays up and a unitcomm that stays closed.  It needs a
\* server that does not close and closes that are answered in time, no losses
\* of the link between, a pppd that connects and a unitcomm that stays some day.
Wanted == users /\ ign /\ signal /\ ~shut /\ battery
ServedAgain ==
    /\ world \subseteq {"ign", "users", "event", "unitdies"}
    /\ <>[]Wanted /\ <>[][~LockedUp]_vars /\ <>[][~UnitDies]_vars
    => []<>(srv = "up" \/ place = "off")

\* When the unit powers off no pppd that this monitor started goes on as if it
\* had not been told, and after monitor has hung up none does and the LTE link
\* has no route any more.  Not so for a monitor that was killed and started
\* again ("crash"), which does not know the pppd it finds.
HungUp ==
    "crash" \notin world =>
        /\ place = "off" => pppd # "running"
        /\ place \in {"up", "body"} /\ comm = "PPPDKILLED" =>
               pppd # "running" /\ (LinkType = "lte" => link \in {"none", "kept"})

\* While monitor waits for unitcomm to close, the request is still to be seen
\* or the server is not connected: whatever becomes of sessions, the server and
\* the link, nothing takes the request away and nothing connects behind it.
\* Not so when unitcomm dies, whose request is lost and who connects again, nor
\* when an SMS restarts the connection meanwhile.
StopIsAnswered ==
    world \cap {"sms", "unitdies"} = {} /\ comm = "STOPPING" =>
        stopAsked \/ commState # "Connected"
=============================================================================
