--------------------------- MODULE Monitor_proofs ---------------------------
(***************************************************************************)
(* Theorems about Monitor, for every world it may be in.                   *)
(***************************************************************************)
EXTENDS Monitor, TLAPS

\* A pppd that was not told to end is one that monitor dials with or is
\* connected by, knows the pid of, and has not told itself that it was gone.
Owned ==
    "crash" \notin world /\ pppd = "running" =>
        /\ LinkType = "ppp" /\ pid /\ child /\ ~exited
        /\ \/ place = "dialing"
           \/ place \in {"dial", "dialed"} /\ connected
           \/ place \in {"up", "body"} /\ comm # "PPPDKILLED"

LEMMA InitOwned == Init => Owned
BY DEF Init, Owned

\* killWan leaves no pppd that was not told to end.
LEMMA KillWanEnds ==
  ASSUME Owned, KillWan, "crash" \notin world
  PROVE  pppd' # "running"
BY DEF Owned, KillWan, Disconnect

LEMMA DialOwned ==
  ASSUME Owned, Inner \/ Dial \/ Dialing \/ LockedUp \/ GivenUp \/ Attempted \/ Again
                \/ Established \/ NotEstablished \/ Backoff("backoff") \/ Backoff("dial")
  PROVE  Owned'
<1> USE DEF Owned, LinkType, pidVars, dialVars, netVars, upVars
<1>1. CASE Inner
  BY <1>1 DEF Inner
<1>2. CASE Dial
  BY <1>2 DEF Dial
<1>3. CASE Dialing
  <2>1. CASE KillWan
    BY <1>3, <2>1, KillWanEnds DEF Dialing
  <2>2. CASE UNCHANGED <<place, pidVars, netVars>>
    BY <1>3, <2>2 DEF Dialing
  <2> QED  BY <1>3, <2>1, <2>2 DEF Dialing
<1>4. CASE LockedUp
  BY <1>4 DEF LockedUp
<1>5. CASE GivenUp
  BY <1>5 DEF GivenUp
<1>6. CASE Attempted
  BY <1>6 DEF Attempted
<1>7. CASE Again \/ Established \/ NotEstablished
  BY <1>7 DEF Again, Established, NotEstablished
<1>8. CASE Backoff("backoff") \/ Backoff("dial")
  BY <1>8 DEF Backoff
<1> QED  BY <1>1, <1>2, <1>3, <1>4, <1>5, <1>6, <1>7, <1>8

LEMMA UpOwned ==
  ASSUME Owned, Pass \/ PppdGone \/ Body \/ Down
  PROVE  Owned'
<1> USE DEF Owned, LinkType, pidVars, dialVars, netVars, upVars
<1>1. CASE Pass
  <2>1. CASE KillWan
    BY <1>1, <2>1, KillWanEnds DEF Pass
  <2>2. CASE place' = "body" /\ UNCHANGED <<connected, pidVars, netVars>>
    BY <1>1, <2>2 DEF Pass
  <2> QED  BY <1>1, <2>1, <2>2 DEF Pass
<1>2. CASE PppdGone \/ Down
  BY <1>2 DEF PppdGone, Down
<1>3. CASE Body
  <2>1. place = "body" /\ UNCHANGED <<connected, exited, world>>
    BY <1>3 DEF Body
  <2>2. CASE StopComm
    BY <2>1, <2>2 DEF StopComm, KillWan, Disconnect
  <2>3. CASE AwaitClosed
    BY <2>1, <2>3 DEF AwaitClosed, KillWan, Disconnect
  <2>4. CASE CheckLink
    <3>1. CASE KillWan
      BY <2>1, <3>1, KillWanEnds
    <3>2. CASE place' = "up" /\ UNCHANGED <<pidVars, netVars>>
      BY <2>1, <2>4, <3>2 DEF CheckLink
    <3> QED  BY <2>4, <3>1, <3>2 DEF CheckLink
  <2> QED  BY <1>3, <2>2, <2>3, <2>4 DEF Body
<1> QED  BY <1>1, <1>2, <1>3

LEMMA NextOwned == Owned /\ [Next]_vars => Owned'
<1> SUFFICES ASSUME Owned, [Next]_vars  PROVE Owned'
  OBVIOUS
<1> USE DEF pidVars, dialVars, netVars, upVars
<1>1. CASE UNCHANGED vars
  BY <1>1 DEF vars, Owned, LinkType
<1>2. CASE Outer \/ Waiting \/ Leave \/ Usr1 \/ Expire
  BY <1>2 DEF Outer, Waiting, Leave, Usr1, Expire, Owned, LinkType
<1>3. CASE Crash \/ Terminate
  BY <1>3 DEF Crash, Terminate, Restarted, Disconnect, Owned, LinkType
<1>4. CASE Progress \/ LinkEnds
  BY <1>4 DEF Progress, LinkEnds, Owned, LinkType
<1>5. CASE UnitStep
  <2>1. NotMonitor
    BY <1>5 DEF UnitStep, UnitBegins, UnitEnds, UnitConnects, UnitDelivers, UnitReopens,
                UnitCloses, UnitRestarts, ServerCloses, UnitDies, UnitStarts
  <2> QED  BY <2>1 DEF NotMonitor, Owned, LinkType
<1>6. CASE Car
  BY <1>6 DEF Car, Owned, LinkType
<1> QED
  BY <1>1, <1>2, <1>3, <1>4, <1>5, <1>6, DialOwned, UpOwned DEF Next, MonitorStep

\* An LTE link that monitor hung up is gone or has no route, and upLoop does
\* not dial.
Released ==
    LinkType = "lte" /\ place \in {"up", "body"} /\ comm = "PPPDKILLED" =>
        link \in {"none", "kept"}

LEMMA NextReleased == Released /\ [Next]_vars => Released'
<1> SUFFICES ASSUME Released, [Next]_vars  PROVE Released'
  OBVIOUS
<1> USE DEF Released, LinkType, pidVars, dialVars, netVars, upVars
<1>1. CASE UNCHANGED vars
  BY <1>1 DEF vars
<1>2. CASE Outer \/ Inner \/ Dial \/ Attempted \/ Again \/ Established \/ NotEstablished
  BY <1>2 DEF Outer, Inner, Dial, Attempted, Again, Established, NotEstablished
<1>3. CASE Dialing \/ LockedUp \/ GivenUp \/ Backoff("backoff") \/ Backoff("dial")
  BY <1>3 DEF Dialing, LockedUp, GivenUp, Backoff
<1>4. CASE Pass
  BY <1>4 DEF Pass
<1>5. CASE PppdGone \/ Down \/ Waiting \/ Leave \/ Usr1 \/ Expire
  BY <1>5 DEF PppdGone, Down, Waiting, Leave, Usr1, Expire
<1>6. CASE Body
  <2>1. place = "body" /\ UNCHANGED <<connected, exited, world>>
    BY <1>6 DEF Body
  <2>2. CASE StopComm
    BY <2>1, <2>2 DEF StopComm, KillWan, Disconnect
  <2>3. CASE AwaitClosed
    BY <2>1, <2>3 DEF AwaitClosed, KillWan, Disconnect
  <2>4. CASE CheckLink
    BY <2>1, <2>4 DEF CheckLink, KillWan, Disconnect
  <2> QED  BY <1>6, <2>2, <2>3, <2>4 DEF Body
<1>7. CASE Crash \/ Terminate
  BY <1>7 DEF Crash, Terminate, Restarted
<1>8. CASE Progress \/ LinkEnds
  BY <1>8 DEF Progress, LinkEnds
<1>9. CASE UnitStep
  <2>1. NotMonitor
    BY <1>9 DEF UnitStep, UnitBegins, UnitEnds, UnitConnects, UnitDelivers, UnitReopens,
                UnitCloses, UnitRestarts, ServerCloses, UnitDies, UnitStarts
  <2> QED  BY <2>1 DEF NotMonitor
<1>10. CASE Car
  BY <1>10 DEF Car
<1> QED
  BY <1>1, <1>2, <1>3, <1>4, <1>5, <1>6, <1>7, <1>8, <1>9, <1>10 DEF Next, MonitorStep

\* When the unit powers off no pppd that monitor started is left running, and
\* after monitor has hung up none is and the LTE link has no route, in every
\* order of dials, signals, deaths and closes; a monitor that was killed and
\* started again is left out.
THEOREM MonitorHungUp == Spec => []HungUp
<1>1. Owned /\ Released => HungUp
  BY DEF Owned, Released, HungUp
<1>2. Init => Released
  BY DEF Init, Released
<1> QED  BY <1>1, <1>2, InitOwned, NextOwned, NextReleased, PTL DEF Spec

-----------------------------------------------------------------------------
(* The close that monitor waits for                                        *)

\* A pppd that runs without a link: only its dial can give it one.
Dead == LinkType = "ppp" /\ link = "none" /\ pppd = "running"

\* While monitor waits, it is in upLoop, so CommNeededFile exists and no dial
\* is under way: a link that went away does not come back.  A unitcomm that has
\* seen the request and closed therefore begins no new session as long as it
\* lives, and nothing asks it to restart the one it has.
Stopping ==
    /\ "sms" \notin world => ~sms /\ ~restartAsked
    /\ place \in {"up", "body"} => connected
    /\ place \in {"up", "body", "down"} => needed
    /\ (connected \/ comm = "STOPPING") => ~Dead
    /\ comm = "STOPPING" => place \in {"up", "body", "down"}
    /\ world \cap {"sms", "unitdies"} = {} => alive
    /\ world \cap {"sms", "unitdies"} = {} /\ comm = "STOPPING" /\ ~stopAsked =>
        srv = "down" /\ commState # "Connected" /\ (session \/ link = "none")

LEMMA InitStopping == Init => Stopping
BY DEF Init, Stopping, Dead

\* killWan makes no dead pppd, and a link that is gone stays so.
LEMMA KillWanNotDead ==
  ASSUME KillWan, ~Dead, world' = world
  PROVE  ~Dead' /\ (link = "none" => link' = "none")
BY DEF KillWan, Disconnect, Dead, LinkType

LEMMA DialStopping ==
  ASSUME Stopping, Inner \/ Dial \/ Dialing \/ LockedUp \/ GivenUp \/ Attempted \/ Again
                   \/ Established \/ NotEstablished \/ Backoff("backoff") \/ Backoff("dial")
  PROVE  Stopping'
<1> USE DEF pidVars, dialVars, netVars, upVars, unitVars
<1>1. CASE Inner
  BY <1>1 DEF Inner, Stopping, Dead, LinkType
<1>2. CASE Dial
  BY <1>2 DEF Dial, Stopping, Dead, LinkType
<1>3. CASE Dialing
  <2>1. CASE KillWan
    BY <1>3, <2>1 DEF Dialing, KillWan, Disconnect, Stopping, Dead, LinkType
  <2>2. CASE UNCHANGED <<place, pidVars, netVars>>
    BY <1>3, <2>2 DEF Dialing, Stopping, Dead, LinkType
  <2> QED  BY <1>3, <2>1, <2>2 DEF Dialing
<1>4. CASE LockedUp \/ GivenUp
  BY <1>4 DEF LockedUp, GivenUp, Stopping, Dead, LinkType
<1>5. CASE Attempted \/ Again \/ NotEstablished
  BY <1>5 DEF Attempted, Again, NotEstablished, Stopping, Dead, LinkType
<1>6. CASE Established
  BY <1>6 DEF Established, Stopping, Dead, LinkType
<1>7. CASE Backoff("backoff") \/ Backoff("dial")
  BY <1>7 DEF Backoff, Stopping, Dead, LinkType
<1> QED  BY <1>1, <1>2, <1>3, <1>4, <1>5, <1>6, <1>7

LEMMA UpStopping ==
  ASSUME Stopping, Pass \/ PppdGone \/ Body \/ Down
  PROVE  Stopping'
<1> USE DEF pidVars, dialVars, netVars, upVars, unitVars
<1>1. CASE Pass
  <2>1. CASE link = "none"
    <3>1. place = "up" /\ place' = "down" /\ KillWan /\ ~connected' /\ world' = world
      BY <1>1, <2>1 DEF Pass
    <3>2. ~Dead' /\ link' = "none"
      BY <2>1, <3>1, KillWanNotDead DEF Stopping
    <3> QED  BY <1>1, <3>1, <3>2 DEF Pass, Stopping
  <2>2. CASE link # "none"
    BY <1>1, <2>2 DEF Pass, Stopping, Dead, LinkType
  <2> QED  BY <2>1, <2>2
<1>2. CASE PppdGone
  BY <1>2 DEF PppdGone, Stopping, Dead, LinkType
<1>3. CASE Down
  <2>1. /\ place' = "inner" /\ comm' = "STOPPED"
        /\ UNCHANGED <<connected, sms, restartAsked, alive, link, pppd, world>>
    BY <1>3 DEF Down
  <2> QED  BY <2>1 DEF Stopping, Dead, LinkType
<1>4. CASE Body
  <2>1. place = "body" /\ ~Dead
    BY <1>4 DEF Body, Stopping
  <2>2. UNCHANGED <<needed, connected, alive, commState, session, srv, restartAsked, sms, world>>
    BY <1>4 DEF Body
  <2>3. CASE StopComm
    <3>1. CASE commState = "Connected"
      BY <2>1, <2>2, <2>3, <3>1 DEF StopComm, Stopping, Dead, LinkType
    <3>2. CASE commState # "Connected"
      <4>1. comm' = "PPPDKILLED" /\ place' = "up" /\ KillWan
        BY <2>3, <3>2 DEF StopComm
      <4>2. ~Dead'
        BY <2>1, <2>2, <4>1, KillWanNotDead
      <4> QED  BY <2>1, <2>2, <4>1, <4>2 DEF Stopping
    <3> QED  BY <3>1, <3>2
  <2>4. CASE AwaitClosed
    <3>1. CASE KillWan /\ comm' = "PPPDKILLED"
      <4>1. ~Dead'
        BY <2>1, <2>2, <3>1, KillWanNotDead
      <4> QED  BY <2>1, <2>2, <2>4, <3>1, <4>1 DEF Stopping, AwaitClosed
    <3>2. CASE UNCHANGED <<comm, pidVars, netVars>>
      BY <2>1, <2>2, <2>4, <3>2 DEF AwaitClosed, Stopping, Dead, LinkType
    <3> QED  BY <2>4, <3>1, <3>2 DEF AwaitClosed
  <2>5. CASE CheckLink
    <3>1. comm # "STOPPING" /\ comm' = comm /\ place' \in {"up", "down"}
      BY <2>5 DEF CheckLink
    <3>2. ~Dead'
      BY <2>1, <2>2, <2>5, KillWanNotDead DEF CheckLink, Dead, LinkType
    <3> QED  BY <2>1, <2>2, <3>1, <3>2 DEF Stopping
  <2> QED  BY <1>4, <2>3, <2>4, <2>5 DEF Body
<1> QED  BY <1>1, <1>2, <1>3, <1>4

\* What unitcomm and the server do.
LEMMA UnitStopping ==
  ASSUME Stopping, UnitStep
  PROVE  Stopping'
<1>1. UNCHANGED <<place, connected, comm, needed, pppd, link, sms, world>>
  BY DEF UnitStep, UnitBegins, UnitEnds, UnitConnects, UnitDelivers, UnitReopens, UnitCloses,
         UnitRestarts, ServerCloses, UnitDies, UnitStarts, NotMonitor, dialVars, upVars, netVars
<1>2. Dead' = Dead
  BY <1>1 DEF Dead, LinkType
<1> USE DEF unitVars, NotProcess
<1>3. CASE UnitBegins \/ UnitEnds \/ UnitConnects \/ UnitDelivers
  BY <1>1, <1>2, <1>3 DEF UnitBegins, UnitEnds, UnitConnects, UnitDelivers, Stopping
<1>4. CASE UnitReopens \/ ServerCloses
  BY <1>1, <1>2, <1>4 DEF UnitReopens, ServerCloses, Stopping
<1>5. CASE UnitCloses
  BY <1>1, <1>2, <1>5 DEF UnitCloses, Stopping
<1>6. CASE UnitRestarts
  BY <1>1, <1>2, <1>6 DEF UnitRestarts, Stopping
<1>7. CASE UnitDies \/ UnitStarts
  BY <1>1, <1>2, <1>7 DEF UnitDies, UnitStarts, Stopping
<1> QED  BY <1>3, <1>4, <1>5, <1>6, <1>7 DEF UnitStep

LEMMA NextStopping == Stopping /\ [Next]_vars => Stopping'
<1> SUFFICES ASSUME Stopping, [Next]_vars  PROVE Stopping'
  OBVIOUS
<1> USE DEF pidVars, dialVars, netVars, upVars, unitVars
<1>1. CASE UNCHANGED vars
  BY <1>1 DEF vars, Stopping, Dead, LinkType
<1>2. CASE Outer \/ Leave \/ Usr1 \/ Expire
  BY <1>2 DEF Outer, Leave, Usr1, Expire, Stopping, Dead, LinkType
<1>3. CASE Waiting
  BY <1>3 DEF Waiting, Stopping, Dead, LinkType
<1>4. CASE Crash \/ Terminate
  BY <1>4 DEF Crash, Terminate, Restarted, Disconnect, Stopping, Dead, LinkType
<1>5. CASE Progress
  BY <1>5 DEF Progress, Stopping, Dead, LinkType
<1>6. CASE LinkEnds
  BY <1>6 DEF LinkEnds, Stopping, Dead, LinkType
<1>7. CASE Car
  BY <1>7 DEF Car, Stopping, Dead, LinkType
<1> QED
  BY <1>1, <1>2, <1>3, <1>4, <1>5, <1>6, <1>7, DialStopping, UpStopping, UnitStopping
  DEF Next, MonitorStep

\* While monitor waits for a unitcomm that lives, either the request is still to
\* be seen or the server is not connected, in every order of requests, losses
\* of the link and steps of unitcomm, when no SMS restarts the connection.
THEOREM MonitorStopIsAnswered == Spec => []StopIsAnswered
<1>1. Stopping => StopIsAnswered
  BY DEF Stopping, StopIsAnswered
<1> QED  BY <1>1, InitStopping, NextStopping, PTL DEF Spec

-----------------------------------------------------------------------------
(* Types                                                                   *)

\* What getStateInfo computes; the events; the link; unitcomm; the car.
LookFlags == need \in BOOLEAN /\ can \in BOOLEAN /\ keep \in BOOLEAN /\ low \in BOOLEAN
EventFlags ==
    /\ eventsToSend \in BOOLEAN /\ unsent \in BOOLEAN
    /\ lastSeen \in BOOLEAN /\ stopDue \in BOOLEAN
WanFlags ==
    /\ connected \in BOOLEAN /\ exited \in BOOLEAN /\ needed \in BOOLEAN
    /\ pid \in BOOLEAN /\ child \in BOOLEAN
UnitFlags ==
    /\ alive \in BOOLEAN /\ session \in BOOLEAN
    /\ stopAsked \in BOOLEAN /\ restartAsked \in BOOLEAN
CarFlags ==
    /\ ign \in BOOLEAN /\ users \in BOOLEAN /\ signal \in BOOLEAN
    /\ shut \in BOOLEAN /\ battery \in BOOLEAN /\ sms \in BOOLEAN
Flags == LookFlags /\ EventFlags /\ WanFlags /\ UnitFlags /\ CarFlags

LEMMA InitFlags == Init => Flags
BY DEF Init, Flags, LookFlags, EventFlags, WanFlags, UnitFlags, CarFlags

\* What getStateInfo and KillWan write.
LEMMA StateInfoFlags ==
  ASSUME Flags, GetStateInfo
  PROVE  /\ need' \in BOOLEAN /\ can' \in BOOLEAN /\ keep' \in BOOLEAN /\ low' \in BOOLEAN
         /\ unsent' \in BOOLEAN /\ Announced \in BOOLEAN
BY DEF Flags, LookFlags, EventFlags, CarFlags, GetStateInfo, NeedConnection, Announced, LowBattery

LEMMA KillWanFlags ==
  ASSUME Flags, KillWan
  PROVE  pid' \in BOOLEAN /\ child' \in BOOLEAN
BY DEF Flags, WanFlags, KillWan, Disconnect, LinkType

LEMMA NextLookFlags == Flags /\ [Next]_vars => LookFlags'
<1> SUFFICES ASSUME Flags, [Next]_vars  PROVE LookFlags'
  OBVIOUS
<1> USE DEF Flags, LookFlags, cachedVars, dialVars, pidVars, upVars, unitVars, netVars, carVars
<1>1. CASE UNCHANGED vars
  BY <1>1 DEF vars
<1>2. CASE Outer \/ Inner \/ Attempted \/ Again \/ NotEstablished \/ PppdGone \/ Leave
  BY <1>2 DEF Outer, Inner, Attempted, Again, NotEstablished, PppdGone, Leave
<1>3. CASE Established \/ Expire \/ Progress
  BY <1>3 DEF Established, Expire, Progress
<1>4. CASE Dial
  BY <1>4 DEF Dial
<1>5. CASE Dialing \/ LockedUp \/ GivenUp
  BY <1>5, StateInfoFlags DEF Dialing, LockedUp, GivenUp
<1>6. CASE Backoff("backoff") \/ Backoff("dial")
  BY <1>6, StateInfoFlags DEF Backoff
<1>7. CASE Pass
  BY <1>7, StateInfoFlags DEF Pass
<1>8. CASE Body
  BY <1>8 DEF Body, Timers, StopComm, AwaitClosed, CheckLink
<1>9. CASE Down \/ Waiting
  BY <1>9, StateInfoFlags DEF Down, Waiting
<1>10. CASE Usr1 \/ Crash \/ Terminate
  <2>1. CASE Usr1
    BY <2>1 DEF Usr1
  <2>2. CASE Crash \/ Terminate
    <3>1. /\ need' = (users /\ ~shut) /\ can' = signal
          /\ keep' = (ign /\ ~shut) /\ low' = FALSE
      BY <2>2 DEF Crash, Terminate, Restarted
    <3> QED  BY <3>1 DEF CarFlags
  <2> QED  BY <1>10, <2>1, <2>2
<1>11. CASE LinkEnds
  BY <1>11 DEF LinkEnds
<1>12. CASE UnitBegins \/ UnitEnds \/ UnitConnects \/ UnitReopens \/ ServerCloses
  BY <1>12 DEF UnitBegins, UnitEnds, UnitConnects, UnitReopens, ServerCloses, NotMonitor, NotProcess
<1>13. CASE UnitDelivers \/ UnitCloses \/ UnitRestarts \/ UnitDies \/ UnitStarts
  BY <1>13 DEF UnitDelivers, UnitCloses, UnitRestarts, UnitDies, UnitStarts, NotMonitor
<1>14. CASE Car
  BY <1>14 DEF Car
<1> QED
  BY <1>1, <1>2, <1>3, <1>4, <1>5, <1>6, <1>7, <1>8, <1>9, <1>10, <1>11, <1>12, <1>13, <1>14
  DEF Next, MonitorStep, UnitStep

LEMMA NextEventFlags == Flags /\ [Next]_vars => EventFlags'
<1> SUFFICES ASSUME Flags, [Next]_vars  PROVE EventFlags'
  OBVIOUS
<1> USE DEF Flags, EventFlags, cachedVars, dialVars, pidVars, upVars, unitVars, netVars, carVars
<1>1. CASE UNCHANGED vars
  BY <1>1 DEF vars
<1>2. CASE Outer \/ Inner \/ Attempted \/ Again \/ NotEstablished \/ PppdGone \/ Leave
  BY <1>2 DEF Outer, Inner, Attempted, Again, NotEstablished, PppdGone, Leave
<1>3. CASE Established \/ Expire \/ Progress
  BY <1>3 DEF Established, Expire, Progress
<1>4. CASE Dial
  BY <1>4 DEF Dial
<1>5. CASE Dialing \/ LockedUp \/ GivenUp
  BY <1>5, StateInfoFlags DEF Dialing, LockedUp, GivenUp
<1>6. CASE Backoff("backoff") \/ Backoff("dial")
  BY <1>6, StateInfoFlags DEF Backoff
<1>7. CASE Pass
  BY <1>7, StateInfoFlags DEF Pass
<1>8. CASE Body
  BY <1>8 DEF Body, Timers, StopComm, AwaitClosed, CheckLink
<1>9. CASE Down \/ Waiting
  BY <1>9, StateInfoFlags DEF Down, Waiting
<1>10. CASE Usr1 \/ Crash \/ Terminate
  BY <1>10 DEF Usr1, Crash, Terminate, Restarted
<1>11. CASE LinkEnds
  BY <1>11 DEF LinkEnds
<1>12. CASE UnitBegins \/ UnitEnds \/ UnitConnects \/ UnitReopens \/ ServerCloses
  BY <1>12 DEF UnitBegins, UnitEnds, UnitConnects, UnitReopens, ServerCloses, NotMonitor, NotProcess
<1>13. CASE UnitDelivers \/ UnitCloses \/ UnitRestarts \/ UnitDies \/ UnitStarts
  BY <1>13 DEF UnitDelivers, UnitCloses, UnitRestarts, UnitDies, UnitStarts, NotMonitor
<1>14. CASE Car
  BY <1>14 DEF Car
<1> QED
  BY <1>1, <1>2, <1>3, <1>4, <1>5, <1>6, <1>7, <1>8, <1>9, <1>10, <1>11, <1>12, <1>13, <1>14
  DEF Next, MonitorStep, UnitStep

LEMMA NextWanFlags == Flags /\ [Next]_vars => WanFlags'
<1> SUFFICES ASSUME Flags, [Next]_vars  PROVE WanFlags'
  OBVIOUS
<1> USE DEF Flags, WanFlags, cachedVars, dialVars, pidVars, upVars, unitVars, netVars, carVars
<1>1. CASE UNCHANGED vars
  BY <1>1 DEF vars
<1>2. CASE Outer \/ Inner \/ Attempted \/ Again \/ NotEstablished \/ PppdGone \/ Leave
  BY <1>2 DEF Outer, Inner, Attempted, Again, NotEstablished, PppdGone, Leave
<1>3. CASE Established \/ Expire \/ Progress
  BY <1>3 DEF Established, Expire, Progress
<1>4. CASE Dial
  BY <1>4 DEF Dial
<1>5. CASE Dialing \/ LockedUp \/ GivenUp
  BY <1>5, KillWanFlags DEF Dialing, LockedUp, GivenUp
<1>6. CASE Backoff("backoff") \/ Backoff("dial")
  BY <1>6 DEF Backoff
<1>7. CASE Pass
  BY <1>7, KillWanFlags DEF Pass
<1>8. CASE Body
  BY <1>8, KillWanFlags DEF Body, Timers, StopComm, AwaitClosed, CheckLink
<1>9. CASE Down \/ Waiting
  BY <1>9 DEF Down, Waiting
<1>10. CASE Usr1 \/ Crash \/ Terminate
  BY <1>10 DEF Usr1, Crash, Terminate, Restarted
<1>11. CASE LinkEnds
  BY <1>11 DEF LinkEnds
<1>12. CASE UnitBegins \/ UnitEnds \/ UnitConnects \/ UnitReopens \/ ServerCloses
  BY <1>12 DEF UnitBegins, UnitEnds, UnitConnects, UnitReopens, ServerCloses, NotMonitor, NotProcess
<1>13. CASE UnitDelivers \/ UnitCloses \/ UnitRestarts \/ UnitDies \/ UnitStarts
  BY <1>13 DEF UnitDelivers, UnitCloses, UnitRestarts, UnitDies, UnitStarts, NotMonitor
<1>14. CASE Car
  BY <1>14 DEF Car
<1> QED
  BY <1>1, <1>2, <1>3, <1>4, <1>5, <1>6, <1>7, <1>8, <1>9, <1>10, <1>11, <1>12, <1>13, <1>14
  DEF Next, MonitorStep, UnitStep

LEMMA NextUnitFlags == Flags /\ [Next]_vars => UnitFlags'
<1> SUFFICES ASSUME Flags, [Next]_vars  PROVE UnitFlags'
  OBVIOUS
<1> USE DEF Flags, UnitFlags, cachedVars, dialVars, pidVars, upVars, unitVars, netVars, carVars
<1>1. CASE UNCHANGED vars
  BY <1>1 DEF vars
<1>2. CASE Outer \/ Inner \/ Attempted \/ Again \/ NotEstablished \/ PppdGone \/ Leave
  BY <1>2 DEF Outer, Inner, Attempted, Again, NotEstablished, PppdGone, Leave
<1>3. CASE Established \/ Expire \/ Progress
  BY <1>3 DEF Established, Expire, Progress
<1>4. CASE Dial
  BY <1>4 DEF Dial
<1>5. CASE Dialing \/ LockedUp \/ GivenUp
  BY <1>5 DEF Dialing, LockedUp, GivenUp
<1>6. CASE Backoff("backoff") \/ Backoff("dial")
  BY <1>6 DEF Backoff
<1>7. CASE Pass
  BY <1>7 DEF Pass
<1>8. CASE Body
  BY <1>8 DEF Body, Timers, StopComm, AwaitClosed, CheckLink
<1>9. CASE Down \/ Waiting
  BY <1>9 DEF Down, Waiting
<1>10. CASE Usr1 \/ Crash \/ Terminate
  BY <1>10 DEF Usr1, Crash, Terminate, Restarted
<1>11. CASE LinkEnds
  BY <1>11 DEF LinkEnds
<1>12. CASE UnitBegins \/ UnitEnds \/ UnitConnects \/ UnitReopens \/ ServerCloses
  BY <1>12 DEF UnitBegins, UnitEnds, UnitConnects, UnitReopens, ServerCloses, NotMonitor, NotProcess
<1>13. CASE UnitDelivers \/ UnitCloses \/ UnitRestarts \/ UnitDies \/ UnitStarts
  BY <1>13 DEF UnitDelivers, UnitCloses, UnitRestarts, UnitDies, UnitStarts, NotMonitor
<1>14. CASE Car
  BY <1>14 DEF Car
<1> QED
  BY <1>1, <1>2, <1>3, <1>4, <1>5, <1>6, <1>7, <1>8, <1>9, <1>10, <1>11, <1>12, <1>13, <1>14
  DEF Next, MonitorStep, UnitStep

LEMMA NextCarFlags == Flags /\ [Next]_vars => CarFlags'
<1> SUFFICES ASSUME Flags, [Next]_vars  PROVE CarFlags'
  OBVIOUS
<1> USE DEF Flags, CarFlags, cachedVars, dialVars, pidVars, upVars, unitVars, netVars, carVars
<1>1. CASE UNCHANGED vars
  BY <1>1 DEF vars
<1>2. CASE Outer \/ Inner \/ Attempted \/ Again \/ NotEstablished \/ PppdGone \/ Leave
  BY <1>2 DEF Outer, Inner, Attempted, Again, NotEstablished, PppdGone, Leave
<1>3. CASE Established \/ Expire \/ Progress
  BY <1>3 DEF Established, Expire, Progress
<1>4. CASE Dial
  BY <1>4 DEF Dial
<1>5. CASE Dialing \/ LockedUp \/ GivenUp
  BY <1>5 DEF Dialing, LockedUp, GivenUp
<1>6. CASE Backoff("backoff") \/ Backoff("dial")
  BY <1>6 DEF Backoff
<1>7. CASE Pass
  BY <1>7 DEF Pass
<1>8. CASE Body
  BY <1>8 DEF Body, Timers, StopComm, AwaitClosed, CheckLink
<1>9. CASE Down \/ Waiting
  BY <1>9 DEF Down, Waiting
<1>10. CASE Usr1 \/ Crash \/ Terminate
  BY <1>10 DEF Usr1, Crash, Terminate, Restarted
<1>11. CASE LinkEnds
  BY <1>11 DEF LinkEnds
<1>12. CASE UnitBegins \/ UnitEnds \/ UnitConnects \/ UnitReopens \/ ServerCloses
  BY <1>12 DEF UnitBegins, UnitEnds, UnitConnects, UnitReopens, ServerCloses, NotMonitor, NotProcess
<1>13. CASE UnitDelivers \/ UnitCloses \/ UnitRestarts \/ UnitDies \/ UnitStarts
  BY <1>13 DEF UnitDelivers, UnitCloses, UnitRestarts, UnitDies, UnitStarts, NotMonitor
<1>14. CASE Car
  BY <1>14 DEF Car
<1> QED
  BY <1>1, <1>2, <1>3, <1>4, <1>5, <1>6, <1>7, <1>8, <1>9, <1>10, <1>11, <1>12, <1>13, <1>14
  DEF Next, MonitorStep, UnitStep

LEMMA NextFlags == Flags /\ [Next]_vars => Flags'
BY NextLookFlags, NextEventFlags, NextWanFlags, NextUnitFlags, NextCarFlags DEF Flags

\* Where monitor is, and what it sees.
Classes ==
    /\ place \in {"outer", "inner", "dial", "dialing", "failed", "backoff",
                  "dialed", "up", "body", "down", "waiting", "leave", "off"}
    /\ fails \in 0..4
    /\ comm \in {"RUNNING", "STOPPING", "PPPDKILLED", "STOPPED"}
    /\ upWait \in {"off", "running", "due"} /\ hold \in {"off", "running", "due"}
    /\ commState \in {"NoWAN", "Connecting", "Connected", "Closed", "none"}
    /\ srv \in {"start", "up", "down"}
    /\ pppd \in {"none", "running", "hup"} /\ link \in {"none", "bare", "up", "kept"}
    /\ world \in Worlds

LEMMA KillWanClasses ==
  ASSUME Classes, KillWan
  PROVE  pppd' \in {"none", "running", "hup"} /\ link' \in {"none", "bare", "up", "kept"}
BY DEF Classes, KillWan, Disconnect, LinkType

LEMMA NextClasses == Classes /\ [Next]_vars => Classes'
<1> SUFFICES ASSUME Classes, [Next]_vars  PROVE Classes'
  OBVIOUS
<1> USE DEF Classes, cachedVars, dialVars, pidVars, upVars, unitVars, netVars, carVars
<1>1. CASE UNCHANGED vars
  BY <1>1 DEF vars
<1>2. CASE Outer \/ Inner \/ Attempted \/ Again \/ NotEstablished \/ PppdGone \/ Leave
  BY <1>2 DEF Outer, Inner, Attempted, Again, NotEstablished, PppdGone, Leave
<1>3. CASE Established \/ Expire \/ Progress
  BY <1>3 DEF Established, Expire, Progress
<1>4. CASE Dial
  BY <1>4 DEF Dial
<1>5. CASE Dialing \/ LockedUp \/ GivenUp
  BY <1>5, KillWanClasses DEF Dialing, LockedUp, GivenUp
<1>6. CASE Backoff("backoff") \/ Backoff("dial")
  BY <1>6 DEF Backoff
<1>7. CASE Pass
  BY <1>7, KillWanClasses DEF Pass
<1>8. CASE Body
  BY <1>8, KillWanClasses DEF Body, Timers, StopComm, AwaitClosed, CheckLink
<1>9. CASE Down \/ Waiting
  BY <1>9 DEF Down, Waiting
<1>10. CASE Usr1 \/ Crash \/ Terminate
  BY <1>10 DEF Usr1, Crash, Terminate, Restarted, Disconnect
<1>11. CASE LinkEnds
  BY <1>11 DEF LinkEnds
<1>12. CASE UnitBegins \/ UnitEnds \/ UnitConnects \/ UnitReopens \/ ServerCloses
  BY <1>12 DEF UnitBegins, UnitEnds, UnitConnects, UnitReopens, ServerCloses, NotMonitor, NotProcess
<1>13. CASE UnitDelivers \/ UnitCloses \/ UnitRestarts \/ UnitDies \/ UnitStarts
  BY <1>13 DEF UnitDelivers, UnitCloses, UnitRestarts, UnitDies, UnitStarts, NotMonitor
<1>14. CASE Car
  BY <1>14 DEF Car
<1> QED
  BY <1>1, <1>2, <1>3, <1>4, <1>5, <1>6, <1>7, <1>8, <1>9, <1>10, <1>11, <1>12, <1>13, <1>14
  DEF Next, MonitorStep, UnitStep

\* Type correctness of monitor's loops and of what they see of unitcomm, the
\* link and the car, for every set of worlds.
THEOREM MonitorTypeOK == Spec => []TypeOK
<1>1. Init => Classes
  BY DEF Init, Classes
<1>2. Flags /\ Classes => TypeOK
  BY DEF Flags, LookFlags, EventFlags, WanFlags, UnitFlags, CarFlags, Classes, TypeOK
<1> QED  BY <1>1, <1>2, InitFlags, NextFlags, NextClasses, PTL DEF Spec
=============================================================================
