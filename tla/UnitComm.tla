------------------------------ MODULE UnitComm ------------------------------
(***************************************************************************)
(* The process unitcomm: main and handleConnections drive the link to the  *)
(* server (ServerLink) one pass of the select loop at a time, between      *)
(* signals of monitor and changes of the WAN.                              *)
(*                                                                         *)
(* pc says how far the pass has come; a block with nothing to do is        *)
(* skipped at once:                                                        *)
(*   wait     main waits for the WAN and for CommNeededFile                *)
(*   select   select and what follows for a frame, an event or no input    *)
(*   event    a frame was handled; an event may be ready in the same pass  *)
(*   close    the close logic: first the test of CloseDelay ...            *)
(*   close2   ... then the chain on outstanding, closed and closing        *)
(*   restart  restart_connection                                           *)
(*   pump     the output of commands                                       *)
(*   end      the end of handleConnections, without CommNeededFile         *)
(***************************************************************************)
EXTENDS ServerLink

VARIABLES
  pc,
  wanUp,          \* wanUp() and a default route
  needed,         \* CommNeededFile exists
  closeReq,       \* close_comm_requested
  closeAge,       \* time(NULL) - close_time: 0 up to 2 s, 1 more, 2 CloseDelay
  restartReq      \* restart_connection

loopVars == <<pc, wanUp, needed, closeReq, closeAge, restartReq>>
unitcommVars == <<vars, loopVars>>

UnitInit ==
  /\ Init
  /\ pc = "wait"
  /\ wanUp \in BOOLEAN
  /\ needed = FALSE
  /\ closeReq = FALSE /\ closeAge = 0 /\ restartReq = FALSE

Goto(from, then) == pc = from /\ pc' = then

\* The blocks of a pass that are still to come.
LastBlock == IF needed THEN "select" ELSE "end"
PumpBlock == IF commands' # {} THEN "pump" ELSE LastBlock
RestartBlock == IF restartReq' THEN "restart" ELSE PumpBlock
CloseBlock == IF closeReq' THEN "close" ELSE RestartBlock

-----------------------------------------------------------------------------
\* main: a session begins.  A new WAN takes longer than a frame of the last one.
BeginSession ==
  /\ Goto("wait", "select")
  /\ wanUp /\ needed
  /\ Patient => toServer = {} /\ toUnit = {}
  /\ OpenConnection
  /\ UNCHANGED <<wanUp, needed, closeReq, closeAge, restartReq>>

\* Whatever event_logger passes that is not already on its way.
PassEvent ==
  \E e \in Events \ acked :
    /\ event # e
    /\ ~(outstanding /\ lastFrame.body = EventBody(e))
    /\ SendEvent(e)

\* A datagram is ready.
FramePass ==
  /\ Goto("select", "event")
  /\ wanUp
  /\ RecvFrame
  /\ UNCHANGED <<wanUp, needed, closeReq, closeAge, restartReq>>

\* An event is ready, alone or after a datagram.
EventPass ==
  /\ pc \in {"select", "event"}
  /\ pc = "select" => wanUp
  /\ PassEvent
  /\ UNCHANGED <<wanUp, needed, closeReq, closeAge, restartReq>>
  /\ pc' = CloseBlock

\* select timed out and the timer of the connection has expired.
TimeoutPass ==
  /\ pc = "select"
  /\ wanUp
  /\ ProcessTimeout
  /\ UNCHANGED <<wanUp, needed, closeReq, closeAge, restartReq>>
  /\ pc' = CloseBlock

\* select timed out with nothing to do, or no event followed a datagram.
QuietPass ==
  /\ (pc = "select" /\ wanUp) \/ pc = "event"
  /\ UNCHANGED <<vars, wanUp, needed, closeReq, closeAge, restartReq>>
  /\ pc' = CloseBlock

\* !wanUp() after select.
WanLost ==
  /\ Goto("select", "end")
  /\ ~wanUp
  /\ UNCHANGED <<vars, wanUp, needed, closeReq, closeAge, restartReq>>

-----------------------------------------------------------------------------
\* Mutant of CloseDelayed: the request is dropped without a report.
CloseDelayedSilent ==
  /\ Goto("close", "close2")
  /\ closeReq' = (closeAge # 2)
  /\ UNCHANGED <<vars, wanUp, needed, closeAge, restartReq>>

\* CloseDelay has passed: monitor is told, and the request is over, but this
\* pass goes on with the rest of the chain.
CloseDelayed ==
  /\ Goto("close", "close2")
  /\ IF closeAge = 2 THEN ReportClosed /\ closeReq' = FALSE
     ELSE UNCHANGED <<vars, closeReq>>
  /\ UNCHANGED <<wanUp, needed, closeAge, restartReq>>

\* Mutant of CloseChain: the outstanding frame is not waited for.
CloseChainEager ==
  /\ pc = "close2"
  /\ \/ /\ closed
        /\ ReportClosed
        /\ closeReq' = FALSE
     \/ /\ ~closed /\ state # "CLOSING" /\ closeAge > 0
        /\ CloseConnection
        /\ UNCHANGED closeReq
     \/ /\ ~closed /\ (state = "CLOSING" \/ closeAge = 0)
        /\ UNCHANGED <<vars, closeReq>>
  /\ closeAge' = IF closeReq' THEN closeAge ELSE 0
  /\ UNCHANGED <<wanUp, needed, restartReq>>
  /\ pc' = RestartBlock

CloseChain ==
  /\ pc = "close2"
  /\ \/ /\ outstanding
        /\ closeAge' = 0
        /\ UNCHANGED <<vars, closeReq>>
     \/ /\ ~outstanding /\ closed
        /\ ReportClosed
        /\ closeReq' = FALSE
        /\ closeAge' = 0
     \/ /\ ~outstanding /\ ~closed /\ state # "CLOSING" /\ closeAge > 0
        /\ CloseConnection
        /\ closeAge' = IF closeReq THEN closeAge ELSE 0
        /\ UNCHANGED closeReq
     \/ /\ ~outstanding /\ ~closed /\ (state = "CLOSING" \/ closeAge = 0)
        /\ closeAge' = IF closeReq THEN closeAge ELSE 0
        /\ UNCHANGED <<vars, closeReq>>
  /\ UNCHANGED <<wanUp, needed, restartReq>>
  /\ pc' = RestartBlock

\* restart_connection: _restartConnection does nothing in STARTUP.
RestartPass ==
  /\ pc = "restart"
  /\ IF state # "STARTUP" THEN RestartConnection ELSE UNCHANGED vars
  /\ restartReq' = FALSE
  /\ UNCHANGED <<wanUp, needed, closeReq, closeAge>>
  /\ pc' = PumpBlock

\* The pump sends one line at most, for the first that is sent is
\* outstanding.
PumpPass ==
  /\ Goto("pump", LastBlock)
  /\ (\E c \in commands : SendLine(c)) \/ UNCHANGED vars
  /\ UNCHANGED <<wanUp, needed, closeReq, closeAge, restartReq>>

\* Mutant of EndSession: the connection is left as it is.
EndSessionOpen ==
  /\ Goto("end", "wait")
  /\ session' = FALSE
  /\ UNCHANGED <<state, sendseq, dataVars, timer, resend, closed, chooseVars,
                 fileVars, commState, commands, acked, netVars, peerVars,
                 wanUp, needed, closeReq, closeAge, restartReq>>

\* close_comm_requested and restart_connection stay for the next session.
EndSession ==
  /\ Goto("end", "wait")
  /\ ClearConnection
  /\ UNCHANGED <<wanUp, needed, closeReq, closeAge, restartReq>>

-----------------------------------------------------------------------------
\* on_hup
Hup ==
  /\ "close" \in Calls
  /\ ~closeReq
  /\ closeReq' = TRUE
  /\ closeAge' = 0
  /\ UNCHANGED <<vars, pc, wanUp, needed, restartReq>>

\* on_usr1
Usr1 ==
  /\ "restart" \in Calls
  /\ restartReq' = TRUE
  /\ UNCHANGED <<vars, pc, wanUp, needed, closeReq, closeAge>>

Tick ==
  /\ closeReq /\ closeAge < 2
  /\ closeAge' = closeAge + 1
  /\ UNCHANGED <<vars, pc, wanUp, needed, closeReq, restartReq>>

\* The process dies and is started again.
Die ==
  /\ "crash" \in Calls
  /\ StartProcess
  /\ pc' = "wait"
  /\ closeReq' = FALSE /\ closeAge' = 0 /\ restartReq' = FALSE
  /\ UNCHANGED <<wanUp, needed>>

\* monitor brings the WAN up, asks for a session, and takes both back.
Wan ==
  /\ \/ wanUp' = TRUE /\ UNCHANGED needed
     \/ needed' = TRUE /\ UNCHANGED wanUp
     \/ "clear" \in Calls /\ wanUp' = FALSE /\ UNCHANGED needed
     \/ "clear" \in Calls /\ needed' = FALSE /\ UNCHANGED wanUp
  /\ UNCHANGED <<vars, pc, closeReq, closeAge, restartReq>>

\* When a frame is lost cannot be told apart while unitcomm does not look.
Outside ==
  /\ \/ ServerStep
     \/ \E s \in Servers : ServerSays(s)
     \/ pc \in {"wait", "select"} /\ Lose
  /\ UNCHANGED loopVars

LoopStep ==
  \/ BeginSession \/ FramePass \/ EventPass \/ TimeoutPass \/ QuietPass
  \/ WanLost \/ CloseDelayed \/ CloseChain \/ RestartPass \/ PumpPass
  \/ EndSession

UnitNext == LoopStep \/ Hup \/ Usr1 \/ Tick \/ Die \/ Wan \/ Outside

UnitSpec == UnitInit /\ [][UnitNext]_unitcommVars

-----------------------------------------------------------------------------
(***************************************************************************)
(* Fairness: unitcomm keeps running its loop and no input that is ready    *)
(* again and again is overlooked for ever; time passes; no frame outlives  *)
(* the wait for a session; the rest is the fairness of ServerLink.         *)
(***************************************************************************)
UnitFairness ==
  /\ WF_unitcommVars(LoopStep)
  /\ WF_unitcommVars(Tick)
  /\ WF_unitcommVars(pc = "wait" /\ Outside /\ Lose)
  /\ SF_unitcommVars(TimeoutPass)
  /\ SF_unitcommVars(FramePass)
  /\ WF_unitcommVars(ServerStep /\ UNCHANGED loopVars)
  /\ SF_unitcommVars(FramePass /\ \E m \in toUnit : RecvOpen(m))
  /\ SF_unitcommVars(FramePass /\ \E m \in toUnit : RecvAck(m))
  /\ SF_unitcommVars(Outside /\ \E m \in toServer : ServerOpen(m))
  /\ SF_unitcommVars(Outside /\ \E m \in toServer : ServerOpened(m))
  /\ SF_unitcommVars(Outside /\ \E m \in toServer : ServerData(m) /\ toUnit' # toUnit)

LiveUnitSpec == UnitSpec /\ UnitFairness

-----------------------------------------------------------------------------
(* Properties.  Spec itself is one: the main loop only ever does to the link *)
(* what ServerLink allows, so what holds of ServerLink holds here.           *)

UnitTypeOK ==
  /\ pc \in {"wait", "select", "event", "close", "close2", "restart", "pump", "end"}
  /\ wanUp \in BOOLEAN /\ needed \in BOOLEAN
  /\ closeReq \in BOOLEAN /\ restartReq \in BOOLEAN
  /\ closeAge \in 0 .. 2
  /\ session <=> pc # "wait"

\* The WAN stays and monitor wants the session, after whatever sessions.
Stays == <>[](wanUp /\ needed)

\* monitor waits for CommStateFile to say Closed before it takes the WAN away:
\* a close request is answered, also one that was made in an earlier session or
\* between two of them, if the handshake gets no answer or the server was never
\* reached, once what is outstanding is taken.
CloseAnswered == Stays => (closeReq ~> commState = "Closed")

\* An event that was sent is acknowledged in the end, whatever frames are
\* lost on the way, sessions ended before and close requests come meanwhile:
\* retransmission and, after UpRetrys of them, a new handshake (_upTimeout,
\* _restartConnection), and no close over an outstanding frame.
Delivered ==
  \A e \in Events :
    Stays => ((outstanding /\ lastFrame.body = EventBody(e)) ~> (e \in acked))
=============================================================================
