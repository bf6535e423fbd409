----------------------------- MODULE ServerLink -----------------------------
(***************************************************************************)
(* The link between the unit and its TruManager server: class Connection   *)
(* of unitcomm for connections[0], the server it talks to, and the UDP     *)
(* path between them.                                                      *)
(*                                                                         *)
(* The unit sends one DATA frame at a time (an event, or a line of output  *)
(* of a command the server started) and repeats it until the ACK with the  *)
(* next sequence number arrives.  The public methods of the class are      *)
(* actions of their own; module UnitComm says when the main loop calls     *)
(* them.  A reader of the state needs no clock: timer says whether         *)
(* _timerval is set, and an armed timer may fire at any moment.            *)
(*                                                                         *)
(* Left out: PING, PING_ACK, CONFIG and COMMAND_ACK frames that change no  *)
(* state of the receiver, the features and the version an OPEN carries,    *)
(* and _recvseq, which the unit writes and never reads.                    *)
(***************************************************************************)
EXTENDS Naturals, FiniteSets, Sequences

CONSTANTS
  Events,         \* the events event_logger may pass
  NoEvent,        \* _event == ""
  CmdIds,         \* command ids the server uses
  NumLines,       \* lines of output of a command, "<<EOF>>" included
  Servers,        \* server names; each resolves to an address of its own
  NoAddr,         \* _dstip == ""
  Lists,          \* server lists: the configured one and those of REDIRECT
  SeqMod,         \* sequence numbers are 0 .. SeqMod-1 (65536 in the code)
  Isns,           \* the sequence numbers a server may put in OPEN
  SessionLen,     \* bound: DATA frames a server takes per OPEN
  Cap,            \* bound: frames in flight in each direction
  Duplicable,     \* the types of frame the network may deliver twice
  StartupRetrys, FirstRetrys, UpRetrys, CloseRetrys,
  PingInterval,   \* _ping_interval != 0
  DnsMayFail,     \* resolvedns may answer nothing
  Patient,        \* a timer runs longer than a frame is on its way
  Calls           \* which calls and server initiatives the model explores

ASSUME LinkConstants ==
  /\ NoEvent \notin Events
  /\ NoAddr \notin Servers
  /\ NumLines \in Nat \ {0}
  /\ SeqMod \in Nat \ {0}
  /\ Isns \subseteq Nat
  /\ SessionLen \in Nat /\ SessionLen + 1 < SeqMod
  /\ Cap \in Nat
  /\ {StartupRetrys, FirstRetrys, UpRetrys, CloseRetrys} \subseteq Nat
  /\ {PingInterval, DnsMayFail, Patient} \subseteq BOOLEAN
  /\ Lists \subseteq {<<s>> : s \in Servers} \cup (Servers \X Servers)
  /\ Lists # {}

Seqs == 0 .. SeqMod - 1

\* _incSeq.  Seq is a long on the wire: a number behind the range becomes 0.
Inc(seq) == IF seq + 1 > SeqMod - 1 THEN 0 ELSE seq + 1

EventBody(e) == [kind |-> "event", what |-> e]
LineBody(id, n) == [kind |-> "line", what |-> <<id, n>>]
NoBody == [kind |-> "none", what |-> NoEvent]

Bodies == [kind : {"event"}, what : Events]
            \cup [kind : {"line"}, what : CmdIds \X (1 .. NumLines)]

\* What _last_frame keeps, the entries of commands, the ends of the servers.
KeptFrames == [seq : Seqs, body : Bodies \cup {NoBody}]
CommandInfos == [id : CmdIds, srv : Servers, read : 0 .. NumLines - 1]
ServerEnds == [st : {"closed", "opening", "open"}, isn : Isns \cup {0}, next : Seqs]

\* Frames for the server and frames for the unit.  srv is the address the
\* frame is sent to, or comes from.
ServerFrames ==
  [type : {"OPEN_REQ", "OPEN_ACK", "CLOSE", "CLOSE_ACK"}, srv : Servers]
    \cup [type : {"COMMAND_ACK"}, srv : Servers, id : CmdIds]
    \cup [type : {"DATA"}, srv : Servers, seq : Seqs, body : Bodies]

UnitFrames ==
  [type : {"OPEN"}, srv : Servers, seq : Isns]
    \cup [type : {"ACK"}, srv : Servers, seq : Seqs]
    \cup [type : {"COMMAND", "KILL"}, srv : Servers, id : CmdIds]
    \cup [type : {"RESTART", "CLOSE", "CLOSE_ACK"}, srv : Servers]
    \cup [type : {"REDIRECT"}, srv : Servers, list : Lists]

Simple(t, s) == [type |-> t, srv |-> s]
Data(s, q, b) == [type |-> "DATA", srv |-> s, seq |-> q, body |-> b]

\* Class Connection, connections[0], and the files it keeps.
VARIABLES
  session,        \* main is inside handleConnections
  state,          \* _state
  sendseq,        \* _sendseq
  outstanding,    \* _outstanding_packets
  lastFrame,      \* _last_frame: its sequence number and its content
  lastWasEvent,   \* _last_data_was_event
  event,          \* _event, the one event that waits for its turn
  timer,          \* _timerval > 0
  resend,         \* _resend_counter
  closed,         \* _closed
  servers,        \* _servers and _num_servers, equal to unit.v1-servers
  serverIdx,      \* _server_idx
  firstServer,    \* _first_server
  dst,            \* _dstip
  to,             \* the address in _to
  idxFile,        \* the number in ServerIdxFile, 0 when there is none
  secFile,        \* SecondaryConnectedFile exists
  commState,      \* CommStateFile
  commands        \* the vector commands: id, server, lines already read

\* The servers, the network, and what is remembered to state properties.
VARIABLES
  srv,            \* a server's end of the connection
  cmdAcked,       \* commands whose COMMAND_ACK has reached the server
  toServer, toUnit,
  got,            \* content of the DATA frames the server has taken
  acked           \* events acknowledged to event_logger with a newline

fileVars == <<idxFile, secFile>>
chooseVars == <<servers, serverIdx, firstServer, dst, to>>
dataVars == <<outstanding, lastFrame, lastWasEvent, event>>
unitVars == <<session, state, sendseq, dataVars, timer, resend, closed,
              chooseVars, fileVars, commState, commands, acked>>
netVars == <<toServer, toUnit>>
peerVars == <<srv, cmdAcked, got>>
vars == <<unitVars, netVars, peerVars>>

-----------------------------------------------------------------------------
\* The network.  Frames may overtake each other; beyond Cap they are lost.
Put(net, ms) == IF Cardinality(net \cup ms) <= Cap THEN net \cup ms ELSE net

\* What is left in flight once m is delivered.
Taken(net, m) ==
  {net \ {m}} \cup (IF m.type \in Duplicable THEN {net} ELSE {})

\* _send: datagrams to the address in _to, if it was ever set.
Send(addr, ms) ==
  toServer' = IF addr \in Servers THEN Put(toServer, ms) ELSE toServer

-----------------------------------------------------------------------------
(***************************************************************************)
(* Server selection: _setServerName, _setServerIp, _readServerIdx,         *)
(* _incServerIdx.                                                          *)
(***************************************************************************)
Name(list, idx) == IF idx < Len(list) THEN list[idx + 1] ELSE NoAddr

\* Mutant of NextIdx: the last server of the list is never left.
NextIdxLast == IF serverIdx + 1 >= Len(servers) THEN serverIdx ELSE serverIdx + 1

NextIdx == IF serverIdx + 1 >= Len(servers) THEN 0 ELSE serverIdx + 1

\* Mutant of UpdateServerIdx: the file is not removed for index 0.
UpdateServerIdxKept(idx) == idxFile' = IF idx = 0 THEN idxFile ELSE idx

\* _updateServerIdx: no file stands for index 0.
UpdateServerIdx(idx) == idxFile' = idx

\* _setServerIp: a name that does not resolve leaves _to as it was.
Resolve(name) ==
  \/ /\ name \in Servers
     /\ dst' = name
     /\ to' = name
  \/ /\ DnsMayFail \/ name \notin Servers
     /\ dst' = NoAddr
     /\ to' = to

\* if (_dstip != "") { _recvseq = random(); _sendOpenReq(); }
AskToOpen == Send(dst', {Simple("OPEN_REQ", dst')})

\* Mutant of Reopen: the timer is left as processTimeout cleared it.
ReopenUntimed ==
  /\ UNCHANGED <<dst, to>>
  /\ Send(to, {Simple("OPEN_REQ", to)})
  /\ state' = "STARTUP"
  /\ resend' = 0
  /\ timer' = FALSE

\* _restartConnection for a state other than STARTUP.
Reopen ==
  /\ UNCHANGED <<dst, to>>
  /\ Send(to, {Simple("OPEN_REQ", to)})
  /\ state' = "STARTUP"
  /\ resend' = 0
  /\ timer' = TRUE

\* The unit takes frame m of the server it talks to.
Receive(m, t) ==
  /\ session
  /\ m.type = t
  /\ m.srv = dst
  /\ toUnit' \in Taken(toUnit, m)

\* processTimeout: _timerval is set and has passed.
Expired == session /\ timer /\ (Patient => toServer = {} /\ toUnit = {})

-----------------------------------------------------------------------------
\* Mutant of StartData: the kept frame keeps its old number.
StartDataOldSeq(q, b, more) ==
  /\ Send(to, {Data(to, q, b)} \cup more)
  /\ lastFrame' = [lastFrame EXCEPT !.body = b]
  /\ outstanding' = TRUE
  /\ timer' = TRUE
  /\ resend' = 0

\* _sendEvent and _sendCommandData: send a DATA frame and keep it.
StartData(q, b, more) ==
  /\ Send(to, {Data(to, q, b)} \cup more)
  /\ lastFrame' = [seq |-> q, body |-> b]
  /\ outstanding' = TRUE
  /\ timer' = TRUE
  /\ resend' = 0

\* _startupProcessFrame, OPEN.
RecvOpen(m) ==
  /\ state = "STARTUP"
  /\ Receive(m, "OPEN")
  /\ state' = "UP"
  /\ sendseq' = Inc(m.seq)
  /\ commState' = "Connected"
  /\ secFile' = (serverIdx # 0)
  /\ UpdateServerIdx(serverIdx)
  /\ firstServer' = FALSE
  /\ \/ /\ outstanding
        /\ StartData(sendseq', lastFrame.body, {Simple("OPEN_ACK", to)})
        /\ UNCHANGED <<lastWasEvent, event>>
     \/ /\ ~outstanding
        /\ event # NoEvent
        /\ StartData(sendseq', EventBody(event), {Simple("OPEN_ACK", to)})
        /\ lastWasEvent' = TRUE
        /\ event' = NoEvent
     \/ /\ ~outstanding
        /\ event = NoEvent
        /\ Send(to, {Simple("OPEN_ACK", to)})
        /\ timer' = PingInterval
        /\ UNCHANGED <<dataVars, resend>>
  /\ UNCHANGED <<session, closed, servers, serverIdx, dst, to, commands,
                 acked, peerVars>>

\* _startupProcessFrame, REDIRECT: the new list replaces the configured one.
RecvRedirect(m) ==
  /\ state = "STARTUP"
  /\ Receive(m, "REDIRECT")
  /\ servers' = m.list
  /\ serverIdx' = 0
  /\ UpdateServerIdx(0)
  /\ Resolve(Name(m.list, 0))
  /\ AskToOpen
  /\ resend' = 0
  /\ timer' = TRUE
  /\ UNCHANGED <<session, state, sendseq, dataVars, closed, firstServer,
                 secFile, commState, commands, acked, peerVars>>

\* _startupTimeout: ask again, and after max_retrys try the other server.
StartupTimeout ==
  /\ Expired /\ state = "STARTUP"
  /\ \/ /\ resend < (IF firstServer THEN FirstRetrys ELSE StartupRetrys)
        /\ \/ dst = NoAddr /\ Resolve(Name(servers, serverIdx))
           \/ dst # NoAddr /\ UNCHANGED <<dst, to>>
        /\ resend' = resend + 1
        /\ UNCHANGED <<serverIdx, firstServer>>
     \/ /\ resend >= (IF firstServer THEN FirstRetrys ELSE StartupRetrys)
        /\ serverIdx' = IF firstServer THEN idxFile ELSE NextIdx
        /\ Resolve(Name(servers, serverIdx'))
        /\ resend' = 0
        /\ firstServer' = FALSE
  /\ AskToOpen
  /\ timer' = TRUE
  /\ UNCHANGED <<session, state, sendseq, dataVars, closed, servers, fileVars,
                 commState, commands, acked, toUnit, peerVars>>

\* Mutant of AckMatches: the number is not compared.
AckMatchesAny(m) == m.seq \in Seqs

\* _processAck
AckMatches(m) == m.seq = Inc(sendseq)

\* _upProcessFrame, ACK.  The newline tells event_logger to drop the event.
RecvAck(m) ==
  /\ state = "UP"
  /\ Receive(m, "ACK")
  /\ AckMatches(m)
  /\ sendseq' = Inc(sendseq)
  /\ acked' = IF lastWasEvent THEN acked \cup {lastFrame.body.what} ELSE acked
  /\ \/ /\ event # NoEvent
        /\ StartData(sendseq', EventBody(event), {})
        /\ lastWasEvent' = TRUE
        /\ event' = NoEvent
     \/ /\ event = NoEvent
        /\ outstanding' = FALSE
        /\ lastWasEvent' = FALSE
        /\ timer' = PingInterval
        /\ UNCHANGED <<event, lastFrame, resend, toServer>>
  /\ UNCHANGED <<session, state, closed, chooseVars, fileVars, commState,
                 commands, peerVars>>

\* Mutant of Listed: a command is not found once a line of it was read.
ListedUnread(id) == \E c \in commands : c.id = id /\ c.srv = dst /\ c.read = 0

\* findCommand for the address of the connection.
Listed(id) == \E c \in commands : c.id = id /\ c.srv = dst

\* _upProcessFrame, COMMAND: a command already in the list is only
\* acknowledged again, any other one is started.
RecvCommand(m) ==
  /\ state = "UP"
  /\ Receive(m, "COMMAND")
  /\ commands' = IF Listed(m.id) THEN commands
                 ELSE commands \cup {[id |-> m.id, srv |-> dst, read |-> 0]}
  /\ Send(to, {[type |-> "COMMAND_ACK", srv |-> to, id |-> m.id]})
  /\ UNCHANGED <<session, state, sendseq, dataVars, timer, resend, closed,
                 chooseVars, fileVars, commState, acked, peerVars>>

\* _upProcessFrame, COMMAND with CommandKill.
RecvKill(m) ==
  /\ state = "UP"
  /\ Receive(m, "KILL")
  /\ Listed(m.id)
  /\ commands' = {c \in commands : ~(c.id = m.id /\ c.srv = dst)}
  /\ Send(to, {[type |-> "COMMAND_ACK", srv |-> to, id |-> m.id]})
  /\ UNCHANGED <<session, state, sendseq, dataVars, timer, resend, closed,
                 chooseVars, fileVars, commState, acked, peerVars>>

\* _upProcessFrame, RESTART.  CommStateFile keeps saying "Connected".
RecvRestart(m) ==
  /\ state = "UP"
  /\ Receive(m, "RESTART")
  /\ Reopen
  /\ UNCHANGED <<session, sendseq, dataVars, closed, servers, serverIdx,
                 firstServer, fileVars, commState, commands, acked, peerVars>>

\* _upProcessFrame, CLOSE: neither _closed nor _timerval changes.
RecvClose(m) ==
  /\ state = "UP"
  /\ Receive(m, "CLOSE")
  /\ Send(to, {Simple("CLOSE_ACK", to)})
  /\ state' = "DOWN"
  /\ UNCHANGED <<session, sendseq, dataVars, timer, resend, closed,
                 chooseVars, fileVars, commState, commands, acked, peerVars>>

\* _upTimeout: repeat the outstanding frame, or give the connection up and
\* open it again (_reopenConnection holds for connections[0]); else ping.
UpTimeout ==
  /\ Expired /\ state = "UP"
  /\ \/ /\ outstanding
        /\ resend < UpRetrys
        /\ Send(to, {Data(to, lastFrame.seq, lastFrame.body)})
        /\ resend' = resend + 1
        /\ timer' = TRUE
        /\ UNCHANGED <<state, dst, to, commState>>
     \/ /\ outstanding
        /\ resend >= UpRetrys
        /\ commState' = "Connecting"
        /\ Reopen
     \/ /\ ~outstanding
        /\ timer' = PingInterval
        /\ UNCHANGED <<state, dst, to, resend, commState, toServer>>
  /\ UNCHANGED <<session, sendseq, dataVars, closed, servers, serverIdx,
                 firstServer, fileVars, commands, acked, toUnit, peerVars>>

\* _closingProcessFrame, CLOSE_ACK.
RecvCloseAck(m) ==
  /\ state = "CLOSING"
  /\ Receive(m, "CLOSE_ACK")
  /\ state' = "DOWN"
  /\ closed' = TRUE
  /\ timer' = FALSE
  /\ UNCHANGED <<session, sendseq, dataVars, resend, chooseVars, fileVars,
                 commState, commands, acked, toServer, peerVars>>

\* _closingTimeout
ClosingTimeout ==
  /\ Expired /\ state = "CLOSING"
  /\ \/ /\ resend < CloseRetrys
        /\ Send(to, {Simple("CLOSE", to)})
        /\ resend' = resend + 1
        /\ UNCHANGED <<state, timer, closed>>
     \/ /\ resend >= CloseRetrys
        /\ state' = "DOWN"
        /\ timer' = FALSE
        /\ closed' = TRUE
        /\ UNCHANGED <<resend, toServer>>
  /\ UNCHANGED <<session, sendseq, dataVars, chooseVars, fileVars, commState, commands, acked, toUnit, peerVars>>

\* _downTimeout: processTimeout has cleared _timerval, nothing else happens.
DownTimeout ==
  /\ Expired /\ state = "DOWN"
  /\ timer' = FALSE
  /\ UNCHANGED <<session, state, sendseq, dataVars, resend, closed, chooseVars,
                 fileVars, commState, commands, acked, netVars, peerVars>>

\* A frame of another address, of a type its state does not handle, an ACK
\* with another number, a kill of a command that is not listed.
Ignored(m) ==
  \/ m.srv # dst
  \/ /\ state = "STARTUP" /\ m.type \notin {"OPEN", "REDIRECT"}
  \/ /\ state = "UP" /\ m.type \notin {"ACK", "COMMAND", "KILL", "RESTART", "CLOSE"}
  \/ /\ state = "UP" /\ m.type = "ACK" /\ ~AckMatches(m)
  \/ /\ state = "UP" /\ m.type = "KILL" /\ ~Listed(m.id)
  \/ /\ state = "CLOSING" /\ m.type # "CLOSE_ACK"
  \/ state = "DOWN"

RecvIgnored(m) ==
  /\ session
  /\ Ignored(m)
  /\ toUnit' = toUnit \ {m}
  /\ UNCHANGED <<unitVars, toServer, peerVars>>

-----------------------------------------------------------------------------
(***************************************************************************)
(* The public methods of connections[0], as the main loop calls them.      *)
(***************************************************************************)

\* main writes "Connecting" and handleConnections calls openConnection.
OpenConnection ==
  /\ ~session
  /\ session' = TRUE
  /\ state' = "STARTUP"
  /\ closed' = FALSE
  /\ resend' = 0
  /\ timer' = TRUE
  /\ commState' = "Connecting"
  /\ serverIdx' = IF firstServer THEN 0 ELSE idxFile
  /\ Resolve(Name(servers, serverIdx'))
  /\ AskToOpen
  /\ UNCHANGED <<sendseq, dataVars, servers, firstServer, fileVars, commands,
                 acked, toUnit, peerVars>>

\* The end of handleConnections: the commands are killed and forgotten and
\* the connection is cleared; main then writes "NoWAN".  An outstanding
\* frame and a waiting event stay for the next session.
ClearConnection ==
  /\ session
  /\ session' = FALSE
  /\ state' = "DOWN"
  /\ closed' = TRUE
  /\ timer' = FALSE
  /\ commands' = {}
  /\ commState' = "NoWAN"
  /\ UNCHANGED <<sendseq, dataVars, resend, chooseVars, fileVars, acked,
                 netVars, peerVars>>

\* closeConnection, in whatever state the connection is.
CloseConnection ==
  /\ session
  /\ state' = "CLOSING"
  /\ resend' = 0
  /\ timer' = TRUE
  /\ Send(to, {Simple("CLOSE", to)})
  /\ UNCHANGED <<session, sendseq, dataVars, closed, chooseVars, fileVars, commState, commands, acked,
                 toUnit, peerVars>>

\* restartConnection, after SIGUSR1; _closed stays as it was.
RestartConnection ==
  /\ session
  /\ state # "STARTUP"
  /\ Reopen
  /\ UNCHANGED <<session, sendseq, dataVars, closed, servers, serverIdx,
                 firstServer, fileVars, commState, commands, acked, toUnit,
                 peerVars>>

\* Mutant of Idle: a frame that waits for its ACK does not matter.
IdleUp == state = "UP"

\* The test of sendEvent, sendCommandData and the command pump.
Idle == state = "UP" /\ ~outstanding

\* sendEvent: now if nothing is outstanding, else when its turn comes; a
\* second event that has to wait replaces the first.
SendEvent(e) ==
  /\ session
  /\ \/ /\ Idle
        /\ event' = event
        /\ StartData(sendseq, EventBody(e), {})
        /\ lastWasEvent' = TRUE
     \/ /\ ~Idle
        /\ event' = e
        /\ UNCHANGED <<outstanding, lastFrame, lastWasEvent, timer, resend,
                       toServer>>
  /\ UNCHANGED <<session, state, sendseq, closed, chooseVars, fileVars, commState, commands, acked,
                 toUnit, peerVars>>

\* Mutant of SendLine: the line is read before the connection is asked.
SendLineLossy(c) ==
  /\ session
  /\ c.srv = dst
  /\ \/ Idle /\ StartData(sendseq, LineBody(c.id, c.read + 1), {})
     \/ ~Idle /\ UNCHANGED <<outstanding, lastFrame, timer, resend, toServer>>
  /\ commands' = (commands \ {c}) \cup
                   (IF c.read + 1 < NumLines
                    THEN {[c EXCEPT !.read = c.read + 1]} ELSE {})
  /\ UNCHANGED <<session, state, sendseq, lastWasEvent, event, closed, chooseVars,
                 fileVars, commState, acked, toUnit, peerVars>>

\* The command pump of handleConnections: the next line of command c, if its
\* process has written one; the command is forgotten with its last line.
SendLine(c) ==
  /\ session
  /\ c.srv = dst
  /\ Idle
  /\ StartData(sendseq, LineBody(c.id, c.read + 1), {})
  /\ commands' = (commands \ {c}) \cup
                   (IF c.read + 1 < NumLines
                    THEN {[c EXCEPT !.read = c.read + 1]} ELSE {})
  /\ UNCHANGED <<session, state, sendseq, lastWasEvent, event, closed, chooseVars,
                 fileVars, commState, acked, toUnit, peerVars>>

\* The close logic of handleConnections reports to monitor.
ReportClosed ==
  /\ session
  /\ commState' = "Closed"
  /\ UNCHANGED <<session, state, sendseq, dataVars, timer, resend, closed,
                 chooseVars, fileVars, commands, acked, netVars, peerVars>>

\* unitcomm dies and respawner starts it again.  setFirstServer prefers the
\* first server unless the unit was connected to the second within 4 hours.
StartProcess ==
  /\ session' = FALSE
  /\ state' = "DOWN"
  /\ sendseq' = 0
  /\ outstanding' = FALSE
  /\ lastFrame' = [seq |-> 0, body |-> NoBody]
  /\ lastWasEvent' = FALSE
  /\ event' = NoEvent
  /\ timer' = FALSE
  /\ resend' = 0
  /\ closed' = FALSE
  /\ serverIdx' = idxFile
  /\ \E recent \in BOOLEAN :
       /\ firstServer' = (idxFile # 0 /\ ~(secFile /\ recent))
       /\ secFile' = (secFile /\ ~firstServer')
  /\ dst' = NoAddr
  /\ to' = NoAddr
  /\ commState' = "NoWAN"
  /\ commands' = {}
  /\ UNCHANGED <<servers, idxFile, acked, netVars, peerVars>>

-----------------------------------------------------------------------------
(***************************************************************************)
(* The servers (not part of the repository).  They answer as the unit      *)
(* itself does when it is asked to open a connection: every OPEN_REQ gets  *)
(* an OPEN with a new number, OPEN_ACK completes the handshake, the next   *)
(* DATA frame is taken and acknowledged, the previous one acknowledged     *)
(* again.  A new number is drawn at random: the model takes it from those  *)
(* whose session shares no number with a frame still in flight, nor the    *)
(* number before its first one, whose frame would pass for a repetition.   *)
(***************************************************************************)
Offset(isn, seq) ==
  IF seq >= Inc(isn) THEN seq - Inc(isn) ELSE seq + SeqMod - Inc(isn)

InWindow(isn, seq) ==
  Offset(isn, seq) <= SessionLen + 1 \/ Offset(isn, seq) = SeqMod - 1

InUse == {Inc(m.seq) : m \in {f \in toUnit : f.type = "OPEN"}}
           \cup {m.seq : m \in {f \in toUnit : f.type = "ACK"}}
           \cup {m.seq : m \in {f \in toServer : f.type = "DATA"}}
           \cup (IF state = "UP" THEN {sendseq} ELSE {})

ServerTakes(m, t) ==
  /\ m.type = t
  /\ toServer' \in Taken(toServer, m)
  /\ UNCHANGED unitVars

ServerOpen(m) ==
  /\ ServerTakes(m, "OPEN_REQ")
  /\ \E isn \in Isns :
       /\ \A seq \in InUse : ~InWindow(isn, seq)
       /\ toUnit' = Put(toUnit, {[type |-> "OPEN", srv |-> m.srv, seq |-> isn]})
       /\ srv' = [srv EXCEPT ![m.srv] =
                    [st |-> "opening", isn |-> isn, next |-> Inc(isn)]]
  /\ UNCHANGED <<cmdAcked, got>>

ServerRedirect(m) ==
  /\ "redirect" \in Calls
  /\ ServerTakes(m, "OPEN_REQ")
  /\ \E list \in Lists : toUnit' =
       Put(toUnit, {[type |-> "REDIRECT", srv |-> m.srv, list |-> list]})
  /\ UNCHANGED peerVars

ServerOpened(m) ==
  /\ ServerTakes(m, "OPEN_ACK")
  /\ srv' = IF srv[m.srv].st = "opening"
            THEN [srv EXCEPT ![m.srv].st = "open"] ELSE srv
  /\ UNCHANGED <<toUnit, cmdAcked, got>>

AckFrame(s, q) == [type |-> "ACK", srv |-> s, seq |-> q]

ServerData(m) ==
  /\ ServerTakes(m, "DATA")
  /\ LET s == srv[m.srv]
         new == /\ s.st = "open" /\ m.seq = s.next
                /\ Offset(s.isn, s.next) < SessionLen
         again == s.st = "open" /\ Inc(m.seq) = s.next
     IN /\ toUnit' = IF new \/ again
                     THEN Put(toUnit, {AckFrame(m.srv, Inc(m.seq))})
                     ELSE toUnit
        /\ srv' = IF new THEN [srv EXCEPT ![m.srv].next = Inc(m.seq)] ELSE srv
        /\ got' = IF new THEN got \cup {m.body} ELSE got
  /\ UNCHANGED cmdAcked

ServerClosed(m) ==
  /\ \/ ServerTakes(m, "CLOSE") /\ toUnit' = Put(toUnit, {Simple("CLOSE_ACK", m.srv)})
     \/ ServerTakes(m, "CLOSE_ACK") /\ UNCHANGED toUnit
  /\ srv' = [srv EXCEPT ![m.srv].st = "closed"]
  /\ UNCHANGED <<cmdAcked, got>>

ServerCommandAcked(m) ==
  /\ ServerTakes(m, "COMMAND_ACK")
  /\ cmdAcked' = cmdAcked \cup {m.id}
  /\ UNCHANGED <<toUnit, srv, got>>

\* A server sends a command until it is acknowledged, and may kill it, ask
\* for a new handshake or close the connection.
ServerSays(s) ==
  /\ srv[s].st = "open"
  /\ \E m \in UnitFrames :
       /\ m.srv = s
       /\ m.type \in Calls
       /\ m.type \in {"COMMAND", "KILL", "RESTART", "CLOSE"}
       /\ m.type = "COMMAND" => m.id \notin cmdAcked
       /\ toUnit' = Put(toUnit, {m})
       /\ srv' = IF m.type = "CLOSE" THEN [srv EXCEPT ![s].st = "closed"] ELSE srv
  /\ UNCHANGED <<unitVars, toServer, cmdAcked, got>>

\* The network loses a frame.
Lose ==
  /\ UNCHANGED <<unitVars, peerVars>>
  /\ \/ \E m \in toUnit : toUnit' = toUnit \ {m} /\ UNCHANGED toServer
     \/ \E m \in toServer : toServer' = toServer \ {m} /\ UNCHANGED toUnit

-----------------------------------------------------------------------------
Init ==
  /\ session = FALSE /\ state = "DOWN" /\ sendseq = 0
  /\ outstanding = FALSE /\ lastFrame = [seq |-> 0, body |-> NoBody]
  /\ lastWasEvent = FALSE /\ event = NoEvent
  /\ timer = FALSE /\ resend = 0 /\ closed = FALSE
  /\ servers \in Lists
  /\ idxFile \in 0 .. Len(servers) - 1 /\ serverIdx = idxFile
  /\ secFile \in BOOLEAN
  /\ firstServer = (idxFile # 0 /\ ~secFile)
  /\ dst = NoAddr /\ to = NoAddr
  /\ commState = "NoWAN" /\ commands = {}
  /\ srv = [s \in Servers |-> [st |-> "closed", isn |-> 0, next |-> 0]]
  /\ cmdAcked = {} /\ toServer = {} /\ toUnit = {} /\ got = {} /\ acked = {}

RecvFrame ==
  \E m \in toUnit :
    \/ RecvOpen(m)    \/ RecvRedirect(m) \/ RecvAck(m)
    \/ RecvCommand(m) \/ RecvKill(m)     \/ RecvRestart(m)
    \/ RecvClose(m)   \/ RecvCloseAck(m) \/ RecvIgnored(m)

ProcessTimeout == StartupTimeout \/ UpTimeout \/ ClosingTimeout \/ DownTimeout

ServerStep ==
  \E m \in toServer :
    \/ ServerOpen(m)   \/ ServerRedirect(m) \/ ServerOpened(m)
    \/ ServerData(m)   \/ ServerClosed(m)   \/ ServerCommandAcked(m)

MainLoop ==
  \/ OpenConnection
  \/ "clear" \in Calls /\ ClearConnection
  \/ "close" \in Calls /\ (CloseConnection \/ ReportClosed)
  \/ "restart" \in Calls /\ RestartConnection
  \/ "crash" \in Calls /\ StartProcess
  \/ \E e \in Events : SendEvent(e)
  \/ \E c \in commands : SendLine(c)

Next ==
  \/ RecvFrame
  \/ ProcessTimeout
  \/ MainLoop
  \/ ServerStep
  \/ \E s \in Servers : ServerSays(s)
  \/ Lose

Spec == Init /\ [][Next]_vars

-----------------------------------------------------------------------------
(***************************************************************************)
(* Fairness: the main loop runs handleConnections whenever it may, sees    *)
(* every armed timer expire and reads every frame that arrives; a server   *)
(* answers.  The network may lose any frame, but not every one of a kind.  *)
(* SilentSpec has the fairness of the unit alone.                          *)
(***************************************************************************)
OwnFairness ==
  /\ WF_vars(OpenConnection)
  /\ WF_vars(ProcessTimeout)
  /\ WF_vars(RecvFrame)

Fairness ==
  /\ OwnFairness
  /\ WF_vars(ServerStep)
  /\ SF_vars(\E m \in toUnit : RecvOpen(m))
  /\ SF_vars(\E m \in toUnit : RecvAck(m))
  /\ SF_vars(\E m \in toServer : ServerOpen(m))
  /\ SF_vars(\E m \in toServer : ServerOpened(m))
  /\ SF_vars(\E m \in toServer : ServerData(m) /\ toUnit' # toUnit)

SilentSpec == Spec /\ OwnFairness

LiveSpec == Spec /\ Fairness

-----------------------------------------------------------------------------
(* Properties *)

TypeOK ==
  /\ session \in BOOLEAN
  /\ state \in {"STARTUP", "UP", "CLOSING", "DOWN"}
  /\ sendseq \in Seqs
  /\ outstanding \in BOOLEAN
  /\ lastFrame \in KeptFrames
  /\ lastWasEvent \in BOOLEAN
  /\ event \in Events \cup {NoEvent}
  /\ timer \in BOOLEAN
  /\ resend \in Nat
  /\ closed \in BOOLEAN
  /\ servers \in Lists
  /\ serverIdx \in {0, 1}
  /\ firstServer \in BOOLEAN
  /\ dst \in Servers \cup {NoAddr}
  /\ to \in Servers \cup {NoAddr}
  /\ idxFile \in {0, 1}
  /\ secFile \in BOOLEAN
  /\ commState \in {"NoWAN", "Connecting", "Connected", "Closed"}
  /\ commands \subseteq CommandInfos
  /\ srv \in [Servers -> ServerEnds]
  /\ cmdAcked \subseteq CmdIds
  /\ toServer \subseteq ServerFrames
  /\ toUnit \subseteq UnitFrames
  /\ got \subseteq Bodies
  /\ acked \subseteq Events

\* While the connection is up, the frame that waits for its ACK carries the
\* number the next ACK is checked against (_processAck); it was renumbered
\* if the connection was opened again meanwhile.  A newline is owed to
\* event_logger exactly when that frame carries an event and not a line of
\* command output.
StopAndWait ==
  /\ state = "UP" /\ outstanding => lastFrame.seq = sendseq
  /\ lastWasEvent <=> outstanding /\ lastFrame.body.kind = "event"

\* Inside handleConnections, whoever waits for an answer of the server has a
\* timer running: _timerval is cleared before every handler (processTimeout)
\* and each one must set it again.
TimerArmed ==
  session /\ (state \in {"STARTUP", "CLOSING"} \/ (state = "UP" /\ outstanding))
    => timer

\* event_logger is told to drop an event only after the server took it: no
\* reordering, repetition or loss of frames, restart of the connection or
\* line of command output makes the newline of _upProcessFrame come early.
AckedWereTaken == \A e \in acked : EventBody(e) \in got

\* The server gets the output of a command without a gap: the pump reads a
\* line from the file only when it can be sent, and sends the next one only
\* after the ACK, also across a new handshake or session.
LinesInOrder ==
  \A id \in CmdIds : \A n \in 2 .. NumLines :
    LineBody(id, n) \in got => LineBody(id, n - 1) \in got

\* findCommand is unambiguous: a COMMAND that arrives again while the first
\* one is still listed does not start a second process.
CommandsUnique ==
  \A c, d \in commands : c.id = d.id /\ c.srv = d.srv => c = d

\* The server the unit is connected to is the one ServerIdxFile names, so
\* the next session and the next process start with it, and what is sent goes
\* to its address.
ConnectedServerRecorded ==
  state = "UP" => /\ idxFile = serverIdx
                  /\ dst = Name(servers, serverIdx)
                  /\ to = dst

\* A stored index never points behind the list of servers, although the
\* list may be replaced by a shorter one (REDIRECT).
ServerIdxInList == idxFile < Len(servers) /\ serverIdx < Len(servers)

\* The link implements AtLeastOnce as long as the process lives: the item
\* pending there is the content of the outstanding frame.
Promise ==
  INSTANCE AtLeastOnce WITH
    Items <- Bodies, Nothing <- NoBody,
    pending <- IF outstanding THEN lastFrame.body ELSE NoBody,
    taken <- got, done <- {EventBody(e) : e \in acked}

KeepsPromise == Promise!Spec

\* A unit that goes on asking in one session comes to every server of its list
\* again and again, or is connected (_startupTimeout, _incServerIdx), wherever
\* sessions, closes, restarts and deaths of the process left its indexes and
\* its address, also when names do not resolve, once no more REDIRECT changes
\* the list.  It asks that very server, unless its name does not resolve.
Asked(s) == Name(servers, serverIdx) = s /\ dst \in {s, NoAddr}
EveryServerAsked ==
  \A s \in Servers :
    /\ <>[](session /\ state \in {"STARTUP", "UP"})
    /\ <>[][\A m \in toUnit : ~RecvRedirect(m)]_vars
    => []<>(state = "UP" \/ Asked(s) \/ \A i \in 1 .. Len(servers) : servers[i] # s)
=============================================================================
