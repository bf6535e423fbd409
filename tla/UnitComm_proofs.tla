-------------------------- MODULE UnitComm_proofs --------------------------
(***************************************************************************)
(* Theorems about unitcomm, for every value of the constants.  The first   *)
(* three parts are about the link alone (module ServerLink): its types and *)
(* the choice of the server, the numbers of the frames in flight, and the  *)
(* content that is on its way.  The last is about the main loop, which     *)
(* implements the specification of the link, so that every theorem about   *)
(* the link is one about the process.                                      *)
(***************************************************************************)
EXTENDS UnitComm, TLAPS

-----------------------------------------------------------------------------
(* Lemmas about the operators of the model. *)

\* A sequence number that is incremented stays within its range (_incSeq).
LEMMA IncInSeqs == \A n \in Nat : Inc(n) \in Seqs
BY LinkConstants DEF Inc, Seqs

LEMMA SeqsInNat == Seqs \subseteq Nat /\ 0 \in Seqs
BY LinkConstants DEF Seqs

\* The content of DATA frames: events, lines, and what tells them apart.
LEMMA BodyFacts ==
  /\ \A e \in Events : EventBody(e) \in Bodies /\ EventBody(e).kind = "event"
  /\ \A id \in CmdIds : \A n \in 1 .. NumLines :
       LineBody(id, n) \in Bodies /\ LineBody(id, n).kind = "line"
  /\ \A b \in Bodies : b.kind = "event" => b.what \in Events
  /\ NoBody.kind = "none" /\ NoBody \notin Bodies
BY DEF Bodies, EventBody, LineBody, NoBody

\* Every frame the unit builds for an address of a server.
LEMMA FrameFacts ==
  /\ \A t \in {"OPEN_REQ", "OPEN_ACK", "CLOSE", "CLOSE_ACK"}, s \in Servers :
       Simple(t, s) \in ServerFrames
  /\ \A s \in Servers, q \in Seqs, b \in Bodies : Data(s, q, b) \in ServerFrames
  /\ \A s \in Servers, i \in CmdIds :
       [type |-> "COMMAND_ACK", srv |-> s, id |-> i] \in ServerFrames
BY DEF ServerFrames, Simple, Data

\* What a frame for the unit carries, by its type.
LEMMA UnitFrameFacts ==
  ASSUME NEW m \in UnitFrames
  PROVE  /\ m.srv \in Servers
         /\ m.type = "OPEN" => m.seq \in Isns
         /\ m.type = "ACK" => m.seq \in Seqs
         /\ m.type \in {"COMMAND", "KILL"} => m.id \in CmdIds
         /\ m.type = "REDIRECT" => m.list \in Lists
BY DEF UnitFrames

\* What a frame for a server carries, by its type.
LEMMA ServerFrameFacts ==
  ASSUME NEW m \in ServerFrames
  PROVE  /\ m.srv \in Servers
         /\ m.type = "DATA" => m.seq \in Seqs /\ m.body \in Bodies
         /\ m.type = "COMMAND_ACK" => m.id \in CmdIds
BY DEF ServerFrames

\* Sending puts frames in flight only for an address that is known.
LEMMA SendKeepsFrames ==
  ASSUME toServer \subseteq ServerFrames,
         NEW addr, NEW ms, Send(addr, ms),
         addr \in Servers => ms \subseteq ServerFrames
  PROVE  toServer' \subseteq ServerFrames
BY DEF Send, Put

\* Delivering a frame puts none in flight.
LEMMA TakenKeepsFrames ==
  ASSUME NEW net, NEW m, NEW rest \in Taken(net, m)
  PROVE  rest \subseteq net
BY DEF Taken

LEMMA PutKeepsFrames == \A net, ms : Put(net, ms) \subseteq net \cup ms
BY DEF Put

\* A frame the unit sends and keeps is a frame, and an answer is awaited.
LEMMA StartDataFacts ==
  ASSUME toServer \subseteq ServerFrames,
         NEW q \in Seqs, NEW b \in Bodies, NEW more,
         to \in Servers => more \subseteq ServerFrames,
         StartData(q, b, more)
  PROVE  /\ toServer' \subseteq ServerFrames
         /\ lastFrame' \in KeptFrames /\ lastFrame'.seq = q /\ lastFrame'.body = b
         /\ outstanding' = TRUE /\ timer' = TRUE /\ resend' = 0
<1>1. toServer' \subseteq ServerFrames
  BY SendKeepsFrames, FrameFacts DEF StartData
<1> QED  BY <1>1 DEF StartData, KeptFrames

\* Every list names one server or two.
LEMMA ListFacts ==
  ASSUME NEW l \in Lists
  PROVE  /\ Len(l) \in {1, 2}
         /\ \A i \in Nat : Name(l, i) \in Servers \cup {NoAddr}
<1>1. CASE \E s \in Servers : l = <<s>>
  BY <1>1 DEF Name
<1>2. CASE l \in Servers \X Servers
  <2>1. PICK s \in Servers, t \in Servers : l = <<s, t>>
    BY <1>2
  <2>2. Len(l) = 2 /\ l[1] = s /\ l[2] = t
    BY <2>1
  <2> QED  BY <2>2 DEF Name
<1> QED  BY <1>1, <1>2, LinkConstants

\* A name that resolves, or does not, and the OPEN_REQ that follows.
LEMMA ResolveFacts ==
  ASSUME NEW name, Resolve(name), AskToOpen, toServer \subseteq ServerFrames,
         to \in Servers \cup {NoAddr}
  PROVE  /\ dst' \in Servers \cup {NoAddr}
         /\ to' \in Servers \cup {NoAddr}
         /\ toServer' \subseteq ServerFrames
<1>1. dst' \in Servers \cup {NoAddr} /\ to' \in Servers \cup {NoAddr}
  BY DEF Resolve
<1>2. Send(dst', {Simple("OPEN_REQ", dst')})
  BY DEF AskToOpen
<1>3. toServer' \subseteq ServerFrames
  BY <1>2, SendKeepsFrames, FrameFacts
<1> QED  BY <1>1, <1>3

\* A new handshake waits for its answer.
LEMMA ReopenFacts ==
  ASSUME Reopen, toServer \subseteq ServerFrames
  PROVE  /\ UNCHANGED <<dst, to>>
         /\ toServer' \subseteq ServerFrames
         /\ state' = "STARTUP" /\ resend' = 0 /\ timer' = TRUE
<1>1. toServer' \subseteq ServerFrames
  BY SendKeepsFrames, FrameFacts DEF Reopen
<1> QED  BY <1>1 DEF Reopen

-----------------------------------------------------------------------------
(***************************************************************************)
(* The inductive invariant.  TypeOK is not inductive alone: that a repeated *)
(* frame is a frame takes HasBody, and that a newline stands for an event   *)
(* takes StopAndWait.                                                       *)
(***************************************************************************)
HasBody == outstanding => lastFrame.body \in Bodies

LinkInv == TypeOK /\ StopAndWait /\ HasBody /\ TimerArmed

LEMMA InitLinkInv == Init => LinkInv
<1> SUFFICES ASSUME Init PROVE LinkInv
  OBVIOUS
<1>1. idxFile \in {0, 1}
  <2>1. Len(servers) \in {1, 2}
    BY ListFacts DEF Init
  <2>2. idxFile \in 0 .. Len(servers) - 1
    BY DEF Init
  <2>3. CASE Len(servers) = 1
    BY <2>2, <2>3
  <2>4. CASE Len(servers) = 2
    BY <2>2, <2>4
  <2> QED  BY <2>1, <2>3, <2>4
<1>2. lastFrame \in KeptFrames
  BY SeqsInNat DEF Init, KeptFrames
<1>3. srv \in [Servers -> ServerEnds]
  BY SeqsInNat DEF Init, ServerEnds
<1>4. TypeOK
  BY <1>1, <1>2, <1>3, SeqsInNat DEF Init, TypeOK
<1> QED
  BY <1>4 DEF Init, LinkInv, StopAndWait, HasBody, TimerArmed

\* The newline of RecvAck stands for an event.
LEMMA RecvAckInv ==
  ASSUME LinkInv, NEW m \in toUnit, RecvAck(m)
  PROVE  LinkInv'
<1> USE DEF LinkInv
<1>1. sendseq' \in Seqs
  BY IncInSeqs, SeqsInNat DEF RecvAck, TypeOK
<1>2. toUnit' \subseteq UnitFrames
  BY TakenKeepsFrames DEF RecvAck, Receive, TypeOK
<1>3. acked' \subseteq Events
  BY BodyFacts DEF RecvAck, StopAndWait, HasBody, TypeOK
<1>4. CASE event # NoEvent
  <2>1. StartData(sendseq', EventBody(event), {}) /\ lastWasEvent' = TRUE /\ event' = NoEvent
    BY <1>4 DEF RecvAck
  <2>2. EventBody(event) \in Bodies /\ EventBody(event).kind = "event"
    BY <1>4, BodyFacts DEF TypeOK
  <2>3. /\ toServer' \subseteq ServerFrames
        /\ lastFrame' \in KeptFrames /\ lastFrame'.seq = sendseq'
        /\ lastFrame'.body = EventBody(event)
        /\ outstanding' = TRUE /\ timer' = TRUE /\ resend' = 0
    BY <1>1, <2>1, <2>2, StartDataFacts DEF TypeOK
  <2>4. TypeOK'
    BY <1>1, <1>2, <1>3, <2>1, <2>3 DEF RecvAck, TypeOK, chooseVars, fileVars, peerVars
  <2> QED
    BY <2>1, <2>2, <2>3, <2>4 DEF RecvAck, StopAndWait, HasBody, TimerArmed
<1>5. CASE event = NoEvent
  <2>1. /\ UNCHANGED <<event, lastFrame, resend, toServer>>
        /\ outstanding' = FALSE /\ lastWasEvent' = FALSE /\ timer' = PingInterval
    BY <1>5 DEF RecvAck
  <2>2. PingInterval \in BOOLEAN
    BY LinkConstants
  <2>3. UNCHANGED <<session, state, closed, chooseVars, fileVars, commState, commands, peerVars>>
    BY DEF RecvAck
  <2>4. outstanding' \in BOOLEAN /\ lastWasEvent' \in BOOLEAN /\ timer' \in BOOLEAN
    BY <2>1, <2>2
  <2>5. TypeOK'
    BY <1>1, <1>2, <1>3, <2>1, <2>3, <2>4 DEF TypeOK, chooseVars, fileVars, peerVars
  <2> QED
    BY <2>1, <2>5 DEF RecvAck, TypeOK, StopAndWait, HasBody, TimerArmed
<1> QED  BY <1>4, <1>5

\* The kept frame gets the number of the new session (RecvOpen).
LEMMA RecvOpenInv ==
  ASSUME LinkInv, NEW m \in toUnit, RecvOpen(m)
  PROVE  LinkInv'
<1> USE DEF LinkInv
<1>1. sendseq' \in Seqs
  BY IncInSeqs, UnitFrameFacts, LinkConstants DEF RecvOpen, Receive, TypeOK
<1>2. toUnit' \subseteq UnitFrames
  BY TakenKeepsFrames DEF RecvOpen, Receive, TypeOK
<1>3. idxFile' = serverIdx
  BY DEF RecvOpen, UpdateServerIdx
<1>4. to \in Servers => {Simple("OPEN_ACK", to)} \subseteq ServerFrames
  BY FrameFacts
<1>5. CASE outstanding
  <2>1. /\ StartData(sendseq', lastFrame.body, {Simple("OPEN_ACK", to)})
        /\ UNCHANGED <<lastWasEvent, event>>
    BY <1>5 DEF RecvOpen
  <2>2. /\ toServer' \subseteq ServerFrames
        /\ lastFrame' \in KeptFrames /\ lastFrame'.seq = sendseq'
        /\ lastFrame'.body = lastFrame.body
        /\ outstanding' = TRUE /\ timer' = TRUE /\ resend' = 0
    BY <1>1, <1>4, <1>5, <2>1, StartDataFacts DEF TypeOK, HasBody
  <2>3. TypeOK'
    BY <1>1, <1>2, <1>3, <2>1, <2>2 DEF RecvOpen, TypeOK, peerVars
  <2> QED
    BY <1>5, <2>1, <2>2, <2>3 DEF RecvOpen, StopAndWait, HasBody, TimerArmed
<1>6. CASE ~outstanding /\ event # NoEvent
  <2>1. /\ StartData(sendseq', EventBody(event), {Simple("OPEN_ACK", to)})
        /\ lastWasEvent' = TRUE /\ event' = NoEvent
    BY <1>6 DEF RecvOpen
  <2>2. EventBody(event) \in Bodies /\ EventBody(event).kind = "event"
    BY <1>6, BodyFacts DEF TypeOK
  <2>3. /\ toServer' \subseteq ServerFrames
        /\ lastFrame' \in KeptFrames /\ lastFrame'.seq = sendseq'
        /\ lastFrame'.body = EventBody(event)
        /\ outstanding' = TRUE /\ timer' = TRUE /\ resend' = 0
    BY <1>1, <1>4, <2>1, <2>2, StartDataFacts DEF TypeOK
  <2>4. TypeOK'
    BY <1>1, <1>2, <1>3, <2>1, <2>3 DEF RecvOpen, TypeOK, peerVars
  <2> QED
    BY <2>1, <2>2, <2>3, <2>4 DEF RecvOpen, StopAndWait, HasBody, TimerArmed
<1>7. CASE ~outstanding /\ event = NoEvent
  <2>1. /\ Send(to, {Simple("OPEN_ACK", to)})
        /\ timer' = PingInterval
        /\ UNCHANGED <<outstanding, lastFrame, lastWasEvent, event, resend>>
    BY <1>7 DEF RecvOpen, dataVars
  <2>2. toServer' \subseteq ServerFrames /\ PingInterval \in BOOLEAN
    BY <1>4, <2>1, SendKeepsFrames, LinkConstants DEF TypeOK
  <2>3. TypeOK'
    BY <1>1, <1>2, <1>3, <2>1, <2>2 DEF RecvOpen, TypeOK, peerVars
  <2> QED
    BY <1>7, <2>1, <2>3 DEF RecvOpen, StopAndWait, HasBody, TimerArmed
<1> QED  BY <1>5, <1>6, <1>7

\* A new list of servers.
LEMMA RecvRedirectInv ==
  ASSUME LinkInv, NEW m \in toUnit, RecvRedirect(m)
  PROVE  LinkInv'
<1> USE DEF LinkInv
<1>1. servers' \in Lists /\ serverIdx' = 0 /\ idxFile' = 0
  BY UnitFrameFacts DEF RecvRedirect, Receive, UpdateServerIdx, TypeOK
<1>2. toUnit' \subseteq UnitFrames
  BY TakenKeepsFrames DEF RecvRedirect, Receive, TypeOK
<1>3. /\ dst' \in Servers \cup {NoAddr}
      /\ to' \in Servers \cup {NoAddr}
      /\ toServer' \subseteq ServerFrames
  BY ResolveFacts DEF RecvRedirect, TypeOK
<1>4. TypeOK'
  BY <1>1, <1>2, <1>3 DEF RecvRedirect, TypeOK, dataVars, peerVars
<1> QED
  BY <1>4 DEF RecvRedirect, StopAndWait, HasBody, TimerArmed, dataVars

\* The timeouts.
LEMMA StartupTimeoutInv ==
  ASSUME LinkInv, StartupTimeout
  PROVE  LinkInv'
<1> USE DEF LinkInv
<1>1. /\ dst' \in Servers \cup {NoAddr}
      /\ to' \in Servers \cup {NoAddr}
      /\ toServer' \subseteq ServerFrames
  <2>1. CASE UNCHANGED <<dst, to>>
    <3>1. Send(dst', {Simple("OPEN_REQ", dst')})
      BY DEF StartupTimeout, AskToOpen
    <3> QED  BY <2>1, <3>1, SendKeepsFrames, FrameFacts DEF TypeOK
  <2>2. CASE Resolve(Name(servers, serverIdx')) \/ Resolve(Name(servers, serverIdx))
    BY <2>2, ResolveFacts DEF StartupTimeout, TypeOK
  <2> QED  BY <2>1, <2>2 DEF StartupTimeout
<1>2. serverIdx' \in {0, 1}
  <2>1. Len(servers) \in {1, 2}
    BY ListFacts DEF TypeOK
  <2>2. NextIdx \in {0, 1}
    <3>1. CASE Len(servers) = 1
      BY <3>1 DEF NextIdx, TypeOK
    <3>2. CASE Len(servers) = 2
      BY <3>2 DEF NextIdx, TypeOK
    <3> QED  BY <2>1, <3>1, <3>2
  <2>3. serverIdx' \in {serverIdx, idxFile, NextIdx}
    BY DEF StartupTimeout
  <2> QED  BY <2>2, <2>3 DEF TypeOK
<1>3. firstServer' \in BOOLEAN /\ resend' \in Nat
  <2>1. firstServer' = firstServer \/ firstServer' = FALSE
    BY DEF StartupTimeout
  <2>2. resend' = resend + 1 \/ resend' = 0
    BY DEF StartupTimeout
  <2>3. resend' \in Nat
    BY <2>2 DEF TypeOK
  <2> QED  BY <2>1, <2>3 DEF TypeOK
<1>4. TypeOK'
  BY <1>1, <1>2, <1>3 DEF StartupTimeout, TypeOK, dataVars, fileVars, peerVars
<1> QED
  BY <1>4 DEF StartupTimeout, StopAndWait, HasBody, TimerArmed, dataVars

\* Most steps leave the kept frame, the waiting event and the choice of the
\* server alone: they keep the invariant if they keep the types of the rest,
\* do not bring the connection up, and leave a timer for whoever waits.
LEMMA SteadyInv ==
  ASSUME LinkInv,
         UNCHANGED <<sendseq, dataVars, chooseVars, fileVars, acked>>,
         session' \in BOOLEAN, state' \in {"STARTUP", "UP", "CLOSING", "DOWN"},
         timer' \in BOOLEAN, resend' \in Nat, closed' \in BOOLEAN,
         commState' \in {"NoWAN", "Connecting", "Connected", "Closed"},
         commands' \subseteq CommandInfos,
         toServer' \subseteq ServerFrames, toUnit' \subseteq UnitFrames,
         srv' \in [Servers -> ServerEnds], cmdAcked' \subseteq CmdIds, got' \subseteq Bodies,
         state' = "UP" => state = "UP",
         TimerArmed'
  PROVE  LinkInv'
<1>1. UNCHANGED <<sendseq, outstanding, lastFrame, lastWasEvent, event, servers, serverIdx,
                  firstServer, dst, to, idxFile, secFile, acked>>
  BY DEF dataVars, chooseVars, fileVars
<1>2. TypeOK'
  BY <1>1 DEF LinkInv, TypeOK
<1>3. StopAndWait' /\ HasBody'
  BY <1>1 DEF LinkInv, StopAndWait, HasBody
<1> QED  BY <1>2, <1>3 DEF LinkInv

\* Steps of which the unit sees nothing.
LEMMA QuietInv ==
  ASSUME LinkInv, UNCHANGED unitVars,
         toServer' \subseteq ServerFrames, toUnit' \subseteq UnitFrames,
         srv' \in [Servers -> ServerEnds], cmdAcked' \subseteq CmdIds, got' \subseteq Bodies
  PROVE  LinkInv'
<1> QED
  BY DEF LinkInv, TypeOK, StopAndWait, HasBody, TimerArmed,
         unitVars, dataVars, chooseVars, fileVars

LEMMA UpTimeoutInv ==
  ASSUME LinkInv, UpTimeout
  PROVE  LinkInv'
<1>1. /\ state = "UP"
      /\ UNCHANGED <<session, sendseq, dataVars, closed, servers, serverIdx, firstServer,
                     fileVars, commands, acked, toUnit, peerVars>>
  BY DEF UpTimeout
<1>2. CASE outstanding /\ resend < UpRetrys
  <2>1. /\ Send(to, {Data(to, lastFrame.seq, lastFrame.body)})
        /\ resend' = resend + 1 /\ timer' = TRUE
        /\ UNCHANGED <<state, dst, to, commState>>
    BY <1>2, LinkConstants DEF UpTimeout, LinkInv, TypeOK
  <2>2. to \in Servers => {Data(to, lastFrame.seq, lastFrame.body)} \subseteq ServerFrames
    BY <1>2, FrameFacts DEF LinkInv, TypeOK, HasBody, KeptFrames
  <2>3. toServer' \subseteq ServerFrames
    BY <2>1, <2>2, SendKeepsFrames DEF LinkInv, TypeOK
  <2> QED
    BY <1>1, <2>1, <2>3, SteadyInv DEF LinkInv, TypeOK, chooseVars, peerVars, TimerArmed
<1>3. CASE outstanding /\ resend >= UpRetrys
  <2>1. Reopen /\ commState' = "Connecting"
    BY <1>3, LinkConstants DEF UpTimeout, LinkInv, TypeOK
  <2>2. /\ UNCHANGED <<dst, to>> /\ toServer' \subseteq ServerFrames
        /\ state' = "STARTUP" /\ resend' = 0 /\ timer' = TRUE
    BY <2>1, ReopenFacts DEF LinkInv, TypeOK
  <2> QED
    BY <1>1, <2>1, <2>2, SteadyInv DEF LinkInv, TypeOK, chooseVars, peerVars, TimerArmed
<1>4. CASE ~outstanding
  <2>1. UNCHANGED outstanding
    BY <1>1 DEF dataVars
  <2>2. /\ timer' = PingInterval
        /\ UNCHANGED <<state, resend, dst, to, commState, toServer>>
    BY <1>4 DEF UpTimeout
  <2> QED
    BY <1>1, <1>4, <2>1, <2>2, LinkConstants, SteadyInv
       DEF LinkInv, TypeOK, chooseVars, peerVars, TimerArmed
<1> QED  BY <1>2, <1>3, <1>4 DEF UpTimeout

LEMMA ClosingTimeoutInv ==
  ASSUME LinkInv, ClosingTimeout
  PROVE  LinkInv'
<1>1. UNCHANGED <<session, sendseq, dataVars, chooseVars, fileVars, commState, commands,
                  acked, toUnit, peerVars>>
  BY DEF ClosingTimeout
<1>2. CASE /\ Send(to, {Simple("CLOSE", to)}) /\ resend' = resend + 1
           /\ UNCHANGED <<state, closed>>
  <2>1. toServer' \subseteq ServerFrames
    BY <1>2, SendKeepsFrames, FrameFacts DEF LinkInv, TypeOK
  <2>2. timer' = TRUE
    BY <1>2 DEF ClosingTimeout, Expired, LinkInv, TypeOK
  <2> QED
    BY <1>1, <1>2, <2>1, <2>2, SteadyInv DEF LinkInv, TypeOK, peerVars, TimerArmed
<1>3. CASE /\ state' = "DOWN" /\ timer' = FALSE /\ closed' = TRUE
           /\ UNCHANGED <<resend, toServer>>
  BY <1>1, <1>3, SteadyInv DEF LinkInv, TypeOK, peerVars, TimerArmed
<1> QED  BY <1>2, <1>3 DEF ClosingTimeout

LEMMA DownTimeoutInv ==
  ASSUME LinkInv, DownTimeout
  PROVE  LinkInv'
<1>1. /\ state = "DOWN" /\ timer' = FALSE
      /\ UNCHANGED <<session, state, sendseq, dataVars, resend, closed, chooseVars,
                     fileVars, commState, commands, acked, toServer, toUnit,
                     srv, cmdAcked, got>>
  BY DEF DownTimeout, netVars, peerVars
<1>2. TimerArmed'
  BY <1>1 DEF TimerArmed
<1> QED
  BY <1>1, <1>2, SteadyInv DEF LinkInv, TypeOK

\* Commands, RESTART, CLOSE and CLOSE_ACK of the server.
LEMMA RecvCommandInv ==
  ASSUME LinkInv, NEW m \in toUnit, RecvCommand(m) \/ RecvKill(m)
  PROVE  LinkInv'
<1>1. m.id \in CmdIds /\ m.srv \in Servers /\ dst = m.srv
  BY UnitFrameFacts DEF RecvCommand, RecvKill, Receive, LinkInv, TypeOK
<1>2. toUnit' \subseteq UnitFrames
  BY TakenKeepsFrames DEF RecvCommand, RecvKill, Receive, LinkInv, TypeOK
<1>3. toServer' \subseteq ServerFrames
  BY <1>1, SendKeepsFrames, FrameFacts DEF RecvCommand, RecvKill, LinkInv, TypeOK
<1>4. commands' \subseteq CommandInfos
  <2>1. [id |-> m.id, srv |-> dst, read |-> 0] \in CommandInfos
    BY <1>1, LinkConstants DEF CommandInfos
  <2> QED  BY <2>1 DEF RecvCommand, RecvKill, LinkInv, TypeOK
<1>5. UNCHANGED <<session, state, sendseq, dataVars, timer, resend, closed,
                  chooseVars, fileVars, commState, acked, peerVars>>
  BY DEF RecvCommand, RecvKill
<1> QED
  BY <1>2, <1>3, <1>4, <1>5, SteadyInv
     DEF LinkInv, TypeOK, peerVars, TimerArmed, dataVars

LEMMA RecvRestartInv ==
  ASSUME LinkInv, NEW m \in toUnit, RecvRestart(m)
  PROVE  LinkInv'
<1>1. toUnit' \subseteq UnitFrames
  BY TakenKeepsFrames DEF RecvRestart, Receive, LinkInv, TypeOK
<1>2. /\ UNCHANGED <<dst, to>>
      /\ toServer' \subseteq ServerFrames
      /\ state' = "STARTUP" /\ resend' = 0 /\ timer' = TRUE
  BY ReopenFacts DEF RecvRestart, LinkInv, TypeOK
<1>3. UNCHANGED <<session, sendseq, dataVars, closed, servers, serverIdx,
                  firstServer, fileVars, commState, commands, acked, peerVars>>
  BY DEF RecvRestart
<1> QED
  BY <1>1, <1>2, <1>3, SteadyInv DEF LinkInv, TypeOK, chooseVars, peerVars, TimerArmed

LEMMA RecvCloseInv ==
  ASSUME LinkInv, NEW m \in toUnit, RecvClose(m) \/ RecvCloseAck(m)
  PROVE  LinkInv'
<1>1. toUnit' \subseteq UnitFrames
  BY TakenKeepsFrames DEF RecvClose, RecvCloseAck, Receive, LinkInv, TypeOK
<1>2. toServer' \subseteq ServerFrames
  BY SendKeepsFrames, FrameFacts DEF RecvClose, RecvCloseAck, LinkInv, TypeOK
<1>3. /\ state' = "DOWN"
      /\ UNCHANGED <<session, sendseq, dataVars, resend, chooseVars, fileVars, commState,
                     commands, acked, peerVars>>
  BY DEF RecvClose, RecvCloseAck
<1>4. timer' \in BOOLEAN /\ closed' \in BOOLEAN
  <2>1. CASE UNCHANGED <<timer, closed>>
    BY <2>1 DEF LinkInv, TypeOK
  <2>2. CASE timer' = FALSE /\ closed' = TRUE
    BY <2>2
  <2> QED  BY <2>1, <2>2 DEF RecvClose, RecvCloseAck
<1>5. TimerArmed'
  BY <1>3 DEF TimerArmed
<1> QED
  BY <1>1, <1>2, <1>3, <1>4, <1>5, SteadyInv DEF LinkInv, TypeOK, peerVars

-----------------------------------------------------------------------------
(* The public methods of the connection, and the process. *)

LEMMA OpenConnectionInv ==
  ASSUME LinkInv, OpenConnection
  PROVE  LinkInv'
<1>1. /\ dst' \in Servers \cup {NoAddr}
      /\ to' \in Servers \cup {NoAddr}
      /\ toServer' \subseteq ServerFrames
  BY ResolveFacts DEF OpenConnection, LinkInv, TypeOK
<1>2. serverIdx' \in {0, 1}
  BY DEF OpenConnection, LinkInv, TypeOK
<1>3. /\ session' = TRUE /\ state' = "STARTUP" /\ closed' = FALSE
      /\ resend' = 0 /\ timer' = TRUE /\ commState' = "Connecting"
      /\ UNCHANGED <<sendseq, outstanding, lastFrame, lastWasEvent, event, servers,
                     firstServer, idxFile, secFile, commands, acked, toUnit,
                     srv, cmdAcked, got>>
  BY DEF OpenConnection, dataVars, fileVars, peerVars
<1>4. TypeOK'
  BY <1>1, <1>2, <1>3 DEF LinkInv, TypeOK
<1> QED
  BY <1>3, <1>4 DEF LinkInv, StopAndWait, HasBody, TimerArmed

LEMMA MethodInv ==
  ASSUME LinkInv,
         \/ ClearConnection \/ CloseConnection \/ RestartConnection \/ ReportClosed
  PROVE  LinkInv'
<1>1. CASE ClearConnection
  <2>1. /\ session' = FALSE /\ state' = "DOWN" /\ closed' = TRUE /\ timer' = FALSE
        /\ commands' = {} /\ commState' = "NoWAN"
        /\ UNCHANGED <<sendseq, dataVars, resend, chooseVars, fileVars, acked,
                       toServer, toUnit, srv, cmdAcked, got>>
    BY <1>1 DEF ClearConnection, netVars, peerVars
  <2>2. TimerArmed'
    BY <2>1 DEF TimerArmed
  <2> QED  BY <2>1, <2>2, SteadyInv DEF LinkInv, TypeOK
<1>2. CASE CloseConnection
  <2>1. /\ state' = "CLOSING" /\ resend' = 0 /\ timer' = TRUE
        /\ UNCHANGED <<session, sendseq, dataVars, closed, chooseVars, fileVars,
                       commState, commands, acked, toUnit, srv, cmdAcked, got>>
    BY <1>2 DEF CloseConnection, peerVars
  <2>2. toServer' \subseteq ServerFrames
    BY <1>2, SendKeepsFrames, FrameFacts DEF CloseConnection, LinkInv, TypeOK
  <2>3. TimerArmed'
    BY <2>1 DEF TimerArmed
  <2> QED  BY <2>1, <2>2, <2>3, SteadyInv DEF LinkInv, TypeOK
<1>3. CASE RestartConnection
  <2>1. /\ UNCHANGED <<dst, to>>
        /\ toServer' \subseteq ServerFrames
        /\ state' = "STARTUP" /\ resend' = 0 /\ timer' = TRUE
    BY <1>3, ReopenFacts DEF RestartConnection, LinkInv, TypeOK
  <2>2. UNCHANGED <<session, sendseq, dataVars, closed, chooseVars, fileVars, commState,
                    commands, acked, toUnit, srv, cmdAcked, got>>
    BY <1>3, <2>1 DEF RestartConnection, peerVars, chooseVars
  <2>3. TimerArmed'
    BY <2>1 DEF TimerArmed
  <2> QED  BY <2>1, <2>2, <2>3, SteadyInv DEF LinkInv, TypeOK
<1>4. CASE ReportClosed
  <2>1. /\ commState' = "Closed"
        /\ UNCHANGED <<session, state, sendseq, dataVars, timer, resend, closed,
                       chooseVars, fileVars, commands, acked, toServer, toUnit,
                       srv, cmdAcked, got>>
    BY <1>4 DEF ReportClosed, netVars, peerVars
  <2>2. TimerArmed'
    BY <2>1 DEF LinkInv, TimerArmed, dataVars
  <2> QED  BY <2>1, <2>2, SteadyInv DEF LinkInv, TypeOK
<1> QED  BY <1>1, <1>2, <1>3, <1>4

LEMMA SendEventInv ==
  ASSUME LinkInv, NEW e \in Events, SendEvent(e)
  PROVE  LinkInv'
<1>1. UNCHANGED <<session, state, sendseq, closed, servers, serverIdx, firstServer, dst, to,
                  idxFile, secFile, commState, commands, acked, toUnit, srv, cmdAcked, got>>
  BY DEF SendEvent, chooseVars, fileVars, peerVars
<1>2. CASE Idle /\ StartData(sendseq, EventBody(e), {}) /\ lastWasEvent' = TRUE
           /\ event' = event
  <2>1. /\ toServer' \subseteq ServerFrames
        /\ lastFrame' \in KeptFrames /\ lastFrame'.seq = sendseq
        /\ lastFrame'.body = EventBody(e)
        /\ outstanding' = TRUE /\ timer' = TRUE /\ resend' = 0
    BY <1>2, BodyFacts, StartDataFacts DEF LinkInv, TypeOK
  <2>2. TypeOK'
    BY <1>1, <1>2, <2>1 DEF LinkInv, TypeOK
  <2> QED
    BY <1>1, <1>2, <2>1, <2>2, BodyFacts DEF LinkInv, StopAndWait, HasBody, TimerArmed
<1>3. CASE /\ event' = e
           /\ UNCHANGED <<outstanding, lastFrame, lastWasEvent, timer, resend, toServer>>
  <2>1. TypeOK'
    BY <1>1, <1>3 DEF LinkInv, TypeOK
  <2> QED
    BY <1>1, <1>3, <2>1 DEF LinkInv, StopAndWait, HasBody, TimerArmed
<1> QED  BY <1>2, <1>3 DEF SendEvent

LEMMA SendLineInv ==
  ASSUME LinkInv, NEW c \in commands, SendLine(c)
  PROVE  LinkInv'
<1>1. UNCHANGED <<session, state, sendseq, lastWasEvent, event, closed, servers, serverIdx,
                  firstServer, dst, to, idxFile, secFile, commState, acked, toUnit,
                  srv, cmdAcked, got>>
  BY DEF SendLine, chooseVars, fileVars, peerVars
<1>2. /\ c.id \in CmdIds /\ c.srv \in Servers /\ c.read \in Nat
      /\ c.read + 1 \in 1 .. NumLines
      /\ c = [id |-> c.id, srv |-> c.srv, read |-> c.read]
  BY LinkConstants DEF LinkInv, TypeOK, CommandInfos
<1>3. LineBody(c.id, c.read + 1) \in Bodies /\ LineBody(c.id, c.read + 1).kind = "line"
  BY <1>2, BodyFacts
<1>4. /\ toServer' \subseteq ServerFrames
      /\ lastFrame' \in KeptFrames /\ lastFrame'.seq = sendseq
      /\ lastFrame'.body = LineBody(c.id, c.read + 1)
      /\ outstanding' = TRUE /\ timer' = TRUE /\ resend' = 0
  <2> PICK b \in Bodies : b = LineBody(c.id, c.read + 1)
    BY <1>3
  <2>1. StartData(sendseq, b, {})
    BY DEF SendLine
  <2>2. sendseq \in Seqs /\ toServer \subseteq ServerFrames
    BY DEF LinkInv, TypeOK
  <2> QED  BY <2>1, <2>2, StartDataFacts
<1>5. commands' \subseteq CommandInfos
  <2>1. c.read + 1 < NumLines => [c EXCEPT !.read = c.read + 1] \in CommandInfos
    BY <1>2, LinkConstants DEF CommandInfos
  <2>2. commands' = (commands \ {c}) \cup
          (IF c.read + 1 < NumLines THEN {[c EXCEPT !.read = c.read + 1]} ELSE {})
    BY DEF SendLine
  <2> QED  BY <2>1, <2>2 DEF LinkInv, TypeOK
<1>6. TypeOK'
  BY <1>1, <1>4, <1>5 DEF LinkInv, TypeOK
<1>7. ~lastWasEvent
  BY DEF LinkInv, StopAndWait, SendLine, Idle
<1> QED
  BY <1>1, <1>3, <1>4, <1>6, <1>7 DEF LinkInv, TypeOK, StopAndWait, HasBody, TimerArmed

LEMMA StartProcessInv ==
  ASSUME LinkInv, StartProcess
  PROVE  LinkInv'
<1>1. /\ session' = FALSE /\ state' = "DOWN" /\ sendseq' = 0 /\ outstanding' = FALSE
      /\ lastFrame' = [seq |-> 0, body |-> NoBody] /\ lastWasEvent' = FALSE
      /\ event' = NoEvent /\ timer' = FALSE /\ resend' = 0 /\ closed' = FALSE
      /\ serverIdx' = idxFile /\ dst' = NoAddr /\ to' = NoAddr
      /\ commState' = "NoWAN" /\ commands' = {}
      /\ UNCHANGED <<servers, idxFile, acked, toServer, toUnit, srv, cmdAcked, got>>
  BY DEF StartProcess, netVars, peerVars
<1>2. firstServer' \in BOOLEAN /\ secFile' \in BOOLEAN
  BY DEF StartProcess, LinkInv, TypeOK
<1>3. lastFrame' \in KeptFrames
  BY <1>1, SeqsInNat DEF KeptFrames
<1>4. TypeOK'
  BY <1>1, <1>2, <1>3, SeqsInNat DEF LinkInv, TypeOK
<1> QED
  BY <1>1, <1>4 DEF LinkInv, StopAndWait, HasBody, TimerArmed

-----------------------------------------------------------------------------
(* The servers and the network. *)

LEMMA ServerStepInv ==
  ASSUME LinkInv, ServerStep
  PROVE  LinkInv'
<1> PICK m \in toServer :
      \/ ServerOpen(m)   \/ ServerRedirect(m) \/ ServerOpened(m)
      \/ ServerData(m)   \/ ServerClosed(m)   \/ ServerCommandAcked(m)
  BY DEF ServerStep
<1>1. /\ m \in ServerFrames /\ toServer \subseteq ServerFrames /\ toUnit \subseteq UnitFrames
      /\ srv \in [Servers -> ServerEnds] /\ cmdAcked \subseteq CmdIds /\ got \subseteq Bodies
  BY DEF LinkInv, TypeOK
<1>2. m.srv \in Servers /\ srv[m.srv] \in ServerEnds
  BY <1>1, ServerFrameFacts
<1>3. UNCHANGED unitVars
  BY DEF ServerOpen, ServerRedirect, ServerOpened, ServerData, ServerClosed,
         ServerCommandAcked, ServerTakes
<1>4. toServer' \subseteq ServerFrames
  BY <1>1, TakenKeepsFrames DEF ServerOpen, ServerRedirect, ServerOpened, ServerData,
     ServerClosed, ServerCommandAcked, ServerTakes
<1>5. CASE ServerOpen(m)
  <2>1. PICK isn \in Isns :
          /\ toUnit' = Put(toUnit, {[type |-> "OPEN", srv |-> m.srv, seq |-> isn]})
          /\ srv' = [srv EXCEPT ![m.srv] = [st |-> "opening", isn |-> isn, next |-> Inc(isn)]]
    BY <1>5 DEF ServerOpen
  <2>2. [type |-> "OPEN", srv |-> m.srv, seq |-> isn] \in UnitFrames
    BY <1>2 DEF UnitFrames
  <2>3. toUnit' \subseteq UnitFrames
    BY <1>1, <2>1, <2>2, PutKeepsFrames
  <2>4. [st |-> "opening", isn |-> isn, next |-> Inc(isn)] \in ServerEnds
    BY LinkConstants, IncInSeqs DEF ServerEnds
  <2>5. srv' \in [Servers -> ServerEnds]
    BY <1>1, <2>1, <2>4
  <2> QED  BY <1>1, <1>3, <1>4, <1>5, <2>3, <2>5, QuietInv DEF ServerOpen
<1>6. CASE ServerRedirect(m)
  <2>1. PICK list \in Lists : toUnit' =
          Put(toUnit, {[type |-> "REDIRECT", srv |-> m.srv, list |-> list]})
    BY <1>6 DEF ServerRedirect
  <2>2. [type |-> "REDIRECT", srv |-> m.srv, list |-> list] \in UnitFrames
    BY <1>2 DEF UnitFrames
  <2>3. toUnit' \subseteq UnitFrames
    BY <1>1, <2>1, <2>2, PutKeepsFrames
  <2> QED  BY <1>1, <1>3, <1>4, <1>6, <2>3, QuietInv DEF ServerRedirect, peerVars
<1>7. CASE ServerOpened(m)
  <2>1. srv' \in [Servers -> ServerEnds]
    BY <1>1, <1>2, <1>7 DEF ServerOpened, ServerEnds
  <2> QED  BY <1>1, <1>3, <1>4, <1>7, <2>1, QuietInv DEF ServerOpened
<1>8. CASE ServerData(m)
  <2>1. m.seq \in Seqs /\ m.body \in Bodies /\ Inc(m.seq) \in Seqs
    BY <1>1, <1>8, ServerFrameFacts, SeqsInNat, IncInSeqs DEF ServerData, ServerTakes
  <2>2. AckFrame(m.srv, Inc(m.seq)) \in UnitFrames
    BY <1>2, <2>1 DEF AckFrame, UnitFrames
  <2>3. toUnit' \subseteq UnitFrames
    BY <1>1, <1>8, <2>2, PutKeepsFrames DEF ServerData
  <2>4. srv' \in [Servers -> ServerEnds]
    BY <1>1, <1>2, <1>8, <2>1 DEF ServerData, ServerEnds
  <2>5. got' \subseteq Bodies
    BY <1>1, <1>8, <2>1 DEF ServerData
  <2> QED  BY <1>1, <1>3, <1>4, <1>8, <2>3, <2>4, <2>5, QuietInv DEF ServerData
<1>9. CASE ServerClosed(m)
  <2>1. Simple("CLOSE_ACK", m.srv) \in UnitFrames
    BY <1>2 DEF Simple, UnitFrames
  <2>2. toUnit' \subseteq UnitFrames
    BY <1>1, <1>9, <2>1, PutKeepsFrames DEF ServerClosed
  <2>3. srv' \in [Servers -> ServerEnds]
    BY <1>1, <1>2, <1>9 DEF ServerClosed, ServerEnds
  <2> QED  BY <1>1, <1>3, <1>4, <1>9, <2>2, <2>3, QuietInv DEF ServerClosed
<1>10. CASE ServerCommandAcked(m)
  <2>1. cmdAcked' \subseteq CmdIds
    BY <1>1, <1>10, ServerFrameFacts DEF ServerCommandAcked, ServerTakes
  <2> QED  BY <1>1, <1>3, <1>4, <1>10, <2>1, QuietInv DEF ServerCommandAcked
<1> QED  BY <1>5, <1>6, <1>7, <1>8, <1>9, <1>10

LEMMA PathInv ==
  ASSUME LinkInv,
         \/ \E s \in Servers : ServerSays(s)
         \/ Lose
         \/ \E m \in toUnit : RecvIgnored(m)
  PROVE  LinkInv'
<1>1. /\ toServer \subseteq ServerFrames /\ toUnit \subseteq UnitFrames
      /\ srv \in [Servers -> ServerEnds] /\ cmdAcked \subseteq CmdIds /\ got \subseteq Bodies
  BY DEF LinkInv, TypeOK
<1>2. ASSUME NEW s \in Servers, ServerSays(s)
      PROVE  LinkInv'
  <2>1. toUnit' \subseteq UnitFrames
    BY <1>1, <1>2, PutKeepsFrames DEF ServerSays
  <2>2. srv' \in [Servers -> ServerEnds]
    BY <1>1, <1>2 DEF ServerSays, ServerEnds
  <2> QED  BY <1>1, <1>2, <2>1, <2>2, QuietInv DEF ServerSays
<1>3. CASE Lose
  <2>1. toUnit' \subseteq UnitFrames /\ toServer' \subseteq ServerFrames
    BY <1>1, <1>3 DEF Lose
  <2> QED  BY <1>1, <1>3, <2>1, QuietInv DEF Lose, peerVars
<1>4. CASE \E m \in toUnit : RecvIgnored(m)
  BY <1>1, <1>4, QuietInv DEF RecvIgnored, peerVars
<1> QED  BY <1>2, <1>3, <1>4

-----------------------------------------------------------------------------
(* The theorems. *)

\* Every step keeps the invariant.
LEMMA NextLinkInv == LinkInv /\ [Next]_vars => LinkInv'
<1> SUFFICES ASSUME LinkInv, [Next]_vars PROVE LinkInv'
  OBVIOUS
<1>1. CASE RecvFrame
  <2> PICK m \in toUnit :
        \/ RecvOpen(m)    \/ RecvRedirect(m) \/ RecvAck(m)
        \/ RecvCommand(m) \/ RecvKill(m)     \/ RecvRestart(m)
        \/ RecvClose(m)   \/ RecvCloseAck(m) \/ RecvIgnored(m)
    BY <1>1 DEF RecvFrame
  <2> QED
    BY RecvOpenInv, RecvRedirectInv, RecvAckInv, RecvCommandInv, RecvRestartInv,
       RecvCloseInv, PathInv
<1>2. CASE ProcessTimeout
  BY <1>2, StartupTimeoutInv, UpTimeoutInv, ClosingTimeoutInv, DownTimeoutInv
     DEF ProcessTimeout
<1>3. CASE MainLoop
  BY <1>3, OpenConnectionInv, MethodInv, StartProcessInv, SendEventInv, SendLineInv
     DEF MainLoop
<1>4. CASE ServerStep
  BY <1>4, ServerStepInv
<1>5. CASE (\E s \in Servers : ServerSays(s)) \/ Lose
  BY <1>5, PathInv
<1>6. CASE UNCHANGED vars
  <2>1. UNCHANGED <<unitVars, toServer, toUnit, srv, cmdAcked, got>>
    BY <1>6 DEF vars, netVars, peerVars
  <2> QED  BY <2>1, QuietInv DEF LinkInv, TypeOK
<1> QED  BY <1>1, <1>2, <1>3, <1>4, <1>5, <1>6 DEF Next

\* Type correctness of the link: whatever frames are lost, repeated or
\* reordered, and however often the process is restarted, sequence numbers
\* stay 16 bits wide (_incSeq), a repeated frame (_upTimeout) is one that was
\* sent, and the lines of a command (SendLine) are lines it wrote.
THEOREM LinkTypeOK == Spec => []TypeOK
<1>1. LinkInv => TypeOK
  BY DEF LinkInv
<1> QED  BY <1>1, InitLinkInv, NextLinkInv, PTL DEF Spec

\* The frame that waits for its ACK carries the number _processAck compares
\* with, and event_logger is owed a newline exactly for an event, for every
\* list of servers, number of lines, width of sequence numbers and bound.
THEOREM LinkStopAndWait == Spec => []StopAndWait
<1>1. LinkInv => StopAndWait
  BY DEF LinkInv
<1> QED  BY <1>1, InitLinkInv, NextLinkInv, PTL DEF Spec

\* Whoever waits for an answer of the server has a timer running, whatever
\* the retry constants and whether or not there is a ping interval.
THEOREM LinkTimerArmed == Spec => []TimerArmed
<1>1. LinkInv => TimerArmed
  BY DEF LinkInv
<1> QED  BY <1>1, InitLinkInv, NextLinkInv, PTL DEF Spec

-----------------------------------------------------------------------------
(***************************************************************************)
(* The choice of the server.  That the address in use belongs to the name   *)
(* at _server_idx holds in every state; only in UP is it also in the file.  *)
(***************************************************************************)
AddressOfIdx == dst \in Servers => dst = Name(servers, serverIdx) /\ to = dst

ConnectedHasAddress == state = "UP" => dst \in Servers /\ idxFile = serverIdx

ChoiceInv == ServerIdxInList /\ AddressOfIdx /\ ConnectedHasAddress

\* A name taken from the list, resolved or not.
LEMMA ResolveGivesName ==
  ASSUME NEW name, Resolve(name), NoAddr \notin Servers
  PROVE  dst' \in Servers => dst' = name /\ to' = dst'
BY DEF Resolve

\* The steps that choose no server.
LEMMA SteadyChoice ==
  ASSUME ChoiceInv, UNCHANGED <<chooseVars, fileVars>>, state' = "UP" => state = "UP"
  PROVE  ChoiceInv'
<1>1. UNCHANGED <<servers, serverIdx, dst, to, idxFile>>
  BY DEF chooseVars, fileVars
<1> QED
  BY <1>1 DEF ChoiceInv, ServerIdxInList, AddressOfIdx, ConnectedHasAddress, Name

LEMMA InitChoiceInv == Init => ChoiceInv
<1> SUFFICES ASSUME Init PROVE ChoiceInv
  OBVIOUS
<1>1. Len(servers) \in {1, 2} /\ idxFile \in 0 .. Len(servers) - 1 /\ serverIdx = idxFile
  BY ListFacts DEF Init
<1>2. ServerIdxInList
  BY <1>1 DEF ServerIdxInList
<1> QED
  BY <1>2, LinkConstants DEF Init, ChoiceInv, AddressOfIdx, ConnectedHasAddress

LEMMA NextChoiceInv == LinkInv /\ ChoiceInv /\ [Next]_vars => ChoiceInv'
<1> SUFFICES ASSUME LinkInv, ChoiceInv, [Next]_vars PROVE ChoiceInv'
  OBVIOUS
<1> NoAddr \notin Servers
  BY LinkConstants
<1>l. servers \in Lists /\ Len(servers) \in {1, 2} /\ serverIdx \in {0, 1} /\ idxFile \in {0, 1}
  BY ListFacts DEF LinkInv, TypeOK
<1>1. ASSUME NEW m \in toUnit, RecvOpen(m)
      PROVE  ChoiceInv'
  <2>1. /\ idxFile' = serverIdx /\ dst = m.srv /\ m.srv \in Servers
        /\ UNCHANGED <<servers, serverIdx, dst, to>>
    BY <1>1, UnitFrameFacts DEF RecvOpen, Receive, UpdateServerIdx, LinkInv, TypeOK
  <2> QED
    BY <2>1 DEF ChoiceInv, ServerIdxInList, AddressOfIdx, ConnectedHasAddress, Name
<1>2. ASSUME NEW m \in toUnit, RecvRedirect(m)
      PROVE  ChoiceInv'
  <2>1. m.list \in Lists
    BY <1>2, UnitFrameFacts DEF RecvRedirect, Receive, LinkInv, TypeOK
  <2>2. /\ servers' = m.list /\ serverIdx' = 0 /\ idxFile' = 0 /\ state' = "STARTUP"
        /\ Resolve(Name(m.list, 0))
    BY <1>2 DEF RecvRedirect, UpdateServerIdx, Receive
  <2>3. ServerIdxInList'
    <3>1. Len(m.list) \in {1, 2}
      BY <2>1, ListFacts
    <3> QED  BY <2>2, <3>1 DEF ServerIdxInList
  <2>4. AddressOfIdx'
    BY <2>2, ResolveGivesName DEF AddressOfIdx, Name
  <2> QED  BY <2>2, <2>3, <2>4 DEF ChoiceInv, ConnectedHasAddress
<1>3. CASE StartupTimeout
  <2>1. UNCHANGED <<state, servers, idxFile>> /\ state = "STARTUP"
    BY <1>3 DEF StartupTimeout, fileVars
  <2>2. \/ UNCHANGED <<serverIdx, dst, to>>
        \/ UNCHANGED serverIdx /\ Resolve(Name(servers, serverIdx))
        \/ serverIdx' \in {idxFile, NextIdx} /\ Resolve(Name(servers, serverIdx'))
    BY <1>3 DEF StartupTimeout
  <2>3. NextIdx < Len(servers)
    BY <1>l DEF NextIdx
  <2>4. ServerIdxInList'
    BY <2>1, <2>2, <2>3 DEF ChoiceInv, ServerIdxInList
  <2>5. AddressOfIdx'
    BY <2>1, <2>2, ResolveGivesName DEF ChoiceInv, AddressOfIdx, Name
  <2> QED  BY <2>1, <2>4, <2>5 DEF ChoiceInv, ConnectedHasAddress
<1>4. CASE OpenConnection
  <2>1. /\ state' = "STARTUP" /\ UNCHANGED <<servers, idxFile>>
        /\ serverIdx' \in {0, idxFile} /\ Resolve(Name(servers, serverIdx'))
    BY <1>4 DEF OpenConnection, fileVars
  <2>2. ServerIdxInList'
    BY <1>l, <2>1 DEF ChoiceInv, ServerIdxInList
  <2>3. AddressOfIdx'
    BY <2>1, ResolveGivesName DEF AddressOfIdx, Name
  <2> QED  BY <2>1, <2>2, <2>3 DEF ChoiceInv, ConnectedHasAddress
<1>5. CASE StartProcess
  <2>1. /\ state' = "DOWN" /\ dst' = NoAddr /\ serverIdx' = idxFile
        /\ UNCHANGED <<servers, idxFile>>
    BY <1>5 DEF StartProcess
  <2> QED
    BY <2>1 DEF ChoiceInv, ServerIdxInList, AddressOfIdx, ConnectedHasAddress
<1>6. CASE UpTimeout \/ RestartConnection \/ \E m \in toUnit : RecvRestart(m)
  <2>1. UNCHANGED <<servers, serverIdx, firstServer, dst, to, fileVars>>
    BY <1>6, ReopenFacts DEF UpTimeout, RestartConnection, RecvRestart, Reopen
  <2>2. state' = "UP" => state = "UP"
    BY <1>6 DEF UpTimeout, RestartConnection, RecvRestart, Reopen
  <2> QED  BY <2>1, <2>2, SteadyChoice DEF chooseVars
<1>7. CASE UNCHANGED <<state, chooseVars, fileVars>>
  BY <1>7, SteadyChoice
<1>8. CASE UNCHANGED <<chooseVars, fileVars>> /\ state' \in {"DOWN", "CLOSING"}
  BY <1>8, SteadyChoice
<1>9. CASE RecvFrame
  <2>1. ASSUME NEW m \in toUnit,
               \/ RecvAck(m) \/ RecvCommand(m) \/ RecvKill(m) \/ RecvIgnored(m)
        PROVE  UNCHANGED <<state, chooseVars, fileVars>>
    BY <2>1 DEF RecvAck, RecvCommand, RecvKill, RecvIgnored, unitVars
  <2>2. ASSUME NEW m \in toUnit, RecvClose(m) \/ RecvCloseAck(m)
        PROVE  UNCHANGED <<chooseVars, fileVars>> /\ state' \in {"DOWN", "CLOSING"}
    BY <2>2 DEF RecvClose, RecvCloseAck
  <2> QED  BY <1>1, <1>2, <1>6, <1>7, <1>8, <1>9, <2>1, <2>2 DEF RecvFrame
<1>10. CASE ProcessTimeout
  <2>1. ASSUME ClosingTimeout \/ DownTimeout
        PROVE  UNCHANGED <<chooseVars, fileVars>> /\ (state' = "UP" => state = "UP")
    BY <2>1 DEF ClosingTimeout, DownTimeout
  <2> QED  BY <1>3, <1>6, <1>10, <2>1, SteadyChoice DEF ProcessTimeout
<1>11. CASE MainLoop
  <2>1. ASSUME \/ ReportClosed \/ \E e \in Events : SendEvent(e)
               \/ \E c \in commands : SendLine(c)
        PROVE  UNCHANGED <<state, chooseVars, fileVars>>
    BY <2>1 DEF ReportClosed, SendEvent, SendLine
  <2>2. ASSUME ClearConnection \/ CloseConnection
        PROVE  UNCHANGED <<chooseVars, fileVars>> /\ state' \in {"DOWN", "CLOSING"}
    BY <2>2 DEF ClearConnection, CloseConnection
  <2> QED  BY <1>4, <1>5, <1>6, <1>7, <1>8, <1>11, <2>1, <2>2 DEF MainLoop
<1>12. CASE ServerStep \/ Lose \/ (\E s \in Servers : ServerSays(s)) \/ UNCHANGED vars
  <2>1. UNCHANGED unitVars
    BY <1>12 DEF ServerStep, Lose, ServerSays, ServerOpen, ServerRedirect, ServerOpened,
       ServerData, ServerClosed, ServerCommandAcked, ServerTakes, vars
  <2> QED  BY <1>7, <2>1 DEF unitVars
<1> QED  BY <1>9, <1>10, <1>11, <1>12 DEF Next

\* The invariants of both parts together.
LEMMA LinkInvariant == Spec => [](LinkInv /\ ChoiceInv)
BY InitLinkInv, NextLinkInv, InitChoiceInv, NextChoiceInv, PTL DEF Spec

\* However lists of one and two servers replace each other (REDIRECT), no
\* stored index points behind the list (_readServerIdx, _incServerIdx).
THEOREM LinkServerIdxInList == Spec => []ServerIdxInList
<1>1. LinkInv /\ ChoiceInv => ServerIdxInList
  BY DEF ChoiceInv
<1> QED  BY <1>1, LinkInvariant, PTL

\* Once a connection is up the file names its server and frames go to its
\* address, whether or not names resolved on the way (_setServerIp).
THEOREM LinkConnectedServerRecorded == Spec => []ConnectedServerRecorded
<1>1. LinkInv /\ ChoiceInv => ConnectedServerRecorded
  BY DEF ChoiceInv, AddressOfIdx, ConnectedHasAddress, ConnectedServerRecorded
<1> QED  BY <1>1, LinkInvariant, PTL

-----------------------------------------------------------------------------
\* A step adds at most the command that is not listed yet, or replaces one by
\* itself with one more line read.
LEMMA NextCommandsUnique ==
  LinkInv /\ CommandsUnique /\ [Next]_vars => CommandsUnique'
<1> SUFFICES ASSUME LinkInv, CommandsUnique, [Next]_vars PROVE CommandsUnique'
  OBVIOUS
<1>1. ASSUME NEW m \in toUnit, RecvCommand(m)
      PROVE  CommandsUnique'
  BY <1>1 DEF RecvCommand, Listed, CommandsUnique
<1>2. CASE commands' \subseteq commands
  BY <1>2 DEF CommandsUnique
<1>3. ASSUME NEW c \in commands, SendLine(c)
      PROVE  CommandsUnique'
  <2> DEFINE d == [c EXCEPT !.read = c.read + 1]
  <2>1. d.id = c.id /\ d.srv = c.srv
    BY DEF LinkInv, TypeOK, CommandInfos
  <2>2. commands' \subseteq (commands \ {c}) \cup {d}
    BY <1>3 DEF SendLine
  <2> HIDE DEF d
  <2> QED  BY <2>1, <2>2 DEF CommandsUnique
<1>4. CASE RecvFrame
  <2>1. ASSUME NEW m \in toUnit, RecvFrame, ~RecvCommand(m),
               \/ RecvOpen(m)    \/ RecvRedirect(m) \/ RecvAck(m)
               \/ RecvKill(m)    \/ RecvRestart(m)
               \/ RecvClose(m)   \/ RecvCloseAck(m) \/ RecvIgnored(m)
        PROVE  commands' \subseteq commands
    BY <2>1 DEF RecvOpen, RecvRedirect, RecvAck, RecvKill, RecvRestart, RecvClose,
       RecvCloseAck, RecvIgnored, unitVars
  <2> QED  BY <1>1, <1>2, <1>4, <2>1 DEF RecvFrame
<1>5. CASE ProcessTimeout
  <2>1. UNCHANGED commands
    BY <1>5 DEF ProcessTimeout, StartupTimeout, UpTimeout, ClosingTimeout, DownTimeout
  <2> QED  BY <1>2, <2>1
<1>6. CASE MainLoop
  <2>1. ASSUME \/ OpenConnection \/ ClearConnection \/ CloseConnection \/ ReportClosed
               \/ RestartConnection \/ StartProcess \/ \E e \in Events : SendEvent(e)
        PROVE  commands' \subseteq commands
    BY <2>1 DEF OpenConnection, ClearConnection, CloseConnection, ReportClosed,
       RestartConnection, StartProcess, SendEvent
  <2> QED  BY <1>2, <1>3, <1>6, <2>1 DEF MainLoop
<1>7. CASE ServerStep \/ Lose \/ (\E s \in Servers : ServerSays(s)) \/ UNCHANGED vars
  <2>1. UNCHANGED unitVars
    BY <1>7 DEF ServerStep, Lose, ServerSays, ServerOpen, ServerRedirect, ServerOpened,
       ServerData, ServerClosed, ServerCommandAcked, ServerTakes, vars
  <2> QED  BY <1>2, <2>1 DEF unitVars
<1> QED  BY <1>4, <1>5, <1>6, <1>7 DEF Next

\* findCommand never has two entries to choose from: a COMMAND repeated by
\* the network or by its server starts no second process while the first is
\* listed, for any number of servers and command ids.
THEOREM LinkCommandsUnique == Spec => []CommandsUnique
<1>1. Init => CommandsUnique
  BY DEF Init, CommandsUnique
<1> QED  BY <1>1, InitLinkInv, NextLinkInv, NextCommandsUnique, PTL DEF Spec

-----------------------------------------------------------------------------
(***************************************************************************)
(* The numbers of the frames in flight.  A session of a server uses the    *)
(* numbers from Inc(isn) on; Offset counts from there.                     *)
(***************************************************************************)
LEMMA SeqModAtLeast2 == SeqMod \in Nat /\ SeqMod > 1 /\ SessionLen \in Nat
BY LinkConstants

LEMMA IncFacts ==
  ASSUME NEW p \in Seqs
  PROVE  /\ Inc(p) \in Seqs /\ Inc(p) # p
         /\ \A q \in Seqs : Inc(p) = Inc(q) => p = q
BY SeqModAtLeast2 DEF Seqs, Inc

LEMMA OffsetFacts ==
  ASSUME NEW isn \in Nat, NEW p \in Seqs
  PROVE  /\ Offset(isn, p) \in 0 .. SeqMod - 1
         /\ \A q \in Seqs : Offset(isn, p) = Offset(isn, q) => p = q
         /\ Offset(isn, Inc(p)) = IF Offset(isn, p) = SeqMod - 1 THEN 0 ELSE Offset(isn, p) + 1
         /\ Offset(isn, Inc(isn)) = 0
<1>1. Inc(isn) \in Seqs
  BY IncInSeqs
<1> DEFINE base == Inc(isn)
<1> HIDE DEF base
<1>2. base \in 0 .. SeqMod - 1 /\ p \in 0 .. SeqMod - 1
  BY <1>1 DEF base, Seqs
<1>3. \A q : Offset(isn, q) = IF q >= base THEN q - base ELSE q + SeqMod - base
  BY DEF Offset, base
<1>4. Offset(isn, p) \in 0 .. SeqMod - 1
  BY <1>2, <1>3, SeqModAtLeast2
<1>5. \A q \in Seqs : Offset(isn, p) = Offset(isn, q) => p = q
  BY <1>2, <1>3, SeqModAtLeast2 DEF Seqs
<1>6. Inc(p) = IF p = SeqMod - 1 THEN 0 ELSE p + 1
  BY <1>2, SeqModAtLeast2 DEF Inc
<1>7. Offset(isn, Inc(p)) = IF Offset(isn, p) = SeqMod - 1 THEN 0 ELSE Offset(isn, p) + 1
  BY <1>2, <1>3, <1>6, SeqModAtLeast2
<1>8. Offset(isn, Inc(isn)) = 0
  BY <1>2, <1>3 DEF base
<1> QED  BY <1>4, <1>5, <1>7, <1>8

-----------------------------------------------------------------------------
Datas(s) == {d \in toServer : d.type = "DATA" /\ d.srv = s}
Acks(s) == {a \in toUnit : a.type = "ACK" /\ a.srv = s}
Opens(s) == {f \in toUnit : f.type = "OPEN" /\ f.srv = s}

\* The place of a number in the session of a server, and of the number the
\* server takes next.
Live(s) == srv[s].st # "closed"
At(s, seq) == Offset(srv[s].isn, seq)
In(s, seq) == InWindow(srv[s].isn, seq)
Pos(s) == At(s, srv[s].next)

\* No number of the session was used yet.
Unused(s) ==
  /\ Pos(s) = 0
  /\ \A d \in Datas(s) : ~In(s, d.seq)
  /\ \A a \in Acks(s) : ~In(s, a.seq)
  /\ ~(state = "UP" /\ dst = s /\ In(s, sendseq))

\* What is in flight of a session: frames up to the one the server takes next,
\* of which there is one content, and older ones it has; ACKs of what it has;
\* an OPEN only before anything else.
ServerSide == \A s \in Servers : Live(s) =>
  /\ Pos(s) <= SessionLen
  /\ \A d \in Datas(s) : In(s, d.seq) =>
       At(s, d.seq) <= Pos(s) /\ (At(s, d.seq) < Pos(s) => d.body \in got)
  /\ \A d, e \in Datas(s) : d.seq = srv[s].next /\ e.seq = srv[s].next => d.body = e.body
  /\ \A a \in Acks(s) : In(s, a.seq) => At(s, a.seq) <= Pos(s)
  /\ \A f \in Opens(s) : In(s, Inc(f.seq)) =>
       /\ Unused(s) /\ At(s, Inc(f.seq)) = 0
       /\ \A g \in Opens(s) : In(s, Inc(g.seq)) => g = f

\* A unit that is in the session of its server is at most one frame behind it,
\* and then that frame is outstanding and was taken.
InSession == \A s \in Servers :
  state = "UP" /\ dst = s /\ Live(s) /\ In(s, sendseq) =>
    /\ At(s, sendseq) <= Pos(s) /\ Pos(s) <= At(s, sendseq) + 1
    /\ At(s, sendseq) < Pos(s) => outstanding /\ lastFrame.body \in got
    /\ \A d \in Datas(s) : In(s, d.seq) =>
         /\ At(s, d.seq) <= At(s, sendseq)
         /\ d.seq = sendseq => outstanding /\ d.body = lastFrame.body

\* An ACK that _processAck accepts means that the outstanding frame was taken.
AckIsTrue == \A s \in Servers :
  state = "UP" /\ dst = s =>
    \A a \in Acks(s) : a.seq = Inc(sendseq) =>
      /\ outstanding /\ lastFrame.body \in got
      /\ \A b \in Acks(s) : b.seq # Inc(Inc(sendseq))

\* The first frame after an OPEN finds no ACK in flight.
OpenIsNew ==
  \A s \in Servers : \A f \in Opens(s), a \in Acks(s) : a.seq # Inc(Inc(f.seq))

NumbersInv == ServerSide /\ InSession /\ AckIsTrue /\ OpenIsNew

\* Types of what is in flight.
LEMMA NumberTypes ==
  ASSUME TypeOK
  PROVE  /\ sendseq \in Seqs /\ Inc(sendseq) \in Seqs /\ Inc(Inc(sendseq)) \in Seqs
         /\ \A s \in Servers :
              /\ srv[s].isn \in Nat /\ srv[s].next \in Seqs
              /\ \A d \in Datas(s) : d.seq \in Seqs /\ d.body \in Bodies
              /\ \A a \in Acks(s) : a.seq \in Seqs
              /\ \A f \in Opens(s) : Inc(f.seq) \in Seqs /\ Inc(Inc(f.seq)) \in Seqs
<1>1. sendseq \in Seqs /\ Inc(sendseq) \in Seqs /\ Inc(Inc(sendseq)) \in Seqs
  BY IncFacts DEF TypeOK
<1>2. ASSUME NEW s \in Servers
      PROVE  srv[s].isn \in Nat /\ srv[s].next \in Seqs
  <2>1. srv[s] \in ServerEnds
    BY DEF TypeOK
  <2>2. srv[s].isn \in Isns \cup {0} /\ srv[s].next \in Seqs
    BY <2>1 DEF ServerEnds
  <2>3. Isns \cup {0} \subseteq Nat
    BY LinkConstants
  <2> QED  BY <2>2, <2>3
<1>3. ASSUME NEW s \in Servers, NEW d \in Datas(s)
      PROVE  d.seq \in Seqs /\ d.body \in Bodies
  BY <1>3, ServerFrameFacts DEF TypeOK, Datas
<1>4. ASSUME NEW s \in Servers, NEW a \in Acks(s)
      PROVE  a.seq \in Seqs
  BY <1>4, UnitFrameFacts DEF TypeOK, Acks
<1>5. ASSUME NEW s \in Servers, NEW f \in Opens(s)
      PROVE  Inc(f.seq) \in Seqs /\ Inc(Inc(f.seq)) \in Seqs
  <2>1. f.seq \in Nat
    BY <1>5, UnitFrameFacts, LinkConstants DEF TypeOK, Opens
  <2> QED  BY <2>1, IncInSeqs, IncFacts
<1> QED  BY <1>1, <1>2, <1>3, <1>4, <1>5

LEMMA InitNumbersInv == Init => NumbersInv
BY DEF Init, NumbersInv, ServerSide, InSession, AckIsTrue, OpenIsNew, Live, Opens

\* Steps that put no DATA, ACK or OPEN in flight and leave the unit and the
\* sessions as they are, or end them.
LEMMA QuietNumbers ==
  ASSUME NumbersInv,
         \A s \in Servers :
           /\ Datas(s)' \subseteq Datas(s) /\ Acks(s)' \subseteq Acks(s)
           /\ Opens(s)' \subseteq Opens(s)
           /\ Live(s)' => Live(s) /\ srv'[s].isn = srv[s].isn /\ srv'[s].next = srv[s].next,
         got \subseteq got',
         state' = "UP" => UNCHANGED <<state, dst, sendseq, outstanding, lastFrame>>
  PROVE  NumbersInv'
<1>1. ASSUME NEW s \in Servers, Live(s)'
      PROVE  /\ Live(s) /\ Pos(s)' = Pos(s) /\ srv'[s].next = srv[s].next
             /\ \A q : At(s, q)' = At(s, q) /\ In(s, q)' = In(s, q)
             /\ Unused(s) => Unused(s)'
  <2>1. /\ Live(s) /\ Pos(s)' = Pos(s) /\ srv'[s].next = srv[s].next
        /\ \A q : At(s, q)' = At(s, q) /\ In(s, q)' = In(s, q)
    BY <1>1 DEF Pos, At, In
  <2>2. Unused(s) => Unused(s)'
    BY <2>1 DEF Unused, In
  <2> QED  BY <2>1, <2>2
<1>2. ServerSide'
  BY <1>1 DEF NumbersInv, ServerSide
<1>3. InSession'
  BY <1>1 DEF NumbersInv, InSession
<1>4. AckIsTrue'
  BY DEF NumbersInv, AckIsTrue
<1>5. OpenIsNew'
  BY DEF NumbersInv, OpenIsNew
<1> QED  BY <1>2, <1>3, <1>4, <1>5 DEF NumbersInv

\* The numbers a session may use, the one it has not reached included.
LEMMA WindowFacts ==
  ASSUME TypeOK, NEW s \in Servers
  PROVE  /\ \A q \in Seqs : In(s, q) <=> At(s, q) <= SessionLen + 1 \/ At(s, q) = SeqMod - 1
         /\ \A q \in Seqs : At(s, q) \in 0 .. SeqMod - 1
         /\ \A q \in Seqs : At(s, q) = Pos(s) => q = srv[s].next
         /\ Pos(s) \in 0 .. SeqMod - 1
         /\ \A q \in Seqs : At(s, Inc(q)) = IF At(s, q) = SeqMod - 1 THEN 0 ELSE At(s, q) + 1
<1>1. srv[s].isn \in Nat /\ srv[s].next \in Seqs
  BY NumberTypes
<1>2. \A q \in Seqs :
        /\ At(s, q) \in 0 .. SeqMod - 1
        /\ At(s, q) = Pos(s) => q = srv[s].next
        /\ At(s, Inc(q)) = IF At(s, q) = SeqMod - 1 THEN 0 ELSE At(s, q) + 1
  BY <1>1, OffsetFacts DEF At, Pos
<1> QED  BY <1>1, <1>2 DEF In, InWindow, At, Pos

LEMMA NextInWindow ==
  ASSUME TypeOK, NEW s \in Servers, Pos(s) <= SessionLen
  PROVE  In(s, srv[s].next) /\ At(s, srv[s].next) = Pos(s)
<1>1. srv[s].next \in Seqs /\ Pos(s) \in Nat
  BY NumberTypes, WindowFacts
<1>2. At(s, srv[s].next) = Pos(s)
  BY DEF Pos
<1>3. In(s, srv[s].next) <=> Pos(s) <= SessionLen + 1 \/ Pos(s) = SeqMod - 1
  BY <1>1, <1>2, WindowFacts
<1> QED  BY <1>1, <1>2, <1>3, SeqModAtLeast2

\* The unit sends a DATA frame, the outstanding one if there is one.
LEMMA SendNumbers ==
  ASSUME LinkInv, NumbersInv, dst \in Servers, state = "UP",
         UNCHANGED <<state, dst, sendseq, srv, got>>,
         outstanding', outstanding => lastFrame'.body = lastFrame.body,
         \A s \in Servers :
           /\ Acks(s)' \subseteq Acks(s) /\ Opens(s)' \subseteq Opens(s)
           /\ \A d \in Datas(s)' :
                \/ d \in Datas(s)
                \/ s = dst /\ d = Data(dst, sendseq, lastFrame'.body)
  PROVE  NumbersInv'
<1> DEFINE new == Data(dst, sendseq, lastFrame'.body)
<1>1. new.seq = sendseq /\ new.body = lastFrame'.body
  BY DEF Data
<1> HIDE DEF new
<1>2. TypeOK
  BY DEF LinkInv
<1>3. \A s \in Servers :
        /\ Live(s)' = Live(s) /\ Pos(s)' = Pos(s) /\ srv'[s] = srv[s]
        /\ \A q : At(s, q)' = At(s, q) /\ In(s, q)' = In(s, q)
  BY DEF Live, Pos, At, In
<1>4. \A s \in Servers : \A d \in Datas(s)' : d \in Datas(s) \/ (s = dst /\ d = new)
  BY DEF new
<1>5. ASSUME Live(dst), In(dst, sendseq)
      PROVE  /\ At(dst, sendseq) <= Pos(dst) /\ Pos(dst) <= At(dst, sendseq) + 1
             /\ At(dst, sendseq) < Pos(dst) => outstanding /\ lastFrame'.body \in got
             /\ \A d \in Datas(dst) : In(dst, d.seq) =>
                  /\ At(dst, d.seq) <= At(dst, sendseq)
                  /\ d.seq = sendseq => outstanding /\ d.body = lastFrame'.body
  BY <1>5 DEF NumbersInv, InSession
<1>6. ASSUME NEW s \in Servers, Unused(s)
      PROVE  Unused(s)'
  BY <1>1, <1>3, <1>4, <1>6 DEF Unused
<1>7. ASSUME NEW s \in Servers, Live(s)
      PROVE  \A d \in Datas(s)' : In(s, d.seq) =>
               At(s, d.seq) <= Pos(s) /\ (At(s, d.seq) < Pos(s) => d.body \in got)
  BY <1>1, <1>4, <1>5, <1>7 DEF NumbersInv, ServerSide
<1>8. ASSUME NEW s \in Servers, Live(s), NEW d \in Datas(s)', NEW e \in Datas(s)',
             d.seq = srv[s].next, e.seq = srv[s].next
      PROVE  d.body = e.body
  <2>1. In(s, srv[s].next)
    BY <1>2, <1>8, NextInWindow DEF NumbersInv, ServerSide
  <2>2. CASE d \in Datas(s) /\ e \in Datas(s)
    BY <1>8, <2>2 DEF NumbersInv, ServerSide
  <2>3. CASE s = dst /\ (d = new \/ e = new)
    BY <1>1, <1>4, <1>5, <1>8, <2>1, <2>3
  <2> QED  BY <1>4, <2>2, <2>3
<1>9. ServerSide'
  BY <1>3, <1>6, <1>7, <1>8 DEF NumbersInv, ServerSide
<1>10. InSession'
  <2> SUFFICES ASSUME NEW s \in Servers, state = "UP", dst = s, Live(s), In(s, sendseq)
               PROVE  /\ At(s, sendseq) <= Pos(s) /\ Pos(s) <= At(s, sendseq) + 1
                      /\ At(s, sendseq) < Pos(s) => outstanding' /\ lastFrame'.body \in got'
                      /\ \A d \in Datas(s)' : In(s, d.seq) =>
                           /\ At(s, d.seq) <= At(s, sendseq)
                           /\ d.seq = sendseq => outstanding' /\ d.body = lastFrame'.body
    BY <1>3 DEF InSession
  <2>1. ASSUME NEW d \in Datas(s)', In(s, d.seq)
        PROVE  /\ At(s, d.seq) <= At(s, sendseq)
               /\ d.seq = sendseq => outstanding' /\ d.body = lastFrame'.body
    <3>1. CASE d \in Datas(s)
      BY <1>5, <2>1, <3>1
    <3>2. CASE d = new
      <4>1. At(s, sendseq) \in Nat
        BY <1>2, NumberTypes, WindowFacts
      <4> QED  BY <1>1, <3>2, <4>1
    <3> QED  BY <1>4, <2>1, <3>1, <3>2
  <2> QED  BY <1>5, <2>1
<1>11. AckIsTrue'
  BY DEF NumbersInv, AckIsTrue
<1>12. OpenIsNew'
  BY DEF NumbersInv, OpenIsNew
<1> QED  BY <1>9, <1>10, <1>11, <1>12 DEF NumbersInv

\* The unit takes the ACK of the outstanding frame and may send the next one.
LEMMA AckNumbers ==
  ASSUME LinkInv, NumbersInv, dst \in Servers, state = "UP",
         NEW m \in Acks(dst), m.seq = Inc(sendseq), sendseq' = Inc(sendseq),
         UNCHANGED <<state, dst, srv, got>>,
         \A s \in Servers :
           /\ Acks(s)' \subseteq Acks(s) /\ Opens(s)' \subseteq Opens(s)
           /\ \A d \in Datas(s)' :
                \/ d \in Datas(s)
                \/ s = dst /\ outstanding' /\ d = Data(dst, sendseq', lastFrame'.body)
  PROVE  NumbersInv'
<1> DEFINE q == Inc(sendseq)
           new == Data(dst, q, lastFrame'.body)
<1>1. new.seq = q /\ new.body = lastFrame'.body
  BY DEF Data
<1>2. TypeOK /\ sendseq \in Seqs /\ q \in Seqs
  BY NumberTypes DEF LinkInv
<1>q. sendseq' = q /\ m.seq = q
  OBVIOUS
<1>3. \A s \in Servers :
        /\ Live(s)' = Live(s) /\ Pos(s)' = Pos(s) /\ srv'[s] = srv[s]
        /\ \A p : At(s, p)' = At(s, p) /\ In(s, p)' = In(s, p)
  BY DEF Live, Pos, At, In
<1>4. \A s \in Servers : \A d \in Datas(s)' :
        d \in Datas(s) \/ (s = dst /\ d = new /\ outstanding')
  OBVIOUS
<1>5. ASSUME Live(dst), In(dst, q)
      PROVE  /\ In(dst, sendseq) /\ At(dst, q) = Pos(dst)
             /\ At(dst, q) = At(dst, sendseq) + 1
             /\ At(dst, sendseq) \in Nat
             /\ \A d \in Datas(dst) : In(dst, d.seq) => At(dst, d.seq) <= At(dst, sendseq)
  <2>1. At(dst, q) <= Pos(dst) /\ Pos(dst) <= SessionLen
    BY <1>5, <1>q DEF NumbersInv, ServerSide
  <2>2. In(dst, sendseq) =>
          /\ At(dst, sendseq) <= Pos(dst) /\ Pos(dst) <= At(dst, sendseq) + 1
          /\ \A d \in Datas(dst) : In(dst, d.seq) => At(dst, d.seq) <= At(dst, sendseq)
    BY <1>5 DEF NumbersInv, InSession
  <2>3. /\ At(dst, sendseq) \in 0 .. SeqMod - 1 /\ Pos(dst) \in 0 .. SeqMod - 1
        /\ In(dst, sendseq) <=> At(dst, sendseq) <= SessionLen + 1 \/ At(dst, sendseq) = SeqMod - 1
        /\ At(dst, q) = IF At(dst, sendseq) = SeqMod - 1 THEN 0 ELSE At(dst, sendseq) + 1
    BY <1>2, WindowFacts
  <2>4. SeqMod \in Nat /\ SessionLen \in Nat /\ SessionLen + 1 < SeqMod
    BY LinkConstants
  <2> HIDE DEF q
  <2>5. In(dst, sendseq) /\ At(dst, q) = At(dst, sendseq) + 1
    BY <2>1, <2>2, <2>3, <2>4
  <2>6. At(dst, q) = Pos(dst)
    BY <2>1, <2>2, <2>3, <2>5
  <2> QED  BY <2>2, <2>3, <2>5, <2>6
<1>6. lastFrame.body \in got /\ \A b \in Acks(dst) : b.seq # Inc(q)
  BY DEF NumbersInv, AckIsTrue
<1> HIDE DEF q, new
<1>7. ASSUME NEW s \in Servers, Live(s), Unused(s)
      PROVE  Unused(s)'
  BY <1>1, <1>3, <1>4, <1>5, <1>7, <1>q DEF Unused
<1>8. ASSUME NEW s \in Servers, Live(s), NEW d \in Datas(s)', In(s, d.seq)
      PROVE  At(s, d.seq) <= Pos(s) /\ (At(s, d.seq) < Pos(s) => d.body \in got)
  <2>1. CASE d \in Datas(s)
    BY <1>8, <2>1 DEF NumbersInv, ServerSide
  <2>2. CASE s = dst /\ d = new
    <3>1. At(s, d.seq) = Pos(s)
      BY <1>1, <1>5, <1>8, <2>2
    <3>2. Pos(s) \in Nat
      BY <1>2, WindowFacts
    <3> QED  BY <3>1, <3>2
  <2> QED  BY <1>4, <2>1, <2>2
<1>9. ASSUME NEW s \in Servers, Live(s), NEW d \in Datas(s)', NEW e \in Datas(s)',
             d.seq = srv[s].next, e.seq = srv[s].next
      PROVE  d.body = e.body
  <2>1. In(s, srv[s].next) /\ At(s, srv[s].next) = Pos(s)
    BY <1>2, <1>9, NextInWindow DEF NumbersInv, ServerSide
  <2>2. CASE d \in Datas(s) /\ e \in Datas(s)
    BY <1>9, <2>2 DEF NumbersInv, ServerSide
  <2>3. CASE s = dst /\ d = new /\ e = new
    BY <2>3
  <2>4. ASSUME NEW f \in Datas(s), f.seq = srv[s].next, s = dst, q = srv[s].next
        PROVE  FALSE
    BY <1>5, <1>9, <2>1, <2>4
  <2> QED  BY <1>1, <1>4, <1>9, <2>2, <2>3, <2>4
<1>10. ServerSide'
  BY <1>3, <1>7, <1>8, <1>9 DEF NumbersInv, ServerSide
<1>11. InSession'
  <2> SUFFICES ASSUME NEW s \in Servers, dst = s, Live(s), In(s, q)
               PROVE  /\ At(s, q) <= Pos(s) /\ Pos(s) <= At(s, q) + 1 /\ ~(At(s, q) < Pos(s))
                      /\ \A d \in Datas(s)' : In(s, d.seq) =>
                           /\ At(s, d.seq) <= At(s, q)
                           /\ d.seq = q => outstanding' /\ d.body = lastFrame'.body
    BY <1>3, <1>q DEF InSession
  <2>1. At(s, q) = Pos(s) /\ At(s, sendseq) \in Nat /\ At(s, q) = At(s, sendseq) + 1
    BY <1>5
  <2>2. ASSUME NEW d \in Datas(s)', In(s, d.seq)
        PROVE  /\ At(s, d.seq) <= At(s, q)
               /\ d.seq = q => outstanding' /\ d.body = lastFrame'.body
    <3>1. CASE d \in Datas(s)
      <4>1. d.seq \in Seqs
        BY <1>2, <3>1, NumberTypes
      <4>2. At(s, d.seq) <= At(s, sendseq) /\ At(s, d.seq) \in 0 .. SeqMod - 1
        BY <1>2, <1>5, <2>2, <3>1, <4>1, WindowFacts
      <4> QED  BY <2>1, <4>2, SeqModAtLeast2
    <3>2. CASE d = new /\ outstanding'
      BY <1>1, <2>1, <3>2
    <3> QED  BY <1>4, <3>1, <3>2
  <2> QED  BY <2>1, <2>2
<1>12. AckIsTrue'
  BY <1>6, <1>q DEF AckIsTrue
<1>13. OpenIsNew'
  BY DEF NumbersInv, OpenIsNew
<1> QED  BY <1>10, <1>11, <1>12, <1>13 DEF NumbersInv

\* The unit takes an OPEN: the session it opens has not begun, so the first
\* frame of the unit is the one the server takes next.
LEMMA OpenNumbers ==
  ASSUME LinkInv, NumbersInv, dst \in Servers, state # "UP", state' = "UP",
         NEW m \in Opens(dst), sendseq' = Inc(m.seq),
         UNCHANGED <<dst, srv, got>>,
         m \notin Opens(dst)',
         \A s \in Servers :
           /\ Acks(s)' \subseteq Acks(s) /\ Opens(s)' \subseteq Opens(s)
           /\ \A d \in Datas(s)' :
                \/ d \in Datas(s)
                \/ s = dst /\ outstanding' /\ d = Data(dst, sendseq', lastFrame'.body)
  PROVE  NumbersInv'
<1> DEFINE q == Inc(m.seq)
           new == Data(dst, q, lastFrame'.body)
<1>1. new.seq = q /\ new.body = lastFrame'.body /\ sendseq' = q
  BY DEF Data
<1>2. TypeOK /\ q \in Seqs
  BY NumberTypes DEF LinkInv
<1>3. \A s \in Servers :
        /\ Live(s)' = Live(s) /\ Pos(s)' = Pos(s) /\ srv'[s] = srv[s]
        /\ \A p : At(s, p)' = At(s, p) /\ In(s, p)' = In(s, p)
  BY DEF Live, Pos, At, In
<1>4. \A s \in Servers : \A d \in Datas(s)' :
        d \in Datas(s) \/ (s = dst /\ d = new /\ outstanding')
  OBVIOUS
<1>5. ASSUME Live(dst), In(dst, q)
      PROVE  /\ At(dst, q) = 0 /\ Pos(dst) = 0
             /\ \A d \in Datas(dst) : ~In(dst, d.seq)
             /\ \A g \in Opens(dst) : In(dst, Inc(g.seq)) => g = m
  BY <1>5 DEF NumbersInv, ServerSide, Unused
<1>6. \A b \in Acks(dst) : b.seq # Inc(q)
  BY DEF NumbersInv, OpenIsNew
<1> HIDE DEF q, new
<1>7. ASSUME NEW s \in Servers, Live(s), Unused(s), s = dst => ~In(s, q)
      PROVE  Unused(s)'
  BY <1>1, <1>3, <1>4, <1>7 DEF Unused
<1>8. ASSUME NEW s \in Servers, Live(s), NEW f \in Opens(s)', In(s, Inc(f.seq))
      PROVE  /\ Unused(s)' /\ At(s, Inc(f.seq)) = 0
             /\ \A g \in Opens(s)' : In(s, Inc(g.seq)) => g = f
  <2>1. /\ Unused(s) /\ At(s, Inc(f.seq)) = 0
        /\ \A g \in Opens(s)' : In(s, Inc(g.seq)) => g = f
    BY <1>8 DEF NumbersInv, ServerSide
  <2>2. s = dst => ~In(s, q)
    BY <1>5, <1>8
  <2> QED  BY <1>7, <1>8, <2>1, <2>2
<1>9. ASSUME NEW s \in Servers, Live(s), NEW d \in Datas(s)', In(s, d.seq)
      PROVE  At(s, d.seq) <= Pos(s) /\ (At(s, d.seq) < Pos(s) => d.body \in got)
  <2>1. CASE d \in Datas(s)
    BY <1>9, <2>1 DEF NumbersInv, ServerSide
  <2>2. CASE s = dst /\ d = new
    BY <1>1, <1>5, <1>9, <2>2
  <2> QED  BY <1>4, <2>1, <2>2
<1>10. ASSUME NEW s \in Servers, Live(s), NEW d \in Datas(s)', NEW e \in Datas(s)',
              d.seq = srv[s].next, e.seq = srv[s].next
       PROVE  d.body = e.body
  <2>1. In(s, srv[s].next)
    BY <1>2, <1>10, NextInWindow DEF NumbersInv, ServerSide
  <2>2. CASE d \in Datas(s) /\ e \in Datas(s)
    BY <1>10, <2>2 DEF NumbersInv, ServerSide
  <2>3. CASE s = dst /\ (d = new \/ e = new)
    <3>1. srv[s].next = q
      BY <1>1, <1>10, <2>3
    <3>2. d = new /\ e = new
      BY <1>4, <1>5, <1>10, <2>1, <2>3, <3>1
    <3> QED  BY <3>2
  <2> QED  BY <1>4, <2>2, <2>3
<1>11. ServerSide'
  BY <1>3, <1>8, <1>9, <1>10 DEF NumbersInv, ServerSide
<1>12. InSession'
  <2> SUFFICES ASSUME NEW s \in Servers, dst = s, Live(s), In(s, q)
               PROVE  /\ At(s, q) = 0 /\ Pos(s) = 0
                      /\ \A d \in Datas(s)' : In(s, d.seq) =>
                           d.seq = q /\ outstanding' /\ d.body = lastFrame'.body
    BY <1>1, <1>3 DEF InSession
  <2> QED  BY <1>1, <1>4, <1>5
<1>13. AckIsTrue'
  BY <1>1, <1>6 DEF AckIsTrue
<1>14. OpenIsNew'
  BY DEF NumbersInv, OpenIsNew
<1> QED  BY <1>11, <1>12, <1>13, <1>14 DEF NumbersInv

\* A server draws a number that no frame in flight stands in the way of.
LEMMA ServerOpenNumbers ==
  ASSUME LinkInv, NumbersInv, NEW r \in Servers, NEW isn \in Isns,
         \A seq \in InUse : ~InWindow(isn, seq),
         srv' = [srv EXCEPT ![r] = [st |-> "opening", isn |-> isn, next |-> Inc(isn)]],
         UNCHANGED <<unitVars, got>>,
         \A s \in Servers :
           /\ Datas(s)' \subseteq Datas(s) /\ Acks(s)' \subseteq Acks(s)
           /\ \A f \in Opens(s)' :
                \/ f \in Opens(s)
                \/ s = r /\ f = [type |-> "OPEN", srv |-> r, seq |-> isn]
  PROVE  NumbersInv'
<1>1. TypeOK /\ isn \in Nat /\ Inc(isn) \in Seqs /\ srv \in [Servers -> ServerEnds]
  BY LinkConstants, IncInSeqs DEF LinkInv, TypeOK
<1>2. Offset(isn, Inc(isn)) = 0 /\ Offset(isn, Inc(Inc(isn))) = 1
  BY <1>1, OffsetFacts, SeqModAtLeast2
<1>3. UNCHANGED <<state, dst, sendseq, outstanding, lastFrame>>
  BY DEF unitVars, dataVars, chooseVars
<1>4. /\ \A d \in Datas(r) : ~InWindow(isn, d.seq)
      /\ \A a \in Acks(r) : ~InWindow(isn, a.seq)
      /\ \A f \in Opens(r) : ~InWindow(isn, Inc(f.seq))
      /\ state = "UP" => ~InWindow(isn, sendseq)
  BY DEF InUse, Datas, Acks, Opens
<1>5. /\ Pos(r)' = 0 /\ Live(r)'
      /\ \A q : At(r, q)' = Offset(isn, q) /\ In(r, q)' = InWindow(isn, q)
  BY <1>1, <1>2 DEF Pos, At, In, Live
<1>6. ASSUME NEW s \in Servers, s # r
      PROVE  /\ Live(s)' = Live(s) /\ Pos(s)' = Pos(s) /\ srv'[s] = srv[s]
             /\ \A q : At(s, q)' = At(s, q) /\ In(s, q)' = In(s, q)
             /\ Opens(s)' \subseteq Opens(s)
             /\ Unused(s) => Unused(s)'
  <2>1. srv'[s] = srv[s]
    BY <1>1, <1>6
  <2>2. /\ Live(s)' = Live(s) /\ Pos(s)' = Pos(s)
        /\ \A q : At(s, q)' = At(s, q) /\ In(s, q)' = In(s, q)
    BY <2>1 DEF Live, Pos, At, In
  <2>3. Opens(s)' \subseteq Opens(s)
    BY <1>6
  <2>4. Unused(s) => Unused(s)'
    BY <1>3, <2>2 DEF Unused
  <2> QED  BY <2>1, <2>2, <2>3, <2>4
<1>7. ServerSide'
  <2>1. ASSUME NEW s \in Servers, s # r, Live(s)
        PROVE  /\ Pos(s) <= SessionLen
               /\ \A d \in Datas(s)' : In(s, d.seq) =>
                    At(s, d.seq) <= Pos(s) /\ (At(s, d.seq) < Pos(s) => d.body \in got)
               /\ \A d, e \in Datas(s)' :
                    d.seq = srv[s].next /\ e.seq = srv[s].next => d.body = e.body
               /\ \A a \in Acks(s)' : In(s, a.seq) => At(s, a.seq) <= Pos(s)
               /\ \A f \in Opens(s)' : In(s, Inc(f.seq)) =>
                    /\ Unused(s)' /\ At(s, Inc(f.seq)) = 0
                    /\ \A g \in Opens(s)' : In(s, Inc(g.seq)) => g = f
    BY <1>6, <2>1 DEF NumbersInv, ServerSide
  <2>2. Unused(r)'
    BY <1>3, <1>4, <1>5 DEF Unused
  <2>3. \A d, e \in Datas(r)' :
          d.seq = srv'[r].next /\ e.seq = srv'[r].next => d.body = e.body
    <3>1. srv'[r].next = Inc(isn) /\ InWindow(isn, Inc(isn))
      BY <1>1, <1>2, SeqModAtLeast2 DEF InWindow
    <3> QED  BY <1>4, <3>1
  <2>4. \A f \in Opens(r)' : InWindow(isn, Inc(f.seq)) =>
          f = [type |-> "OPEN", srv |-> r, seq |-> isn]
    BY <1>4
  <2>5. 0 <= SessionLen
    BY SeqModAtLeast2
  <2> QED  BY <1>2, <1>3, <1>4, <1>5, <1>6, <2>1, <2>2, <2>3, <2>4, <2>5 DEF ServerSide
<1>8. InSession'
  <2>1. ASSUME NEW s \in Servers, s # r
        PROVE  Datas(s)' \subseteq Datas(s)
    OBVIOUS
  <2> QED  BY <1>3, <1>4, <1>5, <1>6, <2>1 DEF NumbersInv, InSession
<1>9. AckIsTrue'
  BY <1>3 DEF NumbersInv, AckIsTrue
<1>10. OpenIsNew'
  <2>1. InWindow(isn, Inc(Inc(isn)))
    BY <1>2, SeqModAtLeast2 DEF InWindow
  <2>2. ASSUME NEW s \in Servers, NEW f \in Opens(s)', NEW a \in Acks(s)',
               a.seq = Inc(Inc(f.seq))
        PROVE  FALSE
    <3>1. CASE f \in Opens(s)
      BY <2>2, <3>1 DEF NumbersInv, OpenIsNew
    <3>2. CASE s = r /\ f = [type |-> "OPEN", srv |-> r, seq |-> isn]
      BY <1>4, <2>1, <2>2, <3>2
    <3> QED  BY <3>1, <3>2
  <2> QED  BY <2>2 DEF OpenIsNew
<1> QED  BY <1>7, <1>8, <1>9, <1>10 DEF NumbersInv

\* A frame of the session in flight: no OPEN of the session is, and a unit in
\* the session has reached the number of the frame.
LEMMA DataInFlight ==
  ASSUME LinkInv, NumbersInv, NEW r \in Servers, Live(r), NEW m \in Datas(r), In(r, m.seq)
  PROVE  /\ \A f \in Opens(r) : ~In(r, Inc(f.seq))
         /\ Pos(r) \in Nat /\ Pos(r) <= SessionLen /\ At(r, m.seq) <= Pos(r)
         /\ state = "UP" /\ dst = r /\ In(r, sendseq) =>
              At(r, m.seq) <= At(r, sendseq) /\ At(r, sendseq) <= Pos(r)
<1>1. \A f \in Opens(r) : ~In(r, Inc(f.seq))
  BY DEF NumbersInv, ServerSide, Unused
<1>2. Pos(r) \in Nat
  BY WindowFacts DEF LinkInv
<1> QED  BY <1>1, <1>2 DEF NumbersInv, ServerSide, InSession

\* The next numbers of a session that is not full are In.
LEMMA Steps ==
  ASSUME TypeOK, NEW s \in Servers, NEW q \in Seqs,
         NEW k \in Nat, k <= SessionLen, At(s, q) = k
  PROVE  /\ In(s, q) /\ In(s, Inc(q)) /\ At(s, Inc(q)) = k + 1
<1>1. SeqMod \in Nat /\ SessionLen \in Nat /\ SessionLen + 1 < SeqMod
  BY LinkConstants
<1>2. /\ In(s, q) <=> k <= SessionLen + 1 \/ k = SeqMod - 1
      /\ At(s, Inc(q)) = IF k = SeqMod - 1 THEN 0 ELSE k + 1
  BY WindowFacts
<1>3. At(s, Inc(q)) = k + 1
  BY <1>1, <1>2
<1>4. Inc(q) \in Seqs
  BY IncFacts
<1>5. In(s, Inc(q)) <=> k + 1 <= SessionLen + 1 \/ k + 1 = SeqMod - 1
  BY <1>3, <1>4, WindowFacts
<1> QED  BY <1>1, <1>2, <1>3, <1>5

\* The number before one of a session is In too.
LEMMA StepBack ==
  ASSUME TypeOK, NEW s \in Servers, NEW q \in Seqs,
         NEW k \in Nat, k <= SessionLen, At(s, Inc(q)) = k
  PROVE  In(s, q) /\ At(s, q) = IF k = 0 THEN SeqMod - 1 ELSE k - 1
<1>1. SeqMod \in Nat /\ SessionLen \in Nat /\ SessionLen + 1 < SeqMod
  BY LinkConstants
<1>2. /\ In(s, q) <=> At(s, q) <= SessionLen + 1 \/ At(s, q) = SeqMod - 1
      /\ k = IF At(s, q) = SeqMod - 1 THEN 0 ELSE At(s, q) + 1
      /\ At(s, q) \in 0 .. SeqMod - 1
  BY WindowFacts
<1> QED  BY <1>1, <1>2

\* The server takes the next frame of its session and acknowledges it.
LEMMA ServerTakesNumbers ==
  ASSUME LinkInv, NumbersInv, NEW r \in Servers, NEW m \in Datas(r),
         srv[r].st = "open", m.seq = srv[r].next, Pos(r) < SessionLen,
         srv' = [srv EXCEPT ![r].next = Inc(m.seq)], got' = got \cup {m.body},
         UNCHANGED unitVars,
         \A s \in Servers :
           /\ Datas(s)' \subseteq Datas(s) /\ Opens(s)' \subseteq Opens(s)
           /\ \A a \in Acks(s)' : a \in Acks(s) \/ (s = r /\ a.seq = Inc(m.seq))
  PROVE  NumbersInv'
<1>1. /\ TypeOK /\ m.seq \in Seqs /\ Inc(m.seq) \in Seqs /\ Inc(Inc(m.seq)) \in Seqs
      /\ sendseq \in Seqs /\ Inc(sendseq) \in Seqs
      /\ srv \in [Servers -> ServerEnds] /\ Live(r)
  BY NumberTypes, IncFacts DEF LinkInv, TypeOK, Live
<1>2. UNCHANGED <<state, dst, sendseq, outstanding, lastFrame>>
  BY DEF unitVars, dataVars, chooseVars
<1> DEFINE p == Pos(r)
<1>3. /\ p \in Nat /\ p + 1 <= SessionLen /\ At(r, m.seq) = p /\ SessionLen \in Nat
      /\ p = Pos(r)
  BY <1>1, WindowFacts, SeqModAtLeast2 DEF Pos
<1> HIDE DEF p
<1>4. /\ In(r, m.seq) /\ In(r, Inc(m.seq)) /\ In(r, Inc(Inc(m.seq)))
      /\ At(r, Inc(m.seq)) = p + 1 /\ At(r, Inc(Inc(m.seq))) = p + 2
  BY <1>1, <1>3, Steps
<1>5. /\ \A f \in Opens(r) : ~In(r, Inc(f.seq))
      /\ state = "UP" /\ dst = r /\ In(r, sendseq) => At(r, sendseq) = p
  <2>1. At(r, sendseq) \in Nat
    BY <1>1, WindowFacts
  <2> QED  BY <1>1, <1>3, <1>4, <2>1, DataInFlight
<1>6. /\ \A s \in Servers : /\ Live(s)' = Live(s)
                            /\ \A q : At(s, q)' = At(s, q) /\ In(s, q)' = In(s, q)
      /\ Pos(r)' = p + 1 /\ srv'[r].next = Inc(m.seq)
      /\ \A s \in Servers \ {r} : Pos(s)' = Pos(s) /\ srv'[s] = srv[s] /\ Acks(s)' \subseteq Acks(s)
  <2>1. /\ srv'[r].next = Inc(m.seq)
        /\ \A s \in Servers : srv'[s].isn = srv[s].isn /\ srv'[s].st = srv[s].st
        /\ \A s \in Servers \ {r} : srv'[s] = srv[s]
    BY <1>1 DEF ServerEnds
  <2>2. \A s \in Servers : /\ Live(s)' = Live(s)
                           /\ \A q : At(s, q)' = At(s, q) /\ In(s, q)' = In(s, q)
    BY <2>1 DEF Live, At, In
  <2>3. Pos(r)' = At(r, Inc(m.seq))
    BY <2>1 DEF Pos, At
  <2>4. \A s \in Servers \ {r} : Pos(s)' = Pos(s) /\ srv'[s] = srv[s] /\ Acks(s)' \subseteq Acks(s)
    BY <2>1 DEF Pos, At
  <2> QED  BY <1>4, <2>1, <2>2, <2>3, <2>4
<1>7. ASSUME NEW s \in Servers \ {r}, Unused(s)
      PROVE  Unused(s)'
  BY <1>2, <1>6, <1>7 DEF Unused
<1>8. ServerSide'
  <2>1. ASSUME NEW s \in Servers \ {r}, Live(s)
        PROVE  /\ Pos(s) <= SessionLen
               /\ \A d \in Datas(s)' : In(s, d.seq) =>
                    At(s, d.seq) <= Pos(s) /\ (At(s, d.seq) < Pos(s) => d.body \in got')
               /\ \A d, e \in Datas(s)' :
                    d.seq = srv[s].next /\ e.seq = srv[s].next => d.body = e.body
               /\ \A a \in Acks(s)' : In(s, a.seq) => At(s, a.seq) <= Pos(s)
               /\ \A f \in Opens(s)' : In(s, Inc(f.seq)) =>
                    /\ Unused(s)' /\ At(s, Inc(f.seq)) = 0
                    /\ \A g \in Opens(s)' : In(s, Inc(g.seq)) => g = f
    BY <1>6, <1>7, <2>1 DEF NumbersInv, ServerSide
  <2>2. ASSUME NEW d \in Datas(r)', In(r, d.seq)
        PROVE  At(r, d.seq) <= p /\ d.body \in got'
    <3>1. d \in Datas(r) /\ d.seq \in Seqs /\ At(r, d.seq) \in Nat
      BY <1>1, NumberTypes, WindowFacts
    <3>2. At(r, d.seq) <= p /\ (At(r, d.seq) < p => d.body \in got)
      BY <1>1, <1>3, <2>2, <3>1 DEF NumbersInv, ServerSide
    <3>3. At(r, d.seq) = p => d.seq = srv[r].next
      BY <1>1, <1>3, <3>1, WindowFacts
    <3>4. d.seq = srv[r].next => d.body = m.body
      BY <1>1, <3>1 DEF NumbersInv, ServerSide
    <3> QED  BY <1>3, <3>1, <3>2, <3>3, <3>4
  <2>3. \A d \in Datas(r)' : d.seq # Inc(m.seq)
    BY <1>3, <1>4, <2>2
  <2>4. ASSUME NEW a \in Acks(r)', In(r, a.seq)
        PROVE  At(r, a.seq) <= p + 1
    <3>1. CASE a \in Acks(r)
      <4>1. At(r, a.seq) <= p /\ At(r, a.seq) \in Nat
        BY <1>1, <1>3, <2>4, <3>1, NumberTypes, WindowFacts DEF NumbersInv, ServerSide
      <4> QED  BY <1>3, <4>1
    <3> QED  BY <1>3, <1>4, <3>1
  <2>5. \A f \in Opens(r)' : ~In(r, Inc(f.seq))
    BY <1>5
  <2>6. \A d \in Datas(r)' : In(r, d.seq) => At(r, d.seq) <= p + 1
    <3>1. \A d \in Datas(r)' : In(r, d.seq) => At(r, d.seq) \in Nat
      BY <1>1, NumberTypes, WindowFacts
    <3> QED  BY <1>3, <2>2, <3>1
  <2>7. /\ Pos(r)' <= SessionLen
        /\ \A d \in Datas(r)' : In(r, d.seq)' =>
             At(r, d.seq)' <= Pos(r)' /\ (At(r, d.seq)' < Pos(r)' => d.body \in got')
        /\ \A d, e \in Datas(r)' :
             d.seq = srv'[r].next /\ e.seq = srv'[r].next => d.body = e.body
        /\ \A a \in Acks(r)' : In(r, a.seq)' => At(r, a.seq)' <= Pos(r)'
        /\ \A f \in Opens(r)' : ~In(r, Inc(f.seq))'
    BY <1>3, <1>6, <2>2, <2>3, <2>4, <2>5, <2>6
  <2> QED  BY <1>6, <2>1, <2>7 DEF ServerSide
<1>9. InSession'
  <2>1. ASSUME NEW s \in Servers, state = "UP", dst = s, Live(s), In(s, sendseq)
        PROVE  /\ At(s, sendseq) <= Pos(s)' /\ Pos(s)' <= At(s, sendseq) + 1
               /\ At(s, sendseq) < Pos(s)' => outstanding /\ lastFrame.body \in got'
               /\ \A d \in Datas(s)' : In(s, d.seq) =>
                    /\ At(s, d.seq) <= At(s, sendseq)
                    /\ d.seq = sendseq => outstanding /\ d.body = lastFrame.body
    <3>1. \A d \in Datas(s)' : In(s, d.seq) =>
            /\ At(s, d.seq) <= At(s, sendseq)
            /\ d.seq = sendseq => outstanding /\ d.body = lastFrame.body
      BY <2>1 DEF NumbersInv, InSession
    <3>2. CASE s # r
      BY <1>6, <2>1, <3>1, <3>2 DEF NumbersInv, InSession
    <3>3. CASE s = r
      <4>1. At(r, sendseq) = p /\ sendseq = m.seq
        BY <1>1, <1>3, <1>5, <2>1, <3>3, WindowFacts
      <4>2. outstanding /\ m.body = lastFrame.body
        BY <1>4, <2>1, <3>3, <4>1 DEF NumbersInv, InSession
      <4> QED  BY <1>3, <1>6, <3>1, <3>3, <4>1, <4>2
    <3> QED  BY <3>2, <3>3
  <2> QED  BY <1>2, <1>6, <2>1 DEF InSession
<1>10. AckIsTrue'
  <2> SUFFICES ASSUME NEW s \in Servers, state = "UP", dst = s,
                      NEW a \in Acks(s)', a.seq = Inc(sendseq)
               PROVE  /\ outstanding /\ lastFrame.body \in got'
                      /\ \A b \in Acks(s)' : b.seq # Inc(Inc(sendseq))
    BY <1>2 DEF AckIsTrue
  <2>1. CASE a \in Acks(s)
    <3>1. /\ outstanding /\ lastFrame.body \in got'
          /\ \A b \in Acks(s) : b.seq # Inc(Inc(sendseq))
      BY <2>1 DEF NumbersInv, AckIsTrue
    <3>2. ASSUME s = r, Inc(m.seq) = Inc(Inc(sendseq))
          PROVE  FALSE
      <4>1. m.seq = Inc(sendseq)
        BY <1>1, <3>2, IncFacts
      <4>2. In(r, sendseq) /\ At(r, sendseq) = IF p = 0 THEN SeqMod - 1 ELSE p - 1
        BY <1>1, <1>3, <4>1, StepBack
      <4> QED  BY <1>3, <1>5, <3>2, <4>2, LinkConstants
    <3> QED  BY <3>1, <3>2
  <2>2. CASE s = r /\ a.seq = Inc(m.seq)
    <3>1. sendseq = m.seq
      BY <1>1, <2>2, IncFacts
    <3>2. outstanding /\ m.body = lastFrame.body
      BY <1>1, <1>4, <2>2, <3>1 DEF NumbersInv, InSession
    <3>3. ASSUME NEW b \in Acks(r), b.seq = Inc(Inc(m.seq))
          PROVE  FALSE
      <4>1. p + 2 <= p
        BY <1>1, <1>3, <1>4, <3>3 DEF NumbersInv, ServerSide
      <4> QED  BY <1>3, <4>1
    <3>4. Inc(m.seq) # Inc(Inc(m.seq))
      BY <1>1, IncFacts
    <3> QED  BY <2>2, <3>1, <3>2, <3>3, <3>4
  <2> QED  BY <2>1, <2>2
<1>11. OpenIsNew'
  <2> SUFFICES ASSUME NEW s \in Servers, NEW f \in Opens(s)', NEW a \in Acks(s)',
                      a.seq = Inc(Inc(f.seq))
               PROVE  FALSE
    BY DEF OpenIsNew
  <2>1. CASE a \in Acks(s)
    BY <2>1 DEF NumbersInv, OpenIsNew
  <2>2. CASE s = r /\ a.seq = Inc(m.seq)
    <3>1. Inc(f.seq) \in Seqs
      BY <1>1, NumberTypes
    <3>2. m.seq = Inc(f.seq)
      BY <1>1, <2>2, <3>1, IncFacts
    <3> QED  BY <1>4, <1>5, <2>2, <3>2
  <2> QED  BY <2>1, <2>2
<1> QED  BY <1>8, <1>9, <1>10, <1>11 DEF NumbersInv

\* The server acknowledges the frame before the next one again.
LEMMA ServerRepeatsNumbers ==
  ASSUME LinkInv, NumbersInv, NEW r \in Servers, NEW m \in Datas(r),
         srv[r].st = "open", Inc(m.seq) = srv[r].next,
         UNCHANGED <<unitVars, srv, got>>,
         \A s \in Servers :
           /\ Datas(s)' \subseteq Datas(s) /\ Opens(s)' \subseteq Opens(s)
           /\ \A a \in Acks(s)' : a \in Acks(s) \/ (s = r /\ a.seq = Inc(m.seq))
  PROVE  NumbersInv'
<1>1. /\ TypeOK /\ m.seq \in Seqs /\ Inc(m.seq) \in Seqs /\ Inc(Inc(m.seq)) \in Seqs
      /\ sendseq \in Seqs /\ Inc(sendseq) \in Seqs /\ Live(r)
  BY NumberTypes, IncFacts DEF LinkInv, Live
<1>2. UNCHANGED <<state, dst, sendseq, outstanding, lastFrame>>
  BY DEF unitVars, dataVars, chooseVars
<1> DEFINE p == Pos(r)
<1>3. /\ p \in Nat /\ p <= SessionLen /\ At(r, Inc(m.seq)) = p /\ SessionLen \in Nat
      /\ p = Pos(r)
  BY <1>1, WindowFacts, SeqModAtLeast2 DEF Pos, NumbersInv, ServerSide
<1> HIDE DEF p
<1>4. /\ In(r, m.seq) /\ p > 0 /\ At(r, m.seq) = p - 1 /\ m.body \in got
  <2>1. In(r, m.seq) /\ At(r, m.seq) = IF p = 0 THEN SeqMod - 1 ELSE p - 1
    BY <1>1, <1>3, StepBack
  <2>2. At(r, m.seq) <= p /\ (At(r, m.seq) < p => m.body \in got)
    BY <1>1, <1>3, <2>1 DEF NumbersInv, ServerSide
  <2>3. SeqMod - 1 > SessionLen /\ SeqMod \in Nat
    BY LinkConstants
  <2> QED  BY <1>3, <2>1, <2>2, <2>3
<1>5. In(r, Inc(Inc(m.seq))) /\ At(r, Inc(Inc(m.seq))) = p + 1
  BY <1>1, <1>3, Steps
<1>6. /\ \A f \in Opens(r) : ~In(r, Inc(f.seq))
      /\ state = "UP" /\ dst = r /\ In(r, sendseq) =>
           p - 1 <= At(r, sendseq) /\ At(r, sendseq) <= p
  BY <1>1, <1>3, <1>4, DataInFlight
<1>7. \A s \in Servers :
        /\ Live(s)' = Live(s) /\ Pos(s)' = Pos(s) /\ srv'[s] = srv[s]
        /\ \A q : At(s, q)' = At(s, q) /\ In(s, q)' = In(s, q)
        /\ s # r => Acks(s)' \subseteq Acks(s)
  <2>1. \A s \in Servers :
          /\ Live(s)' = Live(s) /\ Pos(s)' = Pos(s) /\ srv'[s] = srv[s]
          /\ \A q : At(s, q)' = At(s, q) /\ In(s, q)' = In(s, q)
    BY DEF Live, Pos, At, In
  <2>2. \A s \in Servers : s # r => Acks(s)' \subseteq Acks(s)
    OBVIOUS
  <2> QED  BY <2>1, <2>2
<1>8. ASSUME NEW s \in Servers, s # r, Unused(s)
      PROVE  Unused(s)'
  BY <1>2, <1>7, <1>8 DEF Unused
<1>9. ServerSide'
  <2>1. ASSUME NEW s \in Servers, Live(s), NEW a \in Acks(s)', In(s, a.seq)
        PROVE  At(s, a.seq) <= Pos(s)
    <3>1. CASE a \in Acks(s)
      BY <2>1, <3>1 DEF NumbersInv, ServerSide
    <3>2. CASE s = r /\ a.seq = Inc(m.seq)
      BY <1>3, <3>2
    <3> QED  BY <3>1, <3>2
  <2>2. ASSUME NEW s \in Servers, Live(s), NEW f \in Opens(s)', In(s, Inc(f.seq))
        PROVE  /\ Unused(s)' /\ At(s, Inc(f.seq)) = 0
               /\ \A g \in Opens(s)' : In(s, Inc(g.seq)) => g = f
    BY <1>6, <1>8, <2>2 DEF NumbersInv, ServerSide
  <2>3. \A s \in Servers : Live(s) =>
          /\ Pos(s) <= SessionLen
          /\ \A d \in Datas(s)' : In(s, d.seq) =>
               At(s, d.seq) <= Pos(s) /\ (At(s, d.seq) < Pos(s) => d.body \in got)
          /\ \A d, e \in Datas(s)' :
               d.seq = srv[s].next /\ e.seq = srv[s].next => d.body = e.body
    BY DEF NumbersInv, ServerSide
  <2> QED  BY <1>7, <2>1, <2>2, <2>3 DEF ServerSide
<1>10. InSession'
  <2>1. \A s \in Servers : Datas(s)' \subseteq Datas(s)
    OBVIOUS
  <2> QED  BY <1>2, <1>7, <2>1 DEF NumbersInv, InSession
<1>11. AckIsTrue'
  <2> SUFFICES ASSUME NEW s \in Servers, state = "UP", dst = s,
                      NEW a \in Acks(s)', a.seq = Inc(sendseq)
               PROVE  /\ outstanding /\ lastFrame.body \in got
                      /\ \A b \in Acks(s)' : b.seq # Inc(Inc(sendseq))
    BY <1>2 DEF AckIsTrue
  <2>1. CASE a \in Acks(s)
    <3>1. /\ outstanding /\ lastFrame.body \in got
          /\ \A b \in Acks(s) : b.seq # Inc(Inc(sendseq))
      BY <2>1 DEF NumbersInv, AckIsTrue
    <3>2. ASSUME s = r, Inc(m.seq) = Inc(Inc(sendseq))
          PROVE  FALSE
      <4>1. m.seq = Inc(sendseq)
        BY <1>1, <3>2, IncFacts
      <4>2. p - 1 \in Nat /\ p - 1 <= SessionLen
        BY <1>3, <1>4
      <4>3. In(r, sendseq) /\ At(r, sendseq) = IF p - 1 = 0 THEN SeqMod - 1 ELSE p - 2
        BY <1>1, <1>3, <1>4, <4>1, <4>2, StepBack
      <4>4. SeqMod - 1 > SessionLen /\ SeqMod \in Nat
        BY LinkConstants
      <4> QED  BY <1>3, <1>6, <3>2, <4>3, <4>4
    <3> QED  BY <3>1, <3>2
  <2>2. CASE s = r /\ a.seq = Inc(m.seq)
    <3>1. sendseq = m.seq
      BY <1>1, <2>2, IncFacts
    <3>2. outstanding /\ m.body = lastFrame.body
      BY <1>1, <1>4, <2>2, <3>1 DEF NumbersInv, InSession
    <3>3. ASSUME NEW b \in Acks(r), b.seq = Inc(Inc(m.seq))
          PROVE  FALSE
      <4>1. p + 1 <= p
        BY <1>1, <1>3, <1>5, <3>3 DEF NumbersInv, ServerSide
      <4> QED  BY <1>3, <4>1
    <3>4. Inc(m.seq) # Inc(Inc(m.seq))
      BY <1>1, IncFacts
    <3> QED  BY <1>4, <2>2, <3>1, <3>2, <3>3, <3>4
  <2> QED  BY <2>1, <2>2
<1>12. OpenIsNew'
  <2> SUFFICES ASSUME NEW s \in Servers, NEW f \in Opens(s)', NEW a \in Acks(s)',
                      a.seq = Inc(Inc(f.seq))
               PROVE  FALSE
    BY DEF OpenIsNew
  <2>1. CASE a \in Acks(s)
    BY <2>1 DEF NumbersInv, OpenIsNew
  <2>2. CASE s = r /\ a.seq = Inc(m.seq)
    <3>1. Inc(f.seq) \in Seqs
      BY <1>1, NumberTypes
    <3>2. m.seq = Inc(f.seq)
      BY <1>1, <2>2, <3>1, IncFacts
    <3> QED  BY <1>4, <1>6, <2>2, <3>2
  <2> QED  BY <2>1, <2>2
<1> QED  BY <1>9, <1>10, <1>11, <1>12 DEF NumbersInv

-----------------------------------------------------------------------------
(* The steps, as these lemmas see them. *)

\* Steps of the unit that send no DATA frame and do not bring it into a session.
LEMMA QuietUnit ==
  ASSUME NumbersInv, UNCHANGED peerVars, toUnit' \subseteq toUnit,
         \A d \in toServer' : d.type = "DATA" => d \in toServer,
         state' = "UP" => UNCHANGED <<state, dst, sendseq, outstanding, lastFrame>>
  PROVE  NumbersInv'
<1>1. UNCHANGED <<srv, got>>
  BY DEF peerVars
<1>2. \A s \in Servers :
        /\ Datas(s)' \subseteq Datas(s) /\ Acks(s)' \subseteq Acks(s)
        /\ Opens(s)' \subseteq Opens(s)
        /\ Live(s)' => Live(s) /\ srv'[s].isn = srv[s].isn /\ srv'[s].next = srv[s].next
  BY <1>1 DEF Datas, Acks, Opens, Live
<1> QED  BY <1>1, <1>2, QuietNumbers

\* The frames other than DATA.
LEMMA SimpleSent ==
  ASSUME NEW addr, NEW t, t # "DATA", NEW a, Send(addr, {Simple(t, a)})
  PROVE  \A d \in toServer' : d.type = "DATA" => d \in toServer
BY DEF Send, Put, Simple

LEMMA AckedCommandSent ==
  ASSUME NEW addr, NEW a, NEW i, Send(addr, {[type |-> "COMMAND_ACK", srv |-> a, id |-> i]})
  PROVE  \A d \in toServer' : d.type = "DATA" => d \in toServer
BY DEF Send, Put

\* What a DATA frame that is sent adds to what is in flight.
LEMMA DataSent ==
  ASSUME NEW q, NEW b, to = dst,
         \/ Send(to, {Data(to, q, b)})
         \/ Send(to, {Data(to, q, b)} \cup {})
         \/ Send(to, {Data(to, q, b)} \cup {Simple("OPEN_ACK", to)})
  PROVE  \A d \in toServer' : d.type = "DATA" =>
           d \in toServer \/ d = Data(dst, q, b)
BY DEF Send, Put, Simple

LEMMA UnitFlight ==
  ASSUME toUnit' \subseteq toUnit, NEW q, NEW b,
         \A d \in toServer' : d.type = "DATA" => d \in toServer \/ d = Data(dst, q, b)
  PROVE  \A s \in Servers :
           /\ Acks(s)' \subseteq Acks(s) /\ Opens(s)' \subseteq Opens(s)
           /\ \A d \in Datas(s)' : d \in Datas(s) \/ (s = dst /\ d = Data(dst, q, b))
BY DEF Acks, Opens, Datas, Data

\* While the connection is up, what is sent goes to the address of the server.
LEMMA UpFacts ==
  ASSUME ChoiceInv, state = "UP"
  PROVE  dst \in Servers /\ to = dst
BY DEF ChoiceInv, ConnectedHasAddress, AddressOfIdx

LEMMA RecvAckNumbers ==
  ASSUME LinkInv, ChoiceInv, NumbersInv, NEW m \in toUnit, RecvAck(m)
  PROVE  NumbersInv'
<1>1. /\ state = "UP" /\ m.type = "ACK" /\ m.srv = dst /\ m.seq = Inc(sendseq)
      /\ sendseq' = Inc(sendseq) /\ UNCHANGED <<state, dst, srv, got>>
  BY DEF RecvAck, Receive, AckMatches, chooseVars, peerVars
<1>2. dst \in Servers /\ to = dst /\ m \in Acks(dst) /\ toUnit' \subseteq toUnit
  BY <1>1, UpFacts, TakenKeepsFrames DEF Acks, RecvAck, Receive
<1>3. CASE event # NoEvent
  <2>1. StartData(sendseq', EventBody(event), {})
    BY <1>3 DEF RecvAck
  <2>2. outstanding' /\ lastFrame'.body = EventBody(event)
    BY <2>1 DEF StartData
  <2>3. \A d \in toServer' : d.type = "DATA" =>
          d \in toServer \/ d = Data(dst, sendseq', lastFrame'.body)
    BY <1>2, <2>1, <2>2, DataSent DEF StartData
  <2> QED  BY <1>1, <1>2, <2>2, <2>3, UnitFlight, AckNumbers
<1>4. CASE event = NoEvent
  <2>1. UNCHANGED toServer
    BY <1>4 DEF RecvAck
  <2>2. \A s \in Servers :
          /\ Acks(s)' \subseteq Acks(s) /\ Opens(s)' \subseteq Opens(s)
          /\ Datas(s)' \subseteq Datas(s)
    BY <1>2, <2>1 DEF Acks, Opens, Datas
  <2> QED  BY <1>1, <1>2, <2>2, AckNumbers
<1> QED  BY <1>3, <1>4

\* The condition of the theorems about what the servers took: an OPEN that
\* the network delivers twice may be one of an older handshake.
OpenOnce == "OPEN" \notin Duplicable

LEMMA RecvOpenNumbers ==
  ASSUME LinkInv, ChoiceInv, NumbersInv, OpenOnce, NEW m \in toUnit, RecvOpen(m)
  PROVE  NumbersInv'
<1>1. /\ state # "UP" /\ state' = "UP" /\ m.type = "OPEN" /\ m.srv = dst
      /\ sendseq' = Inc(m.seq) /\ UNCHANGED <<dst, to, srv, got>>
  BY DEF RecvOpen, Receive, peerVars
<1>2. /\ dst \in Servers /\ to = dst /\ m \in Opens(dst)
      /\ toUnit' \subseteq toUnit \ {m}
  <2>1. dst \in Servers
    BY <1>1, UnitFrameFacts DEF LinkInv, TypeOK
  <2>2. toUnit' \subseteq toUnit \ {m}
    BY <1>1 DEF RecvOpen, Receive, Taken, OpenOnce
  <2> QED  BY <1>1, <2>1, <2>2 DEF Opens, ChoiceInv, AddressOfIdx
<1>3. m \notin Opens(dst)' /\ toUnit' \subseteq toUnit
  BY <1>2 DEF Opens
<1>4. ASSUME NEW b, StartData(sendseq', b, {Simple("OPEN_ACK", to)})
      PROVE  NumbersInv'
  <2>1. outstanding' /\ lastFrame'.body = b
    BY <1>4 DEF StartData
  <2>2. \A d \in toServer' : d.type = "DATA" =>
          d \in toServer \/ d = Data(dst, sendseq', lastFrame'.body)
    BY <1>2, <1>4, <2>1, DataSent DEF StartData
  <2> QED  BY <1>1, <1>2, <1>3, <2>1, <2>2, UnitFlight, OpenNumbers
<1>5. CASE Send(to, {Simple("OPEN_ACK", to)})
  <2>1. \A d \in toServer' : d.type = "DATA" => d \in toServer
    BY <1>5, SimpleSent
  <2>2. \A s \in Servers :
          /\ Acks(s)' \subseteq Acks(s) /\ Opens(s)' \subseteq Opens(s)
          /\ Datas(s)' \subseteq Datas(s)
    BY <1>3, <2>1 DEF Acks, Opens, Datas
  <2> QED  BY <1>1, <1>2, <1>3, <2>2, OpenNumbers
<1> QED  BY <1>4, <1>5 DEF RecvOpen

\* An event, a line of output, or the outstanding frame once more.
LEMMA SentNumbers ==
  ASSUME LinkInv, ChoiceInv, NumbersInv, state = "UP", NEW b,
         Send(to, {Data(to, sendseq, b)}), lastFrame'.body = b, outstanding',
         outstanding => lastFrame.body = b,
         UNCHANGED <<state, dst, sendseq, toUnit, peerVars>>
  PROVE  NumbersInv'
<1>1. dst \in Servers /\ to = dst /\ UNCHANGED <<srv, got>>
  BY UpFacts DEF peerVars
<1>2. \A d \in toServer' : d.type = "DATA" => d \in toServer \/ d = Data(dst, sendseq, b)
  BY <1>1, DataSent
<1>3. \A s \in Servers :
        /\ Acks(s)' \subseteq Acks(s) /\ Opens(s)' \subseteq Opens(s)
        /\ \A d \in Datas(s)' : d \in Datas(s) \/ (s = dst /\ d = Data(dst, sendseq, b))
  BY <1>2, UnitFlight
<1> QED  BY <1>1, <1>3, SendNumbers

LEMMA UpTimeoutNumbers ==
  ASSUME LinkInv, ChoiceInv, NumbersInv, UpTimeout
  PROVE  NumbersInv'
<1>1. state = "UP" /\ UNCHANGED <<sendseq, outstanding, lastFrame, toUnit, peerVars>>
  BY DEF UpTimeout, dataVars
<1>2. CASE /\ outstanding /\ Send(to, {Data(to, lastFrame.seq, lastFrame.body)})
           /\ UNCHANGED <<state, dst>>
  <2>1. lastFrame.seq = sendseq
    BY <1>1, <1>2 DEF LinkInv, StopAndWait
  <2> QED  BY <1>1, <1>2, <2>1, SentNumbers
<1>3. CASE Reopen
  <2>1. state' # "UP" /\ Send(to, {Simple("OPEN_REQ", to)})
    BY <1>3 DEF Reopen
  <2> QED  BY <1>1, <2>1, SimpleSent, QuietUnit
<1>4. CASE UNCHANGED <<state, dst, toServer>>
  BY <1>1, <1>4, QuietUnit
<1> QED  BY <1>2, <1>3, <1>4 DEF UpTimeout

LEMMA RecvOtherNumbers ==
  ASSUME NumbersInv, NEW m \in toUnit,
         \/ RecvRedirect(m) \/ RecvCommand(m) \/ RecvKill(m)
         \/ RecvRestart(m)  \/ RecvClose(m)   \/ RecvCloseAck(m) \/ RecvIgnored(m)
  PROVE  NumbersInv'
<1>1. UNCHANGED peerVars /\ toUnit' \subseteq toUnit
  BY TakenKeepsFrames DEF RecvRedirect, RecvCommand, RecvKill, RecvRestart, RecvClose,
     RecvCloseAck, RecvIgnored, Receive
<1>2. CASE RecvRedirect(m)
  <2>1. state' # "UP" /\ Send(dst', {Simple("OPEN_REQ", dst')})
    BY <1>2 DEF RecvRedirect, AskToOpen
  <2> QED  BY <1>1, <2>1, SimpleSent, QuietUnit
<1>3. CASE RecvCommand(m) \/ RecvKill(m)
  <2>1. /\ Send(to, {[type |-> "COMMAND_ACK", srv |-> to, id |-> m.id]})
        /\ UNCHANGED <<state, dst, sendseq, outstanding, lastFrame>>
    BY <1>3 DEF RecvCommand, RecvKill, dataVars, chooseVars
  <2> QED  BY <1>1, <2>1, AckedCommandSent, QuietUnit
<1>4. CASE RecvRestart(m)
  <2>1. state' # "UP" /\ Send(to, {Simple("OPEN_REQ", to)})
    BY <1>4 DEF RecvRestart, Reopen
  <2> QED  BY <1>1, <2>1, SimpleSent, QuietUnit
<1>5. CASE RecvClose(m)
  <2>1. state' # "UP" /\ Send(to, {Simple("CLOSE_ACK", to)})
    BY <1>5 DEF RecvClose
  <2> QED  BY <1>1, <2>1, SimpleSent, QuietUnit
<1>6. CASE RecvCloseAck(m)
  <2>1. state' # "UP" /\ UNCHANGED toServer
    BY <1>6 DEF RecvCloseAck
  <2> QED  BY <1>1, <2>1, QuietUnit
<1>7. CASE RecvIgnored(m)
  <2>1. UNCHANGED <<toServer, state, dst, sendseq, outstanding, lastFrame>>
    BY <1>7 DEF RecvIgnored, unitVars, dataVars, chooseVars
  <2> QED  BY <1>1, <2>1, QuietUnit
<1> QED  BY <1>2, <1>3, <1>4, <1>5, <1>6, <1>7

LEMMA OtherTimeoutNumbers ==
  ASSUME NumbersInv, StartupTimeout \/ ClosingTimeout \/ DownTimeout
  PROVE  NumbersInv'
<1>1. CASE StartupTimeout
  <2>1. /\ state' # "UP" /\ Send(dst', {Simple("OPEN_REQ", dst')})
        /\ UNCHANGED <<toUnit, peerVars>>
    BY <1>1 DEF StartupTimeout, AskToOpen
  <2> QED  BY <2>1, SimpleSent, QuietUnit
<1>2. CASE ClosingTimeout
  <2>1. /\ state' # "UP" /\ UNCHANGED <<toUnit, peerVars>>
        /\ Send(to, {Simple("CLOSE", to)}) \/ UNCHANGED toServer
    BY <1>2 DEF ClosingTimeout
  <2> QED  BY <2>1, SimpleSent, QuietUnit
<1>3. CASE DownTimeout
  <2>1. state' # "UP" /\ UNCHANGED <<toUnit, toServer, peerVars>>
    BY <1>3 DEF DownTimeout, netVars
  <2> QED  BY <2>1, QuietUnit
<1> QED  BY <1>1, <1>2, <1>3

LEMMA MainLoopNumbers ==
  ASSUME LinkInv, ChoiceInv, NumbersInv, MainLoop
  PROVE  NumbersInv'
<1>1. CASE OpenConnection
  <2>1. /\ state' # "UP" /\ Send(dst', {Simple("OPEN_REQ", dst')})
        /\ UNCHANGED <<toUnit, peerVars>>
    BY <1>1 DEF OpenConnection, AskToOpen
  <2> QED  BY <2>1, SimpleSent, QuietUnit
<1>2. CASE ClearConnection \/ StartProcess
  <2>1. state' # "UP" /\ UNCHANGED <<toUnit, toServer, peerVars>>
    BY <1>2 DEF ClearConnection, StartProcess, netVars
  <2> QED  BY <2>1, QuietUnit
<1>3. CASE CloseConnection
  <2>1. /\ state' # "UP" /\ Send(to, {Simple("CLOSE", to)})
        /\ UNCHANGED <<toUnit, peerVars>>
    BY <1>3 DEF CloseConnection
  <2> QED  BY <2>1, SimpleSent, QuietUnit
<1>4. CASE ReportClosed
  <2>1. UNCHANGED <<state, dst, sendseq, outstanding, lastFrame, toUnit, toServer, peerVars>>
    BY <1>4 DEF ReportClosed, netVars, dataVars, chooseVars
  <2> QED  BY <2>1, QuietUnit
<1>5. CASE RestartConnection
  <2>1. /\ state' # "UP" /\ Send(to, {Simple("OPEN_REQ", to)})
        /\ UNCHANGED <<toUnit, peerVars>>
    BY <1>5 DEF RestartConnection, Reopen
  <2> QED  BY <2>1, SimpleSent, QuietUnit
<1>6. ASSUME NEW e \in Events, SendEvent(e)
      PROVE  NumbersInv'
  <2>1. UNCHANGED <<state, dst, sendseq, toUnit, peerVars>>
    BY <1>6 DEF SendEvent, chooseVars
  <2>2. CASE Idle /\ StartData(sendseq, EventBody(e), {})
    <3>1. /\ state = "UP" /\ ~outstanding /\ outstanding' /\ lastFrame'.body = EventBody(e)
          /\ Send(to, {Data(to, sendseq, EventBody(e))})
      BY <2>2 DEF Idle, StartData
    <3> QED  BY <2>1, <3>1, SentNumbers
  <2>3. CASE UNCHANGED <<outstanding, lastFrame, toServer>>
    BY <2>1, <2>3, QuietUnit
  <2> QED  BY <1>6, <2>2, <2>3 DEF SendEvent
<1>7. ASSUME NEW c \in commands, SendLine(c)
      PROVE  NumbersInv'
  <2>1. /\ UNCHANGED <<state, dst, sendseq, toUnit, peerVars>>
        /\ Idle /\ StartData(sendseq, LineBody(c.id, c.read + 1), {})
    BY <1>7 DEF SendLine, chooseVars
  <2> DEFINE b == LineBody(c.id, c.read + 1)
  <2>2. /\ state = "UP" /\ ~outstanding /\ outstanding' /\ lastFrame'.body = b
        /\ Send(to, {Data(to, sendseq, b)})
    BY <2>1 DEF Idle, StartData
  <2> HIDE DEF b
  <2> QED  BY <2>1, <2>2, SentNumbers
<1> QED  BY <1>1, <1>2, <1>3, <1>4, <1>5, <1>6, <1>7 DEF MainLoop

\* A server takes a DATA frame.
LEMMA ServerDataNumbers ==
  ASSUME LinkInv, NumbersInv, NEW m \in toServer, ServerData(m)
  PROVE  NumbersInv'
<1> DEFINE r == m.srv
           ack == AckFrame(r, Inc(m.seq))
           new == /\ srv[r].st = "open" /\ m.seq = srv[r].next
                  /\ Offset(srv[r].isn, srv[r].next) < SessionLen
           again == srv[r].st = "open" /\ Inc(m.seq) = srv[r].next
<1>1. /\ r \in Servers /\ m \in Datas(r)
      /\ UNCHANGED unitVars /\ toServer' \subseteq toServer
  BY ServerFrameFacts, TakenKeepsFrames DEF ServerData, ServerTakes, Datas, LinkInv, TypeOK
<1>2. /\ toUnit' = IF new \/ again THEN Put(toUnit, {ack}) ELSE toUnit
      /\ srv' = IF new THEN [srv EXCEPT ![r].next = Inc(m.seq)] ELSE srv
      /\ got' = IF new THEN got \cup {m.body} ELSE got
  BY DEF ServerData
<1>3. ack.type = "ACK" /\ ack.srv = r /\ ack.seq = Inc(m.seq)
  BY DEF AckFrame
<1>4. new => Pos(r) < SessionLen
  BY DEF Pos, At
<1> DEFINE Flight(more) ==
      \A s \in Servers :
        /\ Datas(s)' \subseteq Datas(s) /\ Opens(s)' \subseteq Opens(s)
        /\ \A a \in Acks(s)' : a \in Acks(s) \/ (more /\ s = r /\ a.seq = Inc(m.seq))
<1> HIDE DEF r, ack
<1>5. Flight(new \/ again)
  <2>1. toUnit' \subseteq toUnit \cup (IF new \/ again THEN {ack} ELSE {})
    BY <1>2, PutKeepsFrames
  <2> HIDE DEF new, again
  <2> QED  BY <1>1, <1>3, <2>1 DEF Datas, Opens, Acks
<1>6. CASE new
  <2>1. Flight(TRUE)
    BY <1>5
  <2> QED  BY <1>1, <1>2, <1>4, <1>6, <2>1, ServerTakesNumbers
<1>7. CASE ~new /\ again
  <2>1. Flight(TRUE) /\ UNCHANGED <<srv, got>>
    BY <1>2, <1>5, <1>7
  <2> QED  BY <1>1, <1>7, <2>1, ServerRepeatsNumbers
<1>8. CASE ~new /\ ~again
  <2>1. UNCHANGED <<srv, got, toUnit>>
    BY <1>2, <1>8
  <2>2. \A s \in Servers :
          /\ Datas(s)' \subseteq Datas(s) /\ Acks(s)' \subseteq Acks(s)
          /\ Opens(s)' \subseteq Opens(s)
          /\ Live(s)' => Live(s) /\ srv'[s].isn = srv[s].isn /\ srv'[s].next = srv[s].next
    BY <1>1, <2>1 DEF Datas, Acks, Opens, Live
  <2>3. UNCHANGED <<state, dst, sendseq, outstanding, lastFrame>>
    BY <1>1 DEF unitVars, dataVars, chooseVars
  <2> QED  BY <2>1, <2>2, <2>3, QuietNumbers
<1> QED  BY <1>6, <1>7, <1>8

\* Steps of a server, or of the network, that put no ACK or OPEN in flight and
\* at most move a session on in its handshake or close it.
LEMMA QuietServer ==
  ASSUME LinkInv, NumbersInv, UNCHANGED <<unitVars, got>>, toServer' \subseteq toServer,
         \A m \in toUnit' : m.type \in {"ACK", "OPEN"} => m \in toUnit,
         \/ UNCHANGED srv
         \/ \E s \in Servers : srv' = [srv EXCEPT ![s].st = "closed"]
         \/ \E s \in Servers : srv[s].st = "opening" /\ srv' = [srv EXCEPT ![s].st = "open"]
  PROVE  NumbersInv'
<1>1. srv \in [Servers -> ServerEnds]
  BY DEF LinkInv, TypeOK
<1>2. ASSUME NEW s \in Servers
      PROVE  Live(s)' => Live(s) /\ srv'[s].isn = srv[s].isn /\ srv'[s].next = srv[s].next
  <2>1. CASE UNCHANGED srv
    BY <2>1 DEF Live
  <2>2. ASSUME NEW t \in Servers, srv' = [srv EXCEPT ![t].st = "closed"]
        PROVE  Live(s)' => Live(s) /\ srv'[s].isn = srv[s].isn /\ srv'[s].next = srv[s].next
    BY <1>1, <2>2 DEF Live, ServerEnds
  <2>3. ASSUME NEW t \in Servers, srv[t].st = "opening",
               srv' = [srv EXCEPT ![t].st = "open"]
        PROVE  Live(s)' => Live(s) /\ srv'[s].isn = srv[s].isn /\ srv'[s].next = srv[s].next
    BY <1>1, <2>3 DEF Live, ServerEnds
  <2> QED  BY <2>1, <2>2, <2>3
<1>3. \A s \in Servers :
        /\ Datas(s)' \subseteq Datas(s) /\ Acks(s)' \subseteq Acks(s)
        /\ Opens(s)' \subseteq Opens(s)
  BY DEF Datas, Acks, Opens
<1>4. UNCHANGED <<state, dst, sendseq, outstanding, lastFrame>>
  BY DEF unitVars, dataVars, chooseVars
<1> QED  BY <1>2, <1>3, <1>4, QuietNumbers

LEMMA ServerStepNumbers ==
  ASSUME LinkInv, NumbersInv, ServerStep
  PROVE  NumbersInv'
<1> PICK m \in toServer :
      \/ ServerOpen(m)   \/ ServerRedirect(m) \/ ServerOpened(m)
      \/ ServerData(m)   \/ ServerClosed(m)   \/ ServerCommandAcked(m)
  BY DEF ServerStep
<1>1. m.srv \in Servers
  BY ServerFrameFacts DEF LinkInv, TypeOK
<1>2. UNCHANGED unitVars /\ toServer' \subseteq toServer
  BY TakenKeepsFrames DEF ServerOpen, ServerRedirect, ServerOpened, ServerData,
     ServerClosed, ServerCommandAcked, ServerTakes
<1>3. CASE ServerOpen(m)
  <2>1. PICK isn \in Isns :
          /\ \A seq \in InUse : ~InWindow(isn, seq)
          /\ toUnit' = Put(toUnit, {[type |-> "OPEN", srv |-> m.srv, seq |-> isn]})
          /\ srv' = [srv EXCEPT ![m.srv] = [st |-> "opening", isn |-> isn, next |-> Inc(isn)]]
    BY <1>3 DEF ServerOpen
  <2>2. UNCHANGED got
    BY <1>3 DEF ServerOpen
  <2>3. toUnit' \subseteq toUnit \cup {[type |-> "OPEN", srv |-> m.srv, seq |-> isn]}
    BY <2>1, PutKeepsFrames
  <2>4. \A s \in Servers :
          /\ Datas(s)' \subseteq Datas(s) /\ Acks(s)' \subseteq Acks(s)
          /\ \A f \in Opens(s)' :
               \/ f \in Opens(s)
               \/ s = m.srv /\ f = [type |-> "OPEN", srv |-> m.srv, seq |-> isn]
    BY <1>2, <2>3 DEF Datas, Acks, Opens
  <2> QED  BY <1>1, <1>2, <2>1, <2>2, <2>4, ServerOpenNumbers
<1>4. CASE ServerRedirect(m)
  <2>1. PICK list \in Lists : toUnit' =
          Put(toUnit, {[type |-> "REDIRECT", srv |-> m.srv, list |-> list]})
    BY <1>4 DEF ServerRedirect
  <2>2. \A f \in toUnit' : f.type \in {"ACK", "OPEN"} => f \in toUnit
    BY <2>1, PutKeepsFrames
  <2> QED  BY <1>2, <1>4, <2>2, QuietServer DEF ServerRedirect, peerVars
<1>5. CASE ServerOpened(m)
  <2>1. /\ UNCHANGED <<toUnit, got>>
        /\ \/ srv[m.srv].st = "opening" /\ srv' = [srv EXCEPT ![m.srv].st = "open"]
           \/ UNCHANGED srv
    BY <1>5 DEF ServerOpened
  <2> QED  BY <1>1, <1>2, <2>1, QuietServer
<1>6. CASE ServerData(m)
  BY <1>6, ServerDataNumbers
<1>7. CASE ServerClosed(m)
  <2>1. UNCHANGED got /\ srv' = [srv EXCEPT ![m.srv].st = "closed"]
    BY <1>7 DEF ServerClosed
  <2>2. toUnit' \subseteq toUnit \cup {Simple("CLOSE_ACK", m.srv)}
    BY <1>7, PutKeepsFrames DEF ServerClosed
  <2>3. \A f \in toUnit' : f.type \in {"ACK", "OPEN"} => f \in toUnit
    BY <2>2 DEF Simple
  <2> QED  BY <1>1, <1>2, <2>1, <2>3, QuietServer
<1>8. CASE ServerCommandAcked(m)
  BY <1>2, <1>8, QuietServer DEF ServerCommandAcked
<1> QED  BY <1>3, <1>4, <1>5, <1>6, <1>7, <1>8

LEMMA PathNumbers ==
  ASSUME LinkInv, NumbersInv,
         (\E s \in Servers : ServerSays(s)) \/ Lose \/ UNCHANGED vars
  PROVE  NumbersInv'
<1>1. ASSUME NEW s \in Servers, ServerSays(s)
      PROVE  NumbersInv'
  <2>1. PICK m \in UnitFrames :
          /\ m.type \in {"COMMAND", "KILL", "RESTART", "CLOSE"}
          /\ toUnit' = Put(toUnit, {m})
          /\ srv' = IF m.type = "CLOSE" THEN [srv EXCEPT ![s].st = "closed"] ELSE srv
    BY <1>1 DEF ServerSays
  <2>2. \A f \in toUnit' : f.type \in {"ACK", "OPEN"} => f \in toUnit
    BY <2>1, PutKeepsFrames
  <2>3. UNCHANGED <<unitVars, got, toServer>>
    BY <1>1 DEF ServerSays
  <2> QED  BY <2>1, <2>2, <2>3, QuietServer
<1>2. CASE Lose
  <2>1. UNCHANGED <<unitVars, got, srv>> /\ toServer' \subseteq toServer /\ toUnit' \subseteq toUnit
    BY <1>2 DEF Lose, peerVars
  <2> QED  BY <2>1, QuietServer
<1>3. CASE UNCHANGED vars
  <2>1. UNCHANGED <<unitVars, got, srv, toServer, toUnit>>
    BY <1>3 DEF vars, peerVars, netVars
  <2> QED  BY <2>1, QuietServer
<1> QED  BY <1>1, <1>2, <1>3

LEMMA NextNumbersInv ==
  OpenOnce /\ LinkInv /\ ChoiceInv /\ NumbersInv /\ [Next]_vars => NumbersInv'
<1> SUFFICES ASSUME OpenOnce, LinkInv, ChoiceInv, NumbersInv, [Next]_vars
             PROVE  NumbersInv'
  OBVIOUS
<1>1. CASE RecvFrame
  <2> PICK m \in toUnit :
        \/ RecvOpen(m)    \/ RecvRedirect(m) \/ RecvAck(m)
        \/ RecvCommand(m) \/ RecvKill(m)     \/ RecvRestart(m)
        \/ RecvClose(m)   \/ RecvCloseAck(m) \/ RecvIgnored(m)
    BY <1>1 DEF RecvFrame
  <2> QED  BY RecvOpenNumbers, RecvAckNumbers, RecvOtherNumbers
<1>2. CASE ProcessTimeout
  BY <1>2, UpTimeoutNumbers, OtherTimeoutNumbers DEF ProcessTimeout
<1>3. CASE MainLoop
  BY <1>3, MainLoopNumbers
<1>4. CASE ServerStep
  BY <1>4, ServerStepNumbers
<1>5. CASE (\E s \in Servers : ServerSays(s)) \/ Lose \/ UNCHANGED vars
  BY <1>5, PathNumbers
<1> QED  BY <1>1, <1>2, <1>3, <1>4, <1>5 DEF Next

-----------------------------------------------------------------------------
(***************************************************************************)
(* What a step means for the content that is on its way.  Every step of    *)
(* the link is of one of five kinds; the rest of the argument looks at     *)
(* these only.                                                             *)
(***************************************************************************)
Flying == {d.body : d \in {f \in toServer : f.type = "DATA"}}

\* Nothing new is sent: at most the outstanding frame is repeated.
Keeps ==
  /\ UNCHANGED <<outstanding, got, acked>> /\ lastFrame'.body = lastFrame.body
  /\ \A b \in Flying' : b \in Flying \/ (outstanding /\ b = lastFrame.body)
  /\ \A c \in commands' : c \in commands \/ c.read = 0

Sends(b) ==
  /\ outstanding' /\ lastFrame'.body = b
  /\ Flying' \subseteq Flying \cup {b}

HandsOverEvent(e) ==
  /\ ~outstanding /\ Sends(EventBody(e)) /\ UNCHANGED <<got, acked, commands>>

HandsOverLine(c) ==
  /\ ~outstanding /\ Sends(LineBody(c.id, c.read + 1)) /\ UNCHANGED <<got, acked>>
  /\ \A d \in commands' : d \in commands \/ (d.id = c.id /\ d.read = c.read + 1)

Finishes ==
  /\ outstanding /\ lastFrame.body \in got /\ UNCHANGED <<got, commands>>
  /\ \/ acked' = acked
     \/ \E w \in Events : lastFrame.body = EventBody(w) /\ acked' = acked \cup {w}
  /\ \/ ~outstanding' /\ Flying' \subseteq Flying
     \/ \E e \in Events : Sends(EventBody(e))

Takes(b) ==
  /\ b \in Flying /\ got' = got \cup {b} /\ Flying' \subseteq Flying
  /\ UNCHANGED <<outstanding, lastFrame, acked, commands>>

Dies ==
  /\ "crash" \in Calls
  /\ ~outstanding' /\ commands' = {} /\ UNCHANGED <<got, acked, toServer>>

LEMMA QuietFlying ==
  ASSUME \A d \in toServer' : d.type = "DATA" => d \in toServer
  PROVE  Flying' \subseteq Flying
BY DEF Flying

LEMMA DataFlying ==
  ASSUME NEW a, NEW q, NEW b,
         \A d \in toServer' : d.type = "DATA" => d \in toServer \/ d = Data(a, q, b)
  PROVE  Flying' \subseteq Flying \cup {b}
BY DEF Flying, Data

LEMMA RecvAckKind ==
  ASSUME LinkInv, ChoiceInv, NumbersInv, NEW m \in toUnit, RecvAck(m)
  PROVE  Finishes
<1>1. /\ state = "UP" /\ m \in Acks(dst) /\ m.seq = Inc(sendseq) /\ dst \in Servers
      /\ to = dst /\ UNCHANGED <<got, commands>>
      /\ acked' = IF lastWasEvent THEN acked \cup {lastFrame.body.what} ELSE acked
  BY UpFacts DEF RecvAck, Receive, AckMatches, Acks, peerVars
<1>2. outstanding /\ lastFrame.body \in got
  BY <1>1 DEF NumbersInv, AckIsTrue
<1>3. lastWasEvent => /\ lastFrame.body.what \in Events
                      /\ lastFrame.body = EventBody(lastFrame.body.what)
  BY <1>2 DEF LinkInv, StopAndWait, HasBody, Bodies, EventBody
<1>4. CASE event # NoEvent
  <2>1. StartData(sendseq', EventBody(event), {}) /\ event \in Events
    BY <1>4 DEF RecvAck, LinkInv, TypeOK
  <2>2. outstanding' /\ lastFrame'.body = EventBody(event)
    BY <2>1 DEF StartData
  <2>3. Flying' \subseteq Flying \cup {EventBody(event)}
    BY <1>1, <2>1, DataSent, DataFlying DEF StartData
  <2> QED  BY <1>1, <1>2, <1>3, <2>1, <2>2, <2>3 DEF Finishes, Sends
<1>5. CASE event = NoEvent
  <2>1. ~outstanding' /\ UNCHANGED toServer
    BY <1>5 DEF RecvAck
  <2> QED  BY <1>1, <1>2, <1>3, <2>1 DEF Finishes, Flying
<1> QED  BY <1>4, <1>5

LEMMA RecvOpenKind ==
  ASSUME LinkInv, ChoiceInv, NEW m \in toUnit, RecvOpen(m)
  PROVE  Keeps \/ \E e \in Events : HandsOverEvent(e)
<1>1. to = dst /\ UNCHANGED <<commands, got, acked>>
  <2>1. dst \in Servers
    BY UnitFrameFacts DEF RecvOpen, Receive, LinkInv, TypeOK
  <2> QED  BY <2>1 DEF ChoiceInv, AddressOfIdx, RecvOpen, peerVars
<1>2. CASE outstanding
  <2>1. StartData(sendseq', lastFrame.body, {Simple("OPEN_ACK", to)})
    BY <1>2 DEF RecvOpen
  <2>2. outstanding' = TRUE /\ lastFrame'.body = lastFrame.body
    BY <2>1 DEF StartData
  <2>3. Flying' \subseteq Flying \cup {lastFrame.body}
    BY <1>1, <2>1, DataSent, DataFlying DEF StartData
  <2>4. outstanding' = outstanding
    BY <1>2, <2>2 DEF LinkInv, TypeOK
  <2> QED  BY <1>1, <1>2, <2>2, <2>3, <2>4 DEF Keeps
<1>3. CASE ~outstanding /\ event # NoEvent
  <2>1. StartData(sendseq', EventBody(event), {Simple("OPEN_ACK", to)}) /\ event \in Events
    BY <1>3 DEF RecvOpen, LinkInv, TypeOK
  <2>2. outstanding' /\ lastFrame'.body = EventBody(event)
    BY <2>1 DEF StartData
  <2>3. Flying' \subseteq Flying \cup {EventBody(event)}
    BY <1>1, <2>1, DataSent, DataFlying DEF StartData
  <2> QED  BY <1>1, <1>3, <2>1, <2>2, <2>3 DEF HandsOverEvent, Sends
<1>4. CASE ~outstanding /\ event = NoEvent
  <2>1. Send(to, {Simple("OPEN_ACK", to)}) /\ UNCHANGED <<outstanding, lastFrame>>
    BY <1>4 DEF RecvOpen, dataVars
  <2>2. Flying' \subseteq Flying
    BY <2>1, SimpleSent, QuietFlying
  <2> QED  BY <1>1, <2>1, <2>2 DEF Keeps
<1> QED  BY <1>2, <1>3, <1>4

\* Steps that send no DATA frame.
LEMMA QuietKind ==
  ASSUME UNCHANGED <<outstanding, lastFrame, got, acked>>,
         \A d \in toServer' : d.type = "DATA" => d \in toServer,
         \A c \in commands' : c \in commands \/ c.read = 0
  PROVE  Keeps
BY QuietFlying DEF Keeps

LEMMA RecvOtherKind ==
  ASSUME NEW m \in toUnit,
         \/ RecvRedirect(m) \/ RecvCommand(m) \/ RecvKill(m)
         \/ RecvRestart(m)  \/ RecvClose(m)   \/ RecvCloseAck(m) \/ RecvIgnored(m)
  PROVE  Keeps
<1>1. UNCHANGED <<outstanding, lastFrame, got, acked>>
  BY DEF RecvRedirect, RecvCommand, RecvKill, RecvRestart, RecvClose, RecvCloseAck,
     RecvIgnored, unitVars, dataVars, peerVars
<1>2. \A c \in commands' : c \in commands \/ c.read = 0
  BY DEF RecvRedirect, RecvCommand, RecvKill, RecvRestart, RecvClose, RecvCloseAck,
     RecvIgnored, unitVars
<1>3. \/ UNCHANGED toServer
      \/ \E a : Send(a, {Simple("OPEN_REQ", a)}) \/ Send(a, {Simple("CLOSE_ACK", a)})
      \/ \E a, i : Send(a, {[type |-> "COMMAND_ACK", srv |-> a, id |-> i]})
  BY DEF RecvRedirect, RecvCommand, RecvKill, RecvRestart, RecvClose, RecvCloseAck,
     RecvIgnored, Reopen, AskToOpen
<1>4. \A d \in toServer' : d.type = "DATA" => d \in toServer
  BY <1>3, SimpleSent, AckedCommandSent
<1> QED  BY <1>1, <1>2, <1>4, QuietKind

LEMMA TimeoutKind ==
  ASSUME LinkInv, ChoiceInv, ProcessTimeout
  PROVE  Keeps
<1>1. UNCHANGED <<outstanding, lastFrame, got, acked, commands>>
  BY DEF ProcessTimeout, StartupTimeout, UpTimeout, ClosingTimeout, DownTimeout,
     dataVars, peerVars
<1>2. CASE /\ state = "UP" /\ outstanding
           /\ Send(to, {Data(to, lastFrame.seq, lastFrame.body)})
  <2>1. Flying' \subseteq Flying \cup {lastFrame.body}
    BY <1>2, UpFacts, DataSent, DataFlying
  <2> QED  BY <1>1, <1>2, <2>1 DEF Keeps
<1>3. CASE \/ UNCHANGED toServer
           \/ \E a : Send(a, {Simple("OPEN_REQ", a)}) \/ Send(a, {Simple("CLOSE", a)})
  <2>1. \A d \in toServer' : d.type = "DATA" => d \in toServer
    BY <1>3, SimpleSent
  <2> QED  BY <1>1, <2>1, QuietKind
<1> QED
  BY <1>2, <1>3 DEF ProcessTimeout, StartupTimeout, UpTimeout, ClosingTimeout, DownTimeout,
     Reopen, AskToOpen, netVars

LEMMA MainLoopKind ==
  ASSUME LinkInv, ChoiceInv, MainLoop
  PROVE  \/ Keeps \/ Dies
         \/ \E e \in Events : HandsOverEvent(e)
         \/ \E c \in commands : HandsOverLine(c)
<1>1. CASE OpenConnection \/ ClearConnection \/ CloseConnection \/ ReportClosed
             \/ RestartConnection
  <2>1. UNCHANGED <<outstanding, lastFrame, got, acked>> /\ commands' \subseteq commands
    BY <1>1 DEF OpenConnection, ClearConnection, CloseConnection, ReportClosed,
       RestartConnection, dataVars, peerVars
  <2>2. \/ UNCHANGED toServer
        \/ \E a : Send(a, {Simple("OPEN_REQ", a)}) \/ Send(a, {Simple("CLOSE", a)})
    BY <1>1 DEF OpenConnection, ClearConnection, CloseConnection, ReportClosed,
       RestartConnection, Reopen, AskToOpen, netVars
  <2>3. \A d \in toServer' : d.type = "DATA" => d \in toServer
    BY <2>2, SimpleSent
  <2> QED  BY <2>1, <2>3, QuietKind
<1>2. CASE "crash" \in Calls /\ StartProcess
  BY <1>2 DEF StartProcess, Dies, netVars, peerVars
<1>3. ASSUME NEW e \in Events, SendEvent(e)
      PROVE  Keeps \/ HandsOverEvent(e)
  <2>1. UNCHANGED <<got, acked, commands>>
    BY <1>3 DEF SendEvent, peerVars
  <2>2. CASE Idle /\ StartData(sendseq, EventBody(e), {})
    <3>1. /\ state = "UP" /\ ~outstanding /\ outstanding' /\ lastFrame'.body = EventBody(e)
      BY <2>2 DEF Idle, StartData
    <3>2. Flying' \subseteq Flying \cup {EventBody(e)}
      BY <2>2, <3>1, UpFacts, DataSent, DataFlying DEF StartData
    <3> QED  BY <2>1, <3>1, <3>2 DEF HandsOverEvent, Sends
  <2>3. CASE UNCHANGED <<outstanding, lastFrame, toServer>>
    BY <2>1, <2>3, QuietKind
  <2> QED  BY <1>3, <2>2, <2>3 DEF SendEvent
<1>4. ASSUME NEW c \in commands, SendLine(c)
      PROVE  HandsOverLine(c)
  <2> DEFINE b == LineBody(c.id, c.read + 1)
  <2>1. UNCHANGED <<got, acked>> /\ Idle /\ StartData(sendseq, b, {})
    BY <1>4 DEF SendLine, peerVars
  <2>2. /\ state = "UP" /\ ~outstanding /\ outstanding' /\ lastFrame'.body = b
    BY <2>1 DEF Idle, StartData
  <2>3. Flying' \subseteq Flying \cup {b}
    <3> HIDE DEF b
    <3> QED  BY <2>1, <2>2, UpFacts, DataSent, DataFlying DEF StartData
  <2>4. \A d \in commands' : d \in commands \/ (d.id = c.id /\ d.read = c.read + 1)
    <3> DEFINE next == [c EXCEPT !.read = c.read + 1]
    <3>1. commands' \subseteq commands \cup {next}
      BY <1>4 DEF SendLine
    <3>2. next.id = c.id /\ next.read = c.read + 1
      BY DEF LinkInv, TypeOK, CommandInfos
    <3> HIDE DEF next
    <3> QED  BY <3>1, <3>2
  <2> QED  BY <2>1, <2>2, <2>3, <2>4 DEF HandsOverLine, Sends
<1> QED  BY <1>1, <1>2, <1>3, <1>4 DEF MainLoop

LEMMA ServerKind ==
  ASSUME LinkInv,
         ServerStep \/ Lose \/ (\E s \in Servers : ServerSays(s)) \/ UNCHANGED vars
  PROVE  Keeps \/ \E b \in Bodies : Takes(b)
<1>1. UNCHANGED <<outstanding, lastFrame, acked, commands>>
  <2>1. UNCHANGED unitVars
    BY DEF ServerStep, Lose, ServerSays, ServerOpen, ServerRedirect, ServerOpened,
       ServerData, ServerClosed, ServerCommandAcked, ServerTakes, vars
  <2> QED  BY <2>1 DEF unitVars, dataVars
<1>2. toServer' \subseteq toServer
  BY TakenKeepsFrames DEF ServerStep, Lose, ServerSays, ServerOpen, ServerRedirect,
     ServerOpened, ServerData, ServerClosed, ServerCommandAcked, ServerTakes, vars, netVars
<1>3. CASE UNCHANGED got
  BY <1>1, <1>2, <1>3, QuietKind
<1>4. ASSUME NEW m \in toServer, ServerData(m), got' = got \cup {m.body}
      PROVE  \E b \in Bodies : Takes(b)
  <2>1. m.type = "DATA" /\ m.body \in Bodies
    BY <1>4, ServerFrameFacts DEF ServerData, ServerTakes, LinkInv, TypeOK
  <2>2. m.body \in Flying /\ Flying' \subseteq Flying
    BY <1>2, <2>1 DEF Flying
  <2> QED  BY <1>1, <1>4, <2>1, <2>2 DEF Takes
<1>5. UNCHANGED got \/ \E m \in toServer : ServerData(m) /\ got' = got \cup {m.body}
  BY DEF ServerStep, Lose, ServerSays, ServerOpen, ServerRedirect, ServerOpened,
     ServerData, ServerClosed, ServerCommandAcked, vars, peerVars
<1> QED  BY <1>3, <1>4, <1>5

LEMMA StepKind ==
  ASSUME LinkInv, ChoiceInv, NumbersInv, [Next]_vars
  PROVE  \/ Keeps \/ Finishes \/ Dies
         \/ \E e \in Events : HandsOverEvent(e)
         \/ \E c \in commands : HandsOverLine(c)
         \/ \E b \in Bodies : Takes(b)
<1>1. CASE RecvFrame
  BY <1>1, RecvAckKind, RecvOpenKind, RecvOtherKind DEF RecvFrame
<1>2. CASE ProcessTimeout
  BY <1>2, TimeoutKind
<1>3. CASE MainLoop
  BY <1>3, MainLoopKind
<1>4. CASE ServerStep \/ Lose \/ (\E s \in Servers : ServerSays(s)) \/ UNCHANGED vars
  BY <1>4, ServerKind
<1> QED  BY <1>1, <1>2, <1>3, <1>4 DEF Next

-----------------------------------------------------------------------------
(***************************************************************************)
(* What is on its way: the outstanding item and items the server has; and  *)
(* a line of output only after the line before it.                         *)
(***************************************************************************)
PendingInv ==
  \A b \in Flying : b \in got \/ (outstanding /\ b = lastFrame.body)

Follows(b) ==
  \A id \in CmdIds : \A n \in 2 .. NumLines :
    b = LineBody(id, n) => LineBody(id, n - 1) \in got

LineInv ==
  /\ \A b \in got \cup Flying : Follows(b)
  /\ outstanding => Follows(lastFrame.body)
  /\ \A c \in commands : c.read > 0 =>
       LineBody(c.id, c.read) \in got \cup (IF outstanding THEN {lastFrame.body} ELSE {})

LEMMA InitHistory == Init => AckedWereTaken /\ PendingInv /\ LineInv
BY DEF Init, AckedWereTaken, PendingInv, LineInv, Flying

LEMMA NextAckedWereTaken ==
  LinkInv /\ ChoiceInv /\ NumbersInv /\ AckedWereTaken /\ [Next]_vars => AckedWereTaken'
BY StepKind DEF AckedWereTaken, Keeps, Finishes, Dies, HandsOverEvent, HandsOverLine, Takes

\* While the process lives, the other side can only take the outstanding item.
LEMMA NextPendingInv ==
  /\ "crash" \notin Calls
  /\ LinkInv /\ ChoiceInv /\ NumbersInv /\ PendingInv /\ [Next]_vars
  => PendingInv'
<1> SUFFICES ASSUME "crash" \notin Calls, LinkInv, ChoiceInv, NumbersInv, PendingInv,
                    [Next]_vars
             PROVE  PendingInv'
  OBVIOUS
<1>1. CASE Keeps
  BY <1>1 DEF PendingInv, Keeps
<1>2. CASE Finishes
  BY <1>2 DEF PendingInv, Finishes, Sends
<1>3. ASSUME NEW e \in Events, HandsOverEvent(e)
      PROVE  PendingInv'
  BY <1>3 DEF PendingInv, HandsOverEvent, Sends
<1>4. ASSUME NEW c \in commands, HandsOverLine(c)
      PROVE  PendingInv'
  BY <1>4 DEF PendingInv, HandsOverLine, Sends
<1>5. ASSUME NEW b \in Bodies, Takes(b)
      PROVE  PendingInv'
  BY <1>5 DEF PendingInv, Takes
<1> QED  BY <1>1, <1>2, <1>3, <1>4, <1>5, StepKind DEF Dies

\* Events are no lines, and a line follows the one before it only.
LEMMA FollowFacts ==
  /\ \A e \in Events : Follows(EventBody(e))
  /\ \A id : \A r \in Nat :
       (r > 0 => LineBody(id, r) \in got) => Follows(LineBody(id, r + 1))
<1>1. ASSUME NEW e \in Events
      PROVE  Follows(EventBody(e))
  BY DEF Follows, EventBody, LineBody
<1>2. ASSUME NEW id, NEW r \in Nat, r > 0 => LineBody(id, r) \in got
      PROVE  Follows(LineBody(id, r + 1))
  <2> SUFFICES ASSUME NEW i \in CmdIds, NEW n \in 2 .. NumLines,
                      LineBody(id, r + 1) = LineBody(i, n)
               PROVE  LineBody(i, n - 1) \in got
    BY DEF Follows
  <2>1. <<id, r + 1>> = <<i, n>>
    BY DEF LineBody
  <2>2. id = i /\ n = r + 1
    BY <2>1
  <2>3. n - 1 = r /\ r > 0
    BY <2>2
  <2> QED  BY <1>2, <2>2, <2>3
<1> QED  BY <1>1, <1>2

\* Steps with which the server takes nothing.
LEMMA LineStep ==
  ASSUME LineInv, UNCHANGED got,
         \A b \in Flying' : Follows(b),
         outstanding' => Follows(lastFrame'.body),
         \A c \in commands' : c.read > 0 =>
           LineBody(c.id, c.read) \in got \cup (IF outstanding' THEN {lastFrame'.body} ELSE {})
  PROVE  LineInv'
<1>1. \A b : Follows(b)' <=> Follows(b)
  BY DEF Follows
<1>2. \A b \in (got \cup Flying)' : Follows(b)'
  BY <1>1 DEF LineInv
<1>3. outstanding' => Follows(lastFrame.body)'
  BY DEF Follows
<1> QED  BY <1>2, <1>3 DEF LineInv

LEMMA NextLineInv ==
  LinkInv /\ ChoiceInv /\ NumbersInv /\ LineInv /\ [Next]_vars => LineInv'
<1> SUFFICES ASSUME LinkInv, ChoiceInv, NumbersInv, LineInv, [Next]_vars
             PROVE  LineInv'
  OBVIOUS
<1>1. \A c \in commands : c.read \in Nat
  BY DEF LinkInv, TypeOK, CommandInfos
<1>2. /\ \A b \in Flying : Follows(b)
      /\ outstanding => Follows(lastFrame.body)
      /\ \A c \in commands : c.read > 0 =>
           LineBody(c.id, c.read) \in got \cup (IF outstanding THEN {lastFrame.body} ELSE {})
  BY DEF LineInv
<1>3. CASE Keeps
  <2>1. \A c \in commands' : c.read > 0 =>
          LineBody(c.id, c.read) \in got \cup (IF outstanding' THEN {lastFrame'.body} ELSE {})
    BY <1>2, <1>3 DEF Keeps
  <2> QED  BY <1>2, <1>3, <2>1, LineStep DEF Keeps
<1>4. CASE Finishes
  <2>1. \A c \in commands' : c.read > 0 => LineBody(c.id, c.read) \in got
    BY <1>2, <1>4 DEF Finishes
  <2>2. CASE ~outstanding' /\ Flying' \subseteq Flying
    BY <1>2, <1>4, <2>1, <2>2, LineStep DEF Finishes
  <2>3. ASSUME NEW e \in Events, Sends(EventBody(e))
        PROVE  LineInv'
    BY <1>2, <1>4, <2>1, <2>3, FollowFacts, LineStep DEF Finishes, Sends
  <2> QED  BY <1>4, <2>2, <2>3 DEF Finishes
<1>5. CASE Dies
  <2>1. Flying' = Flying
    BY <1>5 DEF Dies, Flying
  <2> QED  BY <1>2, <1>5, <2>1, LineStep DEF Dies
<1>6. ASSUME NEW e \in Events, HandsOverEvent(e)
      PROVE  LineInv'
  BY <1>2, <1>6, FollowFacts, LineStep DEF HandsOverEvent, Sends
<1>7. ASSUME NEW c \in commands, HandsOverLine(c)
      PROVE  LineInv'
  <2>1. Follows(LineBody(c.id, c.read + 1))
    BY <1>1, <1>2, <1>7, FollowFacts DEF HandsOverLine
  <2>2. \A d \in commands' : d.read > 0 =>
          LineBody(d.id, d.read) \in got \cup {LineBody(c.id, c.read + 1)}
    BY <1>2, <1>7 DEF HandsOverLine
  <2> QED  BY <1>2, <1>7, <2>1, <2>2, LineStep DEF HandsOverLine, Sends
<1>8. ASSUME NEW b \in Bodies, Takes(b)
      PROVE  LineInv'
  <2>1. ASSUME NEW x, Follows(x)
        PROVE  Follows(x)'
    BY <1>8, <2>1 DEF Follows, Takes
  <2>2. \A x \in (got \cup Flying)' : Follows(x)'
    BY <1>8, <2>1 DEF LineInv, Takes
  <2>3. outstanding' => Follows(lastFrame.body)'
    BY <1>2, <1>8 DEF Follows, Takes
  <2> QED  BY <1>8, <2>2, <2>3 DEF LineInv, Takes
<1> QED  BY <1>3, <1>4, <1>5, <1>6, <1>7, <1>8, StepKind

\* However frames are lost, reordered and repeated, whatever is closed,
\* restarted or redirected, and over any number of sessions and processes, the
\* newline of _upProcessFrame goes to event_logger only for an event the
\* server took.  The one condition is that no OPEN is delivered twice.
THEOREM LinkAckedWereTaken == OpenOnce => (Spec => []AckedWereTaken)
<1>1. ASSUME OpenOnce PROVE Spec => []AckedWereTaken
  BY <1>1, InitLinkInv, NextLinkInv, InitChoiceInv, NextChoiceInv, InitNumbersInv,
     NextNumbersInv, InitHistory, NextAckedWereTaken, PTL DEF Spec
<1> QED  BY <1>1

\* Under the same condition the server gets the output of every command
\* without a gap, whatever the number of lines: the pump's next read is safe.
THEOREM LinkLinesInOrder == OpenOnce => (Spec => []LinesInOrder)
<1>1. LineInv => LinesInOrder
  <2> SUFFICES ASSUME LineInv, NEW id \in CmdIds, NEW n \in 2 .. NumLines,
                      LineBody(id, n) \in got
               PROVE  LineBody(id, n - 1) \in got
    BY DEF LinesInOrder
  <2> QED  BY DEF LineInv, Follows
<1>2. ASSUME OpenOnce PROVE Spec => []LinesInOrder
  BY <1>1, <1>2, InitLinkInv, NextLinkInv, InitChoiceInv, NextChoiceInv, InitNumbersInv,
     NextNumbersInv, InitHistory, NextLineInv, PTL DEF Spec
<1> QED  BY <1>2

\* The refinement, step by step.
LEMMA PromiseStep ==
  /\ "crash" \notin Calls
  /\ LinkInv /\ ChoiceInv /\ NumbersInv /\ PendingInv /\ [Next]_vars
  => [Promise!Next]_(Promise!vars)
<1> DEFINE p == IF outstanding THEN lastFrame.body ELSE NoBody
           d == {EventBody(e) : e \in acked}
<1> SUFFICES ASSUME "crash" \notin Calls, LinkInv, ChoiceInv, NumbersInv, PendingInv,
                    [Next]_vars
             PROVE  Promise!Take \/ Promise!Finish \/ (\E i \in Bodies : Promise!HandOver(i))
                      \/ UNCHANGED <<p, got, d>>
  BY DEF Promise!Next, Promise!vars
<1>1. CASE Keeps
  BY <1>1 DEF Keeps
<1>2. CASE Finishes
  <2>1. p = lastFrame.body /\ p \in got /\ UNCHANGED got
    BY <1>2 DEF Finishes
  <2>2. d' = d \/ d' = d \cup {p}
    BY <1>2, <2>1 DEF Finishes
  <2>3. p' \in Bodies \cup {NoBody}
    BY <1>2, BodyFacts DEF Finishes, Sends
  <2> QED  BY <2>1, <2>2, <2>3 DEF Promise!Finish
<1>3. ASSUME NEW e \in Events, HandsOverEvent(e)
      PROVE  \E i \in Bodies : Promise!HandOver(i)
  <2>1. p = NoBody /\ p' = EventBody(e) /\ EventBody(e) \in Bodies /\ UNCHANGED <<got, d>>
    BY <1>3, BodyFacts DEF HandsOverEvent, Sends
  <2> QED  BY <2>1 DEF Promise!HandOver
<1>4. ASSUME NEW c \in commands, HandsOverLine(c)
      PROVE  \E i \in Bodies : Promise!HandOver(i)
  <2>1. LineBody(c.id, c.read + 1) \in Bodies
    <3>1. c.id \in CmdIds /\ c.read + 1 \in 1 .. NumLines
      BY LinkConstants DEF LinkInv, TypeOK, CommandInfos
    <3> QED  BY <3>1, BodyFacts
  <2>2. p = NoBody /\ p' = LineBody(c.id, c.read + 1) /\ UNCHANGED <<got, d>>
    BY <1>4 DEF HandsOverLine, Sends
  <2> QED  BY <2>1, <2>2 DEF Promise!HandOver
<1>5. ASSUME NEW b \in Bodies, Takes(b)
      PROVE  Promise!Take \/ UNCHANGED <<p, got, d>>
  <2>1. UNCHANGED <<p, d>> /\ got' = got \cup {b}
    BY <1>5 DEF Takes
  <2>2. b \in got \/ b = p
    BY <1>5 DEF PendingInv, Takes
  <2> QED  BY <2>1, <2>2 DEF Promise!Take
<1> QED  BY <1>1, <1>2, <1>3, <1>4, <1>5, StepKind DEF Dies

\* The link implements AtLeastOnce: as long as the process lives, one item
\* at a time is pending, the server takes only that one, and nobody is told
\* that it is done before it was taken.
THEOREM LinkKeepsPromise == OpenOnce /\ "crash" \notin Calls => (Spec => KeepsPromise)
<1>1. Init => Promise!Init
  BY DEF Init, Promise!Init
<1>2. ASSUME OpenOnce, "crash" \notin Calls PROVE Spec => KeepsPromise
  BY <1>1, <1>2, InitLinkInv, NextLinkInv, InitChoiceInv, NextChoiceInv, InitNumbersInv,
     NextNumbersInv, InitHistory, NextPendingInv, PromiseStep, PTL
     DEF Spec, KeepsPromise, Promise!Spec
<1> QED  BY <1>2

-----------------------------------------------------------------------------
(***************************************************************************)
(* What the loop does on request it does only where Calls allows the       *)
(* request: a step of the loop could otherwise be none of the link.        *)
(***************************************************************************)
Requested ==
  /\ closeReq \/ pc \in {"close", "close2"} => "close" \in Calls
  /\ restartReq \/ pc = "restart" => "restart" \in Calls
  /\ pc = "end" \/ (pc # "wait" /\ ~(needed /\ wanUp)) => "clear" \in Calls

UnitInv == UnitTypeOK /\ Requested

\* Where a pass goes on after a block.
LEMMA Blocks ==
  /\ LastBlock \in {"select", "end"}
  /\ LastBlock = "end" <=> ~needed
  /\ PumpBlock \in {"pump", LastBlock}
  /\ RestartBlock \in {"restart", PumpBlock}
  /\ RestartBlock = "restart" <=> restartReq'
  /\ CloseBlock \in {"close", RestartBlock}
  /\ CloseBlock = "close" <=> closeReq'
BY DEF LastBlock, PumpBlock, RestartBlock, CloseBlock

\* Which steps of the link begin or end a session.
LEMMA LinkKeepsSession ==
  /\ RecvFrame \/ ProcessTimeout \/ ServerStep \/ Lose => session' = session
  /\ \A s \in Servers : ServerSays(s) => session' = session
  /\ \A e \in Events : SendEvent(e) => session' = session
  /\ \A c \in commands : SendLine(c) => session' = session
  /\ ReportClosed \/ CloseConnection \/ RestartConnection => session' = session
  /\ OpenConnection => session' = TRUE
  /\ ClearConnection \/ StartProcess => session' = FALSE
<1>1. RecvFrame => session' = session
  BY DEF RecvFrame, RecvOpen, RecvRedirect, RecvAck, RecvCommand, RecvKill,
         RecvRestart, RecvClose, RecvCloseAck, RecvIgnored, unitVars
<1>2. ProcessTimeout => session' = session
  BY DEF ProcessTimeout, StartupTimeout, UpTimeout, ClosingTimeout, DownTimeout
<1>3. ServerStep \/ Lose => session' = session
  BY DEF ServerStep, ServerOpen, ServerRedirect, ServerOpened, ServerData,
         ServerClosed, ServerCommandAcked, ServerTakes, Lose, unitVars
<1>4. \A s \in Servers : ServerSays(s) => session' = session
  BY DEF ServerSays, unitVars
<1>5. \A e \in Events : SendEvent(e) => session' = session
  BY DEF SendEvent
<1>6. \A c \in commands : SendLine(c) => session' = session
  BY DEF SendLine
<1>7. /\ ReportClosed \/ CloseConnection \/ RestartConnection => session' = session
      /\ OpenConnection => session' = TRUE
      /\ ClearConnection \/ StartProcess => session' = FALSE
  BY DEF ReportClosed, CloseConnection, RestartConnection, OpenConnection,
         ClearConnection, StartProcess
<1> QED  BY <1>1, <1>2, <1>3, <1>4, <1>5, <1>6, <1>7

LEMMA InitUnitInv == UnitInit => UnitInv
<1>1. UnitInit => closeAge \in 0 .. 2
  BY DEF UnitInit
<1> QED  BY <1>1 DEF UnitInit, Init, UnitInv, UnitTypeOK, Requested

LEMMA NextUnitInv == UnitInv /\ [UnitNext]_unitcommVars => UnitInv'
<1> SUFFICES ASSUME UnitInv, [UnitNext]_unitcommVars PROVE UnitInv'
  OBVIOUS
<1> USE DEF UnitInv, UnitTypeOK, Requested
<1>1. CASE BeginSession
  BY <1>1, LinkKeepsSession DEF BeginSession, Goto
<1>2. CASE FramePass
  BY <1>2, LinkKeepsSession DEF FramePass, Goto
<1>3. CASE EventPass
  <2>1. session' = session
    BY <1>3, LinkKeepsSession DEF EventPass, PassEvent
  <2> QED  BY <1>3, <2>1, Blocks DEF EventPass
<1>4. CASE TimeoutPass
  BY <1>4, LinkKeepsSession, Blocks DEF TimeoutPass
<1>5. CASE QuietPass
  BY <1>5, Blocks DEF QuietPass, vars, unitVars
<1>6. CASE WanLost
  BY <1>6 DEF WanLost, Goto, vars, unitVars
<1>7. CASE CloseDelayed
  <2>1. session' = session
    BY <1>7, LinkKeepsSession DEF CloseDelayed, vars, unitVars
  <2> QED  BY <1>7, <2>1 DEF CloseDelayed, Goto
<1>8. CASE CloseChain
  <2>1. session' = session
    BY <1>8, LinkKeepsSession DEF CloseChain, vars, unitVars
  <2>2. closeReq' \in BOOLEAN
    BY <1>8 DEF CloseChain
  <2>3. closeAge' \in 0 .. 2
    BY <1>8 DEF CloseChain
  <2> QED  BY <1>8, <2>1, <2>2, <2>3, Blocks DEF CloseChain
<1>9. CASE RestartPass
  <2>1. session' = session
    BY <1>9, LinkKeepsSession DEF RestartPass, vars, unitVars
  <2> QED  BY <1>9, <2>1, Blocks DEF RestartPass
<1>10. CASE PumpPass
  <2>1. session' = session
    BY <1>10, LinkKeepsSession DEF PumpPass, vars, unitVars
  <2> QED  BY <1>10, <2>1, Blocks DEF PumpPass, Goto
<1>11. CASE EndSession
  BY <1>11, LinkKeepsSession DEF EndSession, Goto
<1>12. CASE Hup \/ Usr1 \/ Tick
  <2>1. closeAge' \in 0 .. 2
    BY <1>12 DEF Hup, Usr1, Tick
  <2>2. session' = session /\ pc' = pc /\ wanUp' = wanUp /\ needed' = needed
    BY <1>12 DEF Hup, Usr1, Tick, vars, unitVars
  <2>3. CASE Hup
    BY <2>1, <2>2, <2>3 DEF Hup
  <2>4. CASE Usr1
    BY <2>1, <2>2, <2>4 DEF Usr1
  <2>5. CASE Tick
    BY <2>1, <2>2, <2>5 DEF Tick
  <2> QED  BY <1>12, <2>3, <2>4, <2>5
<1>13. CASE Die
  <2>1. closeAge' \in 0 .. 2
    BY <1>13 DEF Die
  <2>2. session' = FALSE
    BY <1>13, LinkKeepsSession DEF Die
  <2>3. pc' = "wait" /\ closeReq' = FALSE /\ restartReq' = FALSE
    BY <1>13 DEF Die
  <2>4. wanUp' = wanUp /\ needed' = needed
    BY <1>13 DEF Die
  <2>5. UnitTypeOK'
    BY <2>1, <2>2, <2>3, <2>4
  <2> QED  BY <2>3, <2>5
<1>14. CASE Wan
  BY <1>14 DEF Wan, vars, unitVars
<1>15. CASE Outside
  <2>1. session' = session
    BY <1>15, LinkKeepsSession DEF Outside
  <2> QED  BY <1>15, <2>1 DEF Outside, loopVars
<1>16. CASE UNCHANGED unitcommVars
  BY <1>16 DEF unitcommVars, loopVars, vars, unitVars
<1> QED
  BY <1>1, <1>2, <1>3, <1>4, <1>5, <1>6, <1>7, <1>8, <1>9, <1>10, <1>11,
     <1>12, <1>13, <1>14, <1>15, <1>16 DEF UnitNext, LoopStep

\* A pass is inside handleConnections, from the first select to the end, and
\* main waits only without a session.
THEOREM UnitTypes == UnitSpec => []UnitTypeOK
<1>1. UnitInv => UnitTypeOK
  BY DEF UnitInv
<1> QED  BY <1>1, InitUnitInv, NextUnitInv, PTL DEF UnitSpec

-----------------------------------------------------------------------------
(* Refinement                                                              *)

LEMMA UnitStepIsLinkStep == UnitInv /\ [UnitNext]_unitcommVars => [Next]_vars
<1> SUFFICES ASSUME UnitInv, [UnitNext]_unitcommVars PROVE [Next]_vars
  OBVIOUS
<1> USE DEF UnitInv, Requested
<1>1. CASE BeginSession
  BY <1>1 DEF BeginSession, Next, MainLoop
<1>2. CASE FramePass
  BY <1>2 DEF FramePass, Next
<1>3. CASE EventPass
  BY <1>3 DEF EventPass, PassEvent, Next, MainLoop
<1>4. CASE TimeoutPass
  BY <1>4 DEF TimeoutPass, Next
<1>5. CASE QuietPass \/ WanLost \/ Hup \/ Usr1 \/ Tick \/ Wan
  BY <1>5 DEF QuietPass, WanLost, Hup, Usr1, Tick, Wan
<1>6. CASE CloseDelayed
  BY <1>6 DEF CloseDelayed, Goto, Next, MainLoop
<1>7. CASE CloseChain
  BY <1>7 DEF CloseChain, Next, MainLoop
<1>8. CASE RestartPass
  BY <1>8 DEF RestartPass, Next, MainLoop
<1>9. CASE PumpPass
  BY <1>9 DEF PumpPass, Next, MainLoop
<1>10. CASE EndSession
  BY <1>10 DEF EndSession, Goto, Next, MainLoop
<1>11. CASE Die
  BY <1>11 DEF Die, Next, MainLoop
<1>12. CASE Outside
  BY <1>12 DEF Outside, Next
<1>13. CASE UNCHANGED unitcommVars
  BY <1>13 DEF unitcommVars
<1> QED
  BY <1>1, <1>2, <1>3, <1>4, <1>5, <1>6, <1>7, <1>8, <1>9, <1>10, <1>11,
     <1>12, <1>13 DEF UnitNext, LoopStep

\* The process implements the link: in whatever order the blocks of a pass,
\* the signals and the WAN follow each other, unitcomm does to the link only
\* what ServerLink allows.
THEOREM UnitImplementsLink == UnitSpec => Spec
<1>1. UnitInit => Init
  BY DEF UnitInit
<1> QED
  BY <1>1, InitUnitInv, NextUnitInv, UnitStepIsLinkStep, PTL DEF UnitSpec, Spec

\* What is proved of the link therefore holds of the process: one frame at a
\* time, a timer for whoever waits, and the recorded server is the connected one.
THEOREM UnitKeepsLink ==
  UnitSpec => [](StopAndWait /\ TimerArmed /\ ConnectedServerRecorded /\ CommandsUnique)
BY UnitImplementsLink, LinkStopAndWait, LinkTimerArmed, LinkConnectedServerRecorded,
   LinkCommandsUnique, PTL

\* And so does what is proved of the content: the process acknowledges to
\* event_logger what the server took, sends command output without a gap, and
\* as long as it lives hands one item at a time to the server.
THEOREM UnitKeepsContent ==
  OpenOnce => /\ UnitSpec => [](AckedWereTaken /\ LinesInOrder)
              /\ "crash" \notin Calls => (UnitSpec => KeepsPromise)
<1>1. ASSUME OpenOnce
      PROVE  UnitSpec => [](AckedWereTaken /\ LinesInOrder)
  <2>1. (Spec => []AckedWereTaken) /\ (Spec => []LinesInOrder)
    BY <1>1, LinkAckedWereTaken, LinkLinesInOrder
  <2> QED  BY <2>1, UnitImplementsLink, PTL
<1>2. ASSUME OpenOnce, "crash" \notin Calls
      PROVE  UnitSpec => KeepsPromise
  <2>1. Spec => KeepsPromise
    BY <1>2, LinkKeepsPromise
  <2> QED  BY <2>1, UnitImplementsLink, PTL
<1> QED  BY <1>1, <1>2
=============================================================================
