-------------------------- MODULE VicTalker_proofs --------------------------
(***************************************************************************)
(* Theorems about VicTalker, for any number of clients, descriptors and    *)
(* requests.                                                               *)
(***************************************************************************)
EXTENDS VicTalker, TLAPS

Entries == [src: Fds, of: Requests]

-----------------------------------------------------------------------------
(* Types                                                                   *)

LEMMA SeqFacts ==
  ASSUME NEW S, NEW s \in Seq(S)
  PROVE  /\ Len(s) \in Nat
         /\ Len(s) = 0 <=> s = <<>>
         /\ s # <<>> => /\ Head(s) \in S /\ Tail(s) \in Seq(S)
                        /\ Len(Tail(s)) = Len(s) - 1
         /\ \A x \in S : /\ Append(s, x) \in Seq(S) /\ Append(s, x) # <<>>
                         /\ Len(Append(s, x)) = Len(s) + 1
OBVIOUS

\* sendNextCommand keeps the queue and the line well formed.
LEMMA SendNextTypes ==
  ASSUME TypeOK, NEW q \in Seq(Entries), SendNextCommand(q)
  PROVE  /\ commands' \in Seq(Entries) /\ timed' \in BOOLEAN
         /\ toVic' \in Seq(Requests)
<1>1. q # <<>> => Head(q) \in Entries /\ Head(q).of \in Requests
  <2>1. q # <<>> => Head(q) \in Entries
    BY SeqFacts
  <2> QED  BY <2>1 DEF Entries
<1>2. toVic \in Seq(Requests)
  BY DEF TypeOK
<1>3. toVic' \in Seq(Requests)
  BY <1>1, <1>2, SeqFacts DEF SendNextCommand
<1> QED  BY <1>3 DEF SendNextCommand

LEMMA DeliverTypes ==
  ASSUME TypeOK, NEW fd \in Fds, NEW r \in Requests, Deliver(fd, r)
  PROVE  /\ waiting' \subseteq Clients
         /\ got' \subseteq (Clients \X Nat) \X Requests
<1>1. peer[fd] # None => peer[fd] \in Clients /\ sent[peer[fd]] \in Nat
  BY DEF TypeOK
<1> QED  BY <1>1 DEF Deliver, TypeOK

LEMMA BeginDownloadTypes ==
  ASSUME TypeOK, NEW fd \in Fds, BeginDownload(fd)
  PROVE  /\ listening' \in BOOLEAN /\ path' \in BOOLEAN /\ loaderCalled' \in BOOLEAN
         /\ connections' \in [Fds -> {"none", "open", "download"}]
         /\ peer' \in [Fds -> Clients \cup {None}]
         /\ hungUp' \subseteq Fds
         /\ unread' \in [Fds -> Requests \cup {None}]
         /\ backlog' \in Seq(Clients)
         /\ socket' \in [Clients -> Fds \cup {NoSock, Pending, Eof}]
         /\ waiting' \subseteq Clients
<1>1. connections' \in [Fds -> {"none", "open", "download"}]
  BY DEF BeginDownload
<1>2. peer' \in [Fds -> Clients \cup {None}]
  BY DEF BeginDownload, TypeOK
<1>3. socket' \in [Clients -> Fds \cup {NoSock, Pending, Eof}]
  BY DEF BeginDownload, TypeOK
<1>4. unread' \in [Fds -> Requests \cup {None}] /\ backlog' \in Seq(Clients)
  BY DEF BeginDownload
<1> QED  BY <1>1, <1>2, <1>3, <1>4 DEF BeginDownload, TypeOK

LEMMA AllClosedTypes ==
  ASSUME TypeOK, AllClosed
  PROVE  /\ up' \in BOOLEAN /\ listening' \in BOOLEAN /\ loaderCalled' \in BOOLEAN
         /\ timed' \in BOOLEAN
         /\ commands' \in Seq(Entries)
         /\ connections' \in [Fds -> {"none", "open", "download"}]
         /\ peer' \in [Fds -> Clients \cup {None}]
         /\ hungUp' \subseteq Fds
         /\ unread' \in [Fds -> Requests \cup {None}]
         /\ backlog' \in Seq(Clients)
         /\ socket' \in [Clients -> Fds \cup {NoSock, Pending, Eof}]
         /\ waiting' \subseteq Clients
<1>1. connections' \in [Fds -> {"none", "open", "download"}]
  BY DEF AllClosed
<1>2. peer' \in [Fds -> Clients \cup {None}] /\ unread' \in [Fds -> Requests \cup {None}]
  BY DEF AllClosed
<1>3. socket' \in [Clients -> Fds \cup {NoSock, Pending, Eof}]
  BY DEF AllClosed, TypeOK
<1>4. commands' \in Seq(Entries) /\ backlog' \in Seq(Clients)
  BY DEF AllClosed
<1> QED  BY <1>1, <1>2, <1>3, <1>4 DEF AllClosed, TypeOK

\* A command waits for the VIC exactly when a command is in the queue.
HeadTimed == timed <=> commands # <<>>

LEMMA HeadTimedNext ==
  ASSUME TypeOK, HeadTimed, [Next]_vars
  PROVE  HeadTimed'
<1>1. ASSUME NEW q, SendNextCommand(q)  PROVE HeadTimed'
  BY <1>1 DEF SendNextCommand, HeadTimed
<1>2. ASSUME UNCHANGED <<commands, timed>> \/ AllClosed  PROVE HeadTimed'
  BY <1>2 DEF HeadTimed, AllClosed
<1>3. ASSUME NEW f \in Fds, ReadRequest(f)  PROVE HeadTimed'
  <2>1. CASE commands = <<>>
    BY <1>1, <1>3, <2>1 DEF ReadRequest
  <2>2. CASE commands # <<>>
    <3>1. commands \in Seq(Entries) /\ [src |-> f, of |-> unread[f]] \in Entries
      BY <1>3 DEF ReadRequest, TypeOK, Entries
    <3>2. Append(commands, [src |-> f, of |-> unread[f]]) # <<>>
      BY <3>1, SeqFacts
    <3> QED  BY <1>3, <2>2, <3>2 DEF ReadRequest, HeadTimed
  <2> QED  BY <2>1, <2>2
<1>4. CASE RecvAnswer \/ RecvNoApp \/ CommandTimeout
  BY <1>1, <1>2, <1>4 DEF RecvAnswer, RecvNoApp, CommandTimeout
<1>5. CASE UNCHANGED vars \/ Accept \/ VicAnswers \/ LoseFrame \/ Die \/ DieStarting \/ RecvNoAppEmpty
           \/ TakeLock \/ NoteLock \/ Bind
  BY <1>2, <1>5 DEF vars, procVars, Accept, VicAnswers, LoseFrame, Die, DieStarting, RecvNoAppEmpty,
                    TakeLock, NoteLock, Bind
<1>6. ASSUME NEW f \in Fds, ReadHangup(f)  PROVE HeadTimed'
  BY <1>2, <1>6 DEF ReadHangup
<1>7. ASSUME NEW c \in Clients, Connect(c) \/ Ask(c) \/ GiveUp(c) \/ Leave(c)  PROVE HeadTimed'
  BY <1>2, <1>7 DEF Connect, Ask, GiveUp, Leave, procVars
<1> QED  BY <1>3, <1>4, <1>5, <1>6, <1>7 DEF Next

LEMMA InitTypes == Init => TypeOK
<1> SUFFICES ASSUME Init  PROVE TypeOK
  OBVIOUS
<1>1. connections \in [Fds -> {"none", "open", "download"}] /\ peer \in [Fds -> Clients \cup {None}]
  BY DEF Init
<1>2. /\ unread \in [Fds -> Requests \cup {None}]
      /\ socket \in [Clients -> Fds \cup {NoSock, Pending, Eof}]
  BY DEF Init
<1>3. sent \in [Clients -> Nat] /\ (\A c \in Clients : sent[c] <= MaxSent[c]) /\ deaths \in 0..MaxDeaths
  BY VicConstants DEF Init
<1>4. /\ commands \in Seq([src: Fds, of: Requests]) /\ backlog \in Seq(Clients)
      /\ toVic \in Seq(Requests) /\ fromVic \in Seq(Frames)
  BY DEF Init
<1> QED  BY <1>1, <1>2, <1>3, <1>4 DEF Init, TypeOK

\* The select loop.
LEMMA LoopTypes ==
  ASSUME TypeOK, HeadTimed,
         \/ Accept \/ RecvAnswer \/ RecvNoApp \/ CommandTimeout
         \/ \E f \in Fds : ReadRequest(f) \/ ReadHangup(f)
  PROVE  TypeOK'
<1>1. CASE Accept
  <2>1. backlog # <<>> /\ backlog \in Seq(Clients)
    BY <1>1 DEF Accept, TypeOK
  <2>2. Head(backlog) \in Clients /\ Tail(backlog) \in Seq(Clients)
    BY <2>1, SeqFacts
  <2> QED  BY <1>1, <2>2 DEF Accept, TypeOK
<1>2. CASE RecvAnswer
  <2>1. fromVic \in Seq(Frames) /\ fromVic # <<>> /\ commands \in Seq(Entries)
    BY <1>2 DEF RecvAnswer, TypeOK, Entries
  <2>5. fromVic' \in Seq(Frames) /\ Head(fromVic) \in Frames
    BY <1>2, <2>1, SeqFacts DEF RecvAnswer
  <2>2. fromVic' \in Seq(Frames) /\ Head(fromVic).of \in Requests
    BY <2>5 DEF Frames
  <2>3. CASE commands = <<>>
    BY <1>2, <2>2, <2>3 DEF RecvAnswer, TypeOK, kernelVars
  <2>4. CASE commands # <<>>
    <3>5. Tail(commands) \in Seq(Entries) /\ Head(commands) \in Entries
      BY <2>1, <2>4, SeqFacts
    <3>1. Tail(commands) \in Seq(Entries) /\ Head(commands).src \in Fds
      BY <3>5 DEF Entries
    <3>2. Deliver(Head(commands).src, Head(fromVic).of) /\ SendNextCommand(Tail(commands))
      BY <1>2, <2>4 DEF RecvAnswer
    <3>3. /\ waiting' \subseteq Clients
          /\ got' \subseteq (Clients \X Nat) \X Requests
      BY <2>2, <3>1, <3>2, DeliverTypes
    <3>4. commands' \in Seq(Entries) /\ timed' \in BOOLEAN /\ toVic' \in Seq(Requests)
      BY <3>1, <3>2, SendNextTypes
    <3> QED  BY <1>2, <2>2, <3>3, <3>4 DEF RecvAnswer, TypeOK, kernelVars, Entries
  <2> QED  BY <2>3, <2>4
<1>3. CASE RecvNoApp
  <2>1. fromVic \in Seq(Frames) /\ fromVic # <<>> /\ commands \in Seq(Entries) /\ commands # <<>>
    BY <1>3 DEF RecvNoApp, TypeOK, Entries
  <2>2. fromVic' \in Seq(Frames) /\ Tail(commands) \in Seq(Entries)
    BY <1>3, <2>1, SeqFacts DEF RecvNoApp
  <2>3. commands' \in Seq(Entries) /\ timed' \in BOOLEAN /\ toVic' \in Seq(Requests)
    BY <1>3, <2>2, SendNextTypes DEF RecvNoApp
  <2> QED  BY <1>3, <2>2, <2>3 DEF RecvNoApp, TypeOK, kernelVars, clientVars, Entries
<1>4. CASE CommandTimeout
  <2>1. commands # <<>>
    BY <1>4 DEF CommandTimeout, HeadTimed
  <2>2. Tail(commands) \in Seq(Entries)
    BY <2>1, SeqFacts DEF TypeOK, Entries
  <2>3. commands' \in Seq(Entries) /\ timed' \in BOOLEAN /\ toVic' \in Seq(Requests)
    BY <1>4, <2>2, SendNextTypes DEF CommandTimeout
  <2> QED  BY <1>4, <2>3 DEF CommandTimeout, TypeOK, kernelVars, clientVars, Entries
<1>5. ASSUME NEW f \in Fds, ReadRequest(f)  PROVE TypeOK'
  <2>1. unread[f] \in Requests /\ commands \in Seq(Entries)
    BY <1>5 DEF ReadRequest, TypeOK, Entries
  <2>2. Append(commands, [src |-> f, of |-> unread[f]]) \in Seq(Entries)
    BY <2>1, SeqFacts DEF Entries
  <2>3. commands' \in Seq(Entries) /\ timed' \in BOOLEAN /\ toVic' \in Seq(Requests)
    BY <1>5, <2>2, SendNextTypes DEF ReadRequest, TypeOK
  <2>4. CASE BeginDownload(f)
    BY <1>5, <2>3, <2>4, BeginDownloadTypes DEF ReadRequest, TypeOK, Entries
  <2>5. CASE /\ unread' = [unread EXCEPT ![f] = None]
             /\ UNCHANGED <<listening, path, connections, peer, hungUp, backlog,
                            socket, waiting, loaderCalled>>
    BY <1>5, <2>3, <2>5 DEF ReadRequest, TypeOK, Entries
  <2> QED  BY <1>5, <2>4, <2>5 DEF ReadRequest
<1>6. ASSUME NEW f \in Fds, ReadHangup(f)  PROVE TypeOK'
  BY <1>6 DEF ReadHangup, TypeOK, clientVars
<1> QED  BY <1>1, <1>2, <1>3, <1>4, <1>5, <1>6

\* Start and end, the clients and the VIC.
LEMMA OtherTypes ==
  ASSUME TypeOK,
         \/ Die \/ RecvNoAppEmpty \/ VicAnswers \/ LoseFrame
         \/ TakeLock \/ NoteLock \/ Bind \/ DieStarting
         \/ \E c \in Clients : Connect(c) \/ Ask(c) \/ GiveUp(c) \/ Leave(c)
  PROVE  TypeOK'
<1>1. CASE Die
  <2>1. deaths' \in 0..MaxDeaths
    BY <1>1, VicConstants DEF Die, TypeOK
  <2>2. AllClosed /\ path' \in BOOLEAN /\ locked' \in BOOLEAN
    BY <1>1 DEF Die, TypeOK
  <2>3. UNCHANGED <<starting, sent, got, toVic, fromVic, faults>>
    BY <1>1 DEF Die
  <2> QED  BY <2>1, <2>2, <2>3, AllClosedTypes DEF TypeOK, Entries
<1>2. CASE RecvNoAppEmpty
  <2>1. fromVic' \in Seq(Frames)
    BY <1>2, SeqFacts DEF RecvNoAppEmpty, TypeOK
  <2>2. CASE AllClosed /\ UNCHANGED <<starting, path, locked>>
    BY <1>2, <2>1, <2>2, AllClosedTypes DEF RecvNoAppEmpty, TypeOK, Entries
  <2>3. CASE ~AllClosed
    BY <1>2, <2>1, <2>3 DEF RecvNoAppEmpty, TypeOK, kernelVars
  <2> QED  BY <1>2, <2>2, <2>3 DEF RecvNoAppEmpty
<1>3. CASE TakeLock \/ NoteLock \/ Bind \/ DieStarting
  <2>1. CASE TakeLock
    <3>1. path' \in BOOLEAN /\ locked' \in BOOLEAN /\ starting' \in {"no", "made", "noted"}
      BY <2>1 DEF TakeLock, TypeOK
    <3> QED  BY <2>1, <3>1 DEF TakeLock, TypeOK, kernelVars, clientVars
  <2>4. CASE NoteLock
    BY <2>4 DEF NoteLock, TypeOK, kernelVars, clientVars
  <2>2. CASE Bind
    BY <2>2 DEF Bind, TypeOK, kernelVars, clientVars
  <2>3. CASE DieStarting
    <3>1. deaths' \in 0..MaxDeaths
      BY <2>3, VicConstants DEF DieStarting, TypeOK
    <3>2. path' \in BOOLEAN /\ locked' \in BOOLEAN /\ starting' = "no"
      BY <2>3 DEF DieStarting, TypeOK
    <3> QED  BY <2>3, <3>1, <3>2 DEF DieStarting, TypeOK, kernelVars, clientVars
  <2> QED  BY <1>3, <2>1, <2>2, <2>3, <2>4
<1>4. CASE VicAnswers
  <2>1. toVic \in Seq(Requests) /\ toVic # <<>> /\ fromVic \in Seq(Frames)
    BY <1>4 DEF VicAnswers, TypeOK
  <2>2. toVic' \in Seq(Requests) /\ Head(toVic) \in Requests
    BY <1>4, <2>1, SeqFacts DEF VicAnswers
  <2>3. PICK t \in {"resp", "noapp"} : fromVic' = Append(fromVic, [type |-> t, of |-> Head(toVic)])
    BY <1>4 DEF VicAnswers
  <2>4. fromVic' \in Seq(Frames)
    BY <2>1, <2>2, <2>3, SeqFacts DEF Frames
  <2> QED  BY <1>4, <2>2, <2>4 DEF VicAnswers, TypeOK, procVars, kernelVars, clientVars
<1>5. CASE LoseFrame
  <2>1. toVic' \in Seq(Requests) /\ fromVic' \in Seq(Frames)
    BY <1>5, SeqFacts DEF LoseFrame, TypeOK
  <2> QED  BY <1>5, <2>1 DEF LoseFrame, TypeOK, procVars, kernelVars, clientVars
<1>6. ASSUME NEW c \in Clients, Connect(c)  PROVE TypeOK'
  BY <1>6, SeqFacts DEF Connect, TypeOK, procVars
<1>7. ASSUME NEW c \in Clients, Ask(c)  PROVE TypeOK'
  <2>5. sent[c] \in Nat /\ MaxSent[c] \in Nat /\ sent[c] < MaxSent[c]
    BY <1>7, VicConstants DEF Ask, TypeOK
  <2>1. sent[c] + 1 \in 1..MaxSent[c] /\ sent[c] + 1 \in Nat
    BY <2>5
  <2>2. <<c, sent[c] + 1>> \in Requests
    BY <2>1 DEF Requests
  <2>3. sent' \in [Clients -> Nat] /\ \A d \in Clients : sent'[d] <= MaxSent[d]
    BY <1>7, <2>1 DEF Ask, TypeOK
  <2>4. unread' \in [Fds -> Requests \cup {None}]
    BY <1>7, <2>2 DEF Ask, TypeOK
  <2> QED  BY <1>7, <2>3, <2>4 DEF Ask, TypeOK, procVars
<1>8. ASSUME NEW c \in Clients, GiveUp(c)  PROVE TypeOK'
  BY <1>8 DEF GiveUp, TypeOK, procVars, kernelVars
<1>9. ASSUME NEW c \in Clients, Leave(c)  PROVE TypeOK'
  BY <1>9 DEF Leave, TypeOK, procVars
<1> QED  BY <1>1, <1>2, <1>3, <1>4, <1>5, <1>6, <1>7, <1>8, <1>9

LEMMA InitTalker == Init => TypeOK /\ HeadTimed
BY InitTypes DEF Init, HeadTimed

LEMMA NextTalker == TypeOK /\ HeadTimed /\ [Next]_vars => TypeOK' /\ HeadTimed'
<1> SUFFICES ASSUME TypeOK, HeadTimed, [Next]_vars  PROVE TypeOK'
  BY HeadTimedNext
<1>1. CASE UNCHANGED vars
  BY <1>1 DEF vars, procVars, kernelVars, clientVars, TypeOK
<1>2. CASE Next
  BY <1>2, LoopTypes, OtherTypes DEF Next
<1> QED  BY <1>1, <1>2

\* Every variable keeps its range.  The timeout takes a command from the queue
\* without looking whether there is one; HeadTimed is why there always is.
THEOREM TalkerTypes == Spec => []TypeOK
BY InitTalker, NextTalker, PTL DEF Spec

-----------------------------------------------------------------------------
(* One request at the VIC                                                  *)

InTime == "late" \notin faults /\ deaths = 0

\* What is on the line belongs to the head of the queue.
OnTheLine ==
    InTime => /\ Len(toVic) + Len(fromVic) <= 1
              /\ commands = <<>> => toVic = <<>> /\ fromVic = <<>>

\* A command that is sent when the line is empty is alone there.
LEMMA SendNextLine ==
  ASSUME TypeOK, NEW q \in Seq(Entries), SendNextCommand(q),
         toVic = <<>>, fromVic' = <<>>
  PROVE  OnTheLine'
<1>1. CASE q = <<>>
  BY <1>1 DEF SendNextCommand, OnTheLine
<1>2. CASE q # <<>>
  <2>1. Head(q) \in Entries
    BY <1>2, SeqFacts
  <2>2. Head(q).of \in Requests
    BY <2>1 DEF Entries
  <2>3. Len(Append(toVic, Head(q).of)) = 1
    BY <2>2, SeqFacts DEF TypeOK
  <2> QED  BY <1>2, <2>3 DEF SendNextCommand, OnTheLine
<1> QED  BY <1>1, <1>2

\* Who is in time now was so before, and the process lived.
LEMMA StillInTime ==
  ASSUME TypeOK, [Next]_vars, InTime'
  PROVE  InTime /\ ~Die /\ ~DieStarting /\ faults' = faults
<1>1. ASSUME NEW f \in Fds, ReadRequest(f) \/ ReadHangup(f)  PROVE InTime /\ faults' = faults
  BY <1>1 DEF ReadRequest, ReadHangup, InTime
<1>2. ASSUME NEW c \in Clients, Connect(c) \/ Ask(c) \/ GiveUp(c) \/ Leave(c)
      PROVE  InTime /\ faults' = faults
  BY <1>2 DEF Connect, Ask, GiveUp, Leave, InTime
<1>3. ~Die /\ ~DieStarting
  BY VicConstants DEF Die, DieStarting, InTime, TypeOK
<1>4. CASE Accept \/ RecvAnswer \/ RecvNoApp \/ RecvNoAppEmpty \/ CommandTimeout
           \/ TakeLock \/ NoteLock \/ Bind \/ VicAnswers \/ LoseFrame
  BY <1>3, <1>4 DEF Accept, RecvAnswer, RecvNoApp, RecvNoAppEmpty, CommandTimeout,
                    TakeLock, NoteLock, Bind, VicAnswers, LoseFrame, InTime
<1>5. CASE UNCHANGED vars
  BY <1>3, <1>5 DEF vars, InTime
<1> QED  BY <1>1, <1>2, <1>3, <1>4, <1>5 DEF Next

\* When the next command is sent, nothing of the one before is on the line.
LEMMA LineEmptied ==
  ASSUME TypeOK, HeadTimed, OnTheLine, InTime, RecvAnswer \/ RecvNoApp \/ CommandTimeout
  PROVE  toVic = <<>> /\ fromVic' = <<>> /\ commands # <<>> /\ SendNextCommand(Tail(commands))
<1>1. /\ Len(toVic) + Len(fromVic) <= 1
      /\ commands = <<>> => toVic = <<>> /\ fromVic = <<>>
  BY DEF OnTheLine
<1>2. /\ fromVic \in Seq(Frames) /\ Len(toVic) \in Nat /\ Len(fromVic) \in Nat
      /\ Len(toVic) = 0 <=> toVic = <<>>
      /\ Len(fromVic) = 0 <=> fromVic = <<>>
  BY SeqFacts DEF TypeOK
<1>3. CASE RecvAnswer \/ RecvNoApp
  <2>1. fromVic # <<>> /\ fromVic' = Tail(fromVic)
    BY <1>3 DEF RecvAnswer, RecvNoApp
  <2>2. Len(fromVic) = 1 /\ Len(toVic) = 0
    <3> DEFINE a == Len(toVic)  b == Len(fromVic)
    <3>1. a \in Nat /\ b \in Nat /\ a + b <= 1 /\ b # 0
      BY <1>1, <1>2, <2>1
    <3> HIDE DEF a, b
    <3>2. b = 1 /\ a = 0
      BY <3>1
    <3> QED  BY <3>2 DEF a, b
  <2>3. Tail(fromVic) \in Seq(Frames) /\ Len(Tail(fromVic)) = 0
    BY <1>2, <2>1, <2>2, SeqFacts
  <2>4. fromVic' = <<>> /\ toVic = <<>> /\ commands # <<>>
    BY <1>1, <1>2, <2>1, <2>2, <2>3, SeqFacts
  <2> QED  BY <1>3, <2>4 DEF RecvAnswer, RecvNoApp
<1>4. CASE CommandTimeout
  BY <1>4 DEF CommandTimeout, InTime, HeadTimed
<1> QED  BY <1>3, <1>4

LEMMA NextOnTheLine == TypeOK /\ HeadTimed /\ OnTheLine /\ [Next]_vars => OnTheLine'
<1> SUFFICES ASSUME TypeOK, HeadTimed, OnTheLine, [Next]_vars, InTime'  PROVE OnTheLine'
  BY DEF OnTheLine
<1>1. InTime
  BY StillInTime
<1>2. /\ Len(toVic) + Len(fromVic) <= 1
      /\ commands = <<>> => toVic = <<>> /\ fromVic = <<>>
  BY <1>1 DEF OnTheLine
<1>3. /\ commands \in Seq(Entries) /\ toVic \in Seq(Requests) /\ fromVic \in Seq(Frames)
      /\ Len(toVic) \in Nat /\ Len(fromVic) \in Nat
      /\ Len(toVic) = 0 <=> toVic = <<>>
      /\ Len(fromVic) = 0 <=> fromVic = <<>>
  BY SeqFacts DEF TypeOK, Entries
<1>4. ASSUME commands' = commands, UNCHANGED <<toVic, fromVic>>  PROVE OnTheLine'
  BY <1>2, <1>4 DEF OnTheLine
<1>5. CASE RecvAnswer \/ RecvNoApp \/ CommandTimeout
  <2>1. toVic = <<>> /\ fromVic' = <<>> /\ commands # <<>> /\ SendNextCommand(Tail(commands))
    BY <1>1, <1>5, LineEmptied
  <2>2. Tail(commands) \in Seq(Entries)
    BY <1>3, <2>1, SeqFacts
  <2> QED  BY <2>1, <2>2, SendNextLine
<1>6. ASSUME NEW f \in Fds, ReadRequest(f)  PROVE OnTheLine'
  <2> DEFINE q == Append(commands, [src |-> f, of |-> unread[f]])
  <2>1. [src |-> f, of |-> unread[f]] \in Entries
    BY <1>6 DEF ReadRequest, TypeOK, Entries
  <2>2. q \in Seq(Entries) /\ q # <<>>
    BY <1>3, <2>1, SeqFacts
  <2>3. CASE commands = <<>>
    <3>1. SendNextCommand(q) /\ toVic = <<>> /\ fromVic' = <<>>
      BY <1>2, <1>6, <2>3 DEF ReadRequest
    <3> HIDE DEF q
    <3> QED  BY <2>2, <3>1, SendNextLine
  <2>4. CASE commands # <<>>
    BY <1>2, <1>6, <2>2, <2>4 DEF ReadRequest, OnTheLine
  <2> QED  BY <2>3, <2>4
<1>7. CASE VicAnswers
  <2>1. /\ toVic # <<>> /\ toVic' = Tail(toVic) /\ commands' = commands
        /\ \E t \in {"resp", "noapp"} :
             fromVic' = Append(fromVic, [type |-> t, of |-> Head(toVic)])
    BY <1>7 DEF VicAnswers, procVars
  <2>2. PICK t \in {"resp", "noapp"} :
           fromVic' = Append(fromVic, [type |-> t, of |-> Head(toVic)])
    BY <2>1
  <2>3. Head(toVic) \in Requests /\ Len(Tail(toVic)) = Len(toVic) - 1
    BY <1>3, <2>1, SeqFacts
  <2>4. [type |-> t, of |-> Head(toVic)] \in Frames
    BY <2>3 DEF Frames
  <2>5. Len(fromVic') = Len(fromVic) + 1
    BY <1>3, <2>2, <2>4, SeqFacts
  <2> QED  BY <1>2, <1>3, <2>1, <2>3, <2>5 DEF OnTheLine
<1>8. CASE LoseFrame
  <2>1. commands' = commands
    BY <1>8 DEF LoseFrame, procVars
  <2>2. CASE toVic # <<>> /\ toVic' = Tail(toVic) /\ UNCHANGED fromVic
    <3>1. Len(toVic') = Len(toVic) - 1
      BY <1>3, <2>2, SeqFacts
    <3> QED  BY <1>2, <1>3, <2>1, <2>2, <3>1 DEF OnTheLine
  <2>3. CASE fromVic # <<>> /\ fromVic' = Tail(fromVic) /\ UNCHANGED toVic
    <3>1. Len(fromVic') = Len(fromVic) - 1
      BY <1>3, <2>3, SeqFacts
    <3> QED  BY <1>2, <1>3, <2>1, <2>3, <3>1 DEF OnTheLine
  <2> QED  BY <1>8, <2>2, <2>3 DEF LoseFrame
<1>9. CASE RecvNoAppEmpty
  BY <1>2, <1>9 DEF RecvNoAppEmpty
<1>10. CASE TakeLock \/ NoteLock \/ Bind
  BY <1>2, <1>3, <1>10 DEF TakeLock, NoteLock, Bind, OnTheLine
<1>11. ~Die /\ ~DieStarting
  BY VicConstants DEF Die, DieStarting, InTime, TypeOK
<1>12. CASE UNCHANGED vars \/ Accept
  BY <1>4, <1>12 DEF vars, procVars, Accept
<1>13. ASSUME NEW f \in Fds, ReadHangup(f)  PROVE OnTheLine'
  BY <1>4, <1>13 DEF ReadHangup
<1>14. ASSUME NEW c \in Clients, Connect(c) \/ Ask(c) \/ GiveUp(c) \/ Leave(c)
       PROVE  OnTheLine'
  BY <1>4, <1>14 DEF Connect, Ask, GiveUp, Leave, procVars
<1> QED
  BY <1>5, <1>6, <1>7, <1>8, <1>9, <1>10, <1>11, <1>12, <1>13, <1>14 DEF Next

\* Whoever asks and whatever is lost, there are never two requests at the VIC
\* as long as it answers within the timeout.
THEOREM TalkerOneAtATime == Spec => []OneAtATime
<1>1. Init => OnTheLine
  BY DEF Init, OnTheLine
<1>2. OnTheLine => OneAtATime
  BY DEF OnTheLine, OneAtATime, InTime
<1> QED
  BY <1>1, <1>2, InitTalker, NextTalker, NextOnTheLine, PTL DEF Spec

-----------------------------------------------------------------------------
(* The line is given back                                                  *)

LEMMA NextHeld == TypeOK /\ DownloadHeld /\ [Next]_vars => DownloadHeld'
<1> SUFFICES ASSUME TypeOK, DownloadHeld, [Next]_vars, up', ~listening'  PROVE DownloadHeld'
  BY DEF DownloadHeld
<1>1. ASSUME UNCHANGED <<up, listening, connections, peer, backlog>>  PROVE DownloadHeld'
  BY <1>1 DEF DownloadHeld
<1>2. CASE Accept
  <2>1. listening /\ listening' = listening
    BY <1>2 DEF Accept
  <2> QED  BY <2>1
<1>3. ASSUME NEW f \in Fds, ReadRequest(f)  PROVE DownloadHeld'
  <2>1. CASE peer[f] = Loader /\ listening
    <3>1. /\ connections'[f] = "download" /\ peer'[f] = Loader /\ backlog' = <<>>
          /\ \A g \in Fds \ {f} : peer'[g] = None
      BY <1>3, <2>1 DEF ReadRequest, BeginDownload
    <3> QED  BY <3>1 DEF DownloadHeld
  <2>2. CASE ~(peer[f] = Loader /\ listening)
    BY <1>1, <1>3, <2>2 DEF ReadRequest
  <2> QED  BY <2>1, <2>2
<1>4. ASSUME NEW f \in Fds, ReadHangup(f)  PROVE DownloadHeld'
  <2>1. connections[f] # "download" /\ up /\ ~listening /\ backlog' = backlog
    BY <1>4 DEF ReadHangup
  <2>2. PICK h \in Fds : /\ connections[h] = "download" /\ peer[h] = Loader
                         /\ \A g \in Fds \ {h} : peer[g] = None
    BY <2>1 DEF DownloadHeld
  <2>3. \A g \in Fds \ {f} : connections'[g] = connections[g] /\ peer'[g] = peer[g]
    BY <1>4 DEF ReadHangup, TypeOK
  <2>4. peer'[f] = None
    BY <1>4 DEF ReadHangup, TypeOK
  <2>5. connections'[h] = "download" /\ peer'[h] = Loader /\ \A g \in Fds \ {h} : peer'[g] = None
    BY <2>1, <2>2, <2>3, <2>4
  <2> QED  BY <2>1, <2>5 DEF DownloadHeld
<1>5. ~Die /\ ~Bind
  BY DEF Die, AllClosed, Bind
<1>6. CASE RecvNoAppEmpty
  BY <1>1, <1>6 DEF RecvNoAppEmpty, AllClosed, kernelVars
<1>7. CASE \/ UNCHANGED vars \/ RecvAnswer \/ RecvNoApp \/ CommandTimeout \/ VicAnswers \/ LoseFrame
           \/ TakeLock \/ NoteLock \/ DieStarting
  BY <1>1, <1>7 DEF vars, procVars, kernelVars, RecvAnswer, RecvNoApp, CommandTimeout,
                    VicAnswers, LoseFrame, TakeLock, NoteLock, DieStarting
<1>8. ASSUME NEW c \in Clients, Connect(c) \/ Ask(c) \/ GiveUp(c) \/ Leave(c)
      PROVE  DownloadHeld'
  <2>1. UNCHANGED <<up, listening, connections, peer>>
    BY <1>8 DEF Connect, Ask, GiveUp, Leave, procVars, kernelVars
  <2>2. ~Connect(c)
    BY <2>1 DEF Connect
  <2>3. backlog' = backlog
    BY <1>8, <2>2 DEF Ask, GiveUp, Leave, kernelVars
  <2> QED  BY <1>1, <2>1, <2>3
<1> QED  BY <1>2, <1>3, <1>4, <1>5, <1>6, <1>7, <1>8 DEF Next

\* A talker in its loop that does not listen has one connection, the loader's,
\* whose end makes it listen again: no order of requests, hang-ups, answers
\* and deaths lets another program in or leaves it closed for ever.
THEOREM TalkerDownloadHeld == Spec => []DownloadHeld
<1>1. Init => DownloadHeld
  BY DEF Init, DownloadHeld
<1> QED  BY <1>1, InitTalker, NextTalker, NextHeld, PTL DEF Spec

-----------------------------------------------------------------------------
(* Nobody is given the answer somebody else waits for                      *)

Els(s) == {s[i] : i \in 1..Len(s)}

LEMMA ElsFacts ==
  ASSUME NEW S, NEW s \in Seq(S)
  PROVE  /\ Els(s) \subseteq S
         /\ s # <<>> => Head(s) \in Els(s) /\ Els(Tail(s)) \subseteq Els(s)
         /\ \A x \in S : Els(Append(s, x)) = Els(s) \cup {x} /\ (s # <<>> => Head(Append(s, x)) = Head(s))
         /\ \A x \in S : s = <<>> => Head(Append(s, x)) = x
<1>1. Els(s) \subseteq S
  BY DEF Els
<1>2. ASSUME s # <<>>  PROVE Head(s) \in Els(s) /\ Els(Tail(s)) \subseteq Els(s)
  <2>1. Head(s) = s[1] /\ 1 \in 1..Len(s)
    BY <1>2
  <2>2. \A i \in 1..Len(Tail(s)) : i + 1 \in 1..Len(s) /\ Tail(s)[i] = s[i + 1]
    BY <1>2
  <2> QED  BY <2>1, <2>2 DEF Els
<1>3. ASSUME NEW x \in S  PROVE Els(Append(s, x)) = Els(s) \cup {x}
  <2>1. Len(Append(s, x)) = Len(s) + 1 /\ Append(s, x)[Len(s) + 1] = x /\ Len(s) \in Nat
    OBVIOUS
  <2>2. \A i \in 1..Len(s) : Append(s, x)[i] = s[i] /\ i \in 1..(Len(s) + 1)
    OBVIOUS
  <2>3. \A i \in 1..(Len(s) + 1) : i \in 1..Len(s) \/ i = Len(s) + 1
    BY <2>1
  <2>4. Els(Append(s, x)) \subseteq Els(s) \cup {x}
    BY <2>1, <2>2, <2>3 DEF Els
  <2>5. Els(s) \cup {x} \subseteq Els(Append(s, x))
    BY <2>1, <2>2 DEF Els
  <2> QED  BY <2>4, <2>5
<1>4. \A x \in S : /\ s # <<>> => Head(Append(s, x)) = Head(s)
                   /\ s = <<>> => Head(Append(s, x)) = x
  OBVIOUS
<1> QED  BY <1>1, <1>2, <1>3, <1>4

LEMMA ElsEmpty == Els(<<>>) = {}
BY DEF Els

LEMMA RequestFacts ==
  ASSUME NEW r \in Requests
  PROVE  r[1] \in Clients /\ r[2] \in Nat /\ r = <<r[1], r[2]>>
<1>1. PICK c \in Clients : r \in {c} \X (1..MaxSent[c])
  BY DEF Requests
<1> QED  BY <1>1, VicConstants

LEMMA SockFacts ==
  /\ NoSock \notin Fds /\ Pending \notin Fds /\ Eof \notin Fds
  /\ Pending # NoSock /\ Pending # Eof
BY VicConstants DEF NoSock, Pending, Eof

\* What was asked and is not done with, and what is on the line.
Unread == {[src |-> f, of |-> unread[f]] : f \in {g \in Fds : unread[g] # None}}
Asked == Els(commands) \cup Unread
OnLine == Els(toVic) \cup {x.of : x \in Els(fromVic)}

LEMMA AskedTypes == TypeOK => Asked \subseteq Entries /\ OnLine \subseteq Requests
<1> SUFFICES ASSUME TypeOK  PROVE Asked \subseteq Entries /\ OnLine \subseteq Requests
  OBVIOUS
<1>1. /\ commands \in Seq(Entries) /\ toVic \in Seq(Requests) /\ fromVic \in Seq(Frames)
      /\ unread \in [Fds -> Requests \cup {None}]
  BY DEF TypeOK, Entries
<1>2. /\ Els(commands) \subseteq Entries /\ Els(toVic) \subseteq Requests
      /\ Els(fromVic) \subseteq Frames
  BY <1>1, ElsFacts
<1>3. Unread \subseteq Entries
  BY <1>1 DEF Unread, Entries
<1> QED  BY <1>2, <1>3 DEF Asked, OnLine, Frames

\* A client's end and the descriptor lead to each other; nobody waits twice to
\* be accepted.
Linked ==
    /\ \A f \in hungUp : peer[f] # None
    /\ \A c \in Clients : socket[c] \in Fds => peer[socket[c]] = c /\ socket[c] \notin hungUp
    /\ \A f \in Fds : peer[f] # None /\ f \notin hungUp => socket[peer[f]] = f
    /\ \A i \in 1..Len(backlog) : socket[backlog[i]] = Pending
    /\ \A i, j \in 1..Len(backlog) : backlog[i] = backlog[j] => i = j

\* A request that is waited for has its asker at the descriptor the answer
\* will go to; numbers of requests were given.
Placed ==
    /\ \A e \in Asked : e.of[2] <= sent[e.of[1]]
    /\ \A r \in OnLine : r[2] <= sent[r[1]]
    /\ \A e \in Asked : WaitsFor(e.of) => peer[e.src] = e.of[1] /\ e.src \notin hungUp

\* What is on the line and waited for is the request of the head.
AtVic == Timely => \A r \in OnLine : WaitsFor(r) => commands # <<>> /\ r = Head(commands).of

NoAppNamed == \A x \in Els(fromVic) : x.type = "noapp" => "noapp" \in faults

-----------------------------------------------------------------------------
(* Clients and descriptors                                                 *)

LEMMA SeqAt ==
  ASSUME NEW S, NEW s \in Seq(S), s # <<>>
  PROVE  /\ Head(s) = s[1] /\ 1 \in 1..Len(s)
         /\ \A i \in 1..Len(Tail(s)) : i + 1 \in 1..Len(s) /\ Tail(s)[i] = s[i + 1] /\ i + 1 # 1
         /\ \A i, j \in 1..Len(Tail(s)) : i + 1 = j + 1 => i = j
OBVIOUS

LEMMA AppendAt ==
  ASSUME NEW S, NEW s \in Seq(S), NEW x \in S
  PROVE  \A i \in 1..Len(Append(s, x)) :
           (i \in 1..Len(s) /\ Append(s, x)[i] = s[i]) \/ (i = Len(s) + 1 /\ Append(s, x)[i] = x)
OBVIOUS

\* Whoever goes on waiting keeps his connection.
LEMMA StaysPlaced ==
  ASSUME TypeOK, Linked, [Next]_vars, NEW f \in Fds,
         peer[f] # None, f \notin hungUp, peer[f] \in waiting'
  PROVE  peer'[f] = peer[f] /\ f \notin hungUp'
<1>0. peer[f] \in Clients /\ socket[peer[f]] = f
  BY DEF TypeOK, Linked
<1>1. ASSUME UNCHANGED <<peer, hungUp>>  PROVE peer'[f] = peer[f] /\ f \notin hungUp'
  BY <1>1
<1>2. CASE Accept
  <2>1. PICK g \in Fds : peer[g] = None /\ peer' = [peer EXCEPT ![g] = Head(backlog)]
    BY <1>2 DEF Accept
  <2>2. f # g
    BY <2>1
  <2> QED  BY <1>2, <2>1, <2>2 DEF Accept, TypeOK
<1>3. ASSUME NEW g \in Fds, ReadRequest(g)  PROVE peer'[f] = peer[f] /\ f \notin hungUp'
  <2>1. CASE BeginDownload(g)
    <3>1. f = g
      <4> SUFFICES ASSUME f # g  PROVE FALSE
        OBVIOUS
      <4>1. peer[f] \in ShutOut(g)
        BY <1>0, SockFacts DEF ShutOut
      <4> QED  BY <2>1, <4>1 DEF BeginDownload
    <3> QED  BY <2>1, <3>1 DEF BeginDownload
  <2> QED  BY <1>1, <1>3, <2>1 DEF ReadRequest
<1>4. ASSUME NEW g \in Fds, ReadHangup(g)  PROVE peer'[f] = peer[f] /\ f \notin hungUp'
  BY <1>4 DEF ReadHangup, TypeOK
<1>5. CASE Die \/ RecvNoAppEmpty
  <2>1. ~AllClosed
    BY DEF AllClosed
  <2> QED  BY <1>1, <1>5, <2>1 DEF Die, RecvNoAppEmpty, kernelVars
<1>6. ASSUME NEW c \in Clients, Leave(c)  PROVE peer'[f] = peer[f] /\ f \notin hungUp'
  <2>1. peer[f] # c
    BY <1>6 DEF Leave
  <2>2. socket[c] \in Fds => peer[socket[c]] = c
    BY DEF Linked
  <2> QED  BY <1>6, <2>1, <2>2 DEF Leave
<1>7. ASSUME NEW c \in Clients, Connect(c) \/ Ask(c) \/ GiveUp(c)
      PROVE  peer'[f] = peer[f] /\ f \notin hungUp'
  BY <1>7 DEF Connect, Ask, GiveUp, kernelVars
<1>8. CASE \/ UNCHANGED vars \/ RecvAnswer \/ RecvNoApp \/ CommandTimeout \/ VicAnswers \/ LoseFrame
           \/ TakeLock \/ NoteLock \/ Bind \/ DieStarting
  BY <1>1, <1>8 DEF vars, kernelVars, RecvAnswer, RecvNoApp, CommandTimeout, VicAnswers, LoseFrame,
                    TakeLock, NoteLock, Bind, DieStarting
<1> QED  BY <1>2, <1>3, <1>4, <1>5, <1>6, <1>7, <1>8 DEF Next

LEMMA AcceptLinked ==
  ASSUME TypeOK, Linked, Accept
  PROVE  Linked'
<1> DEFINE c == Head(backlog)
<1>1. /\ backlog # <<>> /\ backlog \in Seq(Clients) /\ backlog' = Tail(backlog)
      /\ hungUp' = hungUp
  BY DEF Accept, TypeOK
<1>2. PICK f \in Fds : /\ peer[f] = None
                       /\ peer' = [peer EXCEPT ![f] = c]
                       /\ socket' = [socket EXCEPT ![c] = f]
  BY DEF Accept
<1>3. /\ c \in Clients /\ c # None /\ c = backlog[1] /\ 1 \in 1..Len(backlog)
      /\ \A i \in 1..Len(backlog') : i + 1 \in 1..Len(backlog) /\ backlog'[i] = backlog[i + 1]
                                     /\ i + 1 # 1
      /\ \A i, j \in 1..Len(backlog') : i + 1 = j + 1 => i = j
  <2>1. c \in Clients
    BY <1>1, SeqFacts
  <2> QED  BY <1>1, <2>1, SeqAt, VicConstants
<1>4. socket[c] = Pending
  BY <1>3 DEF Linked
<1>5. /\ \A g \in Fds \ {f} : peer'[g] = peer[g]
      /\ peer'[f] = c
      /\ \A d \in Clients \ {c} : socket'[d] = socket[d]
      /\ socket'[c] = f
  BY <1>2, <1>3 DEF TypeOK
<1>6. hungUp \subseteq Fds \ {f}
  BY <1>2 DEF Linked, TypeOK
<1> HIDE DEF c
<1>7. Linked'
  <2>1. \A g \in hungUp' : peer'[g] # None
    BY <1>1, <1>5, <1>6 DEF Linked
  <2>2. \A d \in Clients : socket'[d] \in Fds => peer'[socket'[d]] = d /\ socket'[d] \notin hungUp'
    <3> SUFFICES ASSUME NEW d \in Clients, socket'[d] \in Fds
                 PROVE  peer'[socket'[d]] = d /\ socket'[d] \notin hungUp
      BY <1>1
    <3>1. CASE d = c
      BY <1>5, <1>6, <3>1
    <3>2. CASE d # c
      <4>1. socket'[d] = socket[d] /\ peer[socket[d]] = d /\ socket[d] \notin hungUp
        BY <1>5, <3>2 DEF Linked
      <4>2. socket[d] # f
        BY <1>2, <4>1, VicConstants
      <4> QED  BY <1>5, <4>1, <4>2
    <3> QED  BY <3>1, <3>2
  <2>3. \A g \in Fds : peer'[g] # None /\ g \notin hungUp' => socket'[peer'[g]] = g
    <3> SUFFICES ASSUME NEW g \in Fds, peer'[g] # None, g \notin hungUp
                 PROVE  socket'[peer'[g]] = g
      BY <1>1
    <3>1. CASE g = f
      BY <1>5, <3>1
    <3>2. CASE g # f
      <4>1. peer'[g] = peer[g] /\ socket[peer[g]] = g /\ peer[g] \in Clients
        BY <1>5, <3>2 DEF Linked, TypeOK
      <4>2. peer[g] # c
        BY <1>4, <4>1, SockFacts
      <4> QED  BY <1>5, <4>1, <4>2
    <3> QED  BY <3>1, <3>2
  <2>4. \A i \in 1..Len(backlog') : socket'[backlog'[i]] = Pending
    <3> SUFFICES ASSUME NEW i \in 1..Len(backlog')  PROVE socket'[backlog'[i]] = Pending
      OBVIOUS
    <3>1. i + 1 \in 1..Len(backlog) /\ i + 1 # 1 /\ backlog'[i] = backlog[i + 1]
      BY <1>3
    <3>2. backlog[i + 1] # c /\ backlog[i + 1] \in Clients /\ socket[backlog[i + 1]] = Pending
      BY <1>1, <1>3, <3>1 DEF Linked
    <3> QED  BY <1>5, <3>1, <3>2
  <2>5. \A i, j \in 1..Len(backlog') : backlog'[i] = backlog'[j] => i = j
    BY <1>3 DEF Linked
  <2> QED  BY <2>1, <2>2, <2>3, <2>4, <2>5 DEF Linked
<1> QED  BY <1>7

LEMMA DownloadLinked ==
  ASSUME TypeOK, Linked, NEW fd \in Fds, BeginDownload(fd), peer[fd] # None
  PROVE  Linked'
<1>1. /\ peer'[fd] = peer[fd] /\ \A f \in Fds \ {fd} : peer'[f] = None
      /\ hungUp' = hungUp \cap {fd} /\ backlog' = <<>>
      /\ \A c \in Clients : socket'[c] = IF c \in ShutOut(fd) THEN Eof ELSE socket[c]
  BY DEF BeginDownload
<1>2. \A c \in Clients : socket'[c] \in Fds => socket'[c] = fd /\ socket[c] = fd
  BY <1>1, SockFacts DEF ShutOut
<1>3. \A c \in Clients : socket'[c] \in Fds => peer'[socket'[c]] = c /\ socket'[c] \notin hungUp'
  BY <1>1, <1>2 DEF Linked
<1>4. \A f \in Fds : peer'[f] # None /\ f \notin hungUp' => socket'[peer'[f]] = f
  <2> SUFFICES ASSUME NEW f \in Fds, peer'[f] # None, f \notin hungUp'  PROVE socket'[peer'[f]] = f
    OBVIOUS
  <2>1. f = fd /\ fd \notin hungUp
    BY <1>1
  <2>2. peer[fd] \in Clients /\ socket[peer[fd]] = fd
    BY <2>1 DEF Linked, TypeOK
  <2>3. peer[fd] \notin ShutOut(fd)
    BY <2>2 DEF ShutOut
  <2> QED  BY <1>1, <2>1, <2>2, <2>3
<1>5. \A i \in 1..Len(backlog') : FALSE
  BY <1>1
<1>6. \A f \in hungUp' : peer'[f] # None
  BY <1>1
<1> QED  BY <1>3, <1>4, <1>5, <1>6 DEF Linked

LEMMA ConnectLinked ==
  ASSUME TypeOK, Linked, NEW c \in Clients, Connect(c)
  PROVE  Linked'
<1>1. /\ socket[c] = NoSock /\ socket' = [socket EXCEPT ![c] = Pending]
      /\ backlog' = Append(backlog, c) /\ backlog \in Seq(Clients)
      /\ UNCHANGED <<hungUp, peer>>
  BY DEF Connect, TypeOK
<1>2. \A d \in Clients : socket'[d] = IF d = c THEN Pending ELSE socket[d]
  BY <1>1 DEF TypeOK
<1>3. \A i \in 1..Len(backlog') :
        (i \in 1..Len(backlog) /\ backlog'[i] = backlog[i])
        \/ (i = Len(backlog) + 1 /\ backlog'[i] = c)
  BY <1>1, AppendAt
<1>4. \A i \in 1..Len(backlog) : backlog[i] \in Clients \ {c} /\ socket[backlog[i]] = Pending
  BY <1>1, SockFacts DEF Linked
<1>5. \A i \in 1..Len(backlog') : socket'[backlog'[i]] = Pending
  BY <1>2, <1>3, <1>4
<1>6. \A i, j \in 1..Len(backlog') : backlog'[i] = backlog'[j] => i = j
  BY <1>3, <1>4 DEF Linked
<1>7. \A d \in Clients : socket'[d] \in Fds => peer'[socket'[d]] = d /\ socket'[d] \notin hungUp'
  BY <1>1, <1>2, SockFacts DEF Linked
<1>8. \A f \in Fds : peer'[f] # None /\ f \notin hungUp' => socket'[peer'[f]] = f
  <2>1. \A f \in Fds : peer[f] # None /\ f \notin hungUp =>
          socket[peer[f]] = f /\ peer[f] \in Clients
    BY DEF Linked, TypeOK
  <2> QED  BY <1>1, <1>2, <2>1, SockFacts
<1>9. Linked'
  BY <1>1, <1>5, <1>6, <1>7, <1>8 DEF Linked
<1> QED  BY <1>9

LEMMA LeaveLinked ==
  ASSUME TypeOK, Linked, NEW c \in Clients, Leave(c)
  PROVE  Linked'
<1>1. /\ socket[c] \in Fds \cup {Eof}
      /\ hungUp' = hungUp \cup ({socket[c]} \cap Fds)
      /\ UNCHANGED <<peer, backlog>>
  BY DEF Leave
<1>2. \A d \in Clients : socket'[d] = IF d = c THEN NoSock ELSE socket[d]
  BY DEF Leave, TypeOK
<1>3. \A f \in hungUp' : f \in hungUp \/ (f = socket[c] /\ f \in Fds /\ peer[f] = c)
  BY <1>1 DEF Linked
<1>6. \A f \in hungUp' : peer'[f] # None
  BY <1>1, <1>3, VicConstants DEF Linked
<1>7. \A d \in Clients : socket'[d] \in Fds => peer'[socket'[d]] = d /\ socket'[d] \notin hungUp'
  <2> SUFFICES ASSUME NEW d \in Clients, socket'[d] \in Fds
               PROVE  peer'[socket'[d]] = d /\ socket'[d] \notin hungUp'
    OBVIOUS
  <2>1. d # c /\ socket'[d] = socket[d]
    BY <1>2, SockFacts
  <2>2. peer[socket[d]] = d /\ socket[d] \notin hungUp
    BY <2>1 DEF Linked
  <2> QED  BY <1>1, <1>3, <2>1, <2>2
<1>8. \A f \in Fds : peer'[f] # None /\ f \notin hungUp' => socket'[peer'[f]] = f
  <2> SUFFICES ASSUME NEW f \in Fds, peer[f] # None, f \notin hungUp'
               PROVE  socket'[peer[f]] = f
    BY <1>1
  <2>1. f \notin hungUp /\ f # socket[c]
    BY <1>1
  <2>2. socket[peer[f]] = f /\ peer[f] \in Clients
    BY <2>1 DEF Linked, TypeOK
  <2> QED  BY <1>2, <2>1, <2>2
<1>9. \A i \in 1..Len(backlog') : socket'[backlog'[i]] = Pending
  <2>1. \A i \in 1..Len(backlog) : backlog[i] \in Clients
    BY DEF TypeOK
  <2>2. socket[c] # Pending
    BY <1>1, SockFacts
  <2> QED  BY <1>1, <1>2, <2>1, <2>2 DEF Linked
<1>10. Linked'
  BY <1>1, <1>6, <1>7, <1>8, <1>9 DEF Linked
<1> QED  BY <1>10

LEMMA NextLinked == TypeOK /\ Linked /\ [Next]_vars => Linked'
<1> SUFFICES ASSUME TypeOK, Linked, [Next]_vars  PROVE Linked'
  OBVIOUS
<1>1. ASSUME UNCHANGED <<peer, hungUp, socket, backlog>>  PROVE Linked'
  BY <1>1 DEF Linked
<1>2. CASE AllClosed
  <2>1. /\ hungUp' = {} /\ backlog' = <<>>
        /\ \A f \in Fds : peer'[f] = None
        /\ \A c \in Clients : socket'[c] \notin Fds
    BY <1>2, SockFacts DEF AllClosed
  <2>2. \A i \in 1..Len(backlog') : FALSE
    BY <2>1
  <2> QED  BY <2>1, <2>2 DEF Linked
<1>3. CASE Die \/ RecvNoAppEmpty
  BY <1>1, <1>2, <1>3 DEF Die, RecvNoAppEmpty, kernelVars
<1>4. ASSUME NEW f \in Fds, ReadRequest(f)  PROVE Linked'
  <2>1. CASE peer[f] = Loader /\ listening
    BY <1>4, <2>1, DownloadLinked, VicConstants DEF ReadRequest
  <2>2. CASE ~(peer[f] = Loader /\ listening)
    BY <1>1, <1>4, <2>2 DEF ReadRequest
  <2> QED  BY <2>1, <2>2
<1>5. ASSUME NEW fd \in Fds, ReadHangup(fd)  PROVE Linked'
  <2>1. /\ fd \in hungUp /\ UNCHANGED <<backlog, socket>>
        /\ hungUp' = hungUp \ {fd}
        /\ \A f \in Fds \ {fd} : peer'[f] = peer[f]
        /\ peer'[fd] = None
    BY <1>5 DEF ReadHangup, clientVars, TypeOK
  <2>2. hungUp \subseteq Fds
    BY DEF TypeOK
  <2>3. \A c \in Clients : socket'[c] \in Fds => peer'[socket'[c]] = c /\ socket'[c] \notin hungUp'
    BY <2>1 DEF Linked
  <2>4. \A f \in Fds : peer'[f] # None /\ f \notin hungUp' => socket'[peer'[f]] = f
    BY <2>1 DEF Linked
  <2>5. \A f \in hungUp' : peer'[f] # None
    BY <2>1, <2>2 DEF Linked
  <2> QED  BY <2>1, <2>3, <2>4, <2>5 DEF Linked
<1>6. CASE Accept
  BY <1>6, AcceptLinked
<1>7. ASSUME NEW c \in Clients, Connect(c) \/ Leave(c)  PROVE Linked'
  BY <1>7, ConnectLinked, LeaveLinked
<1>8. ASSUME NEW c \in Clients, Ask(c) \/ GiveUp(c)  PROVE Linked'
  BY <1>1, <1>8 DEF Ask, GiveUp, kernelVars
<1>9. CASE \/ UNCHANGED vars \/ RecvAnswer \/ RecvNoApp \/ CommandTimeout \/ VicAnswers \/ LoseFrame
           \/ TakeLock \/ NoteLock \/ Bind \/ DieStarting
  BY <1>1, <1>9 DEF vars, kernelVars, clientVars, RecvAnswer, RecvNoApp, CommandTimeout, VicAnswers,
                    LoseFrame, TakeLock, NoteLock, Bind, DieStarting
<1> QED  BY <1>3, <1>4, <1>5, <1>6, <1>7, <1>8, <1>9 DEF Next


-----------------------------------------------------------------------------
(* What a step does with requests and the line                             *)

\* No step but Ask makes somebody wait.
LEMMA WaitsBefore ==
  ASSUME TypeOK, [Next]_vars, NEW r \in Requests, WaitsFor(r)'
  PROVE  WaitsFor(r) \/ \E c \in Clients : Ask(c) /\ r = <<c, sent[c] + 1>>
<1>0. r[1] \in Clients /\ r = <<r[1], r[2]>>
  BY RequestFacts
<1>1. ASSUME sent' = sent, waiting' \subseteq waiting  PROVE WaitsFor(r)
  BY <1>1 DEF WaitsFor
<1>2. ASSUME NEW c \in Clients, Ask(c)  PROVE WaitsFor(r) \/ r = <<c, sent[c] + 1>>
  <2>1. /\ \A d \in Clients : sent'[d] = IF d = c THEN sent[c] + 1 ELSE sent[d]
        /\ waiting' = waiting \cup {c}
    BY <1>2 DEF Ask, TypeOK
  <2> QED  BY <1>0, <2>1 DEF WaitsFor
<1>3. ASSUME NEW c \in Clients, Connect(c) \/ GiveUp(c) \/ Leave(c)  PROVE WaitsFor(r)
  BY <1>1, <1>3 DEF Connect, GiveUp, Leave
<1>4. ASSUME NEW f \in Fds, ReadRequest(f) \/ ReadHangup(f)  PROVE WaitsFor(r)
  BY <1>1, <1>4 DEF ReadRequest, BeginDownload, ReadHangup, clientVars
<1>5. CASE RecvAnswer
  BY <1>1, <1>5 DEF RecvAnswer, Deliver
<1>6. CASE Die \/ RecvNoAppEmpty
  BY <1>1, <1>6 DEF Die, RecvNoAppEmpty, AllClosed
<1>7. CASE \/ UNCHANGED vars \/ Accept \/ RecvNoApp \/ CommandTimeout \/ VicAnswers \/ LoseFrame
           \/ TakeLock \/ NoteLock \/ Bind \/ DieStarting
  BY <1>1, <1>7 DEF vars, clientVars, Accept, RecvNoApp, CommandTimeout, VicAnswers, LoseFrame,
                    TakeLock, NoteLock, Bind, DieStarting
<1> QED  BY <1>2, <1>3, <1>4, <1>5, <1>6, <1>7 DEF Next

\* What sendNextCommand(q) leaves in the queue and puts on the line.
LEMMA SendNextSets ==
  ASSUME TypeOK, NEW q \in Seq(Entries), SendNextCommand(q)
  PROVE  /\ commands' = q
         /\ Els(toVic') \subseteq Els(toVic) \cup {r \in Requests : q # <<>> /\ r = Head(q).of}
<1>1. CASE q = <<>>
  BY <1>1 DEF SendNextCommand
<1>2. CASE q # <<>>
  <2>1. Head(q) \in Entries
    BY <1>2, SeqFacts
  <2>2. Head(q).of \in Requests /\ toVic \in Seq(Requests)
    BY <2>1 DEF Entries, TypeOK
  <2>3. Els(toVic') = Els(toVic) \cup {Head(q).of}
    BY <1>2, <2>2, ElsFacts DEF SendNextCommand
  <2> QED  BY <1>2, <2>2, <2>3 DEF SendNextCommand
<1> QED  BY <1>1, <1>2

\* A request that is read joins the queue.
LEMMA ReadSets ==
  ASSUME TypeOK, NEW f \in Fds, ReadRequest(f)
  PROVE  /\ Asked' \subseteq Asked
         /\ Els(fromVic') = Els(fromVic)
         /\ commands' # <<>>
         /\ commands # <<>> => Head(commands') = Head(commands) /\ toVic' = toVic
         /\ commands = <<>> => Els(toVic') \subseteq Els(toVic) \cup {Head(commands').of}
         /\ \E e \in Unread : Els(commands') = Els(commands) \cup {e}
<1> DEFINE e == [src |-> f, of |-> unread[f]]
           q == Append(commands, e)
<1>1. e \in Entries /\ commands \in Seq(Entries) /\ e \in Unread
  BY DEF ReadRequest, TypeOK, Entries, Unread
<1>2. q \in Seq(Entries) /\ q # <<>> /\ Els(q) = Els(commands) \cup {e}
  BY <1>1, SeqFacts, ElsFacts
<1>3. commands' = q
  BY DEF ReadRequest, SendNextCommand
<1>4. /\ commands # <<>> => Head(q) = Head(commands)
      /\ commands = <<>> => Head(q) = e
  BY <1>1, ElsFacts
<1>5. commands # <<>> => toVic' = toVic
  BY DEF ReadRequest
<1>6. fromVic' = fromVic
  BY DEF ReadRequest
<1>7. commands = <<>> => SendNextCommand(q)
  BY DEF ReadRequest
<1> HIDE DEF q, e
<1>8. commands = <<>> => Els(toVic') \subseteq Els(toVic) \cup {Head(q).of}
  BY <1>2, <1>7, SendNextSets
<1>9. \A g \in Fds : unread'[g] # None => unread'[g] = unread[g]
  <2>1. CASE BeginDownload(f)
    BY <2>1 DEF BeginDownload
  <2>2. CASE unread' = [unread EXCEPT ![f] = None]
    BY <2>2 DEF TypeOK
  <2> QED  BY <2>1, <2>2 DEF ReadRequest
<1>10. Unread' \subseteq Unread
  BY <1>9 DEF Unread
<1>11. Asked' \subseteq Asked
  BY <1>1, <1>2, <1>3, <1>10 DEF Asked
<1> QED  BY <1>1, <1>2, <1>3, <1>4, <1>5, <1>6, <1>8, <1>11

\* The queue loses its head.
LEMMA PopSets ==
  ASSUME TypeOK, commands # <<>>, SendNextCommand(Tail(commands)), unread' = unread
  PROVE  /\ Asked' \subseteq Asked
         /\ Head(commands) \in Asked /\ Head(commands) \in Entries
         /\ Els(toVic') \subseteq Els(toVic) \cup
               {r \in Requests : commands' # <<>> /\ r = Head(commands').of}
         /\ commands' # <<>> => Head(commands') \in Asked
<1>1. commands \in Seq(Entries)
  BY DEF TypeOK, Entries
<1>2. Tail(commands) \in Seq(Entries) /\ Els(Tail(commands)) \subseteq Els(commands)
      /\ Head(commands) \in Els(commands) /\ Head(commands) \in Entries
  BY <1>1, SeqFacts, ElsFacts
<1>3. /\ commands' = Tail(commands)
      /\ Els(toVic') \subseteq Els(toVic) \cup
            {r \in Requests : Tail(commands) # <<>> /\ r = Head(Tail(commands)).of}
  BY <1>2, SendNextSets
<1>4. Unread' = Unread
  BY DEF Unread
<1>5. commands' # <<>> => Head(commands') \in Els(commands')
  BY <1>2, <1>3, ElsFacts
<1> QED  BY <1>2, <1>3, <1>4, <1>5 DEF Asked

\* The other steps: nothing joins the queue or the line.
LEMMA QuietSets ==
  ASSUME TypeOK, [Next]_vars, \A c \in Clients : ~Ask(c), \A f \in Fds : ~ReadRequest(f),
         ~(RecvAnswer /\ commands # <<>>), ~RecvNoApp, ~CommandTimeout
  PROVE  /\ Asked' \subseteq Asked /\ OnLine' \subseteq OnLine
         /\ commands' = commands \/ waiting' = {}
<1>0. commands \in Seq(Entries) /\ toVic \in Seq(Requests) /\ fromVic \in Seq(Frames)
  BY DEF TypeOK, Entries
<1>1. ASSUME UNCHANGED <<commands, unread>>, Els(toVic') \subseteq Els(toVic),
             Els(fromVic') \subseteq Els(fromVic)
      PROVE  /\ Asked' \subseteq Asked /\ OnLine' \subseteq OnLine /\ commands' = commands
  BY <1>1 DEF Asked, Unread, OnLine
<1>2. CASE AllClosed /\ toVic' = toVic /\ Els(fromVic') \subseteq Els(fromVic)
  <2>1. commands' = <<>> /\ waiting' = {} /\ \A f \in Fds : unread'[f] = None
    BY <1>2 DEF AllClosed
  <2>2. Asked' = {}
    BY <2>1, ElsEmpty DEF Asked, Unread
  <2> QED  BY <1>2, <2>1, <2>2 DEF OnLine
<1>3. CASE RecvAnswer
  <2>1. UNCHANGED <<commands, toVic, unread>> /\ fromVic # <<>> /\ fromVic' = Tail(fromVic)
    BY <1>3 DEF RecvAnswer, kernelVars
  <2>2. Els(fromVic') \subseteq Els(fromVic)
    BY <1>0, <2>1, ElsFacts
  <2> QED  BY <1>1, <2>1, <2>2
<1>4. CASE RecvNoAppEmpty
  <2>1. toVic' = toVic /\ fromVic # <<>> /\ fromVic' = Tail(fromVic)
    BY <1>4 DEF RecvNoAppEmpty
  <2>2. Els(fromVic') \subseteq Els(fromVic)
    BY <1>0, <2>1, ElsFacts
  <2>3. AllClosed \/ UNCHANGED <<commands, unread>>
    BY <1>4 DEF RecvNoAppEmpty, kernelVars
  <2> QED  BY <1>1, <1>2, <2>1, <2>2, <2>3
<1>5. CASE Die
  BY <1>2, <1>5 DEF Die
<1>6. CASE LoseFrame
  <2>1. UNCHANGED <<commands, unread>>
    BY <1>6 DEF LoseFrame, procVars, kernelVars
  <2>2. Els(toVic') \subseteq Els(toVic) /\ Els(fromVic') \subseteq Els(fromVic)
    BY <1>0, <1>6, ElsFacts DEF LoseFrame
  <2> QED  BY <1>1, <2>1, <2>2
<1>7. CASE VicAnswers
  <2>1. UNCHANGED <<commands, unread>> /\ toVic # <<>> /\ toVic' = Tail(toVic)
    BY <1>7 DEF VicAnswers, procVars, kernelVars
  <2>2. PICK t \in {"resp", "noapp"} : fromVic' = Append(fromVic, [type |-> t, of |-> Head(toVic)])
    BY <1>7 DEF VicAnswers
  <2>3. Head(toVic) \in Requests /\ Head(toVic) \in Els(toVic) /\ Els(toVic') \subseteq Els(toVic)
    BY <1>0, <2>1, SeqFacts, ElsFacts
  <2> DEFINE x == [type |-> t, of |-> Head(toVic)]
  <2>4. x \in Frames /\ x.of = Head(toVic)
    BY <2>3 DEF Frames
  <2> HIDE DEF x
  <2>5. Els(fromVic') = Els(fromVic) \cup {x}
    BY <1>0, <2>2, <2>4, ElsFacts DEF x
  <2>6. OnLine' \subseteq OnLine
    BY <2>3, <2>4, <2>5 DEF OnLine
  <2>7. Asked' = Asked
    BY <2>1 DEF Asked, Unread
  <2> QED  BY <2>1, <2>6, <2>7
<1>8. CASE NoteLock
  BY <1>1, <1>8, ElsEmpty DEF NoteLock, kernelVars
<1>9. ASSUME NEW f \in Fds, ReadHangup(f)  PROVE UNCHANGED <<commands, unread, toVic, fromVic>>
  BY <1>9 DEF ReadHangup
<1>10. ASSUME NEW c \in Clients, Connect(c) \/ GiveUp(c) \/ Leave(c)
       PROVE  UNCHANGED <<commands, unread, toVic, fromVic>>
  BY <1>10 DEF Connect, GiveUp, Leave, procVars, kernelVars
<1>11. CASE UNCHANGED vars \/ Accept \/ TakeLock \/ Bind \/ DieStarting
  BY <1>1, <1>11 DEF vars, procVars, kernelVars, Accept, TakeLock, Bind, DieStarting
<1> QED  BY <1>1, <1>3, <1>4, <1>5, <1>6, <1>7, <1>8, <1>9, <1>10, <1>11 DEF Next

\* Every step but Ask: nothing new is asked, and the line gets what was.
LEMMA NoneAsked ==
  ASSUME TypeOK, HeadTimed, [Next]_vars, \A c \in Clients : ~Ask(c)
  PROVE  /\ Asked' \subseteq Asked /\ sent' = sent
         /\ OnLine' \subseteq OnLine \cup {e.of : e \in Asked}
<1>0. commands \in Seq(Entries) /\ fromVic \in Seq(Frames)
  BY DEF TypeOK, Entries
<1>1. sent' = sent
  <2>1. ASSUME NEW f \in Fds, ReadRequest(f) \/ ReadHangup(f)  PROVE sent' = sent
    BY <2>1 DEF ReadRequest, ReadHangup, clientVars
  <2>2. ASSUME NEW c \in Clients, Connect(c) \/ GiveUp(c) \/ Leave(c)  PROVE sent' = sent
    BY <2>2 DEF Connect, GiveUp, Leave
  <2> QED
    BY <2>1, <2>2 DEF Next, vars, clientVars, Accept, RecvAnswer, RecvNoApp, RecvNoAppEmpty,
       CommandTimeout, TakeLock, NoteLock, Bind, Die, DieStarting, VicAnswers, LoseFrame
<1>2. ASSUME NEW f \in Fds, ReadRequest(f)
      PROVE  Asked' \subseteq Asked /\ OnLine' \subseteq OnLine \cup {e.of : e \in Asked}
  <2>1. PICK e \in Unread : Els(commands') = Els(commands) \cup {e}
    BY <1>2, ReadSets
  <2>2. commands' \in Seq(Entries) /\ commands' # <<>>
    BY <1>2, ReadSets, LoopTypes DEF TypeOK, Entries
  <2>3. Head(commands') \in Els(commands')
    BY <2>2, ElsFacts
  <2>4. Head(commands') \in Asked
    BY <2>1, <2>3 DEF Asked
  <2>5. Els(toVic') \subseteq Els(toVic) \cup {Head(commands').of} /\ Els(fromVic') = Els(fromVic)
    BY <1>2, ReadSets
  <2>6. OnLine' \subseteq OnLine \cup {Head(commands').of}
    BY <2>5 DEF OnLine
  <2> QED  BY <1>2, <2>4, <2>6, ReadSets
<1>3. ASSUME commands # <<>>, SendNextCommand(Tail(commands)), unread' = unread,
             Els(fromVic') \subseteq Els(fromVic)
      PROVE  Asked' \subseteq Asked /\ OnLine' \subseteq OnLine \cup {e.of : e \in Asked}
  <2>1. /\ Asked' \subseteq Asked
        /\ Els(toVic') \subseteq Els(toVic) \cup
              {r \in Requests : commands' # <<>> /\ r = Head(commands').of}
        /\ commands' # <<>> => Head(commands') \in Asked
    BY <1>3, PopSets
  <2>2. Els(toVic') \subseteq Els(toVic) \cup {e.of : e \in Asked}
    BY <2>1
  <2> QED  BY <1>3, <2>1, <2>2 DEF OnLine
<1>4. CASE (RecvAnswer /\ commands # <<>>) \/ RecvNoApp
  <2>1. fromVic # <<>> /\ fromVic' = Tail(fromVic) /\ unread' = unread
        /\ commands # <<>> /\ SendNextCommand(Tail(commands))
    BY <1>4 DEF RecvAnswer, RecvNoApp, kernelVars
  <2>2. Els(fromVic') \subseteq Els(fromVic)
    BY <1>0, <2>1, ElsFacts
  <2> QED  BY <1>1, <1>3, <2>1, <2>2
<1>5. CASE CommandTimeout
  BY <1>1, <1>3, <1>5 DEF CommandTimeout, HeadTimed, kernelVars
<1> QED  BY <1>1, <1>2, <1>4, <1>5, QuietSets

LEMMA NextPlaced ==
  TypeOK /\ HeadTimed /\ Linked /\ Placed /\ [Next]_vars => Placed'
<1> SUFFICES ASSUME TypeOK, HeadTimed, Linked, Placed, [Next]_vars  PROVE Placed'
  OBVIOUS
<1>1. Asked \subseteq Entries /\ OnLine \subseteq Requests
  BY AskedTypes
<1>2. \A e \in Asked : e.of \in Requests /\ e.of[1] \in Clients /\ e.of[2] \in Nat /\ e.src \in Fds
  <2>1. \A e \in Asked : e.of \in Requests /\ e.src \in Fds
    BY <1>1 DEF Entries
  <2> QED  BY <2>1, RequestFacts
<1>3. \A e \in Asked : WaitsFor(e.of) /\ WaitsFor(e.of)' => peer'[e.src] = e.of[1] /\ e.src \notin hungUp'
  <2> SUFFICES ASSUME NEW e \in Asked, WaitsFor(e.of), WaitsFor(e.of)'
               PROVE  peer'[e.src] = e.of[1] /\ e.src \notin hungUp'
    OBVIOUS
  <2>1. peer[e.src] = e.of[1] /\ e.src \notin hungUp
    BY DEF Placed
  <2>2. e.of[1] \in waiting'
    BY DEF WaitsFor
  <2> QED  BY <1>2, <2>1, <2>2, StaysPlaced, VicConstants
<1>4. CASE \A c \in Clients : ~Ask(c)
  <2>1. /\ Asked' \subseteq Asked /\ sent' = sent
        /\ OnLine' \subseteq OnLine \cup {e.of : e \in Asked}
    BY <1>4, NoneAsked
  <2>2. \A e \in Asked : WaitsFor(e.of)' => WaitsFor(e.of)
    BY <1>2, <1>4, WaitsBefore
  <2>3. \A e \in Asked' : e.of[2] <= sent'[e.of[1]]
    BY <2>1 DEF Placed
  <2>4. \A r \in OnLine' : r[2] <= sent'[r[1]]
    BY <2>1 DEF Placed
  <2>5. \A e \in Asked' : WaitsFor(e.of)' => peer'[e.src] = e.of[1] /\ e.src \notin hungUp'
    BY <1>3, <2>1, <2>2
  <2> QED  BY <2>3, <2>4, <2>5 DEF Placed
<1>5. ASSUME NEW c \in Clients, Ask(c)  PROVE Placed'
  <2>1. PICK fd \in Fds : fd = socket[c]
    BY <1>5 DEF Ask
  <2> DEFINE new == [src |-> fd, of |-> <<c, sent[c] + 1>>]
  <2>2. /\ \A d \in Clients : sent'[d] = IF d = c THEN sent[c] + 1 ELSE sent[d]
        /\ \A d \in Clients : sent[d] \in Nat
        /\ \A f \in Fds : unread'[f] = IF f = fd THEN <<c, sent[c] + 1>> ELSE unread[f]
        /\ UNCHANGED <<commands, toVic, fromVic, peer, hungUp>>
    BY <1>5, <2>1 DEF Ask, TypeOK, procVars
  <2>3. \A d \in Clients : sent[d] <= sent'[d]
    BY <2>2
  <2>4. \A e \in Unread' : e \in Unread \/ e = new
    BY <2>2 DEF Unread
  <2>5. \A e \in Asked' : e \in Asked \/ e = new
    BY <2>2, <2>4 DEF Asked
  <2>6. OnLine' = OnLine
    BY <2>2 DEF OnLine
  <2>7. peer[fd] = c /\ fd \notin hungUp
    BY <2>1 DEF Linked
  <2>8. new.src = fd /\ new.of[1] = c /\ new.of[2] = sent[c] + 1
    OBVIOUS
  <2> HIDE DEF new
  <2>9. \A e \in Asked' : e.of[2] <= sent'[e.of[1]]
    <3>1. \A e \in Asked : e.of[2] <= sent'[e.of[1]]
      BY <1>2, <2>2, <2>3 DEF Placed
    <3>2. new.of[2] <= sent'[new.of[1]]
      BY <2>2, <2>8
    <3> QED  BY <2>5, <3>1, <3>2
  <2>10. \A r \in OnLine' : r[2] <= sent'[r[1]]
    <3>1. \A r \in OnLine : r[1] \in Clients /\ r[2] \in Nat /\ r[2] <= sent[r[1]]
      BY <1>1, RequestFacts DEF Placed
    <3> QED  BY <2>2, <2>3, <2>6, <3>1
  <2>11. \A e \in Asked : WaitsFor(e.of)' => WaitsFor(e.of)
    <3> SUFFICES ASSUME NEW e \in Asked, WaitsFor(e.of)'  PROVE WaitsFor(e.of)
      OBVIOUS
    <3>1. e.of[1] # c
      <4>1. sent'[e.of[1]] = e.of[2] /\ e.of[2] <= sent[e.of[1]]
        BY DEF WaitsFor, Placed
      <4> QED  BY <1>2, <2>2, <4>1
    <3>2. waiting' = waiting \cup {c}
      BY <1>5 DEF Ask
    <3> QED  BY <1>2, <2>2, <3>1, <3>2 DEF WaitsFor
  <2>12. \A e \in Asked' : WaitsFor(e.of)' => peer'[e.src] = e.of[1] /\ e.src \notin hungUp'
    BY <1>3, <2>2, <2>5, <2>7, <2>8, <2>11
  <2> QED  BY <2>9, <2>10, <2>12 DEF Placed
<1> QED  BY <1>4, <1>5

\* The VIC has no application only where the world says so.
LEMMA NextNoAppNamed == TypeOK /\ NoAppNamed /\ [Next]_vars => NoAppNamed'
<1> SUFFICES ASSUME TypeOK, NoAppNamed, [Next]_vars  PROVE NoAppNamed'
  OBVIOUS
<1>0. fromVic \in Seq(Frames) /\ toVic \in Seq(Requests)
  BY DEF TypeOK
<1>1. ASSUME faults' = faults, Els(fromVic') \subseteq Els(fromVic)  PROVE NoAppNamed'
  BY <1>1 DEF NoAppNamed
<1>2. CASE fromVic # <<>> /\ fromVic' = Tail(fromVic) /\ faults' = faults
  BY <1>0, <1>1, <1>2, ElsFacts
<1>3. CASE RecvAnswer \/ RecvNoApp \/ RecvNoAppEmpty
  BY <1>2, <1>3 DEF RecvAnswer, RecvNoApp, RecvNoAppEmpty
<1>4. CASE LoseFrame
  BY <1>1, <1>2, <1>4 DEF LoseFrame
<1>5. CASE VicAnswers
  <2>1. faults' = faults /\ toVic # <<>>
    BY <1>5 DEF VicAnswers
  <2>2. PICK t \in {"resp"} \cup ({"noapp"} \cap faults) :
          fromVic' = Append(fromVic, [type |-> t, of |-> Head(toVic)])
    BY <1>5 DEF VicAnswers
  <2> DEFINE x == [type |-> t, of |-> Head(toVic)]
  <2>3. x \in Frames /\ x.type = t
    BY <1>0, <2>1, <2>2, SeqFacts DEF Frames
  <2> HIDE DEF x
  <2>4. Els(fromVic') = Els(fromVic) \cup {x}
    BY <1>0, <2>2, <2>3, ElsFacts DEF x
  <2> QED  BY <2>1, <2>2, <2>3, <2>4 DEF NoAppNamed
<1>6. CASE NoteLock
  BY <1>1, <1>6, ElsEmpty DEF NoteLock
<1>7. ASSUME NEW f \in Fds, ReadRequest(f) \/ ReadHangup(f)  PROVE UNCHANGED <<fromVic, faults>>
  BY <1>7 DEF ReadRequest, ReadHangup
<1>8. ASSUME NEW c \in Clients, Connect(c) \/ Ask(c) \/ GiveUp(c) \/ Leave(c)
      PROVE  UNCHANGED <<fromVic, faults>>
  BY <1>8 DEF Connect, Ask, GiveUp, Leave
<1>9. CASE UNCHANGED vars \/ Accept \/ CommandTimeout \/ TakeLock \/ Bind \/ Die \/ DieStarting
  BY <1>1, <1>9 DEF vars, Accept, CommandTimeout, TakeLock, Bind, Die, DieStarting
<1> QED  BY <1>1, <1>3, <1>4, <1>5, <1>6, <1>7, <1>8, <1>9 DEF Next

\* Who is timely now was so before.
LEMMA StillTimely ==
  ASSUME TypeOK, [Next]_vars, Timely'
  PROVE  Timely /\ faults' = faults
<1>1. ASSUME faults' = faults, deaths' = deaths \/ deaths' = deaths + 1  PROVE Timely
  BY <1>1 DEF Timely, TypeOK
<1>2. ASSUME NEW f \in Fds, ReadRequest(f) \/ ReadHangup(f)  PROVE UNCHANGED <<deaths, faults>>
  BY <1>2 DEF ReadRequest, ReadHangup
<1>3. ASSUME NEW c \in Clients, Connect(c) \/ Ask(c) \/ GiveUp(c) \/ Leave(c)
      PROVE  UNCHANGED <<deaths, faults>>
  BY <1>3 DEF Connect, Ask, GiveUp, Leave
<1>4. CASE Die \/ DieStarting
  BY <1>1, <1>4 DEF Die, DieStarting
<1>5. CASE \/ UNCHANGED vars \/ Accept \/ RecvAnswer \/ RecvNoApp \/ RecvNoAppEmpty \/ CommandTimeout
           \/ TakeLock \/ NoteLock \/ Bind \/ VicAnswers \/ LoseFrame
  BY <1>1, <1>5 DEF vars, Accept, RecvAnswer, RecvNoApp, RecvNoAppEmpty, CommandTimeout,
                    TakeLock, NoteLock, Bind, VicAnswers, LoseFrame
<1> QED  BY <1>1, <1>2, <1>3, <1>4, <1>5 DEF Next

\* An answer for the head is the one it waits for, or nobody waits for it.
LEMMA GivenOwn ==
  ASSUME TypeOK, Placed, AtVic, Timely, RecvAnswer, commands # <<>>
  PROVE  /\ \A p \in got' \ got : p[1] = p[2] \/ ~WaitsFor(p[2])
         /\ WaitsFor(Head(commands).of) => Head(commands).of[1] \notin waiting'
<1> DEFINE e == Head(commands)
           r == Head(fromVic).of
<1>1. Deliver(e.src, r) /\ fromVic # <<>>
  BY DEF RecvAnswer
<1>2. e \in Entries /\ e \in Asked /\ r \in OnLine /\ r \in Requests
  <2>1. /\ commands \in Seq(Entries) /\ fromVic \in Seq(Frames)
    BY DEF TypeOK, Entries
  <2>2. e \in Entries /\ e \in Els(commands) /\ Head(fromVic) \in Els(fromVic) /\ Head(fromVic) \in Frames
    BY <1>1, <2>1, SeqFacts, ElsFacts
  <2> QED  BY <2>2 DEF Asked, OnLine, Frames
<1>3. e.of \in Requests /\ e.src \in Fds
  BY <1>2 DEF Entries
<1> HIDE DEF e, r
<1>4. e.of[1] \in Clients /\ r = <<r[1], r[2]>> /\ r[1] \in Clients
  BY <1>2, <1>3, RequestFacts
<1>5. WaitsFor(e.of) => peer[e.src] = e.of[1] /\ e.src \notin hungUp
  BY <1>2 DEF Placed
<1>6. WaitsFor(r) => r = e.of
  BY <1>2 DEF AtVic, e
<1>7. WaitsFor(e.of) => e.of[1] \notin waiting'
  <2> SUFFICES ASSUME WaitsFor(e.of)  PROVE e.of[1] \notin waiting'
    OBVIOUS
  <2>1. peer[e.src] = e.of[1] /\ e.src \notin hungUp /\ peer[e.src] # None
    BY <1>4, <1>5, VicConstants
  <2> QED  BY <1>1, <2>1 DEF Deliver
<1>8. ASSUME NEW p \in got' \ got, WaitsFor(p[2])  PROVE p[1] = p[2]
  <2>1. p = <<<<peer[e.src], sent[peer[e.src]]>>, r>>
    BY <1>1, <1>8 DEF Deliver
  <2>2. WaitsFor(r) /\ r = e.of
    BY <1>6, <1>8, <2>1
  <2>3. peer[e.src] = r[1] /\ sent[r[1]] = r[2]
    BY <1>5, <2>2 DEF WaitsFor
  <2> QED  BY <1>4, <2>1, <2>3
<1> QED  BY <1>7, <1>8 DEF e

LEMMA NextAtVic ==
  TypeOK /\ HeadTimed /\ OnTheLine /\ NoAppNamed /\ Placed /\ AtVic /\ [Next]_vars => AtVic'
<1> SUFFICES ASSUME TypeOK, HeadTimed, OnTheLine, NoAppNamed, Placed, AtVic, [Next]_vars, Timely',
                    NEW r \in OnLine', WaitsFor(r)'
             PROVE  commands' # <<>> /\ r = Head(commands').of
  BY DEF AtVic
<1>1. Timely /\ faults' = faults
  BY StillTimely
<1>2. commands \in Seq(Entries) /\ toVic \in Seq(Requests) /\ fromVic \in Seq(Frames)
  BY DEF TypeOK, Entries
<1>3. Asked \subseteq Entries /\ OnLine \subseteq Requests
  BY AskedTypes
<1>4. r \in OnLine /\ WaitsFor(r) => commands # <<>> /\ r = Head(commands).of
  BY <1>1 DEF AtVic
<1>5. CASE \E c \in Clients : Ask(c)
  <2>1. PICK c \in Clients : Ask(c)
    BY <1>5
  <2>2. UNCHANGED <<commands, toVic, fromVic>>
    BY <2>1 DEF Ask, procVars
  <2>3. r \in OnLine
    BY <2>2 DEF OnLine
  <2>4. r[1] \in Clients /\ r[2] \in Nat /\ r = <<r[1], r[2]>> /\ r[2] <= sent[r[1]] /\ sent[r[1]] \in Nat
    BY <1>3, <2>3, RequestFacts DEF Placed, TypeOK
  <2>5. /\ \A d \in Clients : sent'[d] = IF d = c THEN sent[c] + 1 ELSE sent[d]
        /\ waiting' = waiting \cup {c}
    BY <2>1 DEF Ask, TypeOK
  <2>6. sent'[r[1]] = r[2] /\ r[1] \in waiting'
    BY DEF WaitsFor
  <2>7. r[1] # c
    BY <2>4, <2>5, <2>6
  <2>8. WaitsFor(r)
    BY <2>4, <2>5, <2>6, <2>7 DEF WaitsFor
  <2> QED  BY <1>4, <2>2, <2>3, <2>8
<1>6. ASSUME \A c \in Clients : ~Ask(c), r \in OnLine
      PROVE  WaitsFor(r) /\ commands # <<>> /\ r = Head(commands).of
  BY <1>3, <1>4, <1>6, WaitsBefore
<1>7. ASSUME NEW f \in Fds, ReadRequest(f)  PROVE commands' # <<>> /\ r = Head(commands').of
  <2>1. \A c \in Clients : ~Ask(c)
    <3>1. sent' = sent
      BY <1>7 DEF ReadRequest
    <3> QED  BY <3>1 DEF Ask, TypeOK
  <2>2. /\ commands' # <<>>
        /\ commands # <<>> => Head(commands') = Head(commands) /\ toVic' = toVic
        /\ commands = <<>> => Els(toVic') \subseteq Els(toVic) \cup {Head(commands').of}
        /\ Els(fromVic') = Els(fromVic)
    BY <1>7, ReadSets
  <2>3. CASE commands = <<>>
    <3>1. r \in OnLine \/ r = Head(commands').of
      BY <2>2, <2>3 DEF OnLine
    <3> QED  BY <1>6, <2>1, <2>2, <2>3, <3>1
  <2>4. CASE commands # <<>>
    <3>1. r \in OnLine
      BY <2>2, <2>4 DEF OnLine
    <3> QED  BY <1>6, <2>1, <2>2, <2>4, <3>1
  <2> QED  BY <2>3, <2>4
<1>8. CASE RecvAnswer /\ commands # <<>>
  <2>1. \A c \in Clients : ~Ask(c)
    <3>1. sent' = sent
      BY <1>8 DEF RecvAnswer
    <3> QED  BY <3>1 DEF Ask, TypeOK
  <2>2. fromVic # <<>> /\ fromVic' = Tail(fromVic) /\ unread' = unread /\ SendNextCommand(Tail(commands))
    BY <1>8 DEF RecvAnswer, kernelVars
  <2>3. Els(fromVic') \subseteq Els(fromVic)
    BY <1>2, <2>2, ElsFacts
  <2>4. Els(toVic') \subseteq Els(toVic) \cup
          {x \in Requests : commands' # <<>> /\ x = Head(commands').of}
    BY <1>8, <2>2, PopSets
  <2>5. r \in OnLine \/ (commands' # <<>> /\ r = Head(commands').of)
    BY <2>3, <2>4 DEF OnLine
  <2>6. r \notin OnLine
    <3> SUFFICES ASSUME r \in OnLine  PROVE FALSE
      OBVIOUS
    <3>1. WaitsFor(r) /\ r = Head(commands).of
      BY <1>6, <2>1
    <3>2. r[1] \notin waiting'
      BY <1>1, <1>8, <3>1, GivenOwn
    <3> QED  BY <3>2 DEF WaitsFor
  <2> QED  BY <2>5, <2>6
<1>9. ASSUME toVic = <<>>, fromVic' = <<>>, commands # <<>>, SendNextCommand(Tail(commands)),
             unread' = unread
      PROVE  commands' # <<>> /\ r = Head(commands').of
  <2>1. Els(toVic') \subseteq Els(toVic) \cup
          {x \in Requests : commands' # <<>> /\ x = Head(commands').of}
    BY <1>9, PopSets
  <2>2. Els(toVic) = {} /\ Els(fromVic') = {}
    BY <1>9, ElsEmpty
  <2> QED  BY <2>1, <2>2 DEF OnLine
<1>10. CASE RecvNoApp
  <2>1. Head(fromVic) \in Els(fromVic) /\ Head(fromVic).type = "noapp"
    BY <1>2, <1>10, ElsFacts DEF RecvNoApp
  <2>2. InTime
    BY <1>1, <2>1 DEF NoAppNamed, Timely, InTime
  <2>3. unread' = unread
    BY <1>10 DEF RecvNoApp, kernelVars
  <2> QED  BY <1>9, <1>10, <2>2, <2>3, LineEmptied
<1>11. CASE CommandTimeout
  <2>1. toVic = <<>> /\ fromVic' = <<>> /\ SendNextCommand(Tail(commands)) /\ unread' = unread
    BY <1>1, <1>11 DEF CommandTimeout, Timely, kernelVars
  <2>2. commands # <<>>
    BY <1>11 DEF CommandTimeout, HeadTimed
  <2> QED  BY <1>9, <2>1, <2>2
<1>12. CASE /\ \A c \in Clients : ~Ask(c)
            /\ \A f \in Fds : ~ReadRequest(f)
            /\ ~(RecvAnswer /\ commands # <<>>) /\ ~RecvNoApp /\ ~CommandTimeout
  <2>1. /\ OnLine' \subseteq OnLine
        /\ commands' = commands \/ waiting' = {}
    BY <1>12, QuietSets
  <2>2. waiting' # {}
    BY DEF WaitsFor
  <2> QED  BY <1>6, <1>12, <2>1, <2>2
<1> QED  BY <1>5, <1>7, <1>8, <1>10, <1>11, <1>12

LineInv == TypeOK /\ HeadTimed /\ OnTheLine /\ Linked /\ Placed /\ NoAppNamed /\ AtVic

LEMMA InitLine == Init => LineInv
<1> SUFFICES ASSUME Init  PROVE LineInv
  OBVIOUS
<1>1. TypeOK /\ HeadTimed /\ OnTheLine
  BY InitTalker DEF Init, OnTheLine
<1>2. Asked = {} /\ OnLine = {}
  BY ElsEmpty DEF Init, Asked, Unread, OnLine
<1>3. Linked
  <2>1. \A i \in 1..Len(backlog) : FALSE
    BY DEF Init
  <2> QED  BY <2>1, SockFacts DEF Init, Linked
<1>4. NoAppNamed
  BY ElsEmpty DEF Init, NoAppNamed
<1> QED  BY <1>1, <1>2, <1>3, <1>4 DEF LineInv, Placed, AtVic

LEMMA NextLine == LineInv /\ [Next]_vars => LineInv'
<1> SUFFICES ASSUME LineInv, [Next]_vars  PROVE LineInv'
  OBVIOUS
<1>1. TypeOK' /\ HeadTimed' /\ OnTheLine'
  BY NextTalker, NextOnTheLine DEF LineInv
<1>2. Linked' /\ Placed'
  BY NextLinked, NextPlaced DEF LineInv
<1>3. NoAppNamed' /\ AtVic'
  BY NextNoAppNamed, NextAtVic DEF LineInv
<1> QED  BY <1>1, <1>2, <1>3 DEF LineInv

LEMMA StepOwn == LineInv /\ [Next]_vars /\ Timely => \A p \in got' \ got : p[1] = p[2] \/ ~WaitsFor(p[2])
<1> SUFFICES ASSUME LineInv, [Next]_vars, Timely, NEW p \in got' \ got
             PROVE  p[1] = p[2] \/ ~WaitsFor(p[2])
  OBVIOUS
<1>1. ASSUME NEW f \in Fds, ReadRequest(f) \/ ReadHangup(f)  PROVE FALSE
  BY <1>1 DEF ReadRequest, ReadHangup, clientVars
<1>2. ASSUME NEW c \in Clients, Connect(c) \/ Ask(c) \/ GiveUp(c) \/ Leave(c)  PROVE FALSE
  BY <1>2 DEF Connect, Ask, GiveUp, Leave
<1>3. RecvAnswer
  BY <1>1, <1>2 DEF Next, vars, clientVars, Accept, RecvNoApp, RecvNoAppEmpty, CommandTimeout,
     TakeLock, NoteLock, Bind, Die, DieStarting, VicAnswers, LoseFrame
<1>4. commands # <<>>
  BY <1>3 DEF RecvAnswer
<1> QED  BY <1>3, <1>4, GivenOwn DEF LineInv

\* Nobody gets an answer another program still waits for: in every order of
\* requests, losses, timeouts, programs that give up or leave, descriptors that
\* are given again, downloads and ends of the talker, when answers are in time.
THEOREM TalkerAnsweredOwn == Spec => AnsweredOwn
<1>1. LineInv /\ [Next]_vars => [Timely => \A p \in got' \ got : p[1] = p[2] \/ ~WaitsFor(p[2])]_vars
  BY StepOwn
<1> QED
  BY <1>1, InitLine, NextLine, PTL DEF Spec, AnsweredOwn
=============================================================================
