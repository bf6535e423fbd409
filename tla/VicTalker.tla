----------------------------- MODULE VicTalker -----------------------------
(***************************************************************************)
(* vic_talker (src/application/vic_talker.cpp): the one process that owns  *)
(* the serial line to the vehicle interface controller (VIC) and shares it *)
(* among all programs that ask the car something.  Requests of all clients *)
(* wait in one queue; the first of it is at the VIC, and whatever the VIC  *)
(* answers goes to the client at the head.  A firmware loader takes the    *)
(* line for itself.  An action is the work of one pass of the select loop  *)
(* for one ready descriptor, or for the command timeout.                   *)
(***************************************************************************)
EXTENDS Integers, Sequences, FiniteSets

CONSTANTS Clients,      \* programs that open VicTalkerPath
          Loader,       \* the one of them that is vic_loader
          Fds,          \* descriptors the kernel can give to connections
          MaxSent,      \* bound: requests of each client
          MaxDeaths,    \* bound: deaths of vic_talker
          FaultSets,    \* what may go wrong together, see the actions that name one
          None

ASSUME VicConstants ==
    /\ Loader \in Clients
    /\ Fds \subseteq Nat /\ None \notin Fds /\ None \notin Clients
    /\ MaxSent \in [Clients -> Nat] /\ MaxDeaths \in Nat

VARIABLES
    up,            \* the process is in its select loop
    starting,      \* of a process that is not yet: the lock file is made, or noted in lockfile too
    path,          \* VicTalkerPath exists in the file system
    locked,        \* the lock file of the serial line exists
    listening,     \* listen_s # -1
    connections,   \* what the map has for a descriptor
    commands,      \* the deque: who asked and what
    timed,         \* command_send_time > 0
    loaderCalled,  \* loader_called
    peer,          \* kernel: the client a descriptor leads to
    hungUp,        \* kernel: descriptors whose other end is closed
    unread,        \* kernel: the request that waits in a descriptor
    backlog,       \* kernel: clients that wait to be accepted
    socket,        \* a client's end: a descriptor, NoSock, Pending or Eof
    waiting,       \* clients that are in VIC::getResp
    sent,          \* requests a client has made; the n-th is <<client, n>>
    toVic, fromVic,\* the serial line, in both directions
    got,           \* history: <<last request of the client, request the answer is to>>
    deaths,
    faults         \* what goes wrong in this behaviour

procVars == <<up, starting, path, locked, listening, connections, commands, timed, loaderCalled>>
kernelVars == <<peer, hungUp, unread, backlog>>
clientVars == <<socket, waiting, sent, got>>
vars == <<procVars, kernelVars, clientVars, toVic, fromVic, deaths, faults>>

NoSock == -1    \* not opened
Pending == -2   \* connected, not accepted yet
Eof == -3       \* closed by vic_talker

Requests == UNION {{c} \X (1..MaxSent[c]) : c \in Clients}
Frames == [type: {"resp", "noapp"}, of: Requests]

TypeOK ==
    /\ up \in BOOLEAN /\ path \in BOOLEAN /\ locked \in BOOLEAN /\ listening \in BOOLEAN
    /\ starting \in {"no", "made", "noted"}
    /\ connections \in [Fds -> {"none", "open", "download"}]
    /\ commands \in Seq([src: Fds, of: Requests])
    /\ timed \in BOOLEAN /\ loaderCalled \in BOOLEAN
    /\ peer \in [Fds -> Clients \cup {None}]
    /\ hungUp \subseteq Fds
    /\ unread \in [Fds -> Requests \cup {None}]
    /\ backlog \in Seq(Clients)
    /\ socket \in [Clients -> Fds \cup {NoSock, Pending, Eof}]
    /\ waiting \subseteq Clients
    /\ sent \in [Clients -> Nat] /\ \A c \in Clients : sent[c] <= MaxSent[c]
    /\ toVic \in Seq(Requests) /\ fromVic \in Seq(Frames)
    /\ got \subseteq (Clients \X Nat) \X Requests
    /\ deaths \in 0..MaxDeaths /\ faults \in FaultSets

Init ==
    /\ up = FALSE /\ starting = "no" /\ path = FALSE /\ locked = FALSE /\ listening = FALSE
    /\ connections = [f \in Fds |-> "none"]
    /\ commands = <<>> /\ timed = FALSE /\ loaderCalled = FALSE
    /\ peer = [f \in Fds |-> None] /\ hungUp = {}
    /\ unread = [f \in Fds |-> None] /\ backlog = <<>>
    /\ socket = [c \in Clients |-> NoSock] /\ waiting = {}
    /\ sent = [c \in Clients |-> 0]
    /\ toVic = <<>> /\ fromVic = <<>> /\ got = {} /\ deaths = 0
    /\ faults \in FaultSets

-----------------------------------------------------------------------------
(* The queue                                                               *)

\* sendNextCommand with the queue q: its head is written to the line and
\* timed.  Its callers have set command_send_time to 0.
SendNextCommand(q) ==
    /\ commands' = q
    /\ timed' = (q # <<>>)
    /\ toVic' = IF q = <<>> THEN toVic ELSE Append(toVic, Head(q).of)

\* send() to the descriptor of a command: it reaches whoever is connected to
\* that descriptor now; to a closed one it fails with -1, which is ignored.
Deliver(fd, request) ==
    LET c == peer[fd]
    IN IF c = None \/ fd \in hungUp
       THEN UNCHANGED <<got, waiting>>
       ELSE /\ got' = got \cup {<<<<c, sent[c]>>, request>>}
            /\ waiting' = waiting \ {c}

-----------------------------------------------------------------------------
(* The select loop                                                         *)

\* accept() takes the lowest descriptor that is free.
Accept ==
    /\ up /\ listening /\ backlog # <<>>
    /\ \E f \in Fds :
         /\ peer[f] = None
         /\ \A g \in Fds : g < f => peer[g] # None
         /\ connections' = [connections EXCEPT ![f] = "open"]
         /\ peer' = [peer EXCEPT ![f] = Head(backlog)]
         /\ socket' = [socket EXCEPT ![Head(backlog)] = f]
    /\ backlog' = Tail(backlog)
    /\ UNCHANGED <<up, starting, path, locked, listening, commands, timed, loaderCalled, hungUp,
                   unread, waiting, sent, got, toVic, fromVic, deaths, faults>>

\* Everybody whose connection is closed for the sake of the loader at fd.
ShutOut(fd) == {c \in Clients : socket[c] # NoSock /\ socket[c] # fd}

\* processAppCommand, command 0x06 while the socket listens: the loader keeps
\* its connection, all others and the listening socket are closed.
BeginDownload(fd) ==
    /\ listening' = FALSE /\ path' = FALSE
    /\ connections' = [f \in Fds |-> IF f = fd THEN "download" ELSE "none"]
    /\ peer' = [f \in Fds |-> IF f = fd THEN peer[f] ELSE None]
    /\ hungUp' = hungUp \cap {fd}
    /\ unread' = [f \in Fds |-> None]
    /\ backlog' = <<>>
    /\ socket' = [c \in Clients |-> IF c \in ShutOut(fd) THEN Eof ELSE socket[c]]
    /\ waiting' = waiting \ ShutOut(fd)
    /\ loaderCalled' = TRUE

\* Mutant of ReadRequest: the request is also sent when others wait.
ReadRequestSends(fd) ==
    /\ up /\ connections[fd] # "none" /\ unread[fd] # None
    /\ commands' = Append(commands, [src |-> fd, of |-> unread[fd]])
    /\ timed' = TRUE /\ toVic' = Append(toVic, unread[fd])
    /\ IF peer[fd] = Loader /\ listening
       THEN BeginDownload(fd)
       ELSE /\ unread' = [unread EXCEPT ![fd] = None]
            /\ UNCHANGED <<listening, path, connections, peer, hungUp, backlog,
                           socket, waiting, loaderCalled>>
    /\ UNCHANGED <<up, starting, locked, sent, got, fromVic, deaths, faults>>

\* processAppCommand: the request joins the queue and is sent if it is alone.
ReadRequest(fd) ==
    /\ up /\ connections[fd] # "none" /\ unread[fd] # None
    /\ LET q == Append(commands, [src |-> fd, of |-> unread[fd]])
       IN IF commands = <<>> THEN SendNextCommand(q)
          ELSE commands' = q /\ UNCHANGED <<timed, toVic>>
    /\ IF peer[fd] = Loader /\ listening
       THEN BeginDownload(fd)
       ELSE /\ unread' = [unread EXCEPT ![fd] = None]
            /\ UNCHANGED <<listening, path, connections, peer, hungUp, backlog,
                           socket, waiting, loaderCalled>>
    /\ UNCHANGED <<up, starting, locked, sent, got, fromVic, deaths, faults>>

\* The descriptor is removed from the map.  The socket listens again when the
\* loader goes.  Commands of the client stay in the queue as they are: the
\* -1 is assigned to a copy of the front command.
ReadHangup(fd) ==
    /\ up /\ connections[fd] # "none" /\ unread[fd] = None /\ fd \in hungUp
    /\ IF connections[fd] = "download"
       THEN listening' = TRUE /\ path' = TRUE
       ELSE UNCHANGED <<listening, path>>
    /\ connections' = [connections EXCEPT ![fd] = "none"]
    /\ peer' = [peer EXCEPT ![fd] = None]
    /\ hungUp' = hungUp \ {fd}
    /\ UNCHANGED <<up, starting, locked, commands, timed, loaderCalled, unread, backlog,
                   clientVars, toVic, fromVic, deaths, faults>>

\* Mutant of RecvAnswer: the answer goes to the back of the deque.
RecvAnswerBack ==
    /\ up /\ fromVic # <<>> /\ Head(fromVic).type = "resp"
    /\ fromVic' = Tail(fromVic)
    /\ IF commands = <<>>
       THEN UNCHANGED <<commands, timed, toVic, got, waiting>>
       ELSE /\ Deliver(commands[Len(commands)].src, Head(fromVic).of)
            /\ SendNextCommand(Tail(commands))
    /\ UNCHANGED <<up, starting, path, locked, listening, connections, loaderCalled, kernelVars,
                   socket, sent, deaths, faults>>

\* processVicFrame for an answer or an error (id 0xFF): both go to the head
\* of the queue, whichever request they are the answer to.
RecvAnswer ==
    /\ up /\ fromVic # <<>> /\ Head(fromVic).type = "resp"
    /\ fromVic' = Tail(fromVic)
    /\ IF commands = <<>>
       THEN UNCHANGED <<commands, timed, toVic, got, waiting>>
       ELSE /\ Deliver(Head(commands).src, Head(fromVic).of)
            /\ SendNextCommand(Tail(commands))
    /\ UNCHANGED <<up, starting, path, locked, listening, connections, loaderCalled, kernelVars,
                   socket, sent, deaths, faults>>

\* processVicFrame for 7F 01, the VIC has no application: vic_loader is
\* started once and the head is dropped.  With an empty queue the drop is
\* undefined and RecvNoAppEmpty below.
RecvNoApp ==
    /\ up /\ fromVic # <<>> /\ Head(fromVic).type = "noapp" /\ commands # <<>>
    /\ fromVic' = Tail(fromVic)
    /\ loaderCalled' = TRUE
    /\ SendNextCommand(Tail(commands))
    /\ UNCHANGED <<up, starting, path, locked, listening, connections, kernelVars, clientVars, deaths, faults>>

\* Mutant of CommandTimeout: the timer is stopped, the command kept.
CommandTimeoutKeeps ==
    /\ up /\ timed
    /\ "late" \notin faults => toVic = <<>> /\ fromVic = <<>>
    /\ timed' = FALSE
    /\ UNCHANGED <<up, starting, path, locked, listening, connections, commands, loaderCalled,
                   kernelVars, clientVars, toVic, fromVic, deaths, faults>>

\* The select loop, end of a pass: more than five seconds since the head was
\* sent.  Unless "late" is a fault, an answer does not take that long.
CommandTimeout ==
    /\ up /\ timed
    /\ "late" \notin faults => toVic = <<>> /\ fromVic = <<>>
    /\ SendNextCommand(Tail(commands))
    /\ UNCHANGED <<up, starting, path, locked, listening, connections, loaderCalled, kernelVars,
                   clientVars, fromVic, deaths, faults>>

-----------------------------------------------------------------------------
(* Start and end of the process                                            *)

\* What the kernel does when the process is gone.
AllClosed ==
    /\ connections' = [f \in Fds |-> "none"]
    /\ peer' = [f \in Fds |-> None] /\ hungUp' = {}
    /\ unread' = [f \in Fds |-> None] /\ backlog' = <<>>
    /\ socket' = [c \in Clients |-> IF socket[c] = NoSock THEN NoSock ELSE Eof]
    /\ waiting' = {}
    /\ commands' = <<>> /\ timed' = FALSE /\ loaderCalled' = FALSE
    /\ listening' = FALSE /\ up' = FALSE

\* Mutant of Die: closeAndExit does not remove the lock file.
DieLocked ==
    /\ "term" \in faults /\ up /\ deaths < MaxDeaths /\ deaths' = deaths + 1
    /\ AllClosed /\ path' = FALSE
    /\ UNCHANGED <<starting, locked, sent, got, toVic, fromVic, faults>>

\* By TERM and the like: closeAndExit removes the path and the lock file.  Both
\* stay when the process is killed.
Die ==
    /\ up /\ deaths < MaxDeaths /\ deaths' = deaths + 1
    /\ AllClosed
    /\ \/ "term" \in faults /\ path' = FALSE /\ locked' = FALSE
       \/ "killed" \in faults /\ UNCHANGED <<path, locked>>
    /\ UNCHANGED <<starting, sent, got, toVic, fromVic, faults>>

\* pop_front of an empty deque: the process breaks, or goes on with nothing
\* to do (the number of elements wraps; the frame it sends is garbage).
RecvNoAppEmpty ==
    /\ up /\ fromVic # <<>> /\ Head(fromVic).type = "noapp" /\ commands = <<>>
    /\ fromVic' = Tail(fromVic)
    /\ \/ AllClosed /\ UNCHANGED <<starting, path, locked>>
       \/ /\ loaderCalled' = TRUE
          /\ UNCHANGED <<up, starting, path, locked, listening, connections, commands, timed,
                         kernelVars, socket, waiting>>
    /\ UNCHANGED <<sent, got, toVic, deaths, faults>>

\* respawner starts it, and openPort creates the lock file.  Where there is one
\* already closeAndExit removes the path; the lock of somebody else stays.
TakeLock ==
    /\ ~up /\ starting = "no"
    /\ IF locked
       THEN path' = FALSE /\ UNCHANGED <<starting, locked>>
       ELSE starting' = "made" /\ locked' = TRUE /\ UNCHANGED path
    /\ UNCHANGED <<up, listening, connections, commands, timed, loaderCalled, kernelVars,
                   clientVars, toVic, fromVic, deaths, faults>>

\* lock: its name is noted, so that closePort removes it.  openPort then
\* flushes what came in on the line meanwhile.
NoteLock ==
    /\ starting = "made" /\ starting' = "noted"
    /\ fromVic' = <<>>
    /\ UNCHANGED <<up, path, locked, listening, connections, commands, timed, loaderCalled,
                   kernelVars, clientVars, toVic, deaths, faults>>

\* listenSocket: where the path exists bind fails, and closeAndExit removes
\* path and lock.
Bind ==
    /\ starting = "noted" /\ starting' = "no"
    /\ up' = ~path /\ listening' = ~path /\ path' = ~path /\ locked' = ~path
    /\ UNCHANGED <<connections, commands, timed, loaderCalled, kernelVars,
                   clientVars, toVic, fromVic, deaths, faults>>

\* Die, of a process that is not in its loop yet: a TERM that comes "early",
\* before the lock file is noted, leaves it.
DieStarting ==
    /\ starting # "no" /\ starting' = "no"
    /\ deaths < MaxDeaths /\ deaths' = deaths + 1
    /\ \/ /\ "term" \in faults
          /\ starting = "made" => "early" \in faults
          /\ path' = FALSE /\ locked' = (starting = "made")
       \/ "killed" \in faults /\ UNCHANGED <<path, locked>>
    /\ UNCHANGED <<up, listening, connections, commands, timed, loaderCalled, kernelVars,
                   clientVars, toVic, fromVic, faults>>

-----------------------------------------------------------------------------
(* The clients (VIC::openSocket, sendRequest, getResp, closeSocket)        *)

\* openSocket: the path must exist.
Connect(c) ==
    /\ listening /\ socket[c] = NoSock
    /\ sent[c] < MaxSent[c]
    /\ socket' = [socket EXCEPT ![c] = Pending]
    /\ backlog' = Append(backlog, c)
    /\ UNCHANGED <<procVars, peer, hungUp, unread, waiting, sent, got, toVic,
                   fromVic, deaths, faults>>

\* sendRequest and the first half of getResp.
Ask(c) ==
    /\ socket[c] \in Fds /\ c \notin waiting /\ sent[c] < MaxSent[c]
    /\ unread[socket[c]] = None
    /\ sent' = [sent EXCEPT ![c] = @ + 1]
    /\ unread' = [unread EXCEPT ![socket[c]] = <<c, sent[c] + 1>>]
    /\ waiting' = waiting \cup {c}
    /\ UNCHANGED <<procVars, peer, hungUp, backlog, socket, got, toVic, fromVic,
                   deaths, faults>>

\* getResp ran into its own timeout and the program goes on.  That is five
\* seconds or less in all programs, and the talker holds on to a request that
\* long and for the time of those in front: it may be any moment.
GiveUp(c) ==
    /\ c \in waiting
    /\ waiting' = waiting \ {c}
    /\ UNCHANGED <<procVars, kernelVars, socket, sent, got, toVic, fromVic, deaths, faults>>

\* closeSocket, or the end of the program, which may wait for an answer then.
Leave(c) ==
    /\ socket[c] \in Fds \cup {Eof}
    /\ hungUp' = hungUp \cup ({socket[c]} \cap Fds)
    /\ socket' = [socket EXCEPT ![c] = NoSock]
    /\ waiting' = waiting \ {c}
    /\ UNCHANGED <<procVars, peer, unread, backlog, sent, got, toVic, fromVic, deaths, faults>>

-----------------------------------------------------------------------------
(* The VIC                                                                 *)

\* It answers what it is asked, in order; with "noapp" it may have to say
\* that it has no application.
VicAnswers ==
    /\ toVic # <<>>
    /\ toVic' = Tail(toVic)
    /\ \E t \in {"resp"} \cup ({"noapp"} \cap faults) :
         fromVic' = Append(fromVic, [type |-> t, of |-> Head(toVic)])
    /\ UNCHANGED <<procVars, kernelVars, clientVars, deaths, faults>>

\* A request is not understood, or an answer has a bad checksum: the frame is
\* refused (sendNak) and not repeated.
LoseFrame ==
    /\ "lost" \in faults
    /\ \/ toVic # <<>> /\ toVic' = Tail(toVic) /\ UNCHANGED fromVic
       \/ up /\ fromVic # <<>> /\ fromVic' = Tail(fromVic) /\ UNCHANGED toVic
    /\ UNCHANGED <<procVars, kernelVars, clientVars, deaths, faults>>

Next ==
    \/ Accept
    \/ \E f \in Fds : ReadRequest(f) \/ ReadHangup(f)
    \/ RecvAnswer \/ RecvNoApp \/ RecvNoAppEmpty \/ CommandTimeout
    \/ TakeLock \/ NoteLock \/ Bind \/ Die \/ DieStarting
    \/ \E c \in Clients : Connect(c) \/ Ask(c) \/ GiveUp(c) \/ Leave(c)
    \/ VicAnswers \/ LoseFrame

Spec == Init /\ [][Next]_vars

\* Every ready descriptor is served in a pass, respawner restarts the process,
\* vic_loader ends, and unless answers may be late the VIC answers.
LiveSpec ==
    /\ Spec
    /\ WF_vars(Accept) /\ WF_vars(RecvAnswer \/ RecvNoApp \/ RecvNoAppEmpty)
    /\ WF_vars(CommandTimeout) /\ WF_vars(TakeLock \/ NoteLock \/ Bind)
    /\ WF_vars("late" \notin faults /\ VicAnswers)
    /\ WF_vars(GiveUp(Loader)) /\ WF_vars(Leave(Loader))
    /\ \A f \in Fds : WF_vars(ReadRequest(f)) /\ WF_vars(ReadHangup(f))

-----------------------------------------------------------------------------
(* Properties                                                              *)

\* As long as answers are not later than the timeout there is never more than
\* one request at the VIC (it has one buffer): only the head is ever sent.
OneAtATime == "late" \notin faults /\ deaths = 0 => Len(toVic) + Len(fromVic) <= 1

\* Request r is the one its program waits for.
WaitsFor(r) == r[1] \in waiting /\ sent[r[1]] = r[2]

\* Nobody is given the answer somebody else still waits for, though the queue
\* matches answers by position alone: who has the answer to a request is the
\* program that made it, or that program waits for it no more.  So a program
\* may be given a stale answer, but only one somebody gave up.  As long as
\* answers are in time; and a talker that was started again may be told by
\* a frame of before its end that the VIC has no application.
Timely == "late" \notin faults /\ ("noapp" \in faults => deaths = 0)
AnsweredOwn == [][Timely => \A p \in got' \ got : p[1] = p[2] \/ ~WaitsFor(p[2])]_vars

\* Nobody is locked out for ever, and nobody but the loader has a connection
\* during a download: a talker in its loop that does not listen has the
\* loader's connection, whose end will make it listen again (the download
\* flag), no other one, and nobody who waits to be accepted.
DownloadHeld == up /\ ~listening =>
    /\ backlog = <<>>
    /\ \E f \in Fds : /\ connections[f] = "download" /\ peer[f] = Loader
                     /\ \A g \in Fds \ {f} : peer[g] = None

\* Every request that joins the queue leaves it, answered or given up, also
\* when the VIC does not answer at all.
QueueDrains == \A r \in Requests :
    (\E i \in DOMAIN commands : commands[i].of = r) ~>
        ~(\E i \in DOMAIN commands : commands[i].of = r)

\* Whoever held the line, and when the process was told to end, it listens
\* again ("Daemon to allow multiple applications to communicate with VIC").  A
\* process that breaks, or is told to end between the creation of its lock file
\* and the note of it, leaves that file, and no later one gets past it.
ListensAgain == faults \cap {"killed", "noapp", "early"} = {} => (~listening ~> listening)
=============================================================================
