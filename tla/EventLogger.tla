---------------------------- MODULE EventLogger ----------------------------
(***************************************************************************)
(* The path of an event up to the server: programs of the unit append it   *)
(* (class EventLog), the process event_logger keeps the list of events,    *)
(* and unitcomm, its one reader, takes the head of the list, passes it to  *)
(* the server (module ServerLink) and writes a newline that removes it.    *)
(*                                                                         *)
(* A signal handler of event_logger runs between any two of its steps:     *)
(*   down    the process does not run                                      *)
(*   read    the saved events are read, their file is still there          *)
(*   loaded  the file is gone, the sockets are not bound                   *)
(*   select  in select                                                     *)
(*   got     a datagram is in buff                                         *)
(*   pushed, erased  the list has changed, setEventCount is called         *)
(*   counted, left   setEventCount knows the number of events              *)
(*   send    sendEvent is called                                           *)
(*   sent    sendEvent has sent the head, readerReady is not FALSE yet     *)
(*                                                                         *)
(* Left out: "exit" on the reader's socket, which no program writes, and   *)
(* a handler that runs inside an operation of the vector events.           *)
(***************************************************************************)
EXTENDS Naturals, FiniteSets, Sequences, Functions

CONSTANTS
  Events,
  NoEvent,
  QueueLen,       \* datagrams the kernel queues for the logger's socket
  MaxSaved,       \* events kept in EventLogFile (300)
  FaultSets       \* the sets faults may be, see FaultKinds

FaultKinds ==
  { "reader",     \* unitcomm dies
    "term",       \* SIGTERM to event_logger
    "kill",       \* event_logger is killed, or crashes
    "boot",       \* the unit loses power
    "flush",      \* SIGUSR1 to event_logger
    "late" }      \* a client is slow to append to EventLogFile

ASSUME LoggerConstants ==
  /\ NoEvent \notin Events
  /\ QueueLen \in Nat \ {0}
  /\ MaxSaved \in Nat
  /\ FaultSets \subseteq SUBSET FaultKinds

VARIABLES
  fresh,          \* events not yet appended by a client
  fallback,       \* events of clients about to write EventLogFile themselves
  file,           \* EventLogFile, <<>> when there is none
  sockFiles,      \* ReaderPath and LoggerPath exist
  datagrams,      \* datagrams in the queue of LoggerPath
  lpc, buff, events, readerReady,
  num,            \* the number setEventCount is about to write
  countFile,      \* EventCountFile, 0 when there is none
  lSock,          \* reader_s >= 0
  lEof,           \* the reader has closed that connection
  newlines,       \* newlines not read from reader_s
  rSock,          \* events_sock of unitcomm: none, connecting, open, shut
  toReader,       \* lines not read from events_sock
  out,            \* the DATA frame that is outstanding, <<>> for none
  waiting,        \* _event of unitcomm, <<>> for none
  got,            \* events the server has
  erased,         \* events removed from the list by a newline
  discarded,      \* flushed, trimmed, or still in the queue at a SIGTERM
  faults          \* what may happen in this behaviour

clientVars == <<fresh, fallback>>
loggerVars == <<lpc, buff, events, readerReady, num, countFile>>
socketVars == <<lSock, lEof, newlines, rSock, toReader>>
readerVars == <<out, waiting, got>>
vars == <<clientVars, file, sockFiles, datagrams, loggerVars, socketVars,
          readerVars, erased, discarded, faults>>

Bound == lpc \notin {"down", "read", "loaded"}

-----------------------------------------------------------------------------
(***************************************************************************)
(* EventLog::_append.  A client whose connect fails writes the file, and   *)
(* between the two event_logger may have been started.                     *)
(***************************************************************************)
Append1(e) ==
  /\ e \in fresh
  /\ fresh' = fresh \ {e}
  /\ \/ /\ Bound
        /\ Len(datagrams) < QueueLen
        /\ datagrams' = Append(datagrams, e)
        /\ UNCHANGED fallback
     \/ /\ ~Bound
        /\ fallback' = fallback \cup {e}
        /\ UNCHANGED datagrams
  /\ UNCHANGED <<file, sockFiles, loggerVars, socketVars, readerVars, erased,
                 discarded, faults>>

\* Mutant of AppendToFile: the file is not opened for appending.
AppendToFileTruncated(e) ==
  /\ e \in fallback
  /\ "late" \notin faults => lpc = "down"
  /\ fallback' = fallback \ {e}
  /\ file' = <<e>>
  /\ UNCHANGED <<fresh, sockFiles, datagrams, loggerVars, socketVars,
                 readerVars, erased, discarded, faults>>

AppendToFile(e) ==
  /\ e \in fallback
  /\ "late" \notin faults => lpc = "down"
  /\ fallback' = fallback \ {e}
  /\ file' = Append(file, e)
  /\ UNCHANGED <<fresh, sockFiles, datagrams, loggerVars, socketVars,
                 readerVars, erased, discarded, faults>>

-----------------------------------------------------------------------------
(* event_logger *)

\* main, when respawner starts it; without "late" a client that found no
\* logger has written the file by then.
Start ==
  /\ lpc = "down"
  /\ "late" \notin faults => fallback = {}
  /\ lpc' = "read"
  /\ events' = file
  /\ readerReady' = FALSE
  /\ UNCHANGED <<clientVars, file, sockFiles, datagrams, buff, num, countFile,
                 socketVars, readerVars, erased, discarded, faults>>

Unlink ==
  /\ lpc = "read"
  /\ lpc' = "loaded"
  /\ file' = <<>>
  /\ countFile' = Len(events)
  /\ UNCHANGED <<clientVars, sockFiles, datagrams, buff, events, readerReady, num,
                 socketVars, readerVars, erased, discarded, faults>>

\* writeEvents drops the oldest events beyond MaxSaved.
Saved == SubSeq(events, IF Len(events) > MaxSaved THEN Len(events) - MaxSaved + 1 ELSE 1,
                Len(events))

\* The process ends and the kernel closes its sockets.
Gone ==
  /\ lpc' = "down"
  /\ buff' = NoEvent
  /\ events' = <<>>
  /\ readerReady' = FALSE
  /\ num' = 0
  /\ datagrams' = <<>>
  /\ lSock' = FALSE /\ lEof' = FALSE /\ newlines' = 0
  /\ rSock' = IF rSock \in {"connecting", "open"} THEN "shut" ELSE rSock

\* closeAndExit: an empty list leaves EventLogFile alone, a list that is not
\* empty replaces it.  Sockets that were never bound are not removed.
CloseAndExit ==
  /\ file' = IF Saved # <<>> THEN Saved ELSE file
  /\ countFile' = 0
  /\ sockFiles' = IF Bound THEN {} ELSE sockFiles
  /\ discarded' = discarded \cup (Range(events) \ Range(Saved)) \cup Range(datagrams)
                    \cup ({buff} \ {NoEvent})
  /\ Gone
  /\ UNCHANGED <<clientVars, toReader, readerVars, erased, faults>>

\* listenSocket and dgramSocket: bind fails if a file is left from a process
\* that did not remove its own, and the logger ends.
Bind ==
  /\ lpc = "loaded"
  /\ \/ /\ sockFiles = {}
        /\ sockFiles' = {"ReaderPath", "LoggerPath"}
        /\ lpc' = "select"
        /\ UNCHANGED <<clientVars, file, datagrams, buff, events, readerReady, num, countFile,
                       socketVars, readerVars, erased, discarded, faults>>
     \/ /\ sockFiles # {}
        /\ CloseAndExit

Recv ==
  /\ lpc = "select"
  /\ datagrams # <<>>
  /\ buff' = Head(datagrams)
  /\ datagrams' = Tail(datagrams)
  /\ lpc' = "got"
  /\ UNCHANGED <<clientVars, file, sockFiles, events, readerReady, num, countFile, socketVars,
                 readerVars, erased, discarded, faults>>

Push ==
  /\ lpc = "got"
  /\ events' = Append(events, buff)
  /\ buff' = NoEvent
  /\ lpc' = "pushed"
  /\ UNCHANGED <<clientVars, file, sockFiles, datagrams, readerReady, num, countFile,
                 socketVars, readerVars, erased, discarded, faults>>

\* Mutant of Counted: the event the reader has is not counted.
CountedLess == Len(events) - 1

Counted == Len(events)

\* setEventCount, to where it writes the file; no file stands for no events.
CountEvents ==
  /\ lpc \in {"pushed", "erased"}
  /\ num' = Counted
  /\ lpc' = IF lpc = "pushed" THEN "counted" ELSE "left"
  /\ UNCHANGED <<clientVars, file, sockFiles, datagrams, buff, events, readerReady,
                 countFile, socketVars, readerVars, erased, discarded, faults>>

WriteCount ==
  /\ lpc \in {"counted", "left"}
  /\ countFile' = num
  /\ num' = 0
  /\ lpc' = IF lpc = "left" \/ readerReady THEN "send" ELSE "select"
  /\ UNCHANGED <<clientVars, file, sockFiles, datagrams, buff, events, readerReady,
                 socketVars, readerVars, erased, discarded, faults>>

\* Mutant of SendEvent: readerReady is not set for an empty list.
SendEventNotReady ==
  /\ lpc = "send"
  /\ \/ events = <<>> /\ readerReady' = FALSE /\ lpc' = "select" /\ UNCHANGED toReader
     \/ /\ events # <<>>
        /\ toReader' = IF lSock /\ ~lEof THEN Append(toReader, Head(events)) ELSE toReader
        /\ lpc' = "sent"
        /\ UNCHANGED readerReady
  /\ UNCHANGED <<clientVars, file, sockFiles, datagrams, buff, events, num, countFile,
                 lSock, lEof, newlines, rSock, readerVars, erased, discarded, faults>>

\* sendEvent: a reader that has gone swallows the line.
SendEvent ==
  /\ lpc = "send"
  /\ \/ /\ events = <<>>
        /\ readerReady' = TRUE
        /\ lpc' = "select"
        /\ UNCHANGED toReader
     \/ /\ events # <<>>
        /\ toReader' = IF lSock /\ ~lEof THEN Append(toReader, Head(events)) ELSE toReader
        /\ lpc' = "sent"
        /\ UNCHANGED readerReady
  /\ UNCHANGED <<clientVars, file, sockFiles, datagrams, buff, events, num, countFile,
                 lSock, lEof, newlines, rSock, readerVars, erased, discarded, faults>>

Sent ==
  /\ lpc = "sent"
  /\ readerReady' = FALSE
  /\ lpc' = "select"
  /\ UNCHANGED <<clientVars, file, sockFiles, datagrams, buff, events, num, countFile,
                 socketVars, readerVars, erased, discarded, faults>>

\* A second reader is turned away, also when the first has gone unnoticed.
Accept ==
  /\ lpc = "select"
  /\ rSock = "connecting"
  /\ \/ /\ ~lSock
        /\ lSock' = TRUE
        /\ rSock' = "open"
        /\ readerReady' = TRUE
        /\ lpc' = "send"
     \/ /\ lSock
        /\ rSock' = "shut"
        /\ UNCHANGED <<lSock, readerReady, lpc>>
  /\ UNCHANGED <<clientVars, file, sockFiles, datagrams, buff, events, num, countFile,
                 lEof, newlines, toReader, readerVars, erased, discarded, faults>>

\* One recv takes all the newlines there are, for one event.
RecvAck ==
  /\ lpc = "select"
  /\ lSock /\ newlines > 0
  /\ newlines' = 0
  /\ \/ /\ events # <<>>
        /\ events' = Tail(events)
        /\ erased' = erased \cup {Head(events)}
        /\ lpc' = "erased"
     \/ /\ events = <<>>
        /\ UNCHANGED <<events, erased, lpc>>
  /\ UNCHANGED <<clientVars, file, sockFiles, datagrams, buff, readerReady, num,
                 countFile, lSock, lEof, rSock, toReader, readerVars, discarded, faults>>

\* Mutant of RecvEof: a recv that fails is taken for a line.
RecvEofErases ==
  /\ lpc = "select"
  /\ lSock /\ lEof /\ newlines = 0
  /\ lSock' = FALSE /\ lEof' = FALSE
  /\ events' = IF events # <<>> THEN Tail(events) ELSE events
  /\ erased' = erased \cup (Range(events) \ Range(events'))
  /\ UNCHANGED <<clientVars, file, sockFiles, datagrams, lpc, buff, readerReady, num,
                 countFile, newlines, rSock, toReader, readerVars, discarded, faults>>

RecvEof ==
  /\ lpc = "select"
  /\ lSock /\ lEof /\ newlines = 0
  /\ lSock' = FALSE /\ lEof' = FALSE
  /\ UNCHANGED <<clientVars, file, sockFiles, datagrams, loggerVars, newlines, rSock,
                 toReader, readerVars, erased, discarded, faults>>

-----------------------------------------------------------------------------
(***************************************************************************)
(* Signals and deaths of event_logger.                                     *)
(***************************************************************************)

\* onTerm
Term ==
  /\ "term" \in faults
  /\ lpc # "down"
  /\ CloseAndExit

\* The sockets' files stay behind, and so does EventCountFile.
Kill ==
  /\ Gone
  /\ discarded' = discarded \cup Range(events) \cup Range(datagrams) \cup ({buff} \ {NoEvent})
  /\ UNCHANGED <<clientVars, file, sockFiles, countFile, toReader, readerVars, erased, faults>>

\* flushEvents, from onUsr1.  erase(begin()+1, end()) of an empty list is
\* undefined: nothing happens, or the process crashes.
Flush ==
  /\ "flush" \in faults
  /\ lpc # "down"
  /\ \/ /\ ~readerReady /\ events = <<>>
        /\ Kill \/ UNCHANGED vars
     \/ /\ readerReady \/ events # <<>>
        /\ events' = IF readerReady THEN <<>> ELSE SubSeq(events, 1, 1)
        /\ countFile' = Len(events')
        /\ discarded' = discarded \cup (Range(events) \ Range(events'))
        /\ UNCHANGED <<clientVars, file, sockFiles, datagrams, lpc, buff, readerReady, num,
                       socketVars, readerVars, erased, faults>>

\* A reboot: /tmp is empty, EventLogFile is in flash.
Boot ==
  /\ "boot" \in faults
  /\ Gone
  /\ discarded' = discarded \cup Range(events) \cup Range(datagrams)
                    \cup ({buff} \ {NoEvent}) \cup fallback
  /\ fallback' = {}
  /\ sockFiles' = {} /\ countFile' = 0
  /\ toReader' = <<>> /\ out' = <<>> /\ waiting' = <<>>
  /\ UNCHANGED <<fresh, file, got, erased, faults>>

-----------------------------------------------------------------------------
(***************************************************************************)
(* unitcomm, as the reader: see SendEvent, RecvAck and RecvOpen of module  *)
(* ServerLink for what happens to out and waiting there.                   *)
(***************************************************************************)

\* readerSocket, from handleConnections
Connect ==
  /\ rSock = "none"
  /\ Bound
  /\ rSock' = "connecting"
  /\ UNCHANGED <<clientVars, file, sockFiles, datagrams, loggerVars, lSock, lEof,
                 newlines, toReader, readerVars, erased, discarded, faults>>

\* recv takes whatever is there as one event; sendEvent sends it if the
\* connection is up and nothing is outstanding.
Read ==
  /\ rSock \in {"open", "shut"}
  /\ toReader # <<>>
  /\ toReader' = <<>>
  /\ \/ out = <<>> /\ waiting = <<>> /\ out' = toReader /\ UNCHANGED waiting
     \/ waiting' = toReader /\ UNCHANGED out
  /\ UNCHANGED <<clientVars, file, sockFiles, datagrams, loggerVars, lSock, lEof,
                 newlines, rSock, got, erased, discarded, faults>>

ReadEof ==
  /\ rSock = "shut"
  /\ toReader = <<>>
  /\ rSock' = "none"
  /\ UNCHANGED <<clientVars, file, sockFiles, datagrams, loggerVars, lSock, lEof,
                 newlines, toReader, readerVars, erased, discarded, faults>>

\* The connection comes up and the event that waited is sent.
SendWaiting ==
  /\ out = <<>> /\ waiting # <<>>
  /\ out' = waiting /\ waiting' = <<>>
  /\ UNCHANGED <<clientVars, file, sockFiles, datagrams, loggerVars, socketVars,
                 got, erased, discarded, faults>>

ServerTakes ==
  /\ out # <<>>
  /\ got' = got \cup Range(out)
  /\ UNCHANGED <<clientVars, file, sockFiles, datagrams, loggerVars, socketVars,
                 out, waiting, erased, discarded, faults>>

\* unitcomm is gone, and with it all it had read.
ReaderGone ==
  /\ rSock' = "none"
  /\ toReader' = <<>> /\ out' = <<>> /\ waiting' = <<>>
  /\ lEof' = lSock
  /\ UNCHANGED <<clientVars, file, sockFiles, datagrams, loggerVars, lSock, newlines,
                 got, erased, discarded, faults>>

\* The ACK of the server: a newline to the socket, whichever logger is behind
\* it by now.  unitcomm does not ignore SIGPIPE: it dies if the logger has
\* closed the socket.
AckEvent ==
  /\ out # <<>> /\ Range(out) \subseteq got
  /\ \/ /\ rSock = "shut"
        /\ ReaderGone
     \/ /\ rSock # "shut"
        /\ newlines' = IF rSock = "none" THEN newlines ELSE newlines + 1
        /\ out' = waiting /\ waiting' = <<>>
        /\ UNCHANGED <<clientVars, file, sockFiles, datagrams, loggerVars, lSock, lEof,
                       rSock, toReader, got, erased, discarded, faults>>

ReaderDies == "reader" \in faults /\ ReaderGone

-----------------------------------------------------------------------------
Init ==
  /\ fresh = Events /\ fallback = {}
  /\ file = <<>> /\ sockFiles = {} /\ datagrams = <<>>
  /\ lpc = "down" /\ buff = NoEvent /\ events = <<>> /\ readerReady = FALSE
  /\ num = 0 /\ countFile = 0
  /\ lSock = FALSE /\ lEof = FALSE /\ newlines = 0 /\ rSock = "none" /\ toReader = <<>>
  /\ out = <<>> /\ waiting = <<>>
  /\ got = {} /\ erased = {} /\ discarded = {}
  /\ faults \in FaultSets

Logger ==
  \/ Start \/ Unlink \/ Bind \/ Recv \/ Push \/ CountEvents \/ WriteCount
  \/ SendEvent \/ Sent
  \/ Accept \/ RecvAck \/ RecvEof

Reader ==
  \/ Connect \/ Read \/ ReadEof \/ SendWaiting \/ ServerTakes \/ AckEvent

Fault ==
  \/ Term \/ Flush \/ Boot \/ ReaderDies
  \/ "kill" \in faults /\ lpc # "down" /\ Kill

Next ==
  \/ \E e \in Events : Append1(e) \/ AppendToFile(e)
  \/ Logger \/ Reader \/ Fault

Spec == Init /\ [][Next]_vars

\* Both processes keep running, and a pass of the select loop handles every
\* socket that is ready.
Fairness ==
  /\ WF_vars(Logger)
  /\ \A e \in Events : WF_vars(AppendToFile(e))
  /\ WF_vars(Recv) /\ WF_vars(Accept) /\ WF_vars(RecvAck) /\ WF_vars(RecvEof)
  /\ WF_vars(Connect) /\ WF_vars(Read) /\ WF_vars(ReadEof) /\ WF_vars(SendWaiting)
  /\ WF_vars(ServerTakes) /\ WF_vars(AckEvent)

LiveSpec == Spec /\ Fairness

-----------------------------------------------------------------------------
(* Properties *)

TypeOK ==
  /\ fresh \subseteq Events /\ fallback \subseteq Events
  /\ {got, erased, discarded} \subseteq SUBSET Events
  /\ {file, events, datagrams, toReader, out, waiting} \subseteq Seq(Events)
  /\ sockFiles \subseteq {"ReaderPath", "LoggerPath"}
  /\ lpc \in {"down", "read", "loaded", "select", "got", "pushed", "counted",
             "erased", "left", "send", "sent"}
  /\ buff \in Events \cup {NoEvent}
  /\ {readerReady, lSock, lEof} \subseteq BOOLEAN
  /\ {num, countFile, newlines} \subseteq Nat
  /\ rSock \in {"none", "connecting", "open", "shut"}
  /\ faults \in FaultSets

WithReader == Range(toReader) \cup Range(out) \cup Range(waiting)

\* No event_logger was started anew while the unit ran: an end by SIGTERM lets
\* respawner start another one, which unitcomm cannot tell from the first.
OneLogger == faults \subseteq {"reader", "kill", "boot"}

\* An event that was handed in is not lost: it is in the list, in the saved
\* file, on its way, or the server has it.
Kept ==
  OneLogger =>
    Events \subseteq fresh \cup fallback \cup Range(file) \cup Range(datagrams) \cup {buff}
                      \cup Range(events) \cup WithReader \cup got \cup discarded

\* A newline removes only what the server has: event_logger and unitcomm
\* agree about the event the newline stands for.
ErasedWereTaken == OneLogger => erased \subseteq got

\* No stalemate: an event_logger that waits for a newline has a reader that
\* owes it one.  (After a flush a newline meets an empty list, and readerReady
\* stays FALSE.)
NewlineOwed ==
  "flush" \notin faults /\ lpc = "select" /\ lSock /\ ~lEof /\ ~readerReady =>
    WithReader # {} \/ newlines > 0

\* EventCountFile, by which monitor and the eCall programs see whether events
\* are left, is right whenever event_logger waits in select; when SIGUSR1 came
\* it may say too much, never too little, so monitor does not take the
\* connection away for an event it cannot see.
CountCovers ==
  lpc = "select" =>
    /\ countFile >= Len(events)
    /\ "flush" \notin faults => countFile = Len(events)

\* Once the faults stop, an event in the list reaches the server or was
\* discarded: no order of connections, deaths and newlines leaves the two
\* processes waiting for each other.  (A process that is killed leaves its
\* sockets' files, at which the next one ends.)
Reaches ==
  OneLogger /\ "kill" \notin faults /\ <>[][~Fault]_vars =>
    \A e \in Events : (e \in Range(events)) ~> (e \in got \cup discarded)
=============================================================================
