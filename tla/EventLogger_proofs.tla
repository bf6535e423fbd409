------------------------- MODULE EventLogger_proofs -------------------------
(***************************************************************************)
(* Theorems about EventLogger, for any set of events, any length of the    *)
(* queues and any mixture of faults.                                       *)
(***************************************************************************)
EXTENDS EventLogger, TLAPS

Lines == Events \cup {NoEvent}

LEMMA SeqFacts ==
  ASSUME NEW S, NEW s \in Seq(S)
  PROVE  /\ Len(s) \in Nat
         /\ s # <<>> => /\ Head(s) \in S /\ Tail(s) \in Seq(S)
                        /\ Len(SubSeq(s, 1, 1)) = 1 /\ Len(s) >= 1
                        /\ SubSeq(s, 1, 1) \in Seq(S)
         /\ \A x \in S : Append(s, x) \in Seq(S) /\ Append(s, x) # <<>>
<1>1. s # <<>> => Len(s) >= 1 /\ Head(s) \in S /\ Tail(s) \in Seq(S)
  OBVIOUS
<1>2. s # <<>> => Len(SubSeq(s, 1, 1)) = 1
  BY <1>1
<1>3. s # <<>> => SubSeq(s, 1, 1) \in Seq(S)
  BY <1>1
<1>4. ASSUME NEW x \in S  PROVE Append(s, x) \in Seq(S) /\ Append(s, x) # <<>>
  <2>1. Append(s, x) \in Seq(S)
    OBVIOUS
  <2>2. Len(Append(s, x)) = Len(s) + 1 /\ Len(s) \in Nat
    OBVIOUS
  <2>3. Len(Append(s, x)) # 0 /\ Len(<<>>) = 0
    BY <2>2
  <2>4. PICK t : t = Append(s, x)
    OBVIOUS
  <2>5. t # <<>>
    BY <2>3, <2>4
  <2> QED  BY <2>1, <2>4, <2>5
<1> QED  BY <1>1, <1>2, <1>3, <1>4

-----------------------------------------------------------------------------
(* The number of events                                                    *)

ListTypes ==
  /\ file \in Seq(Lines) /\ datagrams \in Seq(Lines) /\ events \in Seq(Lines)
  /\ buff \in Lines
  /\ num \in Nat /\ countFile \in Nat
  /\ fallback \subseteq Events /\ fresh \subseteq Events

\* n counts the events, or more than there are after SIGUSR1.
Covers(n) ==
  /\ n >= Len(events)
  /\ "flush" \notin faults => n = Len(events)

\* Between the steps of setEventCount it is not the file that is right but the
\* number about to be written.
Counting ==
  /\ lpc \in {"loaded", "select", "got", "send", "sent"} => Covers(countFile)
  /\ lpc \in {"counted", "left"} => Covers(num)

CountInv == ListTypes /\ Counting

LEMMA InitCount == Init => CountInv
BY DEF Init, CountInv, ListTypes, Counting, Lines

LEMMA SavedType ==
  ASSUME NEW S, events \in Seq(S)
  PROVE  Saved \in Seq(S)
<1> DEFINE n == IF Len(events) > MaxSaved THEN Len(events) - MaxSaved + 1 ELSE 1
<1>1. Len(events) \in Nat /\ MaxSaved \in Nat
  BY LoggerConstants
<1>2. n \in 1..(Len(events) + 1)
  BY <1>1
<1>3. \A i \in n..Len(events) : i \in 1..Len(events)
  BY <1>1, <1>2
<1>4. SubSeq(events, n, Len(events)) \in Seq(S)
  <2> HIDE DEF n
  <2> QED  BY <1>1, <1>2, <1>3
<1> QED  BY <1>4 DEF Saved

LEMMA GoneCount ==
  ASSUME ListTypes, Gone, file' \in Seq(Lines), countFile' \in Nat,
         fallback' \subseteq Events, fresh' \subseteq Events
  PROVE  CountInv'
BY DEF Gone, CountInv, ListTypes, Counting, Lines

LEMMA ExitCount ==
  ASSUME ListTypes, CloseAndExit
  PROVE  CountInv'
<1>1. file' \in Seq(Lines) /\ countFile' \in Nat
  BY SavedType DEF CloseAndExit, ListTypes
<1> QED  BY <1>1, GoneCount DEF CloseAndExit, clientVars, ListTypes

LEMMA KillCount ==
  ASSUME ListTypes, Kill
  PROVE  CountInv'
BY GoneCount DEF Kill, clientVars, ListTypes

\* The steps that change the list or a number.
LEMMA ListCount ==
  ASSUME CountInv,
         Start \/ Unlink \/ Bind \/ Recv \/ Push \/ CountEvents \/ WriteCount
  PROVE  CountInv'
<1> USE DEF CountInv, ListTypes, clientVars, socketVars, readerVars, loggerVars
<1>1. CASE Start
  BY <1>1 DEF Start, Counting
<1>2. CASE Unlink
  <2>1. Len(events) \in Nat
    BY SeqFacts
  <2> QED  BY <1>2, <2>1 DEF Unlink, Counting, Covers
<1>3. CASE Bind
  <2>1. CASE CloseAndExit
    BY <2>1, ExitCount
  <2>2. CASE ~CloseAndExit
    BY <1>3, <2>2 DEF Bind, Counting, Covers
  <2> QED  BY <2>1, <2>2
<1>4. CASE Recv
  <2>1. datagrams' \in Seq(Lines) /\ buff' \in Lines
    BY <1>4, SeqFacts DEF Recv
  <2> QED  BY <1>4, <2>1 DEF Recv, Counting, Covers
<1>5. CASE Push
  <2>1. events' \in Seq(Lines)
    BY <1>5, SeqFacts DEF Push
  <2> QED  BY <1>5, <2>1 DEF Push, Counting, Lines
<1>6. CASE CountEvents
  <2>1. Len(events) \in Nat
    BY SeqFacts
  <2>2. num' = Len(events) /\ lpc' \in {"counted", "left"} /\ UNCHANGED <<events, faults>>
    BY <1>6 DEF CountEvents, Counted
  <2>3. ListTypes'
    BY <1>6, <2>1, <2>2 DEF CountEvents
  <2> QED  BY <2>1, <2>2, <2>3 DEF Counting, Covers
<1>7. CASE WriteCount
  BY <1>7 DEF WriteCount, Counting, Covers
<1> QED  BY <1>1, <1>2, <1>3, <1>4, <1>5, <1>6, <1>7

LEMMA SocketCount ==
  ASSUME CountInv, SendEvent \/ Sent \/ Accept \/ RecvAck \/ RecvEof \/ Reader
  PROVE  CountInv'
<1> USE DEF CountInv, ListTypes, clientVars, socketVars, readerVars, loggerVars
<1>1. CASE SendEvent
  BY <1>1 DEF SendEvent, Counting, Covers
<1>2. CASE Sent
  BY <1>2 DEF Sent, Counting, Covers
<1>3. CASE Accept
  BY <1>3 DEF Accept, Counting, Covers
<1>4. CASE RecvAck
  <2>1. CASE events # <<>>
    <3>1. events' \in Seq(Lines)
      BY <1>4, <2>1, SeqFacts DEF RecvAck
    <3> QED  BY <1>4, <2>1, <3>1 DEF RecvAck, Counting
  <2>2. CASE events = <<>>
    BY <1>4, <2>2 DEF RecvAck, Counting, Covers
  <2> QED  BY <2>1, <2>2
<1>5. CASE RecvEof
  BY <1>5 DEF RecvEof, Counting, Covers
<1>6. CASE Reader
  <2>1. UNCHANGED <<clientVars, file, datagrams, loggerVars, faults>>
    BY <1>6 DEF Reader, Connect, Read, ReadEof, SendWaiting, ServerTakes, AckEvent, ReaderGone
  <2> QED  BY <2>1 DEF Counting, Covers
<1> QED  BY <1>1, <1>2, <1>3, <1>4, <1>5, <1>6

LEMMA FaultCount ==
  ASSUME CountInv, Fault
  PROVE  CountInv'
<1> USE DEF CountInv, ListTypes, clientVars, socketVars, readerVars, loggerVars
<1>1. CASE Term
  BY <1>1, ExitCount DEF Term
<1>2. CASE Kill
  BY <1>2, KillCount
<1>3. CASE Flush
  <2>1. CASE Kill
    BY <2>1, KillCount
  <2>2. CASE UNCHANGED vars
    BY <2>2 DEF vars, Counting, Covers
  <2>3. CASE /\ readerReady \/ events # <<>>
             /\ events' = IF readerReady THEN <<>> ELSE SubSeq(events, 1, 1)
             /\ countFile' = Len(events')
             /\ UNCHANGED <<clientVars, file, sockFiles, datagrams, lpc, buff, readerReady, num,
                            socketVars, readerVars, erased, faults>>
    <3>1. Len(events) \in Nat /\ events \in Seq(Lines)
      BY SeqFacts
    <3>2. events' \in Seq(Lines) /\ Len(events') \in Nat /\ Len(events') <= Len(events)
      <4>1. CASE readerReady
        BY <2>3, <3>1, <4>1
      <4>2. CASE ~readerReady
        BY <2>3, <3>1, <4>2, SeqFacts
      <4> QED  BY <4>1, <4>2
    <3>3. "flush" \in faults
      BY <1>3 DEF Flush
    <3>4. ListTypes'
      BY <2>3, <3>2
    <3>5. Covers(countFile)'
      BY <2>3, <3>2, <3>3 DEF Covers
    <3>6. Covers(num) => Covers(num)'
      BY <2>3, <3>1, <3>2, <3>3 DEF Covers
    <3> QED  BY <2>3, <3>4, <3>5, <3>6 DEF Counting
  <2> QED  BY <1>3, <2>1, <2>2, <2>3 DEF Flush
<1>4. CASE Boot
  BY <1>4, GoneCount DEF Boot
<1>5. CASE ReaderDies
  BY <1>5 DEF ReaderDies, ReaderGone, Counting, Covers
<1> QED  BY <1>1, <1>2, <1>3, <1>4, <1>5 DEF Fault

LEMMA NextCount == CountInv /\ [Next]_vars => CountInv'
<1> SUFFICES ASSUME CountInv, [Next]_vars  PROVE CountInv'
  OBVIOUS
<1>1. CASE UNCHANGED vars
  BY <1>1 DEF vars, clientVars, loggerVars, CountInv, ListTypes, Counting, Covers
<1>2. ASSUME NEW e \in Events, Append1(e)  PROVE CountInv'
  <2>1. datagrams \in Seq(Lines) /\ e \in Lines
    BY DEF CountInv, ListTypes, Lines
  <2>2. Append(datagrams, e) \in Seq(Lines)
    BY <2>1, SeqFacts
  <2>3. datagrams' \in Seq(Lines) /\ fresh' \subseteq Events /\ fallback' \subseteq Events
    BY <1>2, <2>1, <2>2 DEF Append1, CountInv, ListTypes
  <2> QED  BY <1>2, <2>3 DEF Append1, loggerVars, CountInv, ListTypes, Counting, Covers
<1>3. ASSUME NEW e \in Events, AppendToFile(e)  PROVE CountInv'
  <2>1. file' \in Seq(Lines)
    BY <1>3, SeqFacts DEF AppendToFile, CountInv, ListTypes, Lines
  <2> QED  BY <1>3, <2>1 DEF AppendToFile, loggerVars, CountInv, ListTypes, Counting, Covers
<1> QED
  BY <1>1, <1>2, <1>3, ListCount, SocketCount, FaultCount DEF Next, Logger

\* What monitor and the eCall programs read from EventCountFile is the number
\* of events whenever event_logger waits; interrupted by SIGUSR1 it may be
\* more, never less.
THEOREM LoggerCountCovers == Spec => []CountCovers
<1>1. CountInv => CountCovers
  BY DEF CountInv, Counting, Covers, CountCovers
<1> QED  BY <1>1, InitCount, NextCount, PTL DEF Spec

-----------------------------------------------------------------------------
(* No stalemate                                                            *)

\* unitcomm has a line, wherever it is.
HasLine == toReader # <<>> \/ out # <<>> \/ waiting # <<>>

LineTypes ==
  /\ toReader \in Seq(Lines) /\ out \in Seq(Lines) /\ waiting \in Seq(Lines)

\* event_logger has a reader that has not gone.
Served == lSock /\ ~lEof

\* event_logger waits for a newline: the list has the event it stands for, and
\* unitcomm has that event's line, or has answered it.
Awaited ==
  /\ Served => rSock = "open" /\ Bound
  /\ "flush" \notin faults =>
       /\ Served /\ ~readerReady /\ lpc \in {"select", "got", "pushed", "counted"} =>
            events # <<>> /\ (HasLine \/ newlines > 0)
       /\ lpc = "sent" => events # <<>>
       /\ Served /\ lpc = "sent" => HasLine \/ newlines > 0

OwedInv == CountInv /\ LineTypes /\ newlines \in Nat /\ Awaited

\* A newline is there or a line is, as long as nothing takes either away.
LEMMA AwaitedKept ==
  ASSUME Awaited, UNCHANGED <<lSock, lEof, rSock, readerReady, lpc, events, faults>>,
         HasLine \/ newlines > 0 => HasLine' \/ newlines' > 0
  PROVE  Awaited'
BY DEF Awaited, Served, Bound

LEMMA GoneAwaited ==
  ASSUME LineTypes, newlines \in Nat, Gone,
         toReader' \in {toReader, <<>>}, out' \in {out, <<>>}, waiting' \in {waiting, <<>>}
  PROVE  LineTypes' /\ newlines' \in Nat /\ Awaited'
<1>1. LineTypes'
  <2>1. <<>> \in Seq(Lines)
    OBVIOUS
  <2>2. toReader' \in Seq(Lines) /\ out' \in Seq(Lines) /\ waiting' \in Seq(Lines)
    BY <2>1, Zenon DEF LineTypes
  <2> QED  BY <2>2 DEF LineTypes
<1>2. newlines' \in Nat
  BY DEF Gone
<1>3. Awaited'
  BY DEF Gone, Awaited, Served
<1> QED  BY <1>1, <1>2, <1>3

LEMMA ListAwaited ==
  ASSUME OwedInv, Start \/ Unlink \/ Bind \/ Recv \/ Push \/ CountEvents \/ WriteCount
  PROVE  LineTypes' /\ newlines' \in Nat /\ Awaited'
<1> USE DEF OwedInv, LineTypes, clientVars, socketVars, readerVars, loggerVars
<1>1. CASE Start \/ Unlink \/ Recv \/ CountEvents \/ WriteCount
  BY <1>1 DEF Start, Unlink, Recv, CountEvents, WriteCount, Awaited, Served, Bound, HasLine
<1>2. CASE Bind
  <2>1. CASE CloseAndExit
    BY <2>1, GoneAwaited DEF CloseAndExit
  <2>2. CASE ~CloseAndExit
    BY <1>2, <2>2 DEF Bind, Awaited, Served, Bound, HasLine
  <2> QED  BY <2>1, <2>2
<1>3. CASE Push
  <2>1. events' # <<>>
    BY <1>3, SeqFacts DEF Push, CountInv, ListTypes
  <2> QED  BY <1>3, <2>1 DEF Push, Awaited, Served, Bound, HasLine
<1> QED  BY <1>1, <1>2, <1>3

LEMMA SocketAwaited ==
  ASSUME OwedInv, SendEvent \/ Sent \/ Accept \/ RecvAck \/ RecvEof
  PROVE  LineTypes' /\ newlines' \in Nat /\ Awaited'
<1> USE DEF OwedInv, LineTypes, clientVars, socketVars, readerVars, loggerVars
<1>1. CASE SendEvent
  <2>1. events # <<>> => Append(toReader, Head(events)) \in Seq(Lines)
                         /\ Append(toReader, Head(events)) # <<>>
    BY SeqFacts DEF CountInv, ListTypes
  <2>2. LineTypes' /\ newlines' \in Nat
    BY <1>1, <2>1 DEF SendEvent
  <2>3. Awaited'
    BY <1>1, <2>1 DEF SendEvent, Awaited, Served, Bound, HasLine
  <2> QED  BY <2>2, <2>3
<1>2. CASE Sent \/ Accept \/ RecvAck \/ RecvEof
  BY <1>2 DEF Sent, Accept, RecvAck, RecvEof, Awaited, Served, Bound, HasLine
<1> QED  BY <1>1, <1>2

LEMMA ReaderAwaited ==
  ASSUME OwedInv, Reader \/ ReaderDies
  PROVE  LineTypes' /\ newlines' \in Nat /\ Awaited'
<1> USE DEF OwedInv, LineTypes, clientVars, socketVars, readerVars, loggerVars
<1>1. CASE Connect \/ ReadEof
  BY <1>1 DEF Connect, ReadEof, Awaited, Served, Bound, HasLine
<1>2. CASE Read
  <2>1. /\ out' # <<>> \/ waiting' # <<>>
        /\ UNCHANGED <<lSock, lEof, rSock, readerReady, lpc, events, faults>>
    BY <1>2 DEF Read
  <2>2. LineTypes' /\ newlines' \in Nat
    BY <1>2 DEF Read
  <2> QED  BY <2>1, <2>2, AwaitedKept DEF HasLine
<1>3. CASE SendWaiting \/ ServerTakes
  <2>1. /\ HasLine => HasLine'
        /\ UNCHANGED <<lSock, lEof, rSock, readerReady, lpc, events, faults, newlines>>
    BY <1>3 DEF SendWaiting, ServerTakes, HasLine
  <2>2. LineTypes' /\ newlines' \in Nat
    BY <1>3 DEF SendWaiting, ServerTakes
  <2> QED  BY <2>1, <2>2, AwaitedKept
<1>4. ASSUME ReaderGone  PROVE LineTypes' /\ newlines' \in Nat /\ Awaited'
  BY <1>4 DEF ReaderGone, Awaited, Served, Bound
<1>5. CASE AckEvent /\ rSock # "shut"
  <2>1. /\ newlines' = IF rSock = "none" THEN newlines ELSE newlines + 1
        /\ out' = waiting /\ waiting' = <<>>
        /\ UNCHANGED <<toReader, lSock, lEof, rSock, readerReady, lpc, events, faults>>
    BY <1>5 DEF AckEvent
  <2>2. LineTypes' /\ newlines' \in Nat
    BY <2>1
  <2>3. Served => newlines' > 0
    BY <2>1 DEF Awaited
  <2> QED  BY <2>1, <2>2, <2>3 DEF Awaited, Served, Bound
<1> QED
  BY <1>1, <1>2, <1>3, <1>4, <1>5 DEF Reader, ReaderDies, AckEvent

LEMMA FaultAwaited ==
  ASSUME OwedInv, Fault
  PROVE  LineTypes' /\ newlines' \in Nat /\ Awaited'
<1> USE DEF OwedInv, clientVars, socketVars, readerVars, loggerVars
<1>1. CASE Term
  BY <1>1, GoneAwaited DEF Term, CloseAndExit
<1>2. CASE Kill
  BY <1>2, GoneAwaited DEF Kill
<1>3. CASE Flush /\ ~Kill
  <2>1. "flush" \in faults /\ UNCHANGED <<lpc, lSock, lEof, rSock, newlines, toReader, out,
                                          waiting, faults>>
    BY <1>3 DEF Flush, vars
  <2> QED  BY <2>1 DEF LineTypes, Awaited, Served, Bound
<1>4. CASE Boot
  BY <1>4, GoneAwaited DEF Boot
<1>5. CASE ReaderDies
  BY <1>5, ReaderAwaited
<1> QED  BY <1>1, <1>2, <1>3, <1>4, <1>5 DEF Fault

LEMMA NextOwed == OwedInv /\ [Next]_vars => OwedInv'
<1> SUFFICES ASSUME OwedInv, [Next]_vars  PROVE LineTypes' /\ newlines' \in Nat /\ Awaited'
  BY NextCount DEF OwedInv
<1>1. ASSUME UNCHANGED <<lpc, events, readerReady, socketVars, readerVars, faults>>
      PROVE  LineTypes' /\ newlines' \in Nat /\ Awaited'
  BY <1>1 DEF OwedInv, LineTypes, Awaited, Served, Bound, HasLine, socketVars, readerVars
<1>2. CASE UNCHANGED vars
  BY <1>1, <1>2 DEF vars, loggerVars
<1>3. ASSUME NEW e \in Events, Append1(e) \/ AppendToFile(e)
      PROVE  LineTypes' /\ newlines' \in Nat /\ Awaited'
  BY <1>1, <1>3 DEF Append1, AppendToFile, loggerVars
<1> QED
  BY <1>2, <1>3, ListAwaited, SocketAwaited, ReaderAwaited, FaultAwaited DEF Next, Logger

LEMMA HasLineReader ==
  ASSUME LineTypes, HasLine
  PROVE  WithReader # {}
<1>1. ASSUME NEW s \in Seq(Lines), s # <<>>  PROVE Range(s) # {}
  <2>1. 1 \in DOMAIN s
    BY <1>1
  <2> QED  BY <2>1 DEF Range
<1> QED  BY <1>1 DEF LineTypes, HasLine, WithReader

\* event_logger never waits for a newline that nobody owes: without SIGUSR1
\* no order of connections, ends, answers and deaths of either process makes
\* the two wait for each other.
THEOREM LoggerNewlineOwed == Spec => []NewlineOwed
<1>1. Init => OwedInv
  BY InitCount DEF Init, OwedInv, LineTypes, Awaited, Served, HasLine
<1>2. OwedInv => NewlineOwed
  BY HasLineReader DEF OwedInv, Awaited, Served, NewlineOwed
<1> QED  BY <1>1, <1>2, NextOwed, PTL DEF Spec

-----------------------------------------------------------------------------
(* What a newline removes                                                  *)

LEMMA NextFaults == [Next]_vars => faults' = faults
BY DEF Next, Append1, AppendToFile, Logger, Start, Unlink, Bind, CloseAndExit, Recv, Push,
       CountEvents, WriteCount, SendEvent, Sent, Accept, RecvAck, RecvEof, Reader, Connect,
       Read, ReadEof, SendWaiting, ServerTakes, AckEvent, ReaderGone, Fault, Term, Flush,
       Kill, Boot, ReaderDies, vars

\* unitcomm has no line, and its socket has none for it.
Silent == toReader = <<>> /\ out = <<>> /\ waiting = <<>>

\* The start of event_logger moves the events from the file to the list.
Lifted ==
  /\ lpc # "got" => buff = NoEvent
  /\ lpc = "down" => events = <<>>
  /\ ~Bound => datagrams = <<>>
  /\ lpc = "read" => events = file
  /\ lpc \notin {"down", "read"} => file = <<>>

\* A line that unitcomm has is the first event of the list.
IsHead(l) == l # <<>> => events # <<>> /\ l = <<Head(events)>>

\* Of the first event there is one line, or one newline, and none of either
\* where event_logger may send the line.
OneCopy ==
  /\ Silent \/ Served
  /\ IsHead(toReader) /\ IsHead(out) /\ IsHead(waiting)
  /\ toReader # <<>> => out = <<>> /\ waiting = <<>>
  /\ out # <<>> => waiting = <<>>
  /\ newlines > 0 => Silent /\ events # <<>> /\ Head(events) \in got
  /\ lpc \in {"erased", "left", "send"} => Silent /\ newlines = 0
  /\ readerReady /\ lpc # "sent" => Silent /\ newlines = 0

\* A logger that finds its sockets' files gone is the first since the unit
\* started: no line of an earlier one is left.
Sockets ==
  /\ rSock \in {"none", "connecting", "open", "shut"}
  /\ sockFiles = {} => ~Bound /\ Silent
  /\ ~lSock => newlines = 0 /\ ~lEof
  /\ lSock => Bound
  /\ rSock = "open" => Served
  /\ rSock = "connecting" => Bound /\ Silent

EndsInv == Lifted /\ Sockets /\ (Bound => OneCopy) /\ erased \subseteq got

LEMMA HeadFacts ==
  ASSUME NEW S, NEW s \in Seq(S), NEW x \in S
  PROVE  /\ s # <<>> => Head(Append(s, x)) = Head(s)
         /\ Append(<<>>, x) = <<x>>
         /\ Range(<<x>>) = {x}
         /\ Head(<<x>>) = x
<1>1. s # <<>> => Head(Append(s, x)) = Head(s)
  OBVIOUS
<1>2. Append(<<>>, x) = <<x>> /\ Head(<<x>>) = x
  OBVIOUS
<1>3. Range(<<x>>) = {x}
  BY DEF Range
<1> QED  BY <1>1, <1>2, <1>3

LEMMA GoneEnds ==
  ASSUME EndsInv, Gone, sockFiles' = {} => Silent',
         erased' = erased, got' = got
  PROVE  EndsInv'
<1>1. /\ lpc' = "down" /\ buff' = NoEvent /\ events' = <<>> /\ datagrams' = <<>>
      /\ ~lSock' /\ ~lEof' /\ newlines' = 0
      /\ rSock' \notin {"open", "connecting"}
  BY DEF Gone
<1>2. ~Bound'
  BY <1>1 DEF Bound
<1>3. rSock' \in {"none", "connecting", "open", "shut"}
  BY DEF Gone, EndsInv, Sockets
<1> QED  BY <1>1, <1>2, <1>3 DEF EndsInv, Lifted, Sockets

\* A step that leaves lines, newlines and the list alone.
LEMMA StartEnds ==
  ASSUME OwedInv, EndsInv, Start \/ Unlink \/ Bind
  PROVE  EndsInv'
<1> USE DEF clientVars, socketVars, readerVars, loggerVars
<1>1. CASE Start
  <2>1. ~Bound /\ ~Bound'
    BY <1>1 DEF Start, Bound
  <2> QED  BY <1>1, <2>1 DEF Start, EndsInv, Lifted, Sockets, Silent, Served
<1>2. CASE Unlink
  <2>1. ~Bound /\ ~Bound'
    BY <1>2 DEF Unlink, Bound
  <2> QED  BY <1>2, <2>1 DEF Unlink, EndsInv, Lifted, Sockets, Silent, Served
<1>3. CASE Bind
  <2>1. CASE sockFiles # {}
    <3>1. CloseAndExit /\ ~Bound
      BY <1>3, <2>1 DEF Bind, Bound
    <3> QED  BY <2>1, <3>1, GoneEnds DEF CloseAndExit
  <2>2. CASE sockFiles = {}
    <3>1. /\ lpc = "loaded" /\ lpc' = "select" /\ sockFiles' = {"ReaderPath", "LoggerPath"}
          /\ UNCHANGED <<clientVars, file, datagrams, buff, events, readerReady, num, countFile,
                         socketVars, readerVars, erased, discarded, faults>>
      BY <1>3, <2>2 DEF Bind
    <3>2. ~Bound /\ Bound' /\ Silent /\ ~lSock /\ newlines = 0
      BY <2>2, <3>1 DEF Bound, EndsInv, Sockets
    <3>3. Lifted'
      BY <3>1, <3>2 DEF EndsInv, Lifted
    <3>4. Sockets'
      BY <3>1, <3>2 DEF EndsInv, Sockets, Silent, Served
    <3>5. OneCopy'
      BY <3>1, <3>2 DEF OneCopy, IsHead, Silent
    <3> QED  BY <3>1, <3>3, <3>4, <3>5 DEF EndsInv
  <2> QED  BY <2>1, <2>2
<1> QED  BY <1>1, <1>2, <1>3

LEMMA ListEnds ==
  ASSUME OwedInv, EndsInv, Recv \/ Push \/ CountEvents \/ WriteCount \/ Sent
  PROVE  EndsInv'
<1> USE DEF clientVars, socketVars, readerVars, loggerVars
<1>1. Bound /\ Bound' /\ OneCopy
  BY DEF Bound, Recv, Push, CountEvents, WriteCount, Sent, EndsInv
<1>2. UNCHANGED <<file, sockFiles, socketVars, readerVars, erased>>
  BY DEF Recv, Push, CountEvents, WriteCount, Sent
<1>3. Sockets'
  BY <1>1, <1>2 DEF EndsInv, Sockets, Silent, Served
<1>4. Lifted'
  BY <1>1, <1>2 DEF Recv, Push, CountEvents, WriteCount, Sent, EndsInv, Lifted, Bound
<1>5. events # <<>> => events' # <<>> /\ Head(events') = Head(events)
  <2>1. CASE Push
    <3>1. events \in Seq(Lines) /\ buff \in Lines /\ events' = Append(events, buff)
      BY <2>1 DEF Push, OwedInv, CountInv, ListTypes
    <3> QED  BY <3>1, HeadFacts, SeqFacts
  <2> QED  BY <2>1 DEF Recv, CountEvents, WriteCount, Sent
<1>6. /\ lpc' \in {"erased", "left", "send"} =>
           \/ lpc \in {"erased", "left", "send"}
           \/ readerReady /\ lpc # "sent"
      /\ readerReady' /\ lpc' # "sent" => readerReady /\ lpc # "sent"
  BY DEF Recv, Push, CountEvents, WriteCount, Sent
<1>7. OneCopy'
  BY <1>1, <1>2, <1>5, <1>6 DEF OneCopy, IsHead, Silent, Served
<1> QED  BY <1>2, <1>3, <1>4, <1>7 DEF EndsInv

LEMMA SocketEnds ==
  ASSUME OwedInv, EndsInv, SendEvent \/ Accept \/ RecvAck \/ RecvEof
  PROVE  EndsInv'
<1> USE DEF clientVars, socketVars, readerVars, loggerVars
<1>1. Bound /\ Bound' /\ OneCopy
  BY DEF Bound, SendEvent, Accept, RecvAck, RecvEof, EndsInv
<1>2. UNCHANGED <<file, sockFiles, datagrams, buff, out, waiting, got>> /\ lpc # "got"
  BY DEF SendEvent, Accept, RecvAck, RecvEof
<1>3. Lifted'
  BY <1>1, <1>2 DEF EndsInv, Lifted, Bound
<1>4. CASE SendEvent
  <2>1. Silent /\ newlines = 0 /\ newlines' = 0
    BY <1>1, <1>4 DEF SendEvent, OneCopy
  <2>2. UNCHANGED <<lSock, lEof, rSock, events, erased>>
    BY <1>4 DEF SendEvent
  <2>3. CASE events = <<>> \/ ~Served
    <3>1. Silent'
      BY <1>2, <1>4, <2>1, <2>3 DEF SendEvent, Silent, Served
    <3>2. Sockets'
      BY <1>1, <1>2, <2>1, <2>2, <3>1 DEF EndsInv, Sockets, Served
    <3>3. OneCopy'
      BY <2>1, <3>1 DEF OneCopy, IsHead, Silent
    <3> QED  BY <1>1, <1>2, <1>3, <2>2, <3>2, <3>3 DEF EndsInv
  <2>4. CASE events # <<>> /\ Served
    <3>1. toReader' = <<Head(events)>> /\ lpc' = "sent" /\ readerReady' = readerReady
      <4>1. events \in Seq(Lines)
        BY DEF OwedInv, CountInv, ListTypes
      <4>2. Head(events) \in Lines
        BY <2>4, <4>1, SeqFacts
      <4>3. toReader' = Append(<<>>, Head(events))
        BY <1>4, <2>1, <2>4 DEF SendEvent, Silent, Served
      <4> QED  BY <1>4, <2>4, <4>1, <4>2, <4>3, HeadFacts DEF SendEvent
    <3>2. Served' /\ rSock' # "connecting" /\ sockFiles' # {}
      BY <1>1, <1>2, <2>2, <2>4 DEF Served, OwedInv, Awaited, EndsInv, Sockets
    <3>3. Sockets'
      BY <1>1, <2>2, <3>2 DEF EndsInv, Sockets, Served
    <3>4. OneCopy'
      BY <1>2, <2>1, <2>2, <2>4, <3>1, <3>2 DEF OneCopy, IsHead, Silent
    <3> QED  BY <1>1, <1>2, <1>3, <2>2, <3>3, <3>4 DEF EndsInv
  <2> QED  BY <2>3, <2>4
<1>5. CASE Accept
  <2>1. Silent /\ Silent' /\ UNCHANGED <<lEof, newlines, events, erased>>
    BY <1>5 DEF Accept, EndsInv, Sockets, Silent
  <2>2. sockFiles # {} /\ sockFiles' # {}
    BY <1>1, <1>2 DEF EndsInv, Sockets
  <2>3. CASE ~lSock
    <3>1. newlines = 0 /\ newlines' = 0 /\ lSock' /\ ~lEof' /\ rSock' = "open"
      BY <1>5, <2>1, <2>3 DEF Accept, EndsInv, Sockets
    <3> QED
      BY <1>1, <1>2, <1>3, <2>1, <2>2, <3>1 DEF EndsInv, Sockets, OneCopy, IsHead, Silent, Served
  <2>4. CASE lSock
    <3>1. rSock' = "shut" /\ UNCHANGED <<lSock, readerReady, lpc>>
      BY <1>5, <2>4 DEF Accept
    <3>2. Sockets'
      BY <1>1, <2>1, <2>2, <2>4, <3>1 DEF EndsInv, Sockets
    <3>3. OneCopy'
      BY <1>1, <1>2, <2>1, <3>1 DEF OneCopy, IsHead, Silent
    <3> QED  BY <1>1, <1>2, <1>3, <2>1, <3>2, <3>3 DEF EndsInv
  <2> QED  BY <2>3, <2>4
<1>6. CASE RecvAck
  <2>1. /\ Silent /\ Silent' /\ newlines' = 0 /\ events # <<>> /\ Head(events) \in got
        /\ lSock /\ UNCHANGED <<lSock, lEof, rSock>>
    BY <1>1, <1>6 DEF RecvAck, OneCopy, Silent
  <2>2. erased' \subseteq got'
    BY <1>2, <1>6, <2>1 DEF RecvAck, EndsInv
  <2>3. Sockets'
    BY <1>1, <1>2, <2>1 DEF EndsInv, Sockets, Served
  <2>4. OneCopy'
    BY <2>1 DEF OneCopy, IsHead, Silent
  <2> QED  BY <1>1, <1>3, <2>2, <2>3, <2>4 DEF EndsInv
<1>7. CASE RecvEof
  <2>1. /\ Silent /\ Silent' /\ newlines = 0 /\ newlines' = 0 /\ ~lSock' /\ ~lEof'
        /\ UNCHANGED <<rSock, events, erased>>
    BY <1>1, <1>7 DEF RecvEof, OneCopy, Silent, Served
  <2>2. Sockets'
    BY <1>1, <1>2, <1>7, <2>1 DEF RecvEof, EndsInv, Sockets, Served
  <2>3. OneCopy'
    BY <2>1 DEF OneCopy, IsHead, Silent
  <2> QED  BY <1>1, <1>2, <1>3, <2>1, <2>2, <2>3 DEF EndsInv
<1> QED  BY <1>4, <1>5, <1>6, <1>7

LEMMA ReaderEnds ==
  ASSUME OwedInv, EndsInv, Reader \/ ReaderDies
  PROVE  EndsInv'
<1> USE DEF clientVars, socketVars, readerVars, loggerVars
<1>1. UNCHANGED <<file, sockFiles, datagrams, lpc, buff, events, readerReady, lSock, erased>>
  BY DEF Reader, Connect, Read, ReadEof, SendWaiting, ServerTakes, AckEvent, ReaderDies, ReaderGone
<1>2. Lifted' /\ Bound' = Bound
  BY <1>1 DEF EndsInv, Lifted, Bound
<1>3. newlines \in Nat
  BY DEF OwedInv
<1>4. ASSUME ReaderGone  PROVE EndsInv'
  <2>1. Silent' /\ newlines' = newlines /\ rSock' = "none" /\ lEof' = lSock /\ got' = got
    BY <1>4 DEF ReaderGone, Silent
  <2>2. Sockets'
    BY <1>1, <1>2, <2>1 DEF EndsInv, Sockets
  <2>3. Bound => OneCopy'
    BY <1>1, <2>1 DEF EndsInv, OneCopy, IsHead, Silent
  <2> QED  BY <1>1, <1>2, <2>1, <2>2, <2>3 DEF EndsInv
<1>5. CASE Connect
  <2>1. /\ Bound /\ ~Served /\ rSock' = "connecting"
        /\ UNCHANGED <<lEof, newlines, toReader, out, waiting, got>>
    BY <1>5 DEF Connect, OwedInv, Awaited
  <2>2. Silent /\ Silent'
    BY <2>1 DEF EndsInv, OneCopy, Silent
  <2>3. Sockets'
    BY <1>1, <1>2, <2>1, <2>2 DEF EndsInv, Sockets
  <2>4. OneCopy'
    BY <1>1, <2>1, <2>2 DEF EndsInv, OneCopy, IsHead, Silent
  <2> QED  BY <1>1, <1>2, <2>1, <2>3, <2>4 DEF EndsInv
<1>6. CASE Read
  <2>1. /\ toReader # <<>> /\ toReader' = <<>> /\ rSock # "connecting"
        /\ \/ out = <<>> /\ waiting = <<>> /\ out' = toReader /\ waiting' = waiting
           \/ waiting' = toReader /\ out' = out
        /\ UNCHANGED <<lEof, newlines, rSock, got>>
    BY <1>6 DEF Read
  <2>2. ~Silent
    BY <2>1 DEF Silent
  <2>3. Sockets'
    BY <1>1, <1>2, <2>1, <2>2 DEF EndsInv, Sockets, Served
  <2>4. Bound => OneCopy'
    BY <1>1, <1>3, <2>1, <2>2 DEF EndsInv, OneCopy, IsHead, Silent, Served
  <2> QED  BY <1>1, <1>2, <2>1, <2>3, <2>4 DEF EndsInv
<1>7. CASE ReadEof
  <2>1. /\ rSock = "shut" /\ rSock' = "none"
        /\ UNCHANGED <<lEof, newlines, toReader, out, waiting, got>>
    BY <1>7 DEF ReadEof
  <2>2. Sockets'
    BY <1>1, <1>2, <2>1 DEF EndsInv, Sockets, Silent
  <2>3. Bound => OneCopy'
    BY <1>1, <2>1 DEF EndsInv, OneCopy, IsHead, Silent, Served
  <2> QED  BY <1>1, <1>2, <2>1, <2>2, <2>3 DEF EndsInv
<1>8. CASE SendWaiting
  <2>1. /\ out = <<>> /\ waiting # <<>> /\ out' = waiting /\ waiting' = <<>>
        /\ UNCHANGED <<lEof, newlines, rSock, toReader, got>>
    BY <1>8 DEF SendWaiting
  <2>2. ~Silent
    BY <2>1 DEF Silent
  <2>3. Sockets'
    BY <1>1, <1>2, <2>1, <2>2 DEF EndsInv, Sockets, Served
  <2>4. Bound => OneCopy'
    BY <1>1, <1>3, <2>1, <2>2 DEF EndsInv, OneCopy, IsHead, Silent, Served
  <2> QED  BY <1>1, <1>2, <2>1, <2>3, <2>4 DEF EndsInv
<1>9. CASE ServerTakes
  <2>1. got \subseteq got' /\ UNCHANGED <<lEof, newlines, rSock, toReader, out, waiting>>
    BY <1>9 DEF ServerTakes
  <2>2. Sockets'
    BY <1>1, <1>2, <2>1 DEF EndsInv, Sockets, Silent, Served
  <2>3. Bound => OneCopy'
    BY <1>1, <2>1 DEF EndsInv, OneCopy, IsHead, Silent, Served
  <2> QED  BY <1>1, <1>2, <2>1, <2>2, <2>3 DEF EndsInv
<1>10. CASE AckEvent /\ rSock # "shut"
  <2>1. /\ out # <<>> /\ Range(out) \subseteq got
        /\ newlines' = IF rSock = "none" THEN newlines ELSE newlines + 1
        /\ out' = waiting /\ waiting' = <<>>
        /\ UNCHANGED <<lEof, rSock, toReader, got>>
    BY <1>10 DEF AckEvent
  <2>2. ~Silent
    BY <2>1 DEF Silent
  <2>3. CASE Bound
    <3>1. Served
      BY <2>2, <2>3 DEF EndsInv, OneCopy
    <3>2. Served /\ rSock = "open" /\ newlines' = newlines + 1
      BY <2>1, <3>1 DEF OwedInv, Awaited
    <3>3. /\ waiting = <<>> /\ toReader = <<>> /\ Silent'
          /\ events # <<>> /\ out = <<Head(events)>>
      BY <2>1, <2>3 DEF EndsInv, OneCopy, IsHead, Silent
    <3>4. Head(events) \in got
      <4>1. events \in Seq(Lines) /\ Head(events) \in Lines
        BY <3>3, SeqFacts DEF OwedInv, CountInv, ListTypes
      <4>2. Range(<<Head(events)>>) = {Head(events)}
        BY <4>1, HeadFacts
      <4> QED  BY <2>1, <3>3, <4>2
    <3>5. Sockets'
      BY <1>1, <1>2, <2>1, <2>3, <3>2, <3>3 DEF EndsInv, Sockets, Served, Silent
    <3>6. OneCopy'
      <4>1. ~(lpc \in {"erased", "left", "send"}) /\ ~(readerReady /\ lpc # "sent")
        BY <2>2, <2>3 DEF EndsInv, OneCopy
      <4> QED  BY <1>1, <2>1, <3>2, <3>3, <3>4, <4>1 DEF OneCopy, IsHead, Silent
    <3> QED  BY <1>1, <1>2, <2>1, <3>5, <3>6 DEF EndsInv
  <2>4. CASE ~Bound
    <3>1. ~lSock /\ rSock = "none" /\ newlines' = newlines
      BY <1>10, <2>1, <2>4 DEF EndsInv, Sockets, Served
    <3>2. sockFiles # {}
      BY <2>2 DEF EndsInv, Sockets
    <3>3. Sockets'
      BY <1>1, <1>2, <2>1, <2>4, <3>1, <3>2 DEF EndsInv, Sockets
    <3> QED  BY <1>1, <1>2, <2>1, <2>4, <3>3 DEF EndsInv
  <2> QED  BY <2>3, <2>4
<1> QED
  BY <1>4, <1>5, <1>6, <1>7, <1>8, <1>9, <1>10 DEF Reader, ReaderDies, AckEvent

\* Without SIGTERM and SIGUSR1 the list changes in no other way, and clients
\* write the file only while event_logger is down.
LEMMA FaultEnds ==
  ASSUME OneLogger, OwedInv, EndsInv, Fault
  PROVE  EndsInv'
<1>1. ~Term /\ ~Flush
  BY DEF OneLogger, Term, Flush
<1>2. CASE Boot
  <2>1. Silent'
    BY <1>2 DEF Boot, Silent
  <2> QED  BY <1>2, <2>1, GoneEnds DEF Boot
<1>3. CASE Kill
  <2>1. sockFiles' = {} => Silent'
    BY <1>3 DEF Kill, readerVars, EndsInv, Sockets, Silent
  <2> QED  BY <1>3, <2>1, GoneEnds DEF Kill, readerVars
<1> QED  BY <1>1, <1>2, <1>3, ReaderEnds DEF Fault

LEMMA ClientEnds ==
  ASSUME OneLogger, EndsInv, NEW e \in Events, Append1(e) \/ AppendToFile(e)
  PROVE  EndsInv'
<1> USE DEF loggerVars, socketVars, readerVars
<1>1. UNCHANGED <<sockFiles, lpc, buff, events, readerReady, socketVars, readerVars, erased>>
  BY DEF Append1, AppendToFile
<1>2. Sockets' /\ (Bound => OneCopy') /\ Bound' = Bound /\ erased' \subseteq got'
  BY <1>1 DEF EndsInv, Sockets, OneCopy, IsHead, Silent, Served, Bound
<1>3. CASE Append1(e)
  BY <1>1, <1>2, <1>3 DEF Append1, EndsInv, Lifted
<1>4. CASE AppendToFile(e)
  <2>1. lpc = "down"
    BY <1>4 DEF AppendToFile, OneLogger
  <2> QED  BY <1>1, <1>2, <1>4, <2>1 DEF AppendToFile, EndsInv, Lifted
<1> QED  BY <1>3, <1>4

LEMMA NextEnds == OneLogger /\ OwedInv /\ EndsInv /\ [Next]_vars => EndsInv'
<1> SUFFICES ASSUME OneLogger, OwedInv, EndsInv, [Next]_vars  PROVE EndsInv'
  OBVIOUS
<1>1. CASE UNCHANGED vars
  BY <1>1 DEF vars, loggerVars, socketVars, readerVars, EndsInv, Lifted, Sockets, OneCopy,
              IsHead, Silent, Served, Bound
<1> QED
  BY <1>1, ClientEnds, StartEnds, ListEnds, SocketEnds, ReaderEnds, FaultEnds DEF Next, Logger

\* What one logger promises.
OneLoggerInv == OwedInv /\ (OneLogger => EndsInv)

LEMMA AlwaysEnds == Spec => []OneLoggerInv
<1>1. Init => OneLoggerInv
  <2>1. Init => OwedInv
    BY InitCount DEF Init, OwedInv, LineTypes, Awaited, Served, HasLine
  <2>2. Init => EndsInv
    BY DEF Init, EndsInv, Lifted, Sockets, Silent, Served, Bound
  <2> QED  BY <2>1, <2>2 DEF OneLoggerInv
<1>2. OneLoggerInv /\ [Next]_vars => OneLoggerInv'
  <2>1. [Next]_vars => OneLogger' = OneLogger
    BY NextFaults DEF OneLogger
  <2> QED  BY <2>1, NextOwed, NextEnds DEF OneLoggerInv
<1> QED  BY <1>1, <1>2, PTL DEF Spec

\* A newline removes only an event the server has: however often unitcomm or
\* event_logger dies or the unit loses power, the two agree about the event
\* that the newline stands for.
THEOREM LoggerErasedWereTaken == Spec => []ErasedWereTaken
<1>1. OneLoggerInv => ErasedWereTaken
  BY DEF OneLoggerInv, EndsInv, ErasedWereTaken
<1> QED  BY <1>1, AlwaysEnds, PTL

-----------------------------------------------------------------------------
(* Where the events are                                                    *)

Held(e) ==
  \/ e \in fresh \cup fallback \cup got \cup discarded
  \/ e \in Range(file) \cup Range(datagrams) \cup Range(events)
  \/ e = buff

LEMMA RangeFacts ==
  ASSUME NEW S, NEW s \in Seq(S)
  PROVE  /\ Range(<<>>) = {}
         /\ \A x \in S : Range(Append(s, x)) = Range(s) \cup {x}
         /\ s # <<>> => Range(s) = {Head(s)} \cup Range(Tail(s))
<1>1. Range(<<>>) = {}
  BY DEF Range
<1>2. ASSUME NEW x \in S  PROVE Range(Append(s, x)) = Range(s) \cup {x}
  <2>1. /\ DOMAIN Append(s, x) = 1..(Len(s) + 1) /\ DOMAIN s = 1..Len(s) /\ Len(s) \in Nat
        /\ \A i \in 1..(Len(s) + 1) :
             Append(s, x)[i] = IF i = Len(s) + 1 THEN x ELSE s[i]
    OBVIOUS
  <2>2. \A i \in DOMAIN s : i \in DOMAIN Append(s, x) /\ Append(s, x)[i] = s[i]
    BY <2>1
  <2>3. Len(s) + 1 \in DOMAIN Append(s, x) /\ Append(s, x)[Len(s) + 1] = x
    BY <2>1
  <2>4. \A i \in DOMAIN Append(s, x) : i \in DOMAIN s \/ i = Len(s) + 1
    BY <2>1
  <2> QED  BY <2>2, <2>3, <2>4, Zenon DEF Range
<1>3. ASSUME s # <<>>  PROVE Range(s) = {Head(s)} \cup Range(Tail(s))
  <2>1. /\ Len(s) \in Nat \ {0} /\ DOMAIN s = 1..Len(s) /\ DOMAIN Tail(s) = 1..(Len(s) - 1)
        /\ Head(s) = s[1] /\ \A i \in 1..(Len(s) - 1) : Tail(s)[i] = s[i + 1]
    BY <1>3
  <2>2. 1 \in DOMAIN s /\ s[1] = Head(s)
    BY <2>1
  <2>3. \A i \in DOMAIN Tail(s) : i + 1 \in DOMAIN s /\ Tail(s)[i] = s[i + 1]
    BY <2>1
  <2>4. \A i \in DOMAIN s : i = 1 \/ (i - 1 \in DOMAIN Tail(s) /\ Tail(s)[i - 1] = s[i])
    BY <2>1
  <2>5. ASSUME NEW x \in Range(s)  PROVE x \in {Head(s)} \cup Range(Tail(s))
    <3>1. PICK i \in DOMAIN s : s[i] = x
      BY DEF Range
    <3> QED  BY <2>2, <2>4, <3>1 DEF Range
  <2>6. ASSUME NEW x \in {Head(s)} \cup Range(Tail(s))  PROVE x \in Range(s)
    <3>1. CASE x = Head(s)
      BY <2>2, <3>1 DEF Range
    <3>2. CASE x \in Range(Tail(s))
      <4>1. PICK i \in DOMAIN Tail(s) : Tail(s)[i] = x
        BY <3>2 DEF Range
      <4> QED  BY <2>3, <4>1 DEF Range
    <3> QED  BY <2>6, <3>1, <3>2
  <2> QED  BY <2>5, <2>6
<1> QED  BY <1>1, <1>2, <1>3

\* An end of event_logger: what it held is saved, or is given up knowingly.
LEMMA GoneHeld ==
  ASSUME OwedInv, EndsInv, NEW e \in Events, Held(e),
         (lpc = "loaded" /\ CloseAndExit) \/ Kill \/ Boot
  PROVE  Held(e)'
<1>1. CASE lpc = "loaded" /\ CloseAndExit
  <2>1. /\ file' = IF Saved # <<>> THEN Saved ELSE file
        /\ discarded' = discarded \cup (Range(events) \ Range(Saved)) \cup Range(datagrams)
                          \cup ({buff} \ {NoEvent})
        /\ UNCHANGED <<fresh, fallback, got>>
    BY <1>1 DEF CloseAndExit, clientVars, readerVars
  <2>2. e # NoEvent
    BY LoggerConstants
  <2>3. Saved = <<>> => Range(Saved) = {}
    BY DEF Range
  <2>4. e \in Range(events) => Held(e)'
    BY <2>1, <2>3 DEF Held
  <2>5. e \in Range(file) => Held(e)'
    <3>1. file = <<>>
      BY <1>1 DEF EndsInv, Lifted
    <3> QED  BY <3>1 DEF Range
  <2> QED  BY <2>1, <2>2, <2>4, <2>5 DEF Held
<1>2. CASE Kill
  BY <1>2, LoggerConstants DEF Kill, Held, clientVars, readerVars
<1>3. CASE Boot
  BY <1>3, LoggerConstants DEF Boot, Held
<1> QED  BY <1>1, <1>2, <1>3

LEMMA ListHeld ==
  ASSUME OwedInv, EndsInv, NEW e \in Events, Held(e), Logger
  PROVE  Held(e)'
<1> USE DEF clientVars, socketVars, readerVars, loggerVars
<1>1. /\ file \in Seq(Lines) /\ datagrams \in Seq(Lines) /\ events \in Seq(Lines)
      /\ buff \in Lines /\ e # NoEvent
  BY LoggerConstants DEF OwedInv, CountInv, ListTypes
<1>2. CASE Start
  <2>1. events = <<>> /\ UNCHANGED <<clientVars, file, datagrams, buff, got, discarded>>
    BY <1>2 DEF Start, EndsInv, Lifted
  <2>2. Range(events) = {}
    BY <2>1 DEF Range
  <2> QED  BY <2>1, <2>2 DEF Held
<1>3. CASE Unlink
  <2>1. events = file /\ UNCHANGED <<clientVars, datagrams, buff, events, got, discarded>>
    BY <1>3 DEF Unlink, EndsInv, Lifted
  <2> QED  BY <2>1 DEF Held
<1>4. CASE Bind
  <2>1. CASE CloseAndExit
    BY <1>4, <2>1, GoneHeld DEF Bind
  <2>2. CASE ~CloseAndExit
    BY <1>4, <2>2 DEF Bind, Held
  <2> QED  BY <2>1, <2>2
<1>5. CASE Recv
  <2>1. /\ datagrams # <<>> /\ buff' = Head(datagrams) /\ datagrams' = Tail(datagrams)
        /\ buff = NoEvent
        /\ UNCHANGED <<clientVars, file, events, got, discarded>>
    BY <1>5 DEF Recv, EndsInv, Lifted
  <2>2. Range(datagrams) = {buff'} \cup Range(datagrams')
    BY <1>1, <2>1, RangeFacts
  <2> QED  BY <1>1, <2>1, <2>2 DEF Held
<1>6. CASE Push
  <2>1. events' = Append(events, buff) /\ UNCHANGED <<clientVars, file, datagrams, got, discarded>>
    BY <1>6 DEF Push
  <2>2. Range(events') = Range(events) \cup {buff}
    BY <1>1, <2>1, RangeFacts
  <2> QED  BY <2>1, <2>2 DEF Held
<1>7. CASE RecvAck
  <2>1. UNCHANGED <<clientVars, file, datagrams, buff, got, discarded>>
    BY <1>7 DEF RecvAck
  <2>2. /\ events # <<>> /\ events' = Tail(events) /\ Head(events) \in got
    BY <1>7 DEF RecvAck, EndsInv, OneCopy, Bound
  <2>3. Range(events) = {Head(events)} \cup Range(events')
    BY <1>1, <2>2, RangeFacts
  <2> QED  BY <2>1, <2>2, <2>3 DEF Held
<1>8. CASE CountEvents \/ WriteCount \/ SendEvent \/ Sent \/ Accept \/ RecvEof
  <2>1. UNCHANGED <<clientVars, file, datagrams, buff, events, got, discarded>>
    BY <1>8 DEF CountEvents, WriteCount, SendEvent, Sent, Accept, RecvEof
  <2> QED  BY <2>1 DEF Held
<1> QED  BY <1>2, <1>3, <1>4, <1>5, <1>6, <1>7, <1>8 DEF Logger

LEMMA NextHeld ==
  ASSUME OneLogger, OwedInv, EndsInv, NEW e \in Events, Held(e), [Next]_vars
  PROVE  Held(e)'
<1> USE DEF clientVars, socketVars, readerVars, loggerVars
<1>1. CASE UNCHANGED vars
  BY <1>1 DEF vars, Held
<1>2. ASSUME NEW x \in Events, Append1(x)  PROVE Held(e)'
  <2>1. Range(datagrams) \subseteq Range(datagrams') /\
        (e = x => e \in fallback' \/ e \in Range(datagrams'))
    <3>1. datagrams \in Seq(Lines) /\ x \in Lines
      BY DEF OwedInv, CountInv, ListTypes, Lines
    <3>2. Range(Append(datagrams, x)) = Range(datagrams) \cup {x}
      BY <3>1, RangeFacts
    <3> QED  BY <1>2, <3>2 DEF Append1
  <2>2. /\ fresh' = fresh \ {x} /\ fallback \subseteq fallback'
        /\ UNCHANGED <<file, events, buff, got, discarded>>
    BY <1>2 DEF Append1
  <2> QED  BY <2>1, <2>2 DEF Held
<1>3. ASSUME NEW x \in Events, AppendToFile(x)  PROVE Held(e)'
  <2>1. Range(file') = Range(file) \cup {x}
    <3>1. file \in Seq(Lines) /\ x \in Lines
      BY DEF OwedInv, CountInv, ListTypes, Lines
    <3> QED  BY <1>3, <3>1, RangeFacts DEF AppendToFile
  <2>2. fallback' = fallback \ {x} /\ UNCHANGED <<fresh, datagrams, events, buff, got, discarded>>
    BY <1>3 DEF AppendToFile
  <2> QED  BY <2>1, <2>2 DEF Held
<1>4. CASE Reader \/ ReaderDies
  <2>1. got \subseteq got' /\ UNCHANGED <<clientVars, file, datagrams, buff, events, discarded>>
    BY <1>4 DEF Reader, Connect, Read, ReadEof, SendWaiting, ServerTakes, AckEvent, ReaderDies,
                ReaderGone
  <2> QED  BY <2>1 DEF Held
<1>5. CASE Fault /\ ~ReaderDies
  <2>1. Boot \/ Kill
    BY <1>5 DEF Fault, OneLogger, Term, Flush
  <2> QED  BY <2>1, GoneHeld
<1> QED  BY <1>1, <1>2, <1>3, <1>4, <1>5, ListHeld DEF Next

\* An event that was handed in is in the list, in the saved file, on its way
\* into the list, or the server has it, unless an end of event_logger or of the
\* unit took it: the newline of unitcomm never removes another one.
THEOREM LoggerKept == Spec => []Kept
<1> DEFINE AllHeld == OneLogger => \A e \in Events : Held(e)
<1>1. Init => AllHeld
  BY DEF Init, Held
<1>2. OneLoggerInv /\ AllHeld /\ [Next]_vars => AllHeld'
  <2>1. [Next]_vars => OneLogger' = OneLogger
    BY NextFaults DEF OneLogger
  <2> QED  BY <2>1, NextHeld DEF OneLoggerInv
<1>3. AllHeld => Kept
  BY DEF Held, Kept
<1> HIDE DEF AllHeld
<1>4. Spec => []AllHeld
  BY <1>1, <1>2, AlwaysEnds, PTL DEF Spec
<1> QED  BY <1>3, <1>4, PTL

-----------------------------------------------------------------------------
(* The types                                                               *)

Typed ==
  /\ fresh \subseteq Events /\ fallback \subseteq Events
  /\ got \subseteq Events /\ erased \subseteq Events /\ discarded \subseteq Events
  /\ file \in Seq(Events) /\ events \in Seq(Events) /\ datagrams \in Seq(Events)
  /\ toReader \in Seq(Events) /\ out \in Seq(Events) /\ waiting \in Seq(Events)
  /\ buff \in Events \cup {NoEvent} /\ (lpc = "got" => buff \in Events)

Places ==
  /\ lpc \in {"down", "read", "loaded", "select", "got", "pushed", "counted",
             "erased", "left", "send", "sent"}
  /\ rSock \in {"none", "connecting", "open", "shut"}
  /\ sockFiles \subseteq {"ReaderPath", "LoggerPath"}
  /\ readerReady \in BOOLEAN /\ lSock \in BOOLEAN /\ lEof \in BOOLEAN
  /\ faults \in FaultSets

LEMMA RangeType ==
  ASSUME NEW S, NEW s \in Seq(S)
  PROVE  Range(s) \subseteq S
<1>1. \A i \in DOMAIN s : s[i] \in S
  OBVIOUS
<1> QED  BY <1>1 DEF Range

LEMMA NextPlaces == Places /\ [Next]_vars => Places'
<1> SUFFICES ASSUME Places, [Next]_vars  PROVE Places'
  OBVIOUS
<1> USE DEF Places, clientVars, loggerVars, socketVars, readerVars
<1>1. CASE UNCHANGED vars
  BY <1>1 DEF vars
<1>2. ASSUME NEW e \in Events, Append1(e) \/ AppendToFile(e)  PROVE Places'
  BY <1>2 DEF Append1, AppendToFile
<1>3. CASE Start \/ Unlink \/ Recv \/ Push \/ CountEvents \/ WriteCount
  BY <1>3 DEF Start, Unlink, Recv, Push, CountEvents, WriteCount
<1>4. CASE SendEvent \/ Sent \/ Accept \/ RecvAck \/ RecvEof
  BY <1>4 DEF SendEvent, Sent, Accept, RecvAck, RecvEof
<1>5. CASE Reader \/ ReaderDies
  BY <1>5 DEF Reader, Connect, Read, ReadEof, SendWaiting, ServerTakes, AckEvent, ReaderDies,
              ReaderGone
<1>6. CASE CloseAndExit
  BY <1>6 DEF CloseAndExit, Gone
<1>7. CASE Kill \/ Boot
  BY <1>7 DEF Kill, Boot, Gone
<1>8. CASE Bind /\ ~CloseAndExit
  BY <1>8 DEF Bind
<1>9. CASE Flush /\ ~Kill
  BY <1>9 DEF Flush, vars
<1> QED
  BY <1>1, <1>2, <1>3, <1>4, <1>5, <1>6, <1>7, <1>8, <1>9
  DEF Next, Logger, Fault, Term

LEMMA GoneTyped ==
  ASSUME Typed, CloseAndExit \/ Kill \/ Boot
  PROVE  Typed'
<1> USE DEF clientVars, readerVars
<1>1. /\ Range(events) \subseteq Events /\ Range(datagrams) \subseteq Events
      /\ {buff} \ {NoEvent} \subseteq Events /\ <<>> \in Seq(Events) /\ Saved \in Seq(Events)
  <2>1. Range(events) \subseteq Events /\ Range(datagrams) \subseteq Events
    BY RangeType DEF Typed
  <2>2. <<>> \in Seq(Events)
    OBVIOUS
  <2> QED  BY <2>1, <2>2, SavedType DEF Typed
<1>2. /\ lpc' = "down" /\ buff' = NoEvent /\ events' = <<>> /\ datagrams' = <<>>
      /\ fresh' = fresh /\ fallback' \subseteq fallback /\ got' = got /\ erased' = erased
  BY DEF CloseAndExit, Kill, Boot, Gone
<1>3. /\ toReader' \in {toReader, <<>>} /\ out' \in {out, <<>>} /\ waiting' \in {waiting, <<>>}
      /\ file' \in {file, Saved}
  BY DEF CloseAndExit, Kill, Boot
<1>4. discarded' \subseteq Events
  BY <1>1 DEF CloseAndExit, Kill, Boot, Typed
<1> QED  BY <1>1, <1>2, <1>3, <1>4 DEF Typed

LEMMA ListTyped ==
  ASSUME Typed, Logger
  PROVE  Typed'
<1> USE DEF clientVars, loggerVars, socketVars, readerVars
<1>1. <<>> \in Seq(Events)
  OBVIOUS
<1>2. CASE Start \/ Unlink \/ CountEvents \/ WriteCount \/ Sent \/ Accept \/ RecvEof
  BY <1>1, <1>2 DEF Start, Unlink, CountEvents, WriteCount, Sent, Accept, RecvEof, Typed
<1>3. CASE Bind
  <2>1. CASE CloseAndExit
    BY <2>1, GoneTyped
  <2>2. CASE ~CloseAndExit
    BY <1>3, <2>2 DEF Bind, Typed
  <2> QED  BY <2>1, <2>2
<1>4. CASE Recv
  <2>1. Head(datagrams) \in Events /\ Tail(datagrams) \in Seq(Events)
    BY <1>4, SeqFacts DEF Recv, Typed
  <2> QED  BY <1>4, <2>1 DEF Recv, Typed
<1>5. CASE Push
  <2>1. Append(events, buff) \in Seq(Events)
    BY <1>5, SeqFacts DEF Push, Typed
  <2> QED  BY <1>5, <2>1 DEF Push, Typed
<1>6. CASE SendEvent
  <2>1. events # <<>> => Append(toReader, Head(events)) \in Seq(Events)
    BY SeqFacts DEF Typed
  <2> QED  BY <1>6, <2>1 DEF SendEvent, Typed
<1>7. CASE RecvAck
  <2>1. events # <<>> => Head(events) \in Events /\ Tail(events) \in Seq(Events)
    BY SeqFacts DEF Typed
  <2> QED  BY <1>7, <2>1 DEF RecvAck, Typed
<1> QED  BY <1>2, <1>3, <1>4, <1>5, <1>6, <1>7 DEF Logger

LEMMA ReaderTyped ==
  ASSUME Typed, Reader \/ ReaderDies
  PROVE  Typed'
<1> USE DEF clientVars, loggerVars, socketVars, readerVars
<1>1. <<>> \in Seq(Events) /\ Range(out) \subseteq Events
  <2>1. <<>> \in Seq(Events)
    OBVIOUS
  <2> QED  BY <2>1, RangeType DEF Typed
<1>2. /\ UNCHANGED <<fresh, fallback, erased, discarded, file, events, datagrams, buff, lpc>>
      /\ got' = got \/ got' = got \cup Range(out)
      /\ toReader' \in {toReader, <<>>}
      /\ out' \in {out, toReader, waiting, <<>>}
      /\ waiting' \in {waiting, toReader, <<>>}
  BY DEF Reader, Connect, Read, ReadEof, SendWaiting, ServerTakes, AckEvent, ReaderDies, ReaderGone
<1> QED  BY <1>1, <1>2 DEF Typed

LEMMA NextTyped == Typed /\ [Next]_vars => Typed'
<1> SUFFICES ASSUME Typed, [Next]_vars  PROVE Typed'
  OBVIOUS
<1> USE DEF clientVars, loggerVars, socketVars, readerVars
<1>1. CASE UNCHANGED vars
  BY <1>1 DEF vars, Typed
<1>2. ASSUME NEW e \in Events, Append1(e)  PROVE Typed'
  <2>1. Append(datagrams, e) \in Seq(Events)
    BY SeqFacts DEF Typed
  <2> QED  BY <1>2, <2>1 DEF Append1, Typed
<1>3. ASSUME NEW e \in Events, AppendToFile(e)  PROVE Typed'
  <2>1. Append(file, e) \in Seq(Events)
    BY SeqFacts DEF Typed
  <2> QED  BY <1>3, <2>1 DEF AppendToFile, Typed
<1>4. CASE Flush /\ ~Kill
  <2>1. CASE UNCHANGED vars
    BY <1>1, <2>1
  <2>2. CASE ~UNCHANGED vars
    <3>1. /\ readerReady \/ events # <<>>
          /\ events' = IF readerReady THEN <<>> ELSE SubSeq(events, 1, 1)
          /\ discarded' = discarded \cup (Range(events) \ Range(events'))
          /\ UNCHANGED <<clientVars, file, datagrams, lpc, buff, toReader, readerVars, erased>>
      BY <1>4, <2>2 DEF Flush
    <3>2. <<>> \in Seq(Events) /\ Range(events) \subseteq Events
      <4>1. <<>> \in Seq(Events)
        OBVIOUS
      <4> QED  BY <4>1, RangeType DEF Typed
    <3>3. events' \in Seq(Events)
      <4>1. CASE readerReady
        BY <3>1, <3>2, <4>1
      <4>2. CASE ~readerReady
        BY <3>1, <4>2, SeqFacts DEF Typed
      <4> QED  BY <4>1, <4>2
    <3> QED  BY <3>1, <3>2, <3>3 DEF Typed
  <2> QED  BY <2>1, <2>2
<1> QED
  BY <1>1, <1>2, <1>3, <1>4, GoneTyped, ListTyped, ReaderTyped DEF Next, Fault, Term

\* Whatever ends when, the list, the file and the lines hold events only, and
\* neither a count nor the number of unread newlines falls below zero.
THEOREM LoggerTypeOK == Spec => []TypeOK
<1>1. Init => OwedInv /\ Typed /\ Places
  <2>1. <<>> \in Seq(Events)
    OBVIOUS
  <2>2. Init => Typed
    BY <2>1 DEF Init, Typed
  <2>3. Init => Places
    BY DEF Init, Places
  <2>4. Init => OwedInv
    BY InitCount DEF Init, OwedInv, LineTypes, Awaited, Served, HasLine
  <2> QED  BY <2>2, <2>3, <2>4
<1>2. OwedInv /\ Typed /\ Places => TypeOK
  <2>1. OwedInv => num \in Nat /\ countFile \in Nat /\ newlines \in Nat
    BY DEF OwedInv, CountInv, ListTypes
  <2> QED  BY <2>1, Zenon DEF Typed, Places, TypeOK
<1> QED  BY <1>1, <1>2, NextOwed, NextTyped, NextPlaces, PTL DEF Spec
=============================================================================
