--------------------------- MODULE UsageCounters ---------------------------
(***************************************************************************)
(* The monthly usage of the connection that monitor counts                 *)
(* (src/application/monitor.cpp: getWan, getMonthlyUsage,                  *)
(* updateMonthlyUsage, writeMonthlyUsage): differences of the byte counter *)
(* of the interface, summed up in memory, copied to /tmp each second and   *)
(* to UsageDir at the end of a month and of the process.  The two          *)
(* directions are one counter, and the short term usage, which is kept the *)
(* same way, is left out.                                                  *)
(***************************************************************************)
EXTENDS Integers

CONSTANTS Wrap,        \* the counter of the interface is taken modulo Wrap
          LastMonth,   \* bound: months 1..LastMonth
          MaxTraffic,  \* bound: units of traffic
          MaxEnds,     \* bound: ends of the process
          Worlds       \* the sets world may be

ASSUME UsageConstants ==
    /\ Wrap \in Nat /\ Wrap > 1 /\ LastMonth \in Nat /\ LastMonth > 0
    /\ MaxTraffic \in Nat /\ MaxEnds \in Nat
    /\ \A w \in Worlds : w \subseteq {"month", "clock", "term", "off", "crash",
                                     "loss", "feature", "early", "reset", "inside"}

VARIABLES
    up,          \* the interface exists
    counter,     \* its byte counter
    place,       \* "off", "down", "dialing" or "up"
    last,        \* waninfo.last_rx_bytes
    monthly,     \* waninfo.monthly_usage
    usageMonth,  \* waninfo.usage_month, 0 for ""
    first,       \* cellinfo.first_connection
    tmp, file,   \* /tmp/<month> and UsageDir/<month>, None without the file
    clock,       \* the month of the system time
    actual,      \* history: traffic
    unread,      \* history: traffic since getWan looked last
    kept,        \* history: traffic that upLoop counted
    ends,
    world        \* what may happen in this behaviour, see the actions

memoryVars == <<last, monthly, usageMonth, first>>
fileVars == <<tmp, file>>
boundVars == <<ends, world>>
linkVars == <<up, counter, actual, unread>>
vars == <<place, memoryVars, fileVars, clock, linkVars, kept, boundVars>>

None == -1
Months == 1..LastMonth

TypeOK ==
    /\ up \in BOOLEAN /\ counter \in 0..(Wrap - 1) /\ last \in 0..(Wrap - 1)
    /\ place \in {"off", "down", "dialing", "up"}
    /\ monthly \in Nat /\ usageMonth \in 0..LastMonth /\ first \in BOOLEAN
    /\ tmp \in [Months -> Nat \cup {None}] /\ file \in [Months -> Nat \cup {None}]
    /\ clock \in Months /\ actual \in 0..MaxTraffic /\ unread \in 0..(Wrap - 1)
    /\ kept \in Nat /\ ends \in 0..MaxEnds
    /\ world \in Worlds

Init ==
    /\ up = FALSE /\ counter = 0 /\ place = "down"
    /\ last = 0 /\ monthly = 0 /\ usageMonth = 0 /\ first = TRUE
    /\ tmp = [m \in Months |-> None] /\ file = [m \in Months |-> None]
    /\ clock = 1 /\ actual = 0 /\ unread = 0 /\ kept = 0 /\ ends = 0
    /\ world \in Worlds

-----------------------------------------------------------------------------
(* What monitor does                                                       *)

\* getWan: a counter smaller than before has wrapped.
Delta == IF counter < last THEN Wrap - last + counter ELSE counter - last

\* What getMonthlyUsage finds of a month.
Stored(m) == IF tmp[m] # None THEN tmp[m] ELSE IF file[m] # None THEN file[m] ELSE 0
\* Mutant of Recall: UsageDir is not looked at.
RecallTmp ==
    LET total == (IF tmp[clock] # None THEN tmp[clock] ELSE 0) + monthly
    IN /\ usageMonth' = clock /\ monthly' = total
       /\ tmp' = [tmp EXCEPT ![clock] = total]
       /\ file' = [file EXCEPT ![clock] = IF @ = None THEN total ELSE @]

\* getMonthlyUsage, and updateMonthlyUsage after it.
Recall ==
    LET total == Stored(clock) + monthly
    IN /\ usageMonth' = clock /\ monthly' = total
       /\ tmp' = [tmp EXCEPT ![clock] = total]
       /\ file' = [file EXCEPT ![clock] = IF @ = None THEN total ELSE @]

\* Mutant of Update: the usage of the month that ended is not written.
UpdateOnly(n) ==
    IF clock = usageMonth
    THEN /\ tmp' = [tmp EXCEPT ![clock] = n] /\ monthly' = n
         /\ UNCHANGED <<file, usageMonth>>
    ELSE /\ tmp' = [m \in Months |-> IF m = clock THEN 0
                                     ELSE IF m = usageMonth THEN None ELSE tmp[m]]
         /\ file' = [file EXCEPT ![clock] = 0]
         /\ monthly' = 0 /\ usageMonth' = clock

\* updateMonthlyUsage with the usage n: a new month begins with nothing.  The
\* month "" has no file that could be written.
Update(n) ==
    IF clock = usageMonth
    THEN /\ tmp' = [tmp EXCEPT ![clock] = n] /\ monthly' = n
         /\ UNCHANGED <<file, usageMonth>>
    ELSE /\ tmp' = [m \in Months |-> IF m = clock THEN 0
                                     ELSE IF m = usageMonth THEN None ELSE tmp[m]]
         /\ file' = [m \in Months |-> IF m = clock THEN 0
                                      ELSE IF m = usageMonth THEN n ELSE file[m]]
         /\ monthly' = 0 /\ usageMonth' = clock

\* writeMonthlyUsage
Write == file' = [m \in Months |-> IF m = usageMonth THEN monthly ELSE file[m]]

\* Mutant of Dial: last_rx_bytes and last_tx_bytes stay.
DialKeeps ==
    /\ place = "down" /\ place' = "dialing"
    /\ up' = TRUE /\ counter' = 0 /\ unread' = 0
    /\ UNCHANGED <<memoryVars, fileVars, clock, actual, kept, boundVars>>

\* dial: a new interface counts from 0.
Dial ==
    /\ place = "down" /\ place' = "dialing"
    /\ up' = TRUE /\ counter' = 0 /\ last' = 0 /\ unread' = 0
    /\ UNCHANGED <<monthly, usageMonth, first, fileVars, clock, actual, kept, boundVars>>

\* While the address is waited for, getWan counts in memory.
ReadDialing ==
    /\ place = "dialing" /\ up
    /\ monthly' = monthly + Delta /\ last' = counter /\ unread' = 0
    /\ UNCHANGED <<place, usageMonth, first, fileVars, clock, up, counter, actual,
                   kept, boundVars>>

\* main after connect(): the first time, what was counted before is added.
Connected ==
    /\ place \in {"down", "dialing"} /\ up /\ place' = "up"
    /\ IF first THEN Recall ELSE Update(monthly)
    /\ first' = FALSE
    /\ UNCHANGED <<last, clock, linkVars, kept, boundVars>>

\* A second of upLoop.
ReadUp ==
    /\ place = "up" /\ up
    /\ last' = counter /\ unread' = 0 /\ kept' = kept + Delta
    /\ IF Delta > 0 THEN Update(monthly + Delta)
       ELSE UNCHANGED <<monthly, usageMonth, fileVars>>
    /\ UNCHANGED <<place, first, clock, up, counter, actual, boundVars>>

\* getWan finds no interface.
LinkLost ==
    /\ place \in {"dialing", "up"} /\ ~up /\ place' = "down"
    /\ UNCHANGED <<memoryVars, fileVars, clock, linkVars, kept, boundVars>>

\* getWifiEnable: a new short term begins, with "early" also before the first
\* connection.
FeatureChange ==
    /\ "feature" \in world /\ (first => "early" \in world) /\ place # "off"
    /\ ends < MaxEnds /\ ends' = ends + 1
    /\ Update(monthly)
    /\ UNCHANGED <<place, last, first, clock, linkVars, kept, world>>

\* The process starts: getWan(true) begins with the counter as it is.
Start ==
    /\ place = "off" /\ place' = "down"
    /\ last' = IF up THEN counter ELSE 0
    /\ unread' = 0
    /\ monthly' = 0 /\ usageMonth' = 0 /\ first' = TRUE
    /\ UNCHANGED <<fileVars, clock, up, counter, actual, kept, boundVars>>

\* on_term; powerOff and reboot, after which /tmp is empty; a crash; a loss of
\* power.
End ==
    /\ place # "off" /\ place' = "off" /\ ends < MaxEnds /\ ends' = ends + 1
    /\ \/ "term" \in world /\ Write /\ UNCHANGED <<tmp, up>>
       \/ "off" \in world /\ Write /\ tmp' = [m \in Months |-> None] /\ up' = FALSE
       \/ "crash" \in world /\ UNCHANGED <<file, tmp, up>>
       \/ "loss" \in world /\ UNCHANGED file /\ tmp' = [m \in Months |-> None] /\ up' = FALSE
    /\ UNCHANGED <<memoryVars, clock, counter, actual, unread, kept, world>>

\* The end comes inside updateMonthlyUsage, after k of its steps for a new month:
\* unlink, write, clear, change the month, write.  on_term then writes what is in
\* memory for the month that is in memory.
PartlyUpdated(n, k) ==
    LET half == [m \in Months |-> IF m = usageMonth /\ k >= 2 THEN n
                                 ELSE IF m = clock /\ k >= 5 THEN 0 ELSE file[m]]
        month == IF k >= 4 THEN clock ELSE usageMonth
    IN /\ k > 0 => clock # usageMonth
       /\ tmp' = [m \in Months |-> IF m = usageMonth /\ k >= 1 THEN None ELSE tmp[m]]
       /\ \/ "crash" \in world /\ file' = half
          \/ "term" \in world
             /\ file' = [m \in Months |-> IF m = month THEN (IF k >= 3 THEN 0 ELSE n)
                                          ELSE half[m]]

\* on_term inside getMonthlyUsage, when usage_month is set and nothing is added.
PartlyRecalled ==
    /\ "term" \in world /\ file' = [file EXCEPT ![clock] = monthly] /\ UNCHANGED tmp

EndInside ==
    /\ "inside" \in world /\ place # "off" /\ place' = "off"
    /\ ends < MaxEnds /\ ends' = ends + 1
    /\ \/ /\ ~first /\ (up \/ "feature" \in world)
          /\ \E k \in 0..5 : \E n \in {monthly} \cup (IF place = "up" /\ up THEN {monthly + Delta} ELSE {}) :
               PartlyUpdated(n, k)
       \/ first /\ up /\ PartlyRecalled
    /\ UNCHANGED <<memoryVars, clock, linkVars, kept, world>>

-----------------------------------------------------------------------------
(* The world                                                               *)

\* Less than Wrap passes between two looks at the counter.
Traffic ==
    /\ up /\ actual < MaxTraffic /\ unread < Wrap - 1
    /\ actual' = actual + 1 /\ unread' = unread + 1
    /\ counter' = (counter + 1) % Wrap
    /\ UNCHANGED <<up, place, memoryVars, fileVars, clock, kept, boundVars>>

Drop ==
    /\ up /\ up' = FALSE
    /\ UNCHANGED <<counter, actual, unread, place, memoryVars, fileVars, clock, kept, boundVars>>

\* The LTE modem counts from 0 again under an interface that stays.
ModemReset ==
    /\ "reset" \in world /\ up /\ counter # 0 /\ counter' = 0
    /\ UNCHANGED <<up, actual, unread, place, memoryVars, fileVars, clock, kept, boundVars>>

\* A month goes by; with "clock" the time is also set.
Month ==
    /\ \/ "month" \in world /\ clock < LastMonth /\ clock' = clock + 1
       \/ "clock" \in world /\ clock' \in Months \ {clock}
    /\ UNCHANGED <<place, memoryVars, fileVars, linkVars, kept, boundVars>>

Next ==
    \/ Dial \/ ReadDialing \/ Connected \/ ReadUp \/ LinkLost \/ FeatureChange
    \/ Start \/ End \/ EndInside \/ Traffic \/ Drop \/ ModemReset \/ Month

Spec == Init /\ [][Next]_vars

-----------------------------------------------------------------------------
(* Properties                                                              *)

\* What is known of a month: in memory once it was recalled, else in a file.
Usage(m) == IF m = usageMonth /\ place # "off" THEN monthly ELSE Stored(m)

\* f[1] + ... + f[LastMonth]
Total(f) ==
    LET upTo[m \in 0..LastMonth] == IF m = 0 THEN 0 ELSE upTo[m - 1] + f[m]
    IN upTo[LastMonth]
Known == Total([m \in Months |-> Usage(m)])

\* Nothing is counted twice, across wraps, connections, restarts, crashes and
\* months, as long as the counter of an LTE modem does not begin anew under its
\* interface and no short term begins before the first connection.
NotOverCounted ==
    world \cap {"reset", "early"} = {} =>
        Known + (IF usageMonth = 0 /\ place # "off" THEN monthly ELSE 0) <= actual

\* What upLoop counted stays counted in its month or the next one, as long as
\* the process ends orderly, not inside an update, and nobody sets the clock.
NothingForgotten ==
    world \cap {"crash", "loss", "clock", "early", "inside"} = {} => Known >= kept

\* The file of a month never shrinks, whatever ends the process but on_term,
\* which writes also a usage that was not yet recalled.
NeverLess ==
    [][world \cap {"term", "clock", "early"} = {} =>
         \A m \in Months : file'[m] >= file[m]]_file
=============================================================================
