# A verification of the telematics unit's software

The repository holds the software of a car's telematics unit: some eighty
programs, started by `respawner`, that talk through files in `/tmp`, Unix
sockets, serial lines and signals.  This directory models its core in TLA+: the
way of an event from the program that notices it to the TruManager server and of
a command back; the program that decides when the unit is connected and when it
powers off; the one that keeps all the others running; the one that replaces the
firmware; the one that shares the line to the car's controller; and the one that
calls for help after a crash.  TLC checks the models on small instances, and
TLAPS proves theorems about all of them for every instance.

All source lines below are lines of the commit next to this directory.

## 1. The system

| Part | Source | State it keeps | Operations | Talks to |
|---|---|---|---|---|
| unitcomm, link | `src/src/unitcomm.cpp`, class `Connection` | `_state`, `_sendseq`, the outstanding frame, one waiting event, a timer and a retry counter; files with the server index and the connection state | open, close, restart, clear; frames and timeouts by state | the server (UDP), event_logger (newlines), monitor (`CommStateFile`) |
| unitcomm, main loop | same, `main`, `handleConnections`, handlers | flags set by signals, the vector `commands` | a pass of select, timeouts, close logic, restart, command pump | monitor (SIGHUP, SIGUSR1, `CommNeededFile`), the processes of commands |
| event_logger | `src/application/event_logger.cpp` | the list of events, `readerReady`, `EventLogFile`, `EventCountFile`, two sockets | receive, send the head, drop the head for a newline, flush, save at exit | all programs (`EventLog`), unitcomm |
| EventLog | `src/include/eventLog.h`, `appendToFile.h` | a socket | append: datagram, or the file when there is no logger | event_logger |
| monitor | `src/application/monitor.cpp` | state of cell link, ignition, power, usage counters | WAN up and down, close handshake with unitcomm, SMS wake-up, power off, reboot | nearly everything |
| respawner | `src/application/respawner.cpp` | the list of commands with pid and state | fork, reap, reread, stop | its children, monitor |
| upgrade, updatefiles | `src/application/upgrade.cpp`, `updatefiles.cpp` | a stage recorded in a file | fetch, verify, install, retry after a reboot | monitor |
| OTA schedules, conditions | `src/application/ota_schedules.cpp`, `ota_check_conditions.cpp` | none | next window of a schedule | monitor |
| usage counters | `monitor.cpp`, `getWan` ... `writeMonthlyUsage` | byte counters of the interface, sums in memory, in `/tmp` and in `UsageDir` | count each second, write at the end of a month and of the process | the interface |
| vic_talker | `vic_talker.cpp` | one queue of requests, a map of connections, one timer | accept, queue, send the head, pass the answer on, shut out all but the loader | all programs, the VIC (serial) |
| eCall | `eCallTTS.cpp` | state of the call, `ecallAckd`, `dtmfTTS`, retries; `EcallFile` | take the modem, call, play, acknowledge, report, wait for callbacks, give the modem back | the modem, monitor, respawner, event_logger |
| modem talkers, GPS, configuration, statistics, tools | `src/application/*` | device protocols | AT commands, serial frames, files | devices |

What is hard in it:

* frames to and from the server get lost, repeated and reordered, and both
  sides number them with 16 bits that start anew with every handshake;
* events, command output and repeated frames compete for *one* outstanding
  frame, and the ACK of that frame ends in a newline by which another process
  forgets an event;
* processes die (respawner starts them again), lose power, and are stopped by
  signals at any point, with state in files, sockets and memory that no longer
  agree;
* the handlers of event_logger change the same list as its main program;
* one serial line, one modem and one set of file systems are shared by processes
  that know of each other through lock files, flag files and `pgrep`;
* power may go at any step of an upgrade, and one word in a file has to tell
  the next start what is left;
* the choice of a server lives in a list that can be replaced, an index in a
  file, an index in memory and two address members.

The properties that make the parts correct follow from that: no event is
acknowledged before the server has it, none is lost, none is waited for for
ever; output of commands arrives complete and in order and no command runs
twice; whoever waits for an answer has a timer; the recorded server is the
connected one; a close request is answered and abandons nothing; a unit that has
to power off does and one that is wanted is connected; no process runs twice;
the boot loader never meets half a file system; nothing that was counted is
forgotten; after a crash somebody is called and the outcome is reported.  `PROJECT.json`
lists the hazards one by one, each at its line, with the property that covers it
or the reason why none does.

## 2. The modules

| Module | Models | Lines |
|---|---|---|
| `AtLeastOnce` | abstract: one pending item, taken any number of times, done only after it was taken | 36 |
| `ServerLink` | class `Connection` of unitcomm for `connections[0]`, the network, the servers | 795 |
| `UnitComm` | `main`, `handleConnections` and the signal handlers, around `ServerLink` | 275 |
| `EventLogger` | event_logger, the clients' `EventLog`, the reader | 492 |
| `Monitor` | `main`, `connect`, `upLoop`, `waitingLoop` and the handlers of monitor | 583 |
| `UsageCounters` | the monthly usage monitor counts | 265 |
| `Respawner` | respawner and its children | 290 |
| `Upgrade` | upgrade, its download, and monitor's part: the way down and the boot | 452 |
| `VicTalker` | vic_talker, its clients and the VIC | 422 |
| `ECall` | eCall with the internal modem, and the unit around it | 471 |
| `*_proofs` | the theorems about the module of that name (`UnitComm_proofs` also holds those about `ServerLink`) | 10225 |
| `MC*` | instances for TLC, one `.cfg` per run | |

`UnitComm` extends `ServerLink` and implements it; `ServerLink` implements
`AtLeastOnce`.  The other modules stand alone: what they need of their neighbours is
reduced to the files, signals and sockets they can see (`Monitor` to the sessions, the
death and the start of unitcomm, `EventLogger` to a reader, `Upgrade` to the places of
monitor in which it looks at the upgrade).

Several modules have a variable `world` or `faults` that is chosen in the initial
state and never changes: a set of names of things that may happen in a behaviour.
An action names the member it needs, and a property that does not hold when
something happens names it in its premise.  So one run covers several
environments, what was excluded stands in the property itself, and the actions
that a property excludes are still run for the others.

### ServerLink

The variables are the members of `Connection` (`state` is `_state`,
`outstanding` is `_outstanding_packets`, and so on; each has its comment), the
files it writes, the vector `commands`, one record per server, and two sets of
frames in flight.  A set of frames loses their order, so any frame may overtake
any other; `Duplicable` names the types that may be delivered twice; `Lose`
drops a frame.  `timer` is whether `_timerval` is set: time itself is left out,
and an armed timer may expire at any moment (`Expired`) unless `Patient` is set.

| Action | Code |
|---|---|
| `RecvOpen`, `RecvRedirect` | `_startupProcessFrame`, `_processOpen`, `_processRedirect` |
| `RecvAck`, `RecvCommand`, `RecvKill`, `RecvRestart`, `RecvClose` | `_upProcessFrame`, `_processAck`, `_processCommand` |
| `RecvCloseAck`, `RecvIgnored` | `_closingProcessFrame`, and the frames a state does not handle |
| `StartupTimeout`, `UpTimeout`, `ClosingTimeout`, `DownTimeout` | the functions of those names, after `processTimeout` has cleared `_timerval` |
| `OpenConnection`, `CloseConnection`, `RestartConnection`, `ClearConnection` | the public methods, with what `main` and `handleConnections` do around them |
| `SendEvent`, `SendLine` | `sendEvent`; the command pump |
| `ReportClosed`, `StartProcess` | the close logic; a new process (`setFirstServer`, the constructor) |
| `ServerOpen` ... `ServerSays` | the server, which is not in the repository |

`Inc` folds numbers as `_incSeq` does, with `SeqMod` in place of 65536.  The
server is modelled by the role unitcomm itself plays when a peer connects to it
(`connect`, `_openingProcessFrame`) and by what `_processAck` expects: it takes
the frame with the next number, acknowledges it, acknowledges the one before
again, and ignores everything else.

A server draws the first number of a session with `random()`.  The model picks
any number of `Isns` whose session shares no number with a frame still in flight
(`InWindow`, `InUse`): with 65536 numbers and seconds between sessions a collision
is an accident the protocol does not defend against, and with five to ten
numbers it would be the rule.  The window of a session includes the number before its first
(the unit acknowledges an OPEN by it) and the one behind its last (the ACK of the last
frame); an OPEN in flight counts with the number of the first frame that would follow it.

### UnitComm

`UnitComm` extends `ServerLink` by the order in which the main loop calls it. `pc` is
the block of a pass: `select`, then a datagram and an event or the timeouts, then the
close logic (`close`, `close2`), the restart flag, the pump, and back, or `end` when the
WAN is gone or `CommNeededFile` removed.  `Hup` and `Usr1` set their flags between any
two blocks.  `closeAge` counts time since `close_time` in the classes the code tells
apart (at once, more than two seconds, `CloseDelay`).  `BeginSession` of a `Patient`
instance waits until nothing of the last session is in flight: a new WAN takes longer
than a frame.  Its property `Spec` is the specification of `ServerLink`: every step of
the loop is a step of the link or leaves it alone.  Its liveness properties
`CloseAnswered` and `Delivered` speak of a WAN that stays at last (`Stays`), after any
number of sessions that did not; a close request that came in one of those is still to
be answered.

### EventLogger

`lpc` names the points between which a signal handler may run (the header of
the module lists them).  `AppendToFile` is the second half of a client's append
that found no logger.  unitcomm is reduced to what a reader does: `out` is
the outstanding frame, `waiting` is `_event`, both as sequences because one
`recv` may return several lines.  `faults` selects what goes wrong in a behaviour.
`discarded` remembers the events the code throws away by intention or by death
(flushed, trimmed to 300, in a queue or in memory when the process was killed),
so that `Kept` speaks of all the others.

Left out: the line `exit` of the tool event_reader, and a handler that runs
inside an operation of the vector.  An erase on an empty list in `flushEvents`
is undefined; `Flush` lets the process crash or go on.

### Monitor

`place` is where `main` is: its outer and inner loop, `connect` (dialing, five
minutes with pppd or one with an LTE modem, back-off), `upLoop` (`up` before
the second's look at everything, `body` after it), `waitingLoop` and `powerOff`.
The conditions that `getStateInfo` computes once per look are variables of their
own (`need`, `can`, `keep`, `low`), because the loops go on with old values of
them.  An action is the work between two waits of a second.

| Action | Code |
|---|---|
| `Outer`, `Inner`, `Waiting`, `Leave` | `main`, `waitingLoop`, `powerOff` |
| `Dial`, `Dialing`, `LockedUp`, `GivenUp`, `Attempted`, `Again`, `Backoff`, `Established`, `NotEstablished` | `connect`, `connect_ppp`, `connect_lte`, `dial`, `dial_lte` |
| `Pass`, `PppdGone`, `Body` (`Timers`, `StopComm`, `AwaitClosed`, `CheckLink`), `Down` | `upLoop` |
| `Usr1`, `Terminate`, `Crash`, `Expire` | `on_usr1`, `on_term`, a new process, timers that are due |
| `Progress`, `LinkEnds`, `Car` | pppd and `on_child`; the car |
| `UnitBegins`, `UnitEnds`, `UnitConnects`, `UnitReopens`, `UnitDelivers`, `UnitCloses`, `UnitRestarts`, `ServerCloses` | a session of unitcomm as `UnitComm` has it |
| `UnitDies`, `UnitStarts` | unitcomm ends, by `closeAndExit` or a signal; respawner starts it |

`UnitCloses` is the end of a close, whenever it comes: until then the file says what it
said, and with `"late"` monitor's 60 seconds (`stopDue`) may be over first, because
unitcomm sets `close_time` anew as long as a frame is outstanding.  Signals to a unitcomm
that is not `alive` are lost, and with its death the requests it had are.  `link` is
`"kept"` when the talker of an LTE modem did not disconnect, whose answer `killWan`
only logs (line 2439), and the route is gone.

Times are the classes the code compares with: running or due.  Left out:
the kill for overtemperature, the loop for `wlan1`, OTA schedules, the variants
for other modems.

### UsageCounters

`counter` is the interface's byte counter modulo `Wrap`; `Delta` is what `getWan`
makes of it.  `monthly`, `tmp` and `file` are the three places of a month's usage,
`Recall`, `Update` and `Write` the three functions that move it.  `EndInside` is an
end of the process between the steps of one of them: of `updateMonthlyUsage`
(unlink, write, clear, change of the month, write: `PartlyUpdated`) or of
`getMonthlyUsage` (`PartlyRecalled`), with `on_term` after it when a signal ended the
process.  `actual`, `unread` and `kept` are the truth it is compared with.

### Respawner

One entry per command of `respawn.conf`: its `state` and whether its `pid` is 0, -1,
its own or that of a process already reaped.  `Fork` and `StorePid` are apart
because the child may end between them; what is stored is what `forkIt` returned
(`Forked`: also 0 for a blank line and, in the world `"nofork"`, -1).  `OnChild` asks
for each entry; an entry with -1 makes `waitpid` take any process that ended
(`WaitAny`).  The handlers (`OnChild`, `OnHup` within
`Edit`, `OnUsr1`, `OnUsr2`, `OnTerm`) run between any two steps, and `select`
returns only for a signal that comes while it waits (`Wake`).  Left out: that the kernel
gives the pid of a reaped process to another one.

### Upgrade

A process of upgrade goes from `forked` (still the shell, which `pgrep` does not
find) through `Main`, `Plan`, `Download`, `Verify`, `Install`, `Untar`,
`Installer`; monitor from `SeeRebootIt` or `PowerOff` through `Complete`,
`WaitDone`, the four writes of `doUpgrade` (`SetKernel`, `SetProgrammed`,
`WriteUpgradedVersion`, `WriteUpgradeInfo`) and `CheckUpgradeInfo` to the boot.
`Paths` is the paths file, an edge from version to version, up or down; `Plan` takes the
first step of some path from the version that runs.  `findPath` (lines 405-429) does not
note where it has been, so a circle may end the process (`Circle`).
`CheckUpgradeInfo` may or may not start `dup_fs`: it looks for a boot variable whose name
ends in `.state` (line 7352) and `SetProgrammed` writes one that ends in `state` (line 7183).
`LosePower` may come at any step; what is left is the state file, the package, two
file systems (`slot`, `Mixed` while one is written) and the boot variables.  The
boot loader is external: it tries the selected system and goes back to the other.

### VicTalker

`commands` is the deque, `connections` the map; descriptors are numbers the kernel gives
again (`Accept` takes the lowest), so that a stale descriptor in the queue can lead to
another program.  `SendNextCommand` writes the head and starts the one
timer.  `ReadRequest` with command 0x06 is the loader's (`BeginDownload`). A process
starts in three steps, because it can be told to end between them: `TakeLock` creates
the lock file (line 1388), `NoteLock` notes its name (line 1392) and flushes the line,
`Bind` opens the socket.  Its ends are `Die` and `DieStarting`.  A program may give up
at any moment of its wait (`GiveUp`): its own timeout is five seconds or less (`vic.h`,
lines 426 and 463), and the talker drops a request more than five seconds after it was
*sent* (lines 585-590).  Clients follow the class `VIC` (`src/include/vic.h`), except
that they connect to the path the talker binds: `VIC::openSocket` of this commit
connects to 192.168.0.1, port 8888, with the path in comments (lines 315-360), so
`Connect` is external.

### ECall

`place` is where `main`, `sendTTSintroduction`, `waitForPSAPCallback` or `sendEvent`
is, `stage` which of the waits follows.  `MonitorCall` is `monitorCall`: a requested
hangup or *one* unsolicited line; it is part of every action that looks at the
state of the call, as each look in the code reads a line.  `HangupCall` reads the
answer to `at+chv` and with it the lines before it.  `CloseAndExit` depends on the
descriptor it is given: open, closed before, or -1.

| Action | Code |
|---|---|
| `Start`, `OpenPort`, `PlaceCall`, `Connecting`, `ConnectTimeout`, `Check`, `Failed`, `Passed`, `TriesOver`, `TwoHours` | `main` |
| `Play`, `PlayEnds`, `Listen`, `Talk`, `IntroTimeout` | `sendTTSintroduction` |
| `Wait`, `AnswerCall`, `CallbackOver`, `WaitTimeout`; `Send`, `Sent` | `waitForPSAPCallback`; `sendEvent` |
| `OnHup`, `OnTerm` (`CloseAndExit`) | the handlers |
| `EndOfFile` | the modem went away under any read (`Reads`) |
| `StartEcall`, `SecondEcall` | `startEcall` of vic_talker, twice |
| `TalkerStarts`, `TalkerEnds`, `EventsSent`, `Psap*`, `Rings` | ow_talker under respawner, event_logger, the PSAP and the modem |

Left out: the path of the external modem (`usingIntele`), busy, ringing and
dialing as states of their own, what is played, and the reading of the crash
data.

## 3. The runs

| Run | Question | Properties |
|---|---|---|
| `link_events` | an event and a line of output, frames lost, repeated, reordered, sessions that end | `StopAndWait`, `TimerArmed`, `AckedWereTaken`, `KeepsPromise` |
| `link_servers` | two servers, REDIRECT, failing DNS, close, restart, crash; does a session that goes on ask each server | `ConnectedServerRecorded`, `EveryServerAsked` |
| `unitcomm_loop` | the loop against SIGHUP, SIGUSR1, a WAN that comes and goes, and RESTART of the server | `Spec` |
| `unitcomm_commands` | a command's output against an event, repeated COMMAND, kill, SIGUSR1, deaths | `LinesInOrder`, `CommandsUnique` |
| `unitcomm_close` | with sessions that end and begin: is a close request answered, and an event that was sent acknowledged | `CloseAnswered`, `Delivered` |
| `logger_ends` | unitcomm and event_logger stopped, killed, flushed and restarted, the power fails, clients are slow | `ErasedWereTaken`, `Kept`, `NewlineOwed`, `CountCovers`, `Reaches` |
| `monitor_worlds` | eleven environments, pppd and LTE, from SMS and coverage to crashes of monitor and deaths of unitcomm | `HungUp`, `StopIsAnswered`, `ShutsDown`, `ServedAgain` |
| `usage_worlds` | wraps, ends of months, ends of the process between and inside updates, a clock that is set | `NothingForgotten`, `NotOverCounted`, `NeverLess` |
| `respawner_edits` | three changes of the list, blank lines, suspension, condition files, a fork that fails, ends of processes | `OneProcess`, `Survives`, `RespawnedLater` |
| `upgrade_faults` | a loss of power at any step, a version that does not boot, a late monitor, overlapping starts, paths up and down | `OneUpgrade`, `BootsWhole`, `UpgradedIsWhole`, `NotAgain`, `FollowsPaths`, `ComesToEnd` |
| `vic_line` | frames lost, late answers, programs that give up and ask again, the loader, talkers told to end or killed, also while they start | `OneAtATime`, `AnsweredOwn`, `QueueDrains`, `ListensAgain` |
| `ecall_worlds` | a user who hangs up, keys at odd times, lines read together, two hours over, signals, a slow talker, a port that does not open, a modem that goes away, a second crash | `OutcomeLogged`, `LineKept`, `GivesBack` |

The type invariant of each module is proved (section 4); the runs spend their time on
the other properties.

### What does not hold

Each of these is in the model.  The premise of a property names it, and removing
the name from the premise shows the counterexample.

unitcomm and event_logger

* `sendEvent` of event_logger sends the head and sets `readerReady` to false
  afterwards (lines 173-174).  A SIGUSR1 in between, which the eCall programs
  send (`eCallTTS.cpp`, line 2157), makes `flushEvents` clear the list (line 209); the
  newline for the flushed event then removes a newer one no reader was given.  After a
  flush a newline may also meet an empty list, and event_logger and its reader
  wait for each other (lines 146-153, 173-178).
* When event_logger alone is restarted (`"term"`), `Kept` and `ErasedWereTaken` fail:
  unitcomm still holds an event when the new event_logger sends its head again, the
  newline for the first copy comes one event early, and the event in `_event`
  (line 1931 of unitcomm) is replaced by the next one.  With `"late"` a client appends
  to `EventLogFile` between `readFileArray` and `unlink` (lines 63-64).
* A close request that was not seen in its session closes the next one
  (unitcomm line 2200, monitor line 2749).  After a CLOSE of the server
  `CommStateFile` stays "Connected" (line 1331) and nothing reopens; when a frame was
  outstanding it stays so, `close_time` is set anew in each pass (line 2207), and a close
  request is not answered before the next session.  `CloseAnswered` is for servers that
  do not close.
* A close request is reported as done without a CLOSE when `CloseDelay` has passed (line
  2200), also over an outstanding frame, and when `_closed` is still set from the
  session before: after SIGUSR1 in DOWN it is, while the connection is up again.
* `EveryServerAsked` is about a session that goes on.  One that ends before its retries are
  over leaves the recorded index as it was, and the next one starts there.

monitor

* The inner loop (line 1824) dials without `getStateInfo`; with a talker that
  refuses it never sees that the unit should power off (hence the strong fairness
  of `Dial` for LTE).
* A unitcomm that dies while monitor waits for its close loses the request (`"unitdies"`).
  The one that respawner starts finds WAN and `CommNeededFile`, connects and reports
  "Connected"; monitor hangs up under it after 60 seconds.  `StopIsAnswered` excludes
  this; `ShutsDown` and `ServedAgain` do not.
* An LTE modem that does not disconnect (line 2439) leaves an interface without a route:
  `upLoop` goes on and is ended by `checkLink`, five minutes after nothing was received
  (lines 2763-2790).
* A restarted monitor finds a pppd it did not start and has no pid for it (line
  2427): `upLoop` cannot hang up (`"crash"`).
* `StopIsAnswered` fails with `"sms"` (line 2655); `ShutsDown` with SMS or
  links found dead again and again; `ServedAgain` when link or coverage is lost
  between a stop and its close.
* An LTE modem that counts anew is taken for a wrap of 32 bits (line 4812, `"reset"`);
  `on_term` writes a usage that was not recalled yet (lines 2594-2599, `"term"`);
  `on_term` inside `updateMonthlyUsage`, between `monthly_usage = 0` and the new
  `usage_month` (lines 2848-2849), writes 0 for the month that is over, whose file in `/tmp` is
  gone (line 2846, `"inside"`: the whole month is lost);
  a feature changed before the first connection and a clock set back count in the
  wrong month (lines 6582 and 2845-2851, `"early"` and `"clock"`).

respawner

* A command that never ran and is removed is stopped with `kill(0)` (line 128), which
  ends respawner too: because of its condition, after SIGUSR1, or because its line is
  blank (lines 200-201, 0 is returned).  `Survives` is for lists without these.
* A `fork` that fails returns -1, which is stored with the state Running (lines
  212-214): the command is not started again.  For its entry `onChild` calls
  `waitpid(-1)` (lines 267-269), which takes the end of any other command, so that this
  one is not started again either; and an entry that is killed (`kill(-1)`) may be taken
  for one that ended and be started though its line is gone.  `RespawnedLater` and
  `StartsConfigured` exclude `"nofork"`; `OneProcess` and `Survives` do not.
* A SIGCHLD before `select` (line 101), or between `fork` and the store of
  the pid, is noticed at the next signal only; a second SIGHUP may be lost (line 159).

upgrade

* updatefiles exits with 0 whatever happened, so a package that was not verified is
  unpacked (`upgrade.cpp`, line 203).  The installer's own checks are external.
* `NotAgain` fails when power is lost between the boot variable and
  `UpgradedVersionFile`, and when the paths file leads from a version to two others:
  a rejected version is written once more.
* With a circle in the paths file that does not lead to the version that is sought
  `findPath` calls itself without end (lines 405-429): the process dies in the
  state "starting".
* With a monitor that starts late (`"slow"`) the cleaning of `UpgradeDir` meets an
  upgrade that runs: `UpgradedIsWhole` and `FollowsPaths` fail.  With `"overlap"`
  (an upgrade that is not seen while monitor goes down, line 7107 of
  `monitor.cpp`) so do `BootsWhole` and `ComesToEnd`.

vic_talker

* A program waits five seconds or less for its answer (`vic.h`, lines 426 and 463), and
  the talker drops a request more than five seconds after it was sent (lines 585-590).
  A program that gave up and asks again may be given the answer to what it asked
  before.  When it left, `src_sock = -1` is assigned to a copy of the front command
  (lines 549-552), and the answer goes to whoever got the descriptor.  `AnsweredOwn`
  therefore says what is left: nobody is given an answer that somebody *else* still
  waits for.
  With `"late"` an answer goes to the next request, and that does not hold either.
  A talker that was started again takes a `7F 01` of before its end for its own.
  Queued commands of others are still sent during a download.
* A talker that is killed leaves its lock file (line 1388, `O_EXCL`), and no later
  one starts.  So does one that is told to end between the creation of that file and the
  note of it (line 1392, `"early"`).  `pop_front` of an empty deque (line 744) is undefined.

eCall

* `getUnsolicited` (line 159) returns the first line of a read and loses the rest:
  a key and the end of the call read together (`"together"`) leave the process in
  the menu of a call that is over, because once acknowledged the menu has no time
  limit (line 1783).
* The loop is left after two hours (lines 2246-2248), which needs a clock that is set or
  very slow calls.  Before the fifth call FAILED is logged; after it, neither place that
  logs does (line 2359): `OutcomeLogged` names this case (`Unlogged`).
* When the modem goes away (`"eof"`) `read` returns 0: `getUnsolicited` calls
  `closeAndExit` (lines 182-184), and `getCellResponse`, there and elsewhere, reads on
  for ever, because it looks at its timeout only when `select` finds nothing.
* A key pressed outside the menu (`"keys"`) stays in `dtmfTTS` and acknowledges the
  next call; when the end of that call is read with the answer to `ata` the
  process never leaves the menu either.
* `openPort` at the end of `sendEvent` fails when the talker is slow to give its lock
  back (`"slow"`).  `closeAndExit` then works on a closed descriptor, `select` fails in
  `getCellResponse`, and `exit(1)` (line 2875) is reached before `startMonitor`:
  `EcallFile`, `DontConnectFile` and a suspended respawner stay. A SIGTERM during
  `sendEvent` does the same, and so may a failing `open` (lines 2765-2770, `"noport"`),
  after which the descriptor is -1.  With `"term"`, `"slow"` or `"noport"` `GivesBack`
  is about ends that find the port open.  When the first `openPort` fails no call is made at all, and `LastEcallFile`
  prevents another for twelve hours.
* A second crash after twelve hours (`vic_talker.cpp`, line 1482) starts a second
  process while the first waits for a day (line 2373): it cannot lock the port, and its
  `closeAndExit` removes `EcallFile` and resumes respawner under the first.
* The comment before the loop (line 2238) says three retries, the code and its
  comment at line 2249 say five.

### Bounds

* Up to three events (EventLogger) and one command of one or two lines: an event
  that is outstanding, one that waits and one behind it are all the places an event
  can be in, and an event and a line are enough for the two kinds of content to
  compete for the frame.
* `Cap` frames in flight per direction, 1 or 2: enough for a late ACK beside a
  new OPEN, and for a DATA frame beside its repetition.
* `SessionLen` frames per OPEN, at most 2 here: the first number, the next, and
  the wrap to 0, which lies inside the window of one of the `Isns` (57 stands
  for a number behind 16 bits, which `_incSeq` folds to 0).
* Retry limits 1 instead of 4, 5 and 2: the counter only decides when the last
  branch is taken.
* Monitor needs no bounds but the classes of time and of failures (four stands
  for "more than three").
* `Wrap` 3 with four units of traffic wraps more than once; two months, two ends.
* Two commands, one of which may be conditional and the other a blank line, and three
  edits: added, removed while it is killed, named again.
* Two processes of upgrade, three versions with a path from each to the next and from
  the last to the first, three times the server names one, one loss of power, one version
  that does not boot: the theorems about `Upgrade` do not need these.
* Two programs, the loader with one request and another with two, and one death of
  vic_talker: a queue with an answered, a waiting and a late request, and a program
  that asks again after it gave up.
* Two tries in place of five, two callbacks, two lines in the buffer of eCall.
  `MaxCallbacks` matters: each callback starts the wait anew, so a PSAP that
  calls for ever keeps the process for ever.

### Fairness

A process that can run does: the loops have no way out but those modelled, and respawner
starts a process again.  That every armed timer of unitcomm expires follows from
`select` with a timeout of one second, provided the passes are not all busy (timeouts
are handled only when select returns 0, line 2187); `Patient` states that premise for
the runs that need it, as "a timer is longer than a frame is on its way".  The network
may lose any frame but not every one of a kind (strong fairness of reception).  A frame
that is on its way when a session ends is received by nobody and is gone before the next
begins (weak fairness of `Lose` at that place).  `link_servers` assumes fairness of the
unit alone.  In EventLogger, weak fairness per socket stands for a select loop that
handles each ready socket in every pass; `Reaches` asks for progress only after the
faults have stopped.

In Monitor time goes on (`Expire`), pppd ends once told to, a link without a route
is found dead by `checkLink`, respawner starts unitcomm, and unitcomm's steps are those of
`UnitComm`; coverage, users and events owe nothing.  In
Respawner only processes that were sent SIGTERM have to end.  In VicTalker the VIC
answers unless `"late"` is chosen, and may still refuse a frame.  In ECall the
process looks at the modem every 250 ms while it plays (strong fairness of
`Listen`), minutes go by, a talker that was told to end does, and whoever is at
the other end hangs up some day.  UsageCounters has safety properties only.

## 4. The theorems

Each is proved for all constants that satisfy the assumptions of its module; no
bound is used.

| Theorem | Statement | Inductive invariant |
|---|---|---|
| `LinkStopAndWait`, `LinkTimerArmed` | one outstanding frame with its number; who waits has a timer | `LinkInv` |
| `LinkServerIdxInList`, `LinkConnectedServerRecorded` | the index is in the list; the recorded server is the connected one | `ChoiceInv` |
| `LinkCommandsUnique` | no command is listed twice | itself, with `LinkInv` |
| `LinkAckedWereTaken` | if no OPEN is repeated: a newline is for an event a server took | `NumbersInv`, with `ChoiceInv` |
| `LinkLinesInOrder` | if no OPEN is repeated: a server has a line after the one before it | `LineInv` |
| `LinkKeepsPromise` | if no OPEN is repeated and without crashes: `Spec` implements `AtLeastOnce` | `PendingInv` |
| `UnitImplementsLink`, `UnitKeepsLink`, `UnitKeepsContent` | `UnitSpec => Spec`; so what is proved of the link holds of the loop | `UnitInv` |
| `LoggerCountCovers` | `EventCountFile` is not too small when event_logger waits | `CountInv` |
| `LoggerNewlineOwed` | no stalemate without SIGUSR1 | `OwedInv` |
| `LoggerErasedWereTaken` | a newline removes only what the server has | `OneLoggerInv` |
| `LoggerKept` | no event disappears | itself, per event (`Held`), with `OneLoggerInv` |
| `MonitorHungUp` | what monitor dialed is told to end, unless monitor itself crashed | `Owned`, `Released` |
| `MonitorStopIsAnswered` | a close that monitor waits for is asked for or done, unless unitcomm died or an SMS restarts it | `Stopping` |
| `RespawnerOneProcess`, `RespawnerStartsConfigured`, `RespawnerSurvives` | one process per command; only what the list named, unless `fork` failed; no `kill(0)` | `Processes`, `Leaving`, `Alive` |
| `UpgradeOneUpgrade`, `UpgradeBootsWhole` | one installs at a time; the boot loader meets a whole file system | `Core`, `OrderlyInv` |
| `UpgradeUpgradedIsWhole`, `UpgradeFollowsPaths`, `UpgradeNotAgain` | what is upgraded is whole, where a path leads, and not what was refused | `LedInv` |
| `UsageNeverLess` | the file of a month does not shrink, but by `on_term` or a clock that is set | `Sound` |
| `UsageNothingForgotten` | the stored months sum up to no less than was read, with orderly ends between updates | `Booked` |
| `UsageNotOverCounted` | and to no more than was there | `Once` |
| `TalkerOneAtATime`, `TalkerDownloadHeld` | one request at the VIC; during a download the loader is connected and nobody else | `HeadTimed`, `OnTheLine` |
| `TalkerAnsweredOwn` | nobody is given the answer another one waits for | `LineInv` |
| `ECallOutcomeLogged`, `ECallLineKept` | one outcome, and a true one; no call is left behind | `ECallInv` |
| `LinkTypeOK`, `UnitTypes`, `LoggerTypeOK`, `MonitorTypeOK`, `RespawnerTypeOK`, `UpgradeTypeOK`, `UsageTypeOK`, `TalkerTypes`, `ECallTypeOK` | type correctness | with the invariants above where they need them |

ServerLink.  `TypeOK` is not inductive: that `_upTimeout` repeats a well-formed
frame needs `HasBody` (what is outstanding has a content), and that the newline of
`RecvAck` names an event needs `StopAndWait`.  The invariant is therefore
`LinkInv == TypeOK /\ StopAndWait /\ HasBody /\ TimerArmed`.  `SteadyInv` treats
all steps that leave the kept frame and the choice of the server alone at once;
the rest has a lemma per action.  `ConnectedServerRecorded` speaks of UP only;
`ChoiceInv` adds what holds before: an address in use belongs to the name at
`_server_idx` in every state (`AddressOfIdx`), and a step to UP takes a frame from
that address and writes the index (`ConnectedHasAddress`).  The assumption on
`Lists` is that a list has one or two names, as `_servers` has two places.

The numbers.  `RecvAck` believes an ACK by its number alone, so `AckedWereTaken` needs
an invariant about every number in flight, in each direction, of each server.
`Offset` is the place of a number in a session; it turns the comparisons modulo
`SeqMod` into an order, and `SessionLen + 1 < SeqMod` is what makes it one.
`ServerSide` says which frames of a session there are: none beyond the number the
server takes next, one content for that number, and only content it has for the
numbers before.  `InSession`: a unit in the session of its server is at most one frame
behind, and then that frame is outstanding and taken.  `AckIsTrue` is the point: an
ACK with the number `_processAck` waits for means that the outstanding frame was
taken.  It survives the step to a new session because nothing in flight lies in the
window of the new first number, and the end of one because a unit sends only to the address
it has a number from (`ChoiceInv`).  After that, the three theorems need only what kind of
step was made (`StepKind`: something is sent, taken, finished, or dies): `LineInv` is that
a line is sent only when the server has the one before it, or it is the outstanding frame
itself, and `PendingInv` that what is in flight was taken or is outstanding still.

The premise `OpenOnce` (`"OPEN" \notin Duplicable`) is needed: with `Duplicable =
{"OPEN"}`, `Calls = {"clear", "RESTART"}` and two events in the run `link_events`, TLC
finds a behaviour of fifteen states that violates `AckedWereTaken`.  The server has taken the first
event; the second times out and the unit falls back to STARTUP, where the repeated OPEN of the
handshake before arrives.  The unit goes to UP and counts from its first number
again, the second event gets the number of the first, the server takes it for a
repetition, and its ACK is the one the unit waits for.  No run lets an OPEN
be repeated.  A crash forgets the outstanding frame, which `AtLeastOnce` has no step
for, so `LinkKeepsPromise` excludes it; the other two theorems do not.

UnitComm.  `Requested` says what the place in a pass implies about the requests
and the session; with it each block of a pass is one action of the link,
several for the same frame, or a stutter, which is the step of `UnitImplementsLink`.

EventLogger.  `Counting` states for each place of the loop which count is still to
be written; `Awaited` that a logger which waits has a line on its way to the reader,
with it, or a newline on its way back.  `EndsInv` is about both programs and their
ends.  `OneCopy`: wherever unitcomm has a line (in the socket, in `_event`, in the
outstanding frame) it is the head of the list; there is one line or one newline, and
none where the logger may send.  `Sockets`: no line of an earlier logger is left when a
new one binds.  `Lifted`: while the list is read from the file each event is in one of them.
All of this is for one logger at a time (`OneLogger`), which is the premise of the
properties; `Kept` also needs that a head which is erased was taken.

Monitor and Respawner.  `Owned`: a pppd that runs has its pid in `waninfo.pid`, or
is about to be hung up, in each place of the loop.  `Released`: after a hang-up an LTE link is
gone or has no route, because `upLoop` does not dial.  `Stopping`: while monitor waits for a
close, a link that went away does not come back (no dial is under way, and a pppd
without a link is in no place of `upLoop`), so a unitcomm that has closed, and lives on,
begins no new session, and no restart is asked for.  `Processes`: the state and pid of
an entry tell how many processes it has, also between `fork` and the store of
the pid, and an entry with pid -1 has none; `Alive` adds that an entry which is killed
has a pid that is not 0.

Upgrade.  `Core` is that at most one process is past `Main` (`Single`), which `pgrep`
ensures although a process that still is the shell is not found.  `Orderly` ties the
word in the state file to the package and the file systems (`Staged`), the place of
monitor to the boot variables (`Switched`, `GoingDown`), and says which file system may
be `Mixed` (`SlotsWhole`): never the running one, and never the selected one.  `Led`
follows the paths file: from the plan on a path leads from what runs to the package, and
once the word is `upgraded` the other file system holds it.  `Remembered`: with one path
from each version, the one that the boot loader may refuse is in `UpgradedVersionFile`
by then, and after it was refused nothing is written.  Every step is of one of seven
kinds (`Stays`, `Rewrites`, `Plans`, `Finishes`, `Switches`, `Records`, `Boots`), and
both are proved kind by kind.

UsageCounters.  `Ahead`: the usage in memory, or in `/tmp`, is not below the one in the
file, wherever it will be written from.  The sums over months are a recursive function;
that such a function exists and what it does when one month changes (`UpToIs`,
`TotalStep`, `TotalLess`) is derived from `NatLessThanWellFounded` by a smallest
counterexample, without the induction theorems that take an operator. `Filed`, for
orderly ends outside of an update: months that are over are in `UsageDir`, with no less
than in `/tmp`, so that what a start recalls is all there is.  `Once` bounds by what
went over the interface not what is stored but the *most* any later start could find of
each month (`Most`), plus what was not read or not assigned to a month yet (`Pending`):
a bound on what is stored is not inductive, because a lost file brings an older and
larger one back.

VicTalker.  `HeadTimed`: the timer runs exactly when the queue is not empty;
`OnTheLine`: one request or answer at most is on the line, and none without a queue.  `Linked`: a client's end and the descriptor lead to each other.  `Placed`: a request
that somebody waits for was asked through the descriptor its answer will be sent to.  `AtVic`:
what is on the line and waited for is the request of the head; a stale request may
be there too, but only one that was given up.  So an answer that is sent goes to the
asker, or nobody waits for it.

ECall.  `Progress` says for each place of `main` what was done by then: `stage`, the
number of tries, the port and the log.  `Heard` is why PASSED is true: whatever counts as a key
(`ecallAckd`, `dtmfTTS`, a key in the buffer) was pressed.

## 5. Checked by TLC only, and not modelled

Every invariant and every action property that a run checks is a theorem, and so is the
refinement `KeepsPromise` (for no crash and no repeated OPEN).  Liveness
(`EveryServerAsked`, `CloseAnswered`, `Delivered`, `Reaches`, `ShutsDown`,
`ServedAgain`, `RespawnedLater`, `ComesToEnd`, `QueueDrains`, `ListensAgain`,
`GivesBack`) and with it the fairness of the specifications is checked by TLC only: the
provers have no rule for it and none for ENABLED.  What the theorems leave to the runs
besides are the environments a premise names (a repeated OPEN, `"late"`, `"overlap"` and the
others): there the code does not keep the property, see "What does not hold".

Not modelled:

* of unitcomm: connections a peer opens to the unit (state OPENING), the processes
  of commands and SIGCHLD, `CarState` and remote_vehicle commands, frame parsing
  and signatures, PING and CONFIG frames; a crash *inside* a handler, so that the
  pair `updateConfig`, `_updateServerIdx` is atomic;
* of monitor: reading of hardware and configuration, OTA schedules, the menu of
  modems, Wi-Fi and USB;
* the variants `monitor-kanaan.cpp`, `gps_mon-eth.cpp`, `eCallTTY.cpp` and the like,
  which repeat the control of the modelled files;
* the talkers, loaders, GPS, OBD and CAN programs: protocols of strings with a
  device, one process and one connection each, without control that could
  go wrong in an order;
* vendored code (`jsoncpp.cpp`, MD5) and small tools.

The modelled parts are the programs that share something and must agree.  Most of
the repository's 80,000 lines are strings, devices, hardware tables and copies of
those programs for other units.  A model of these would restate them, so the share
of lines the definitions stand for stays small.

## 6. Plan

Done, in this order: `ServerLink` and `UnitComm` around it, `EventLogger`, the
theorems about the link; then `VicTalker`, `Upgrade`, `Monitor`, `Respawner`,
`UsageCounters`, `ECall`; then theorems for all safety properties of the runs, with the
numbers of the link, the ends of event_logger and unitcomm, and the sums over
months as the large ones.

Left, by what it would add:

1. `LinkAckedWereTaken` with repeated OPENs, from the weakest premise about the server
   under which it holds.
2. `EventPath`: `EventLogger` with the outstanding frame of `ServerLink` in place of
   `out` and `waiting`, to state `Kept` and `AckedWereTaken` across both; the two
   invariants `OneCopy` and `NumbersInv` are what its proof would start from.
3. The half-open connection of `connect` in unitcomm, and the SMS server.
4. OTA schedules: the next window as an operator against a reference definition.
