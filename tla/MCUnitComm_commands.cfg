\* Commands of the server, repeated and killed, whose output competes with an
\* event, SIGUSR1 and deaths of the process in the main loop.
SPECIFICATION UnitSpec
CONSTANTS
  NoEvent = NoEvent
  s0 = s0
  s1 = s1
  NoAddr = NoAddr
  Events = {e1}
  CmdIds = {c1}
  NumLines = 2
  Servers = {s0}
  Lists <- OneServer
  SeqMod = 10
  Isns = {57}
  SessionLen = 1
  Cap = 2
  Duplicable = {}
  StartupRetrys = 1
  FirstRetrys = 1
  UpRetrys = 1
  CloseRetrys = 1
  PingInterval = FALSE
  DnsMayFail = FALSE
  Patient = FALSE
  Calls = {"restart", "crash", "COMMAND", "KILL"}
INVARIANTS LinesInOrder CommandsUnique
CHECK_DEADLOCK FALSE
