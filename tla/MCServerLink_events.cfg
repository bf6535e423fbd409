\* An event and a line of output that share the one outstanding frame, over a
\* network that reorders, repeats and loses frames, while sessions end.
SPECIFICATION Spec
CONSTANTS
  NoEvent = NoEvent
  s0 = s0
  s1 = s1
  NoAddr = NoAddr
  Events = {e1}
  CmdIds = {c1}
  NumLines = 1
  Servers = {s0}
  Lists <- OneServer
  SeqMod = 10
  Isns = {3, 57}
  SessionLen = 2
  Cap = 2
  Duplicable = {"ACK", "DATA", "OPEN_REQ"}
  StartupRetrys = 1
  FirstRetrys = 1
  UpRetrys = 1
  CloseRetrys = 1
  PingInterval = FALSE
  DnsMayFail = FALSE
  Patient = FALSE
  Calls = {"clear", "COMMAND"}
INVARIANTS StopAndWait TimerArmed AckedWereTaken
PROPERTY KeepsPromise
CHECK_DEADLOCK FALSE
