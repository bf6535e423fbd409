\* Liveness of the close request and of events.
SPECIFICATION LiveUnitSpec
CONSTANTS
  NoEvent = NoEvent
  s0 = s0
  s1 = s1
  NoAddr = NoAddr
  Events = {e1}
  CmdIds = {}
  NumLines = 1
  Servers = {s0}
  Lists <- OneServer
  SeqMod = 10
  Isns = {57}
  SessionLen = 1
  Cap = 2
  Duplicable = {}
  StartupRetrys = 1
  FirstRetrys = 1
  UpRetrys = 1
  CloseRetrys = 1
  PingInterval = FALSE
  DnsMayFail = FALSE
  Patient = TRUE
  Calls = {"close", "clear"}
PROPERTIES CloseAnswered Delivered
CHECK_DEADLOCK FALSE
