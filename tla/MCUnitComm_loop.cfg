\* The main loop against signals, the WAN and the server.
SPECIFICATION UnitSpec
CONSTANTS
  NoEvent = NoEvent
  s0 = s0
  s1 = s1
  NoAddr = NoAddr
  Events = {e1}
  CmdIds = {}
  NumLines = 1
  Servers = {s0}
  Lists <- OneServer
  SeqMod = 10
  Isns = {57}
  SessionLen = 1
  Cap = 2
  Duplicable = {}
  StartupRetrys = 0
  FirstRetrys = 1
  UpRetrys = 1
  CloseRetrys = 0
  PingInterval = FALSE
  DnsMayFail = FALSE
  Patient = FALSE
  Calls = {"clear", "close", "restart", "RESTART"}

PROPERTIES Spec
CHECK_DEADLOCK FALSE
