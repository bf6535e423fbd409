\* Two servers, redirects, names that do not resolve, close and restart
\* calls, and crashes of the process; liveness of the choice.
SPECIFICATION SilentSpec
CONSTANTS
  NoEvent = NoEvent
  s0 = s0
  s1 = s1
  NoAddr = NoAddr
  Events = {}
  CmdIds = {}
  NumLines = 1
  Servers = {s0, s1}
  Lists <- TwoServers
  SeqMod = 5
  Isns = {4}
  SessionLen = 1
  Cap = 1
  Duplicable = {}
  StartupRetrys = 1
  FirstRetrys = 1
  UpRetrys = 1
  CloseRetrys = 1
  PingInterval = TRUE
  DnsMayFail = TRUE
  Patient = FALSE
  Calls = {"clear", "close", "restart", "crash", "redirect", "CLOSE"}
INVARIANTS ConnectedServerRecorded
PROPERTIES EveryServerAsked
CHECK_DEADLOCK FALSE
