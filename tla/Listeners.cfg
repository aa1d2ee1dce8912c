SPECIFICATION AllSpec
CONSTANTS
  Handlers = {h1, h2}
  Cues = {"BREAK", "LEGAL_ID"}
  Matched = {"BREAK", "LEGAL_ID"}
  RateCount = 1
  RateWindow = 1
  DedupeWindow = 3
  MaxTime = 4
  MaxRequests = 4
  Ports = {p1, p2}
  Hosts = {d1}
  DefaultPort = p1
  Nowhere = nowhere
  Sources = {s1, s2}
  MaxPackets = 2
  MaxSettings = 2
  CuePorts = {q1, q2}
  Base = 3
  CueOfByte <- MCCueOfByte
  HeaderLen = 2
  MaxFrame = 2
  MaxChunk = 4
  MaxStream = 5
  MaxClients = 2
  Budget = 5
  NumFds = 3
  Others = {o1}
  Outputs = {"srt"}
  KilledAtExit = {}
  MaxStarts = 2
SYMMETRY ListenerSymmetry
INVARIANTS
  ListenerTypes
  TcpGateExact
  HttpGateBounded
  NothingSwallowed
  SettingsInForce
  FramingExact
  CueSettingsInForce
  DescriptorsKept
  StopsWaitForOne
  ServedUnlessInherited
