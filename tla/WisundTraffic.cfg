CONSTANTS
  SIM = FALSE
  Typed = {}
  FcieModulus = 602
  Lines = {"command", "data", "capfile"}
  FrameFronts = {"x00", "x31", "x31short"}
  Packets <- MCPackets
  StrictOptions = {FALSE, TRUE}
  MaxSessions = 1
  MaxLines = 2
  MaxFrames = 2
  MaxPackets = 3
  MaxErrors = 1
SPECIFICATION TrafficSpec
INVARIANTS TypeOK CommandsConserved NeverTerminates OnlyItsKind RawConserved CaptureConserved FilesReadBack EveryPacketForwarded WholePackets
