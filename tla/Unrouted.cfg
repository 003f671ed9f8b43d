CONSTANTS
  SIM = FALSE
  Typed = {}
  FcieModulus = 602
  Lines = {"data"}
  FrameFronts = {}
  Packets = {}
  StrictOptions = {FALSE}
  MaxSessions = 1
  MaxLines = 1
  MaxFrames = 0
  MaxPackets = 0
  MaxErrors = 0
SPECIFICATION TerminalSpec
INVARIANT OneDestination
