CONSTANTS
  SIM = FALSE
  Typed = {}
  FcieModulus = 602
  Lines = {}
  FrameFronts = {}
  Packets <- MCPackets
  StrictOptions = {FALSE, TRUE}
  MaxSessions = 1
  MaxLines = 0
  MaxFrames = 0
  MaxPackets = 2
  MaxErrors = 0
SPECIFICATION TerminalSpec
INVARIANT PacketsSentOnce
