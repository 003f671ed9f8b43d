CONSTANTS
  SIM = FALSE
  Typed = {}
  FcieModulus = 602
  Lines = {"capfile"}
  FrameFronts = {"x31"}
  Packets = {}
  StrictOptions = {FALSE}
  MaxSessions = 1
  MaxLines = 1
  MaxFrames = 1
  MaxPackets = 0
  MaxErrors = 0
SPECIFICATION TerminalSpec
INVARIANT CaptureConserved
