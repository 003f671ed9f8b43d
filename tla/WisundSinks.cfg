CONSTANTS
  SIM = FALSE
  Typed = {}
  FcieModulus = 602
  Lines = {"command"}
  FrameFronts = {}
  Packets = {}
  StrictOptions = {FALSE}
  MaxSessions = 1
  MaxLines = 1
  MaxFrames = 0
  MaxPackets = 0
  MaxErrors = 0
  Clients = {"terminal", "web"}
  Texts = {"diag 02", "mac", "diag af"}
SPECIFICATION WebFairSpec
PROPERTIES ImplementsSinks CommandsAreSent ShutdownCompletes PagesServed
