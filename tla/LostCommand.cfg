CONSTANTS
  SIM = FALSE
  Typed = {}
  FcieModulus = 602
  Lines = {"command"}
  FrameFronts = {}
  Packets = {}
  StrictOptions = {FALSE}
  MaxSessions = 1
  MaxLines = 1
  MaxFrames = 0
  MaxPackets = 0
  MaxErrors = 0
  Clients = {"web"}
  Texts = {"setmac 00 19 59 ff fe 0f ff 01"}
SPECIFICATION WebSpec
INVARIANT CommandsExecuted
