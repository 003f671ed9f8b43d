CONSTANTS
  SIM = TRUE
  Typed = {"diag 02", "mac", "restart", "diag af"}
  FcieModulus = 602
  Lines = {"command", "help"}
  FrameFronts = {}
  Packets = {}
  StrictOptions = {FALSE}
  MaxSessions = 2
  MaxLines = 2
  MaxFrames = 0
  MaxPackets = 0
  MaxErrors = 0
  Clients = {"terminal", "web"}
  Texts = {"diag 02", "mac", "diag af"}
SPECIFICATION WebSpec
INVARIANTS SimulatorAnswers RepliesConserved SessionDrained SimulatedRepliesDecode ReadsWhatItTested NoStuckJoins CommandsOfPages AnswersOfPages
