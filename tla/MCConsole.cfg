CONSTANTS
  PORTS = 3
  Present = {1, 2}
  DEPTH = 2
  Banner <- MCBanner
  Report <- MCReport
  Detected <- MCDetected
  PeerBytes = {"peer"}
  MaxPeer = 2
  FONT_CHAR_WIDTH = 2
  FONT_CHAR_HEIGHT = 2
  Screens <- MCScreens
  Char <- MCChar
  Newline <- MCNewline
  Visible <- MCVisible
SPECIFICATION ConsoleSpec
INVARIANTS
  TypeOK
  FoundIsReady
  MissedOnlyByNoise
  WireGetsOutput
  InputGenuine
  OverrunBounded
  TextReadable
CHECK_DEADLOCK FALSE
