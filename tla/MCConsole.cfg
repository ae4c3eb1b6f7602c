CONSTANTS
  CONSOLE_BUFFER_SIZE = 3
  BUFLEN = 3
  Input <- Inputs
  MaxPending = 1
  p1 = p1
  p2 = p2
  Bits = 8
  Chars <- Characters
  Work <- Works
  MAX_BUF = 6
  PAGE_SIZE = 5
  CRT_ROWS = 3
  CRT_COLS = 3
  Cursors = {0, 7}
  Stalls = FALSE
SPECIFICATION IOSpec
INVARIANTS NoStuckModifier ConsoleText LineWhole
PROPERTIES ImplementsQueue ImplementsScreen
