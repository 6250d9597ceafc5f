SPECIFICATION EditorSpec
CONSTANTS
  RingSize = 2
  MaxLines = 2
  MaxCols = 4
  ScreenCols = 2
  ScreenLines = 1
  Files <- MCFiles
  Scancodes <- QuitScancodes
PROPERTY CtrlQQuits
