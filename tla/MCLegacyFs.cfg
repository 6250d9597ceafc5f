SPECIFICATION LegacySpec
CONSTANTS
  Text <- MCText
  Components <- MCComponents
  Content = {"", "c"}
  TooLong = {"long"}
  NoFile = "none"
  Directory = "dir"
  Initial <- MCInitial
  MaxChildren = 3
  MaxFiles = 5
INVARIANTS LegacyTypeOK TreeSound
PROPERTIES ImplementsStore
CHECK_DEADLOCK FALSE
