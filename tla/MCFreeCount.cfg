SPECIFICATION ShellSpec
CONSTANTS
  MaxCluster = 5
  ClusterCells = 3
  DirSlots = 3
  NumHandles = 2
  Text = {"a", "b"}
  Name <- MCNames
  To83 <- MCTo83
  Reopened <- MCReopened
  Byte = {"x", "nl"}
  Image <- BuiltInImage
  Commands <- AllCommands
  Lines <- XLines
  Newline = "nl"
  CopyChunk = 1
  ReadChunk = 2
INVARIANT FreeClustersCounted
