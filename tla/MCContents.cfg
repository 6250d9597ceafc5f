SPECIFICATION ShellSpec
CONSTANTS
  MaxCluster = 5
  ClusterCells = 3
  DirSlots = 2
  NumHandles = 2
  Text = {"a", "b"}
  Name <- MCNames
  To83 <- MCTo83
  Reopened <- MCReopened
  Byte = {"x", "nl"}
  Image <- FullImage
  Commands = {"write", "read", "rm", "cp"}
  Lines <- XLines
  Newline = "nl"
  CopyChunk = 1
  ReadChunk = 2
INVARIANTS ReadGetsFile WriteStored SmallCopyEqual
PROPERTY FilesIsolated
