SPECIFICATION ShellSpec
CONSTANTS
  MaxCluster = 5
  ClusterCells = 1
  DirSlots = 2
  NumHandles = 2
  Text = {"a", "b"}
  Name <- MCNames
  To83 <- MCTo83
  Reopened <- MCReopened
  Byte = {"zero"}
  Image <- FilesImage
  Commands <- AllCommands
  Lines <- ZeroLines
  Newline = "zero"
  CopyChunk = 1
  ReadChunk = 2
INVARIANTS ShellTypeOK HandlesLive NoClusterLeaked SizeCovered EntriesFindable
PROPERTIES FilesIsolated CommandsReturn
