SPECIFICATION FsSpec
CONSTANTS
  MaxCluster = 4
  ClusterCells = 1
  DirSlots = 2
  NumHandles = 2
  Text = {"a", "b"}
  Name <- MCNames
  To83 <- MCTo83
  Reopened <- MCReopened
  Byte = {"zero"}
  Image <- MCImage
  Paths <- MCPaths
  Opens <- MCOpens
  Contents <- MCContents
  ReadSizes = {2}
  MaxSize = 1
INVARIANTS FsTypeOK HintTight RootKept ChainsSound EntriesFindable
PROPERTY CountBalanced
CHECK_DEADLOCK FALSE
