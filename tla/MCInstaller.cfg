SPECIFICATION InsSpec
CONSTANTS
  KernelSectors = 3
  MaxKernelSectors = 3
  Configs <- MCConfigs
INVARIANTS
  InsTypeOK
  ListedFilesStored
  InstalledWhole
PROPERTY InstallEnds
