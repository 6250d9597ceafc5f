SPECIFICATION InsSpec
CONSTANTS
  KernelSectors = 4
  MaxKernelSectors = 3
  Configs <- MCConfigs
PROPERTY StartStartsWizard
