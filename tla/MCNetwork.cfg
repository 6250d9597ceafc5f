SPECIFICATION NetworkSpec
CONSTANTS
  Addr = {"a", "b"}
  Unset = "unset"
  Servers = {"s1", "s2"}
  Pool <- MCPool
  LeaseOf <- MCLease
  RouterOf <- MCRouter
  MaskOf <- MCMask
  Timeout = 2
  RetryPeriod = 1
  MaxAge = 1
  CardReady = TRUE
  Default <- MCDefault
  CommandLines <- MCLines
INVARIANTS NetworkTypeOK AddressGranted LeaseNotOutlived ConfigShown
PROPERTIES AddressAcquired
