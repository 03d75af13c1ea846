CONSTANTS
  runtime = runtime
  stt = stt
  Profile <- MCProfile
  Hosts <- MCHosts
  Setups = {p1, p2}
  Loaders = {r1, r2}
  MaxFaults = 2
SPECIFICATION SystemSpec
INVARIANTS StoreInv LoaderInv
PROPERTIES SlotLifecycle SetupRepairs
CHECK_DEADLOCK FALSE
