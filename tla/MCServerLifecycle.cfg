CONSTANTS
  Connections = {c1, c2, c3}
  http = http
  grpcPort = grpcPort
  public = public
  root = root
  Loopback = {http, grpcPort}
  Paths = {"config1", "config2"}
  NoPath = NoPath
  NoRoot = NoRoot
  Malformed = Malformed
  NoInputs = NoInputs
  Maximum <- MCMaximum
  Defaults <- MCDefaults
  Inputs <- MCInputs
SPECIFICATION Spec
INVARIANTS LifecycleInv CleanupContract CleanExitIsClean
PROPERTIES ShutdownEnds ConfigurationByPrecedence
CHECK_DEADLOCK FALSE
