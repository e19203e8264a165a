SPECIFICATION Spec
CONSTANTS
  Suites <- SomeSuites
  Programs = {"passthrough", "simple_test"}
  Capacity = 5
  Inherited = {{}, {0}, {0, 3, 4, 5}}
  MaxFd = 7
  MaxProcess = 4
  String <- Strings
  Key = "active"
  Nothing = Nothing
INVARIANTS TypeOK StdoutRestored OneDescriptorPerLaunch NothingOutlivesLaunch
PROPERTIES ImplementsCapturedRun EndsIfItFits
CHECK_DEADLOCK FALSE
