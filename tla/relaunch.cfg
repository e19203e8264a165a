SPECIFICATION Spec
CONSTANTS
  Dirs <- SomeDirs
  Paths <- SomePaths
  CommandLines <- SomeCommandLines
  Environs <- SomeEnvirons
  Kinds = {"absent", "file", "program"}
  Changing = TRUE
  String <- Strings
  Key = "active"
  Nothing = Nothing
INVARIANTS TypeOK RelaunchedOnce SearchesPathInOrder RunsWhatWasInvoked
PROPERTY ImplementsTestRun
