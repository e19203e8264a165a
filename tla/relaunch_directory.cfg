SPECIFICATION Spec
CONSTANTS
  Dirs <- SomeDirs
  Paths <- SomePaths
  CommandLines <- SomeCommandLines
  Environs <- SomeEnvirons
  Kinds = {"absent", "directory", "program"}
  Changing = FALSE
  String <- Strings
  Key = "active"
  Nothing = Nothing
INVARIANT SettlesForExecutable
