SPECIFICATION Spec
CONSTANTS
  Wanted = {"Memcheck", "Callgrind"}
  Names = {"memcheck", "callgrind"}
  Unset = Unset
INVARIANT AnswersForItself
