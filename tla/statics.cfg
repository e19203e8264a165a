SPECIFICATION Spec
CONSTANTS
  Wanted = {"None", "Memcheck", "Passthrough"}
  Names = {"memcheck", "timer", "mamcheck"}
  Unset = Unset
INVARIANTS TypeOK AnswersForItself AnswersAreFinal
