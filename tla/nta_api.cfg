SPECIFICATION Spec
CONSTANTS
  Text = {short, long}
  Inline = {short}
  SharedStrings = FALSE
  Arrays = {x1, x2}
  Addr = {a1, a2, a3, a4}
  Null = Null
  Environs <- EmptyOrOne
  Calls <- EveryCall
  AppendsOnce = FALSE
  MaxBlock = 2
  MaxStored = 2
  MaxVector = 3
SYMMETRY Interchangeable
INVARIANTS TypeOK NullTerminated
CHECK_DEADLOCK FALSE
