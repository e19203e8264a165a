SPECIFICATION Spec
CONSTANTS
  Text = {short, long}
  Inline = {short}
  SharedStrings = TRUE
  Arrays = {x1, x2}
  Addr = {a1, a2, a3, a4}
  Null = Null
  Environs <- EmptyOrOne
  Calls <- SingleCalls
  AppendsOnce = FALSE
  MaxBlock = 1
  MaxStored = 2
  MaxVector = 4
SYMMETRY Interchangeable
INVARIANT PointersSound
CHECK_DEADLOCK FALSE
