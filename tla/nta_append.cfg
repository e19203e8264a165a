SPECIFICATION Spec
CONSTANTS
  Text = {short, long}
  Inline = {short}
  SharedStrings = FALSE
  Arrays = {x1, x2}
  Addr = {a1, a2, a3, a4}
  Null = Null
  Environs <- EmptyOrOne
  Calls <- SafeCalls
  AppendsOnce = FALSE
  MaxBlock = 1
  MaxStored = 2
  MaxVector = 5
SYMMETRY Interchangeable
INVARIANT PointersSound
