SPECIFICATION Spec
CONSTANTS
  Text = {short, long}
  Inline = {short}
  SharedStrings = FALSE
  Arrays = {x1, x2}
  Addr = {a1, a2, a3, a4, a5, a6}
  Null = Null
  Environs <- EmptyOrOne
  Calls <- SafeCalls
  AppendsOnce = TRUE
  MaxBlock = 3
  MaxStored = 3
  MaxVector = 5
SYMMETRY Interchangeable
INVARIANT PointersSound
PROPERTY ImplementsPromise
