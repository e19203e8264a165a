--------------------------- MODULE MCNullTermArray ---------------------------
(* Small instances of NullTermArray: the environs the arrays are built from *)
(* and the calls the program of each run makes.                             *)
EXTENDS NullTermArray, TLC

EveryCall == {"construct", "append", "throw", "erase", "remove", "copy", "move",
              "assign", "moveAssign", "swap", "useMoved", "destroy"}
CopyCalls == {"construct", "append", "copy", "destroy"}
UndoCalls == {"construct", "append", "erase"}
ThrowCalls == {"construct", "append", "throw", "destroy"}

EmptyOrOne == {<<>>} \cup {<<t>> : t \in Text}

Interchangeable == Permutations(Arrays) \cup Permutations(Addr)
=============================================================================
