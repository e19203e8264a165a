---------------------------- MODULE StringArrays ----------------------------
(***************************************************************************)
(* What a NullTermArray promises (commandline.h, and the value semantics   *)
(* tests/unit/value_type_test.h asks of it): each array is a sequence of   *)
(* strings of its own, and a call changes the arrays it names and no other.*)
(* There are no pointers here, and nothing is ever undefined.              *)
(***************************************************************************)
EXTENDS Sequences, Naturals, FiniteSets

CONSTANTS
  Arrays,    \* the objects
  Text,      \* the contents of strings
  Environs   \* the sequences an array can be constructed from

VARIABLES
  life,      \* "none", "live" or "moved"
  contents   \* the strings of each array, in order

vars == <<life, contents>>

Init ==
  /\ life = [x \in Arrays |-> "none"]
  /\ contents = [x \in Arrays |-> <<>>]

Becomes(x, state, texts) ==
  /\ life' = [life EXCEPT ![x] = state]
  /\ contents' = [contents EXCEPT ![x] = texts]

Construct(x) ==
  /\ life[x] = "none"
  /\ \E texts \in Environs : Becomes(x, "live", texts)

(* Some more strings after those that were there. *)
Extend(x) ==
  /\ life[x] = "live"
  /\ contents'[x] \in Seq(Text)
  /\ Len(contents[x]) < Len(contents'[x])
  /\ SubSeq(contents'[x], 1, Len(contents[x])) = contents[x]
  /\ Becomes(x, "live", contents'[x])

(* Those of its strings that do not match, in the order they were in. *)
Remove(x) ==
  /\ life[x] = "live"
  /\ \E matching \in SUBSET Text :
       LET kept == {i \in DOMAIN contents[x] : contents[x][i] \notin matching}
       IN  \E from \in [1 .. Cardinality(kept) -> kept] :
             /\ \A i, j \in DOMAIN from : i < j => from[i] < from[j]
             /\ Becomes(x, "live", [i \in DOMAIN from |-> contents[x][from[i]]])

Copy(x, y) ==
  /\ life[x] \in {"none", "live"}
  /\ life[y] = "live"
  /\ Becomes(x, "live", contents[y])

Move(x, y) ==
  /\ life[x] \in {"none", "live"}
  /\ life[y] = "live"
  /\ x # y
  /\ life' = [life EXCEPT ![x] = "live", ![y] = "moved"]
  /\ contents' = [contents EXCEPT ![x] = contents[y], ![y] = <<>>]

Swap(x, y) ==
  /\ life[x] = "live" /\ life[y] = "live"
  /\ contents' = [contents EXCEPT ![x] = contents[y], ![y] = contents[x]]
  /\ UNCHANGED life

Destroy(x) ==
  /\ life[x] # "none"
  /\ Becomes(x, "none", <<>>)

Next ==
  \E x \in Arrays :
    \/ Construct(x) \/ Extend(x) \/ Remove(x) \/ Destroy(x)
    \/ \E y \in Arrays : Copy(x, y) \/ Move(x, y) \/ Swap(x, y)

Spec == Init /\ [][Next]_vars
=============================================================================
