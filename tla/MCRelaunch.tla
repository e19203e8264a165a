------------------------------ MODULE MCRelaunch ------------------------------
(* Small instances of Relaunch: the ways a test program is invoked. *)
EXTENDS Relaunch

Strings == STRING

Self == Word("/home/test")
Asking(name) == [is |-> "tool", text |-> name]
Flag == [is |-> "gtest", text |-> "--gtest_filter"]

SomeCommandLines ==
  {<<Self>>, <<Self, Flag>>, <<Self, Option("--unknown")>>,
   <<Self, Asking("memcheck"), Asking("timer")>>,
   <<Self, Asking("memcheck"), Flag, Word("rest")>>}
  \cup {<<Self, Asking(n)>> : n \in {"none", "timer", "passthrough", "callgrind", "mamcheck"}}

Inheriting(names) == {<<[key |-> "HOME", value |-> "/"], [key |-> "active", value |-> n]>> : n \in names}
SomeEnvirons ==
  {<<>>, <<[key |-> "HOME", value |-> "/"]>>} \cup Inheriting({"memcheck", ""})

Root == <<>>
SomeDirs == {Root, <<"a">>, <<"b">>}
SomePaths == {<<>>, <<"a">>, <<":", "a">>, <<"b", ":", "a", ":", "b">>}
===============================================================================
