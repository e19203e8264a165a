------------------------------- MODULE MCHarness -------------------------------
(***************************************************************************)
(* Instances of Harness: the tests of the repository's acceptance suite,   *)
(* and others its fixture can run.                                         *)
(***************************************************************************)
EXTENDS Harness

Strings == STRING

T(args, env, reads) ==
  [args |-> args, env |-> env, onPath |-> {"passthrough"}, reads |-> reads]

Passthru == Word("passthrough")
Simple == Word("simple_test")
Argument1 == Option("--ARGUMENT")
Under(name) == [is |-> "tool", text |-> name]
Active == <<[key |-> "active", value |-> "timer"]>>

(* The tests there are, by what they launch. *)
AcceptanceTests ==
  {T(<<Passthru>>, <<>>, FALSE), T(<<Passthru, Argument1>>, <<>>, FALSE),
   T(<<Passthru>>, <<>>, TRUE), T(<<Passthru, Argument1>>, <<>>, TRUE),
   T(<<Simple>>, <<>>, FALSE), T(<<Simple, Under("passthrough")>>, <<>>, TRUE)}

(* Programs that are killed, missing, wrapped twice, in an environment that   *)
(* is active, or print too much.                                              *)
OtherTests ==
  {T(<<Simple, Under("memcheck")>>, <<>>, TRUE), T(<<Simple, Argument1>>, <<>>, TRUE),
   T(<<Word("missing")>>, <<>>, TRUE), T(<<Passthru, Word("missing")>>, <<>>, TRUE),
   T(<<Passthru, Argument1, Passthru, Simple>>, <<>>, TRUE),
   T(<<Passthru, Simple, Under("timer")>>, Active, TRUE),
   T(<<Passthru, Argument1, Argument1, Argument1, Argument1, Argument1>>, <<>>, TRUE)}

Wrapped == T(<<Simple, Under("passthrough")>>, <<>>, TRUE)
Unread == T(<<Passthru, Argument1>>, <<>>, FALSE)

SomeSuites ==
  {<<t>> : t \in AcceptanceTests \cup OtherTests}
  \cup {<<Unread, t>> : t \in AcceptanceTests \cup OtherTests}
  \cup {<<Wrapped, Unread, Wrapped, Wrapped>>}

(* A test ends, unless its program prints more than the pipe holds: the       *)
(* harness reads nothing before the program has ended.                        *)
EndsIfItFits ==
  \A i \in 1 .. 4 :
    (/\ test = i /\ i <= Len(suite) /\ pc = "fixture"
     /\ Len(Captured!MeaningOf(suite[i]).lines) <= Capacity) ~> (test = i + 1)
===============================================================================
