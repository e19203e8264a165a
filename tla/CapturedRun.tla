----------------------------- MODULE CapturedRun -----------------------------
(***************************************************************************)
(* What the acceptance tests take for granted when they look at the output *)
(* of a program: a test gets the exit code and the lines the command would *)
(* print were it alone in the world, or an exception when something        *)
(* failed on the way, never one for the other.  No processes, no pipes.    *)
(***************************************************************************)
EXTENDS Invocation

CONSTANTS
  Programs,    \* the executables there are
  TestOutput   \* what the tests of a test program print

VARIABLES
  suite,   \* the tests
  test,    \* the one that runs
  result,  \* what launching its program came to
  lines,   \* what the test has read
  failed   \* whether a system call has failed

vars == <<suite, test, result, lines, failed>>

None == [is |-> "none", code |-> 0]
Threw == [is |-> "threw", code |-> 0]
Returned(code) == [is |-> "returned", code |-> code]

(* A command: what it prints, whether it comes to an end of its own, and how. *)
Exits(code) == [lines |-> <<>>, killed |-> FALSE, code |-> code]
Killed == [lines |-> <<>>, killed |-> TRUE, code |-> 0]
Prints(said, meaning) ==
  [lines |-> said \o meaning.lines, killed |-> meaning.killed, code |-> meaning.code]
Says(what, of) == [says |-> what, of |-> of]

(* The wrapper goes through its command line: it prints that it has started   *)
(* and the options, and runs what the first word names.  When that is the     *)
(* wrapper again it goes on in the same way, so of a command line in which    *)
(* wrappers follow each other one line is printed for each argument, up to    *)
(* the program they come to in the end.                                       *)
Names(argv) == {1} \cup {i \in DOMAIN argv : argv[i].is = "word"}
Wraps(argument) == argument.text = "passthrough" /\ "passthrough" \in Programs
LineOf(argv, i) ==
  IF i \in Names(argv) THEN Says("started", Empty) ELSE Says("option", argv[i].text)

(* Where, from the k-th argument on, that program's name is. *)
Wrapped(argv, k) ==
  LET others == {i \in Names(argv) : k <= i /\ ~Wraps(argv[i])}
  IN  IF others = {} THEN Len(argv) + 1 ELSE CHOOSE i \in others : \A j \in others : i <= j

(* A program that is not the wrapper: a test program, or none.  One that runs *)
(* itself again under the wrapper is run by it once more, and told so.        *)
Own(argv, env, onPath) ==
  LET request == RequestOf([argv |-> argv, environ |-> env])
      tool    == ParseOptionsToTool(WithoutFlags(argv))
      Under   == Prints(<<Says("under", request.name)>>, Prints(TestOutput, Exits(0)))
  IN  IF argv[1].text \notin Programs THEN Killed
      ELSE CASE request.is = "plain" -> Prints(TestOutput, Exits(0))
             [] request.is = "inherited" -> Under
             [] request.is = "malformed" -> Killed
             [] request.is = "instrumented" ->
                  IF InstrumentationWrapper(tool) \in onPath \cap Programs
                  THEN Prints(<<Says("started", Empty), Says("option", WrapperOptions(tool))>>,
                              Under)
                  ELSE Killed

(* What a command line means from its k-th argument on. *)
Meaning(argv, k, env, onPath) ==
  LET last == Wrapped(argv, k)
  IN  Prints([i \in 1 .. last - k |-> LineOf(argv, k + i - 1)],
             IF last > Len(argv) THEN Exits(1)
             ELSE Own(SubSeq(argv, last, Len(argv)), env, onPath))

MeaningOf(t) == Meaning(t.args, 1, t.env, t.onPath)

(* What a reader who drops empty lines has of the first k lines. *)
Shows(read, printed, k) ==
  LET kept == {i \in 1 .. k : printed[i].says # Empty}
  IN  \E n \in 0 .. k : \E from \in [1 .. n -> kept] :
        /\ \A i, j \in 1 .. n : i < j => from[i] < from[j]
        /\ \A i \in kept : \E j \in 1 .. n : from[j] = i
        /\ read = [i \in 1 .. n |-> printed[from[i]]]

Init ==
  /\ test = 1
  /\ result = None /\ lines = <<>> /\ failed = FALSE

Fail ==
  /\ result = None
  /\ failed' = TRUE
  /\ UNCHANGED <<suite, test, result, lines>>

(* All has gone well, and the command came to an end. *)
Answer ==
  /\ result = None /\ ~failed
  /\ ~MeaningOf(suite[test]).killed
  /\ result' = Returned(MeaningOf(suite[test]).code)
  /\ LET printed == MeaningOf(suite[test]).lines
     IN  IF suite[test].reads THEN Shows(lines', printed, Len(printed)) ELSE lines' = <<>>
  /\ UNCHANGED <<suite, test, failed>>

(* Something has failed by now, or the command was killed. *)
Throw ==
  /\ result = None
  /\ failed' \in {failed, TRUE}
  /\ failed' \/ MeaningOf(suite[test]).killed
  /\ result' = Threw
  /\ UNCHANGED <<suite, test, lines>>

NextTest ==
  /\ result # None
  /\ test' = test + 1
  /\ result' = None /\ lines' = <<>> /\ failed' = FALSE
  /\ UNCHANGED suite

Next == test <= Len(suite) /\ (Fail \/ Answer \/ Throw \/ NextTest)

Spec == Init /\ [][Next]_vars
===============================================================================
