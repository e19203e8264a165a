------------------------------ MODULE Invocation ------------------------------
(***************************************************************************)
(* What one program hands to the next: command lines, environments and the *)
(* executable path, and what the relaunch makes of them (commandline.cpp,  *)
(* reexecution.cpp, systempaths.cpp).  Texts only: that the arrays which   *)
(* carry them to exec keep them is the business of module NullTermArray.   *)
(*                                                                         *)
(* An environment is a sequence of pairs, in which getenv finds the first  *)
(* with a name; PATH is kept apart from it.                                *)
(***************************************************************************)
EXTENDS Tools, Integers

CONSTANTS
  String,   \* the texts there are
  Key,      \* YiqiToolEnvKey
  Nothing   \* no name, no directory

ASSUME InvocationAssumption ==
  /\ {Key, Empty} \subseteq String /\ Nothing \notin String
  /\ \A t \in Tool : {InstrumentationName(t), InstrumentationWrapper(t), WrapperOptions(t)}
                       \subseteq String

Argument == [is : {"word", "tool", "gtest", "option"}, text : String]
Entry == [key : String, value : String]

Word(t) == [is |-> "word", text |-> t]
Option(t) == [is |-> "option", text |-> t]

(* getenv (YiqiToolEnvKey) *)
IsActive(env) == \E i \in DOMAIN env : env[i].key = Key
ActiveTool(env) ==
  env[CHOOSE i \in DOMAIN env :
        env[i].key = Key /\ \A j \in 1 .. i - 1 : env[j].key # Key].value

(* Mutant: the options of the tool come after the program. *)
BuildProgramFirst(args, t) ==
  <<Word(InstrumentationWrapper(t)), args[1]>>
  \o (IF WrapperOptions(t) = Empty THEN <<>> ELSE <<Option(WrapperOptions(t))>>)

(* The wrapper, its options and the program: no other argument is kept. *)
BuildCommandLine(args, t) ==
  <<Word(InstrumentationWrapper(t))>>
  \o (IF WrapperOptions(t) = Empty THEN <<>> ELSE <<Option(WrapperOptions(t))>>)
  \o <<args[1]>>

(* At the end, whatever the environment has under that key already. *)
InsertEnvironmentPair(env, key, value) == Append(env, [key |-> key, value |-> value])

(* Mutants: the environment without the pair, or with another name in it. *)
GetSystemEnv(env, t) == env
GetWrapperEnv(env, t) == InsertEnvironmentPair(env, Key, InstrumentationWrapper(t))

GetToolEnv(env, t) == InsertEnvironmentPair(env, Key, InstrumentationName(t))

(* The directories PATH names: a PATH is a sequence of characters, and what   *)
(* is between two colons that follow each other names the root, since "/" and *)
(* the wrapper's name come after it.  GetExecutablePath makes no difference   *)
(* between a PATH that is empty and one that is not set.                      *)
SplitPathString(path) ==
  LET colons == {i \in DOMAIN path : path[i] = ":"}
      n      == Cardinality(colons)
      Cut(k) == IF k = 0 THEN 0
                ELSE IF k > n THEN Len(path) + 1
                ELSE Nth(colons, k)
  IN  [k \in 1 .. n + 1 |-> SubSeq(path, Cut(k - 1) + 1, Cut(k) - 1)]

Searched(path) == IF path = <<>> THEN <<>> ELSE SplitPathString(path)

(* What a wrapper runs: its first argument that is no option, and the rest. *)
WrappedCommand(args) ==
  LET i == CHOOSE i \in 2 .. Len(args) :
             /\ args[i].is = "word"
             /\ \A j \in 2 .. i - 1 : args[j].is # "word"
  IN  SubSeq(args, i, Len(args))

(* What an invocation of a test program asks for: to run as it is, to run on  *)
(* under a tool and say which, to be run again under one, or nothing sensible.*)
RequestOf(call) ==
  LET args == WithoutFlags(call.argv)
  IN  IF IsActive(call.environ)
      THEN [is |-> "inherited", name |-> ActiveTool(call.environ)]
      ELSE IF Malformed(args) THEN [is |-> "malformed", name |-> Nothing]
      ELSE IF NeedsWrapper(ParseOptionsToTool(args))
      THEN [is |-> "instrumented", name |-> StringFromTool[ParseOptionsToTool(args)]]
      ELSE [is |-> "plain", name |-> Nothing]
===============================================================================
