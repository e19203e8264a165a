-------------------------------- MODULE Tools --------------------------------
(***************************************************************************)
(* The instrumentation tools yiqi knows (constants.cpp), what each says of *)
(* itself in a process that asks no other (instrumentation_*.cpp), and how *)
(* the one to use is read off a command line (construction.cpp).  What the *)
(* tools share between them in one process is module ToolStatics.          *)
(*                                                                         *)
(* A tool is its enumerator.  The empty text is "", and no text at all,    *)
(* where StringFromTool would return a null pointer, cannot occur: every   *)
(* enumerator has a name.                                                  *)
(***************************************************************************)
EXTENDS Sequences, Naturals, FiniteSets

(* enum class InstrumentationTool *)
Tool == {"None", "Timer", "Memcheck", "Callgrind", "Cachegrind", "Passthrough"}
Valgrind == {"Memcheck", "Callgrind", "Cachegrind"}

(* InstrumentationToolNames, which StringFromTool looks a tool up in. *)
StringFromTool ==
  [t \in Tool |->
     CASE t = "None" -> "none"
       [] t = "Timer" -> "timer"
       [] t = "Memcheck" -> "memcheck"
       [] t = "Callgrind" -> "callgrind"
       [] t = "Cachegrind" -> "cachegrind"
       [] t = "Passthrough" -> "passthrough"]

(* A name that is not in the table is added to it by the lookup, with the *)
(* enumerator 0: None.                                                    *)
ToolFromString(name) ==
  IF \E t \in Tool : StringFromTool[t] = name
  THEN CHOOSE t \in Tool : StringFromTool[t] = name
  ELSE "None"

(* The empty text. *)
Empty == ""

(***************************************************************************)
(* The classes: what a tool is wrapped in and the options its wrapper is   *)
(* given.                                                                  *)
(***************************************************************************)
NoneTool == [wrapper |-> Empty, options |-> Empty]

TimerTool == [wrapper |-> Empty, options |-> Empty]

PassthroughTool == [wrapper |-> "passthrough", options |-> "--passthrough"]

(* ToolBase builds "--tool=", the tool's name and its ToolAdditionalOptions, *)
(* which are "" for each of the three.                                      *)
ToolBase(options) == [wrapper |-> "valgrind", options |-> options]

MemcheckTool == ToolBase("--tool=memcheck")

CallgrindTool == ToolBase("--tool=callgrind")

CachegrindTool == ToolBase("--tool=cachegrind")

(* toolConstructors. *)
ClassOf(t) ==
  CASE t = "Timer" -> TimerTool
    [] t = "Memcheck" -> MemcheckTool
    [] t = "Callgrind" -> CallgrindTool
    [] t = "Cachegrind" -> CachegrindTool
    [] t = "Passthrough" -> PassthroughTool
    [] OTHER -> NoneTool

InstrumentationName(t) == StringFromTool[t]

InstrumentationWrapper(t) == ClassOf(t).wrapper

WrapperOptions(t) == ClassOf(t).options

NeedsWrapper(t) == InstrumentationWrapper(t) # Empty

(***************************************************************************)
(* Command lines: sequences of arguments [is, text], the program's own     *)
(* name first.  An argument is a --yiqi_tool with its value, a flag of     *)
(* Google Test, some other option or a word.                               *)
(***************************************************************************)
Given(args, kind) == {i \in DOMAIN args : args[i].is = kind}

(* The k-th of some numbers. *)
Nth(S, k) == CHOOSE i \in S : Cardinality({j \in S : j <= i}) = k

(* InitGoogleTest takes its own flags out of argv; the name it does not touch. *)
WithoutFlags(args) ==
  LET others == {i \in 2 .. Len(args) : args[i].is # "gtest"}
  IN  <<args[1]>> \o [k \in 1 .. Cardinality(others) |-> args[Nth(others, k)]]

(* program_options throws on an option it has not been told of, and on one *)
(* given twice; words it ignores.                                          *)
Malformed(args) ==
  \/ Given(args, "option") # {}
  \/ \E i, j \in Given(args, "tool") : i # j

(* ParseOptionsForTool, the default being the name of None. *)
ParseOptionsForTool(args) ==
  IF Given(args, "tool") = {} THEN StringFromTool["None"]
  ELSE args[CHOOSE i \in Given(args, "tool") : TRUE].text

ParseOptionsToTool(args) == ToolFromString(ParseOptionsForTool(args))
=============================================================================
