----------------------------- MODULE ToolStatics -----------------------------
(***************************************************************************)
(* What the tools of one process share: the function-local statics of the  *)
(* Valgrind base class, filled by whichever tool is asked first and never  *)
(* again, and the map ToolFromString looks names up in, which a lookup     *)
(* adds to.  Module Tools says what a tool asked alone would answer.       *)
(***************************************************************************)
EXTENDS Tools

CONSTANTS
  Wanted,  \* the tools the program constructs
  Names,   \* the names it looks up
  Unset    \* a static that has not been initialised

ASSUME StaticsAssumption ==
  /\ Wanted \subseteq Tool
  /\ \A t \in Tool : Unset \notin {WrapperOptions(t), InstrumentationName(t)}

VARIABLES
  objects,      \* the tools constructed so far
  options,      \* the static of ToolBase::WrapperOptions
  name,         \* the static of ToolBase::InstrumentationName
  table,        \* stringToToolMap: a function from the names in it, or Unset
  saidOptions,  \* history: what each tool has answered to WrapperOptions ()
  saidName,     \* history: and to InstrumentationName ()
  resolved      \* history: the tools each name has been resolved to

vars == <<objects, options, name, table, saidOptions, saidName, resolved>>

Init ==
  /\ objects = {}
  /\ options = Unset /\ name = Unset
  /\ table = Unset
  /\ saidOptions = [t \in Tool |-> {}]
  /\ saidName = [t \in Tool |-> {}]
  /\ resolved = [n \in Names |-> {}]

(* Mutant: the map starts empty and stays as the lookups make it. *)
NeverPopulated == IF table # Unset THEN table ELSE <<>>

(* ToolFromString: the first call fills the map, and operator[] puts a name  *)
(* it does not find there with the enumerator 0.                             *)
Populated ==
  IF table # Unset THEN table
  ELSE [n \in {StringFromTool[t] : t \in Tool} |-> CHOOSE t \in Tool : StringFromTool[t] = n]

LookUp(n) ==
  /\ table' = [m \in DOMAIN Populated \cup {n} |->
                 IF m \in DOMAIN Populated THEN Populated[m] ELSE "None"]
  /\ resolved' = [resolved EXCEPT ![n] = @ \cup {table'[n]}]
  /\ UNCHANGED <<objects, options, name, saidOptions, saidName>>

MakeSpecifiedTool(t) ==
  /\ t \notin objects
  /\ objects' = objects \cup {t}
  /\ UNCHANGED <<options, name, table, saidOptions, saidName, resolved>>

(* Mutant: only a static that has a value gets one. *)
OnceSet(static, value) == IF static = Unset THEN static ELSE value

(* A static keeps the first value it is given. *)
Once(static, value) == IF static = Unset THEN value ELSE static

AskWrapperOptions(t) ==
  /\ t \in objects
  /\ options' = IF t \in Valgrind THEN Once(options, WrapperOptions(t)) ELSE options
  /\ saidOptions' = [saidOptions EXCEPT ![t] =
                       @ \cup {IF t \in Valgrind THEN options' ELSE WrapperOptions(t)}]
  /\ UNCHANGED <<objects, name, table, saidName, resolved>>

(* Mutant: the static belongs to the common base class of all tools. *)
AskSharedName(t) ==
  /\ t \in objects
  /\ name' = Once(name, InstrumentationName(t))
  /\ saidName' = [saidName EXCEPT ![t] = @ \cup {name'}]
  /\ UNCHANGED <<objects, options, table, saidOptions, resolved>>

AskInstrumentationName(t) ==
  /\ t \in objects
  /\ name' = IF t \in Valgrind THEN Once(name, InstrumentationName(t)) ELSE name
  /\ saidName' = [saidName EXCEPT ![t] =
                    @ \cup {IF t \in Valgrind THEN name' ELSE InstrumentationName(t)}]
  /\ UNCHANGED <<objects, options, table, saidOptions, resolved>>

Next ==
  \/ \E n \in Names : LookUp(n)
  \/ \E t \in Wanted : \/ MakeSpecifiedTool(t)
                       \/ AskWrapperOptions(t)
                       \/ AskInstrumentationName(t)

Spec == Init /\ [][Next]_vars

TypeOK ==
  /\ objects \subseteq Wanted
  /\ options \in {WrapperOptions(t) : t \in Valgrind} \cup {Unset}
  /\ name \in {InstrumentationName(t) : t \in Valgrind} \cup {Unset}
  /\ \/ table = Unset
     \/ /\ DOMAIN table \subseteq Names \cup {StringFromTool[t] : t \in Tool}
        /\ \A n \in DOMAIN table : table[n] \in Tool
  /\ saidOptions \in [Tool -> SUBSET {WrapperOptions(t) : t \in Tool}]
  /\ saidName \in [Tool -> SUBSET {InstrumentationName(t) : t \in Tool}]
  /\ resolved \in [Names -> SUBSET Tool]

(* A tool answers for itself: its options and its name never depend on which *)
(* other tools the process has asked before.                                 *)
AnswersForItself ==
  \A t \in Tool : /\ saidOptions[t] \subseteq {WrapperOptions(t)}
                  /\ saidName[t] \subseteq {InstrumentationName(t)}

(* Whatever has been asked before, a tool never takes back an answer, and a  *)
(* name resolves to one tool however often and in whatever order it and      *)
(* other names, unknown ones among them, are looked up.                      *)
AnswersAreFinal ==
  /\ \A t \in Tool : \A a, b \in saidOptions[t] : a = b
  /\ \A t \in Tool : \A a, b \in saidName[t] : a = b
  /\ \A n \in Names : resolved[n] \subseteq {ToolFromString(n)}

=============================================================================
