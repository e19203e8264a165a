-------------------------- MODULE ToolStaticsProofs --------------------------
(***************************************************************************)
(* Whatever a process constructs, asks and looks up, and in whichever      *)
(* order: no tool takes back an answer, a name means one tool, and while   *)
(* at most one of the tools is Valgrind's each answers for itself.         *)
(***************************************************************************)
EXTENDS ToolStatics, TLAPS

(* What a tool has answered is what its static holds, or what it always says. *)
OptionsAgree ==
  /\ DOMAIN saidOptions = Tool
  /\ \A t \in Valgrind : saidOptions[t] \subseteq {options} \ {Unset}
  /\ \A t \in Tool \ Valgrind : saidOptions[t] \subseteq {WrapperOptions(t)}

NamesAgree ==
  /\ DOMAIN saidName = Tool
  /\ \A t \in Valgrind : saidName[t] \subseteq {name} \ {Unset}
  /\ \A t \in Tool \ Valgrind : saidName[t] \subseteq {InstrumentationName(t)}

(* The map has every tool's name, and holds what each name in it means, those *)
(* that were looked up in vain included.                                      *)
Populates ==
  table = Unset \/ /\ \A t \in Tool : StringFromTool[t] \in DOMAIN table
                   /\ \A n \in DOMAIN table : table[n] = ToolFromString(n)

Resolves ==
  /\ Populates
  /\ DOMAIN resolved = Names
  /\ \A n \in Names : resolved[n] \subseteq {ToolFromString(n)}

SInv == objects \subseteq Wanted /\ OptionsAgree /\ NamesAgree /\ Resolves

LEMMA InitStatics == Init => SInv
<1> SUFFICES ASSUME Init PROVE SInv
  OBVIOUS
<1>1. OptionsAgree
  BY DEF Init, OptionsAgree, Valgrind, Tool
<1>2. NamesAgree
  BY DEF Init, NamesAgree, Valgrind, Tool
<1>3. Resolves
  BY DEF Init, Resolves, Populates
<1> QED BY <1>1, <1>2, <1>3 DEF Init, SInv

(* A lookup resolves a name as any other lookup of it does, and leaves a map  *)
(* that goes on doing so.                                                     *)
LEMMA LookUpResolves ==
  ASSUME NEW n \in Names, SInv, LookUp(n)
  PROVE  Resolves'
<1>1. /\ \A t \in Tool : StringFromTool[t] \in DOMAIN Populated
      /\ \A m \in DOMAIN Populated : Populated[m] = ToolFromString(m)
  <2>1. CASE table # Unset
    BY <2>1 DEF SInv, Resolves, Populates, Populated
  <2>2. CASE table = Unset
    <3> DEFINE S == {StringFromTool[t] : t \in Tool}
               P == [m \in S |-> CHOOSE t \in Tool : StringFromTool[t] = m]
    <3>1. Populated = P
      BY <2>2 DEF Populated
    <3>2. ASSUME NEW m \in S PROVE P[m] = ToolFromString(m)
      BY DEF ToolFromString
    <3>3. \A t \in Tool : StringFromTool[t] \in DOMAIN P
      OBVIOUS
    <3> HIDE DEF P
    <3>4. DOMAIN P = S
      BY DEF P
    <3> QED BY <3>1, <3>2, <3>3, <3>4
  <2> QED BY <2>1, <2>2
<1> DEFINE known == DOMAIN Populated
<1>2. n \notin known => ToolFromString(n) = "None"
  BY <1>1 DEF ToolFromString
<1>3. /\ table' = [m \in known \cup {n} |-> IF m \in known THEN Populated[m] ELSE "None"]
      /\ resolved' = [resolved EXCEPT ![n] = @ \cup {table'[n]}]
  BY DEF LookUp
<1> HIDE DEF known
<1>4. DOMAIN table' = known \cup {n} /\ \A m \in DOMAIN table' : table'[m] = ToolFromString(m)
  BY <1>1, <1>2, <1>3 DEF known
<1>5. Populates'
  BY <1>1, <1>4 DEF Populates, known
<1>6. /\ DOMAIN resolved' = Names
      /\ \A m \in Names : resolved'[m] \subseteq {ToolFromString(m)}
  BY <1>3, <1>4 DEF SInv, Resolves
<1> QED BY <1>5, <1>6 DEF Resolves

(* A question leaves a static that was set as it is, and is answered with it. *)
LEMMA OptionsStayAgreed ==
  ASSUME NEW t \in Wanted, SInv, AskWrapperOptions(t)
  PROVE  OptionsAgree'
<1>1. t \in Tool /\ Unset # WrapperOptions(t)
  BY StaticsAssumption
<1>2. /\ options' = IF t \in Valgrind THEN Once(options, WrapperOptions(t)) ELSE options
      /\ saidOptions' = [saidOptions EXCEPT ![t] =
                           @ \cup {IF t \in Valgrind THEN options' ELSE WrapperOptions(t)}]
  BY DEF AskWrapperOptions
<1>3. Valgrind \subseteq Tool
  BY DEF Valgrind, Tool
<1>4. options # Unset => options' = options
  BY <1>2 DEF Once
<1>5. t \in Valgrind => options' # Unset
  BY <1>1, <1>2 DEF Once
<1>6. ASSUME NEW s \in Tool
      PROVE  saidOptions'[s] = IF s # t THEN saidOptions[s]
               ELSE saidOptions[s] \cup {IF t \in Valgrind THEN options' ELSE WrapperOptions(t)}
  BY <1>1, <1>2 DEF SInv, OptionsAgree
<1>7. \A s \in Valgrind : saidOptions[s] \subseteq {options} \ {Unset}
  BY DEF SInv, OptionsAgree
<1>8. \A s \in Valgrind : saidOptions'[s] \subseteq {options'} \ {Unset}
  <2> TAKE s \in Valgrind
  <2>1. saidOptions[s] \subseteq {options'} \ {Unset}
    BY <1>4, <1>7
  <2> QED BY <2>1, <1>3, <1>5, <1>6
<1>9. \A s \in Tool \ Valgrind : saidOptions'[s] \subseteq {WrapperOptions(s)}
  BY <1>6 DEF SInv, OptionsAgree
<1> QED BY <1>1, <1>2, <1>8, <1>9 DEF SInv, OptionsAgree

LEMMA NamesStayAgreed ==
  ASSUME NEW t \in Wanted, SInv, AskInstrumentationName(t)
  PROVE  NamesAgree'
<1>1. t \in Tool /\ Unset # InstrumentationName(t)
  BY StaticsAssumption
<1>2. /\ name' = IF t \in Valgrind THEN Once(name, InstrumentationName(t)) ELSE name
      /\ saidName' = [saidName EXCEPT ![t] =
                        @ \cup {IF t \in Valgrind THEN name' ELSE InstrumentationName(t)}]
  BY DEF AskInstrumentationName
<1>3. Valgrind \subseteq Tool
  BY DEF Valgrind, Tool
<1>4. name # Unset => name' = name
  BY <1>2 DEF Once
<1>5. t \in Valgrind => name' # Unset
  BY <1>1, <1>2 DEF Once
<1>6. ASSUME NEW s \in Tool
      PROVE  saidName'[s] = IF s # t THEN saidName[s]
               ELSE saidName[s] \cup {IF t \in Valgrind THEN name' ELSE InstrumentationName(t)}
  BY <1>1, <1>2 DEF SInv, NamesAgree
<1>7. \A s \in Valgrind : saidName[s] \subseteq {name} \ {Unset}
  BY DEF SInv, NamesAgree
<1>8. \A s \in Valgrind : saidName'[s] \subseteq {name'} \ {Unset}
  <2> TAKE s \in Valgrind
  <2>1. saidName[s] \subseteq {name'} \ {Unset}
    BY <1>4, <1>7
  <2> QED BY <2>1, <1>3, <1>5, <1>6
<1>9. \A s \in Tool \ Valgrind : saidName'[s] \subseteq {InstrumentationName(s)}
  BY <1>6 DEF SInv, NamesAgree
<1> QED BY <1>1, <1>2, <1>8, <1>9 DEF SInv, NamesAgree

LEMMA StepStatics == SInv /\ [Next]_vars => SInv'
<1> SUFFICES ASSUME SInv, [Next]_vars PROVE SInv'
  OBVIOUS
<1>1. ASSUME NEW n \in Names, LookUp(n) PROVE SInv'
  <2>1. Resolves'
    BY <1>1, LookUpResolves
  <2>2. UNCHANGED <<objects, options, name, saidOptions, saidName>>
    BY <1>1 DEF LookUp
  <2> QED BY <2>1, <2>2 DEF SInv, OptionsAgree, NamesAgree
<1>2. ASSUME NEW t \in Wanted, MakeSpecifiedTool(t) PROVE SInv'
  BY <1>2 DEF MakeSpecifiedTool, SInv, OptionsAgree, NamesAgree, Resolves, Populates
<1>3. ASSUME NEW t \in Wanted, AskWrapperOptions(t) PROVE SInv'
  <2>1. OptionsAgree'
    BY <1>3, OptionsStayAgreed
  <2>2. UNCHANGED <<objects, name, table, saidName, resolved>>
    BY <1>3 DEF AskWrapperOptions
  <2> QED BY <2>1, <2>2 DEF SInv, NamesAgree, Resolves, Populates
<1>4. ASSUME NEW t \in Wanted, AskInstrumentationName(t) PROVE SInv'
  <2>1. NamesAgree'
    BY <1>4, NamesStayAgreed
  <2>2. UNCHANGED <<objects, options, table, saidOptions, resolved>>
    BY <1>4 DEF AskInstrumentationName
  <2> QED BY <2>1, <2>2 DEF SInv, OptionsAgree, Resolves, Populates
<1>5. CASE UNCHANGED vars
  BY <1>5 DEF vars, SInv, OptionsAgree, NamesAgree, Resolves, Populates
<1> QED BY <1>1, <1>2, <1>3, <1>4, <1>5 DEF Next

(* However tools are asked and names looked up, no answer is ever taken back. *)
THEOREM NoAnswerTakenBack == Spec => []AnswersAreFinal
<1>1. SInv => AnswersAreFinal
  <2> SUFFICES ASSUME SInv PROVE AnswersAreFinal
    OBVIOUS
  <2>1. \A t \in Tool : \A a, b \in saidOptions[t] : a = b
    BY DEF SInv, OptionsAgree
  <2>2. \A t \in Tool : \A a, b \in saidName[t] : a = b
    BY DEF SInv, NamesAgree
  <2> QED BY <2>1, <2>2 DEF AnswersAreFinal, SInv, Resolves
<1> QED BY <1>1, InitStatics, StepStatics, PTL DEF Spec

(***************************************************************************)
(* Processes with one Valgrind tool.                                       *)
(***************************************************************************)
OneValgrindTool == \A s, t \in Wanted \cap Valgrind : s = t

(* A static holds what a tool of the process says, and who answered is one.   *)
FromWanted ==
  /\ options = Unset \/ \E t \in Wanted \cap Valgrind : options = WrapperOptions(t)
  /\ name = Unset \/ \E t \in Wanted \cap Valgrind : name = InstrumentationName(t)
  /\ \A t \in Tool : saidOptions[t] # {} \/ saidName[t] # {} => t \in Wanted

LEMMA StepFromWanted == SInv /\ FromWanted /\ [Next]_vars => FromWanted'
<1> SUFFICES ASSUME SInv, FromWanted, [Next]_vars PROVE FromWanted'
  OBVIOUS
<1>1. ASSUME NEW n \in Names, LookUp(n) PROVE FromWanted'
  BY <1>1 DEF LookUp, FromWanted
<1>2. ASSUME NEW t \in Wanted, MakeSpecifiedTool(t) PROVE FromWanted'
  BY <1>2 DEF MakeSpecifiedTool, FromWanted
<1>3. ASSUME NEW t \in Wanted, AskWrapperOptions(t) PROVE FromWanted'
  <2>1. /\ UNCHANGED <<name, saidName>>
        /\ options' = options \/ (t \in Valgrind /\ options' = WrapperOptions(t))
    BY <1>3 DEF AskWrapperOptions, Once
  <2>2. \A s \in Tool : s # t => saidOptions'[s] = saidOptions[s]
    BY <1>3 DEF AskWrapperOptions, SInv, OptionsAgree
  <2> QED BY <2>1, <2>2 DEF FromWanted
<1>4. ASSUME NEW t \in Wanted, AskInstrumentationName(t) PROVE FromWanted'
  <2>1. /\ UNCHANGED <<options, saidOptions>>
        /\ name' = name \/ (t \in Valgrind /\ name' = InstrumentationName(t))
    BY <1>4 DEF AskInstrumentationName, Once
  <2>2. \A s \in Tool : s # t => saidName'[s] = saidName[s]
    BY <1>4 DEF AskInstrumentationName, SInv, NamesAgree
  <2> QED BY <2>1, <2>2 DEF FromWanted
<1>5. CASE UNCHANGED vars
  BY <1>5 DEF vars, FromWanted
<1> QED BY <1>1, <1>2, <1>3, <1>4, <1>5 DEF Next

(* A process that constructs at most one of Valgrind's tools, whichever else  *)
(* it constructs, gets from each tool its own options and its own name.       *)
THEOREM EachForItself == ASSUME OneValgrindTool PROVE Spec => []AnswersForItself
<1>1. Init => FromWanted
  BY DEF Init, FromWanted
<1>2. SInv /\ FromWanted => AnswersForItself
  <2> SUFFICES ASSUME SInv, FromWanted, NEW t \in Tool
               PROVE  /\ saidOptions[t] \subseteq {WrapperOptions(t)}
                      /\ saidName[t] \subseteq {InstrumentationName(t)}
    BY DEF AnswersForItself
  <2>1. CASE t \in Valgrind
    <3>1. ASSUME NEW a \in saidOptions[t] PROVE a = WrapperOptions(t)
      BY <2>1, <3>1 DEF SInv, OptionsAgree, FromWanted, OneValgrindTool
    <3>2. ASSUME NEW a \in saidName[t] PROVE a = InstrumentationName(t)
      BY <2>1, <3>2 DEF SInv, NamesAgree, FromWanted, OneValgrindTool
    <3> QED BY <3>1, <3>2
  <2>2. CASE t \notin Valgrind
    BY <2>2 DEF SInv, OptionsAgree, NamesAgree
  <2> QED BY <2>1, <2>2
<1> QED BY <1>1, <1>2, InitStatics, StepStatics, StepFromWanted, PTL DEF Spec

(***************************************************************************)
(* Types.                                                                  *)
(***************************************************************************)
LEMMA LookUpKeepsTypes ==
  ASSUME TypeOK, NEW n \in Names, LookUp(n)
  PROVE  TypeOK'
<1> DEFINE names == Names \cup {StringFromTool[t] : t \in Tool}
           known == DOMAIN Populated
<1>1. known \subseteq names /\ \A m \in known : Populated[m] \in Tool
  <2>1. CASE table # Unset
    BY <2>1 DEF TypeOK, Populated
  <2>2. CASE table = Unset
    <3> DEFINE S == {StringFromTool[t] : t \in Tool}
               P == [m \in S |-> CHOOSE t \in Tool : StringFromTool[t] = m]
    <3>1. Populated = P
      BY <2>2 DEF Populated
    <3>2. ASSUME NEW m \in S PROVE P[m] \in Tool
      OBVIOUS
    <3>3. DOMAIN P = S
      OBVIOUS
    <3> HIDE DEF P
    <3> QED BY <3>1, <3>2, <3>3
  <2> QED BY <2>1, <2>2
<1>2. /\ table' = [m \in known \cup {n} |-> IF m \in known THEN Populated[m] ELSE "None"]
      /\ resolved' = [resolved EXCEPT ![n] = @ \cup {table'[n]}]
      /\ UNCHANGED <<objects, options, name, saidOptions, saidName>>
  BY DEF LookUp
<1>3. "None" \in Tool
  BY DEF Tool
<1> HIDE DEF known
<1>4. DOMAIN table' \subseteq names /\ \A m \in DOMAIN table' : table'[m] \in Tool
  BY <1>1, <1>2, <1>3
<1>5. n \in DOMAIN table'
  BY <1>2
<1>6. resolved' \in [Names -> SUBSET Tool]
  BY <1>2, <1>4, <1>5 DEF TypeOK
<1> QED BY <1>2, <1>4, <1>6 DEF TypeOK

(* An answer is a tool's own or what a static of Valgrind's holds, and a      *)
(* static that has been asked for holds something.                            *)
LEMMA AskingKeepsTypes ==
  ASSUME TypeOK, NEW t \in Wanted, AskWrapperOptions(t) \/ AskInstrumentationName(t)
  PROVE  TypeOK'
<1>1. t \in Tool /\ Unset # WrapperOptions(t) /\ Unset # InstrumentationName(t)
  BY StaticsAssumption
<1>2. Valgrind \subseteq Tool
  BY DEF Valgrind, Tool
<1>3. CASE AskWrapperOptions(t)
  <2> DEFINE said == IF t \in Valgrind THEN options' ELSE WrapperOptions(t)
  <2>1. /\ options' = IF t \in Valgrind THEN Once(options, WrapperOptions(t)) ELSE options
        /\ saidOptions' = [saidOptions EXCEPT ![t] = @ \cup {said}]
        /\ UNCHANGED <<objects, name, table, saidName, resolved>>
    BY <1>3 DEF AskWrapperOptions
  <2>2. options' \in {WrapperOptions(s) : s \in Valgrind} \cup {Unset}
    BY <2>1 DEF TypeOK, Once
  <2>3. t \in Valgrind => options' # Unset
    BY <1>1, <2>1 DEF Once
  <2>4. said \in {WrapperOptions(s) : s \in Tool}
    BY <1>1, <1>2, <2>2, <2>3
  <2> HIDE DEF said
  <2>5. saidOptions' \in [Tool -> SUBSET {WrapperOptions(s) : s \in Tool}]
    BY <1>1, <2>1, <2>4 DEF TypeOK
  <2> QED BY <2>1, <2>2, <2>5 DEF TypeOK
<1>4. CASE AskInstrumentationName(t)
  <2> DEFINE said == IF t \in Valgrind THEN name' ELSE InstrumentationName(t)
  <2>1. /\ name' = IF t \in Valgrind THEN Once(name, InstrumentationName(t)) ELSE name
        /\ saidName' = [saidName EXCEPT ![t] = @ \cup {said}]
        /\ UNCHANGED <<objects, options, table, saidOptions, resolved>>
    BY <1>4 DEF AskInstrumentationName
  <2>2. name' \in {InstrumentationName(s) : s \in Valgrind} \cup {Unset}
    BY <2>1 DEF TypeOK, Once
  <2>3. t \in Valgrind => name' # Unset
    BY <1>1, <2>1 DEF Once
  <2>4. said \in {InstrumentationName(s) : s \in Tool}
    BY <1>1, <1>2, <2>2, <2>3
  <2> HIDE DEF said
  <2>5. saidName' \in [Tool -> SUBSET {InstrumentationName(s) : s \in Tool}]
    BY <1>1, <2>1, <2>4 DEF TypeOK
  <2> QED BY <2>1, <2>2, <2>5 DEF TypeOK
<1> QED BY <1>3, <1>4

(* The statics and the map hold what the tools say of themselves, and a name  *)
(* nobody knows still means a tool.                                           *)
THEOREM TypesOfStatics == Spec => []TypeOK
<1>1. Init => TypeOK
  BY DEF Init, TypeOK
<1>2. TypeOK /\ [Next]_vars => TypeOK'
  <2> SUFFICES ASSUME TypeOK, [Next]_vars PROVE TypeOK'
    OBVIOUS
  <2>1. ASSUME NEW n \in Names, LookUp(n) PROVE TypeOK'
    BY <2>1, LookUpKeepsTypes
  <2>2. ASSUME NEW t \in Wanted, MakeSpecifiedTool(t) PROVE TypeOK'
    BY <2>2 DEF MakeSpecifiedTool, TypeOK
  <2>3. ASSUME NEW t \in Wanted, AskWrapperOptions(t) \/ AskInstrumentationName(t)
        PROVE  TypeOK'
    BY <2>3, AskingKeepsTypes
  <2>4. CASE UNCHANGED vars
    BY <2>4 DEF vars, TypeOK
  <2> QED BY <2>1, <2>2, <2>3, <2>4 DEF Next
<1> QED BY <1>1, <1>2, PTL DEF Spec

=============================================================================
