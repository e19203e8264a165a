--------------------------- MODULE InvocationProofs ---------------------------
(***************************************************************************)
(* What is so of the command lines and environments programs hand to each  *)
(* other, whatever is in them: the lemmas that the proofs about one        *)
(* invocation and about the harness share.                                 *)
(***************************************************************************)
EXTENDS Invocation, LeastElements, SequenceTheorems

(***************************************************************************)
(* Sequences of anything.                                                  *)
(***************************************************************************)
Sequence(s) == \E S : s \in Seq(S)

LEMMA SequenceShape ==
  ASSUME NEW s, Sequence(s)
  PROVE  Len(s) \in Nat /\ DOMAIN s = 1 .. Len(s) /\ s = [i \in 1 .. Len(s) |-> s[i]]
<1>1. PICK S : s \in Seq(S)
  BY DEF Sequence
<1>2. Len(s) \in Nat /\ s \in [1 .. Len(s) -> S] /\ DOMAIN s = 1 .. Len(s)
  BY <1>1, LenProperties
<1> QED BY <1>2

LEMMA FunctionIsSequence ==
  ASSUME NEW n \in Nat, NEW f, DOMAIN f = 1 .. n, f = [i \in DOMAIN f |-> f[i]]
  PROVE  Sequence(f) /\ Len(f) = n
<1> DEFINE S == {f[i] : i \in 1 .. n}
<1>1. f \in [1 .. n -> S]
  OBVIOUS
<1> HIDE DEF S
<1>2. f \in Seq(S)
  BY <1>1, SeqDef
<1>3. DOMAIN f = 1 .. Len(f) /\ Len(f) \in Nat
  BY <1>2, LenProperties
<1> QED BY <1>2, <1>3 DEF Sequence

LEMMA SequencesEqual ==
  ASSUME NEW s, Sequence(s), NEW t, Sequence(t), Len(s) = Len(t),
         \A i \in 1 .. Len(s) : s[i] = t[i]
  PROVE  s = t
<1>1. s = [i \in 1 .. Len(s) |-> s[i]] /\ t = [i \in 1 .. Len(s) |-> t[i]]
  BY SequenceShape
<1> QED BY <1>1

LEMMA Together ==
  ASSUME NEW s, Sequence(s), NEW t, Sequence(t)
  PROVE  \E S : s \in Seq(S) /\ t \in Seq(S)
<1>1. PICK S, T : s \in Seq(S) /\ t \in Seq(T)
  BY DEF Sequence
<1> DEFINE U == S \cup T
<1>2. S \subseteq U /\ T \subseteq U
  OBVIOUS
<1> HIDE DEF U
<1>3. s \in Seq(U) /\ t \in Seq(U)
  BY <1>1, <1>2, SeqMonotonic
<1> QED BY <1>3

LEMMA Concatenated ==
  ASSUME NEW s, Sequence(s), NEW t, Sequence(t)
  PROVE  /\ Sequence(s \o t) /\ Len(s) \in Nat /\ Len(t) \in Nat
         /\ Len(s \o t) = Len(s) + Len(t)
         /\ \A i \in 1 .. Len(s) : (s \o t)[i] = s[i]
         /\ \A i \in 1 .. Len(t) : (s \o t)[Len(s) + i] = t[i]
<1>1. PICK S : s \in Seq(S) /\ t \in Seq(S)
  BY Together
<1>2. Len(s) \in Nat /\ Len(t) \in Nat
  BY SequenceShape
<1>3. /\ s \o t \in Seq(S) /\ Len(s \o t) = Len(s) + Len(t)
      /\ \A i \in 1 .. Len(s) + Len(t) : (s \o t)[i] = IF i <= Len(s) THEN s[i] ELSE t[i - Len(s)]
  BY <1>1, ConcatProperties
<1>4. \A i \in 1 .. Len(s) : i \in 1 .. Len(s) + Len(t) /\ i <= Len(s)
  BY <1>2
<1>5. \A i \in 1 .. Len(t) : /\ Len(s) + i \in 1 .. Len(s) + Len(t)
                             /\ ~(Len(s) + i <= Len(s)) /\ Len(s) + i - Len(s) = i
  BY <1>2
<1> QED BY <1>2, <1>3, <1>4, <1>5 DEF Sequence

LEMMA Associative ==
  ASSUME NEW s, Sequence(s), NEW t, Sequence(t), NEW u, Sequence(u)
  PROVE  (s \o t) \o u = s \o (t \o u)
<1>1. PICK S, T : s \in Seq(S) /\ t \in Seq(S) /\ u \in Seq(T)
  BY Together DEF Sequence
<1> DEFINE U == S \cup T
<1>2. S \subseteq U /\ T \subseteq U
  OBVIOUS
<1> HIDE DEF U
<1>3. s \in Seq(U) /\ t \in Seq(U) /\ u \in Seq(U)
  BY <1>1, <1>2, SeqMonotonic
<1> QED BY <1>3, ConcatAssociative

LEMMA Empties ==
  /\ Sequence(<<>>) /\ Len(<<>>) = 0
  /\ \A s : Sequence(s) => <<>> \o s = s /\ s \o <<>> = s
BY EmptySeq, ConcatEmptySeq DEF Sequence

LEMMA Single ==
  ASSUME NEW e
  PROVE  Sequence(<<e>>) /\ Len(<<e>>) = 1 /\ <<e>>[1] = e
<1>1. <<e>> \in Seq({e})
  OBVIOUS
<1> QED BY <1>1 DEF Sequence

LEMMA Extended ==
  ASSUME NEW s, Sequence(s), NEW e
  PROVE  /\ Sequence(s \o <<e>>) /\ Len(s \o <<e>>) = Len(s) + 1 /\ Len(s) \in Nat
         /\ \A i \in 1 .. Len(s) : (s \o <<e>>)[i] = s[i]
         /\ (s \o <<e>>)[Len(s) + 1] = e
<1> DEFINE last == <<e>>
<1>1. Sequence(last) /\ Len(last) = 1 /\ last[1] = e
  BY Single
<1> HIDE DEF last
<1>2. \A a, b : Sequence(a) /\ Sequence(b) =>
        /\ Sequence(a \o b) /\ Len(a \o b) = Len(a) + Len(b) /\ Len(a) \in Nat
        /\ \A i \in 1 .. Len(a) : (a \o b)[i] = a[i]
        /\ \A i \in 1 .. Len(b) : (a \o b)[Len(a) + i] = b[i]
  BY Concatenated
<1>3. 1 \in 1 .. Len(last)
  BY <1>1
<1> QED BY <1>1, <1>2, <1>3 DEF last

LEMMA Appended ==
  ASSUME NEW s, Sequence(s), NEW e
  PROVE  Append(s, e) = s \o <<e>> /\ Sequence(Append(s, e))
<1>1. PICK S : s \in Seq(S) /\ <<e>> \in Seq(S)
  BY Together, Single
<1>2. e \in S
  <2>1. 1 \in 1 .. Len(<<e>>) /\ <<e>>[1] = e
    BY Single
  <2> QED BY <1>1, <2>1, ElementOfSeq
<1>3. Append(s, e) = s \o <<e>> /\ Append(s, e) \in Seq(S)
  BY <1>1, <1>2, AppendIsConcat, AppendProperties
<1> QED BY <1>3 DEF Sequence

LEMMA Prefixed ==
  ASSUME NEW e, NEW s, Sequence(s)
  PROVE  /\ Sequence(<<e>> \o s) /\ Len(<<e>> \o s) = 1 + Len(s) /\ (<<e>> \o s)[1] = e
         /\ \A i \in 1 .. Len(s) : (<<e>> \o s)[1 + i] = s[i]
<1> DEFINE o == <<e>>
<1>1. Sequence(o) /\ Len(o) = 1 /\ o[1] = e
  BY Single
<1> HIDE DEF o
<1>2. /\ Sequence(o \o s) /\ Len(o \o s) = Len(o) + Len(s)
      /\ \A i \in 1 .. Len(o) : (o \o s)[i] = o[i]
      /\ \A i \in 1 .. Len(s) : (o \o s)[Len(o) + i] = s[i]
  <2>1. Sequence(o) /\ Sequence(s)
    BY <1>1
  <2>2. \A a, b : Sequence(a) /\ Sequence(b) =>
          /\ Sequence(a \o b) /\ Len(a \o b) = Len(a) + Len(b)
          /\ \A i \in 1 .. Len(a) : (a \o b)[i] = a[i]
          /\ \A i \in 1 .. Len(b) : (a \o b)[Len(a) + i] = b[i]
    BY Concatenated
  <2> QED BY <2>1, <2>2
<1>3. 1 \in 1 .. Len(o)
  BY <1>1
<1> QED BY <1>1, <1>2, <1>3 DEF o

(* The end of a sequence, from the k-th element on. *)
LEMMA Rest ==
  ASSUME NEW s, Sequence(s), NEW k \in Nat, 1 <= k, k <= Len(s) + 1
  PROVE  LET r == SubSeq(s, k, Len(s))
         IN  /\ Sequence(r) /\ Len(r) = Len(s) - k + 1
             /\ \A i \in 1 .. Len(s) - k + 1 : r[i] = s[k + i - 1]
<1>1. PICK S : s \in Seq(S)
  BY DEF Sequence
<1>2. Len(s) \in Nat /\ k \in Int /\ Len(s) \in Int
  BY SequenceShape
<1>3. \A i \in k .. Len(s) : i \in 1 .. Len(s)
  BY <1>2
<1>4. \A i \in k .. Len(s) : s[i] \in S
  BY <1>1, <1>3, ElementOfSeq
<1>5. /\ SubSeq(s, k, Len(s)) \in Seq(S)
      /\ Len(SubSeq(s, k, Len(s))) = IF k <= Len(s) THEN Len(s) - k + 1 ELSE 0
      /\ \A i \in 1 .. Len(s) - k + 1 : SubSeq(s, k, Len(s))[i] = s[k + i - 1]
  BY <1>2, <1>4, SubSeqProperties
<1>6. (IF k <= Len(s) THEN Len(s) - k + 1 ELSE 0) = Len(s) - k + 1
  BY <1>2
<1> QED BY <1>5, <1>6 DEF Sequence

(* Two and three elements, put together. *)
LEMMA Two ==
  ASSUME NEW a, NEW b
  PROVE  <<a>> \o <<b>> = <<a, b>>
<1> DEFINE s == <<a>>
           t == s \o <<b>>
           u == <<a, b>>
<1>1. Sequence(s) /\ Len(s) = 1 /\ s[1] = a
  BY Single
<1>2. Sequence(u) /\ Len(u) = 2 /\ u[1] = a /\ u[2] = b
  <2>1. u \in Seq({a, b})
    OBVIOUS
  <2> QED BY <2>1 DEF Sequence
<1> HIDE DEF s, u
<1>3. /\ Sequence(t) /\ Len(t) = Len(s) + 1 /\ t[Len(s) + 1] = b
      /\ \A i \in 1 .. Len(s) : t[i] = s[i]
  BY <1>1, Extended
<1> HIDE DEF t
<1>4. t = u
  <2>1. \A i \in 1 .. 2 : i = 1 \/ i = 2
    OBVIOUS
  <2>2. t[1] = a /\ t[2] = b /\ Len(t) = 2
    BY <1>1, <1>3
  <2> QED BY <1>2, <1>3, <2>1, <2>2, SequencesEqual
<1> QED BY <1>4 DEF s, t, u

LEMMA Triple == ASSUME NEW a, NEW b, NEW c PROVE <<a, b>> \o <<c>> = <<a, b, c>>
<1> DEFINE s == <<a, b>> \o <<c>>
           S == {a, b, c}
<1>1. <<a, b>> \in Seq(S) /\ <<c>> \in Seq(S) /\ Len(<<a, b>>) = 2 /\ Len(<<c>>) = 1
  OBVIOUS
<1>2. s \in Seq(S) /\ Len(s) = 3
      /\ \A i \in 1 .. 3 : s[i] = IF i <= 2 THEN <<a, b>>[i] ELSE <<c>>[i - 2]
  BY <1>1, ConcatProperties
<1>3. s[1] = a /\ s[2] = b /\ s[3] = c
  BY <1>2
<1> HIDE DEF s
<1>4. s = <<a, b, c>>
  BY <1>2, <1>3
<1> QED BY <1>4 DEF s

LEMMA Three ==
  ASSUME NEW a, NEW b, NEW c
  PROVE  LET s == (<<a>> \o <<b>>) \o <<c>>
         IN  Sequence(s) /\ Len(s) = 3 /\ s[1] = a /\ s[2] = b /\ s[3] = c
<1> DEFINE s == <<a, b, c>>
<1>1. s \in Seq({a, b, c}) /\ Len(s) = 3 /\ s[1] = a /\ s[2] = b /\ s[3] = c
  OBVIOUS
<1> HIDE DEF s
<1>2. (<<a>> \o <<b>>) \o <<c>> = s
  <2>1. <<a>> \o <<b>> = <<a, b>>
    BY Two
  <2>2. <<a, b>> \o <<c>> = s
    BY Triple DEF s
  <2> QED BY <2>1, <2>2
<1> QED BY <1>1, <1>2 DEF Sequence

LEMMA LastAlone ==
  ASSUME NEW S, NEW s \in Seq(S), s # <<>> PROVE SubSeq(s, Len(s), Len(s)) = <<s[Len(s)]>>
<1> DEFINE n == Len(s)
           u == SubSeq(s, n, n)
<1>1. n \in Nat \ {0}
  BY EmptySeq
<1>2. \A i \in n .. n : s[i] \in S
  BY <1>1, ElementOfSeq
<1>3. u \in Seq(S) /\ Len(u) = 1 /\ u[1] = s[n]
  <2> HIDE DEF n
  <2>1. /\ u \in Seq(S) /\ Len(u) = IF n <= n THEN n - n + 1 ELSE 0
        /\ \A i \in 1 .. n - n + 1 : u[i] = s[n + i - 1]
    BY <1>1, <1>2, SubSeqProperties
  <2>2. n - n + 1 = 1 /\ n + 1 - 1 = n /\ n <= n
    BY <1>1
  <2> HIDE DEF u
  <2> QED BY <2>1, <2>2
<1> HIDE DEF u
<1>4. u = <<s[n]>>
  BY <1>3
<1> QED BY <1>4 DEF u

(***************************************************************************)
(* What the relaunch makes of its command line and environment.            *)
(***************************************************************************)

(* Google Test leaves the name of the program where it is, *)
LEMMA NameIsKept ==
  ASSUME NEW args, Sequence(args)
  PROVE  WithoutFlags(args)[1] = args[1]
<1> DEFINE others == {i \in 2 .. Len(args) : args[i].is # "gtest"}
           n == Cardinality(others)
           f == [k \in 1 .. n |-> args[Nth(others, k)]]
<1>1. n \in Nat
  <2>1. Len(args) \in Nat
    BY SequenceShape
  <2>2. IsFiniteSet(2 .. Len(args)) /\ others \subseteq 2 .. Len(args)
    BY <2>1, FS_Interval
  <2> HIDE DEF others
  <2> QED BY <2>2, FS_Subset, FS_CardinalityType
<1>2. WithoutFlags(args) = <<args[1]>> \o f
  BY DEF WithoutFlags
<1>3. DOMAIN f = 1 .. n /\ f = [i \in DOMAIN f |-> f[i]]
  OBVIOUS
<1> HIDE DEF f, n
<1>4. Sequence(f)
  BY <1>1, <1>3, FunctionIsSequence
<1> QED BY <1>2, <1>4, Prefixed

(* and nothing but the name when there is nothing else. *)
LEMMA NameAlone ==
  ASSUME NEW args, Len(args) = 1
  PROVE  WithoutFlags(args) = <<args[1]>>
<1> DEFINE others == {i \in 2 .. Len(args) : args[i].is # "gtest"}
           n == Cardinality(others)
           f == [k \in 1 .. n |-> args[Nth(others, k)]]
<1>1. WithoutFlags(args) = <<args[1]>> \o f
  BY DEF WithoutFlags
<1>2. n = 0
  <2>1. others = {}
    OBVIOUS
  <2> QED BY <2>1, FS_EmptySet
<1>3. DOMAIN f = 1 .. n /\ f = [i \in DOMAIN f |-> f[i]]
  OBVIOUS
<1> HIDE DEF f, n
<1>4. Sequence(f) /\ Len(f) = 0
  BY <1>2, <1>3, FunctionIsSequence
<1>5. f = <<>>
  BY <1>4, Empties, SequencesEqual
<1> QED BY <1>1, <1>5, Single, Empties

(* The wrapper, an option it may have, then one word. *)
WrapsWord(args, w) ==
  w.is = "word" /\ \E v, o : o.is = "option" /\ args \in {<<v, w>>, <<v, o, w>>}

(* What is executed is the wrapper, an option if it has one, and the program. *)
LEMMA BuildsCommand ==
  ASSUME NEW args, NEW t, args[1].is = "word"
  PROVE  WrapsWord(BuildCommandLine(args, t), args[1])
<1> DEFINE v == Word(InstrumentationWrapper(t))
           o == Option(WrapperOptions(t))
           a == args[1]
<1>1. o.is = "option"
  BY DEF Option
<1>2. CASE WrapperOptions(t) = Empty
  <2>1. BuildCommandLine(args, t) = (<<v>> \o <<>>) \o <<a>>
    BY <1>2 DEF BuildCommandLine
  <2>2. <<v>> \in Seq({v})
    OBVIOUS
  <2>3. BuildCommandLine(args, t) = <<v, a>>
    BY <2>1, <2>2, ConcatEmptySeq, Two
  <2> HIDE DEF v, o
  <2> QED BY <1>1, <2>3 DEF WrapsWord
<1>3. CASE WrapperOptions(t) # Empty
  <2>1. BuildCommandLine(args, t) = (<<v>> \o <<o>>) \o <<a>>
    BY <1>3 DEF BuildCommandLine
  <2> HIDE DEF v, o, a
  <2>2. <<v>> \o <<o>> = <<v, o>>
    BY Two
  <2>3. <<v, o>> \o <<a>> = <<v, o, a>>
    BY Triple
  <2>4. BuildCommandLine(args, t) = <<v, o, a>>
    BY <2>1, <2>2, <2>3
  <2> QED BY <1>1, <2>4 DEF WrapsWord, a
<1> QED BY <1>2, <1>3

(* The wrapper runs that word. *)
LEMMA RunsWord ==
  ASSUME NEW args, NEW w, WrapsWord(args, w) PROVE WrappedCommand(args) = <<w>>
<1>1. PICK v, o : o.is = "option" /\ args \in {<<v, w>>, <<v, o, w>>}
  BY DEF WrapsWord
<1> DEFINE First(i) == i \in 2 .. Len(args) /\ args[i].is = "word"
                       /\ \A j \in 2 .. i - 1 : args[j].is # "word"
<1>2. w.is = "word"
  BY DEF WrapsWord
<1>3. ASSUME NEW i PROVE First(i) <=> i = Len(args)
  <2>1. CASE args = <<v, w>>
    BY <2>1, <1>1, <1>2
  <2>2. CASE args = <<v, o, w>>
    BY <2>2, <1>1, <1>2
  <2> QED BY <2>1, <2>2, <1>1
<1>4. (CHOOSE i \in 2 .. Len(args) : args[i].is = "word"
                                     /\ \A j \in 2 .. i - 1 : args[j].is # "word") = Len(args)
  BY <1>3
<1>5. SubSeq(args, Len(args), Len(args)) = <<w>>
  <2>1. /\ args \in Seq({v, o, w}) /\ args # <<>>
        /\ args[Len(args)] = w
    <3>1. CASE args = <<v, w>>
      BY <3>1
    <3>2. CASE args = <<v, o, w>>
      BY <3>2
    <3> QED BY <3>1, <3>2, <1>1
  <2> QED BY <2>1, LastAlone
<1> QED BY <1>4, <1>5 DEF WrappedCommand

LEMMA CommandName ==
  ASSUME NEW args, NEW tool
  PROVE  BuildCommandLine(args, tool)[1].text = InstrumentationWrapper(tool)
<1> DEFINE a == Word(InstrumentationWrapper(tool))
           o == IF WrapperOptions(tool) = Empty THEN <<>> ELSE <<Option(WrapperOptions(tool))>>
           x == <<a>>
           y == <<args[1]>>
<1>1. BuildCommandLine(args, tool) = (x \o o) \o y
  BY DEF BuildCommandLine
<1>2. a.text = InstrumentationWrapper(tool)
  BY DEF Word
<1>3. Sequence(o)
  BY Empties, Single
<1> HIDE DEF o, a
<1>4. /\ Sequence(x \o o) /\ Len(x \o o) = 1 + Len(o) /\ (x \o o)[1] = a
  BY <1>3, Prefixed
<1>5. Sequence(y) /\ Len(o) \in Nat
  BY <1>3, Single, SequenceShape
<1> DEFINE z == x \o o
<1> HIDE DEF y, z
<1>6. \A i \in 1 .. Len(z) : (z \o y)[i] = z[i]
  BY <1>4, <1>5, Concatenated DEF z
<1>7. 1 \in 1 .. Len(z)
  BY <1>4, <1>5 DEF z
<1> QED BY <1>1, <1>2, <1>4, <1>6, <1>7 DEF z

(* The environment of a tool says so, and names it. *)
LEMMA ToolEnviron ==
  ASSUME NEW env, Sequence(env), NEW tool, ~IsActive(env)
  PROVE  LET new == GetToolEnv(env, tool)
         IN  Sequence(new) /\ IsActive(new) /\ ActiveTool(new) = StringFromTool[tool]
<1> DEFINE pair == [key |-> Key, value |-> InstrumentationName(tool)]
           new  == Append(env, pair)
           n    == Len(env) + 1
<1>1. GetToolEnv(env, tool) = new
  BY DEF GetToolEnv, InsertEnvironmentPair
<1>2. pair.key = Key /\ pair.value = StringFromTool[tool]
  BY DEF InstrumentationName
<1> HIDE DEF pair
<1>3. new = env \o <<pair>> /\ Sequence(new)
  BY Appended
<1> HIDE DEF new
<1>4. /\ Len(new) = n /\ n \in Nat /\ n >= 1 /\ DOMAIN new = 1 .. n /\ new[n] = pair
      /\ \A i \in 1 .. n - 1 : new[i] = env[i] /\ i \in DOMAIN env
  <2>1. /\ Len(env \o <<pair>>) = n /\ Len(env) \in Nat /\ (env \o <<pair>>)[n] = pair
        /\ \A i \in 1 .. Len(env) : (env \o <<pair>>)[i] = env[i]
    BY Extended
  <2>2. n - 1 = Len(env)
    BY <2>1
  <2> QED BY <2>1, <2>2, <1>3, SequenceShape
<1> HIDE DEF n
<1>5. \A i \in DOMAIN new : new[i].key = Key <=> i = n
  BY <1>2, <1>4 DEF IsActive
<1>6. IsActive(new)
  BY <1>4, <1>5 DEF IsActive
<1>7. ActiveTool(new) = new[n].value
  <2> DEFINE C(i) == new[i].key = Key /\ \A j \in 1 .. i - 1 : new[j].key # Key
  <2>1. ASSUME NEW i \in DOMAIN new PROVE C(i) <=> i = n
    <3>1. i \in 1 .. n /\ \A j \in 1 .. i - 1 : j \in 1 .. n /\ j # n
      BY <1>4
    <3> QED BY <1>4, <1>5, <3>1
  <2>2. n \in DOMAIN new
    BY <1>4
  <2> HIDE DEF C
  <2>3. (CHOOSE i \in DOMAIN new : C(i)) = n
    BY <2>1, <2>2
  <2> QED BY <2>3 DEF ActiveTool, C
<1> QED BY <1>1, <1>2, <1>3, <1>4, <1>6, <1>7

(***************************************************************************)
(* Types.                                                                  *)
(***************************************************************************)
LEMMA NoFlags ==
  ASSUME NEW S, NEW args \in Seq(S), args # <<>>
  PROVE  WithoutFlags(args) \in Seq(S) /\ WithoutFlags(args) # <<>>
<1> DEFINE others == {i \in 2 .. Len(args) : args[i].is # "gtest"}
           n == Cardinality(others)
           f == [k \in 1 .. n |-> args[Nth(others, k)]]
           first == <<args[1]>>
<1>1. Len(args) \in Nat /\ Len(args) >= 1 /\ others \in SUBSET (0 .. Len(args))
  BY EmptySeq, LenProperties
<1>2. n \in Nat
  <2> HIDE DEF others
  <2>1. IsFiniteSet(0 .. Len(args))
    BY <1>1, FS_Interval
  <2> QED BY <1>1, <2>1, FS_Subset, FS_CardinalityType
<1>3. \A i \in others : args[i] \in S
  BY <1>1, ElementOfSeq
<1>4. ASSUME NEW k \in 1 .. n PROVE Nth(others, k) \in others
  <2> HIDE DEF others
  <2>1. \E i \in others : Cardinality({j \in others : j <= i}) = k
    BY <1>1, HasNth
  <2> QED BY <2>1 DEF Nth
<1>5. f \in Seq(S)
  <2>1. f \in [1 .. n -> S]
    <3> HIDE DEF others, n
    <3> QED BY <1>3, <1>4
  <2> HIDE DEF f, n
  <2> QED BY <1>2, <2>1, SeqDef
<1>6. first \in Seq(S) /\ Len(first) = 1
  BY <1>1, ElementOfSeq
<1>7. WithoutFlags(args) = first \o f
  BY DEF WithoutFlags
<1> HIDE DEF first, f
<1>8. first \o f \in Seq(S) /\ Len(first \o f) >= 1
  <2>1. Len(f) \in Nat
    BY <1>5, LenProperties
  <2>2. first \o f \in Seq(S) /\ Len(first \o f) = 1 + Len(f)
    BY <1>5, <1>6, ConcatProperties
  <2> QED BY <2>1, <2>2
<1> QED BY <1>7, <1>8, EmptySeq

LEMMA ParsesToTool == ASSUME NEW args PROVE ParseOptionsToTool(args) \in Tool
BY DEF ParseOptionsToTool, ToolFromString, Tool

LEMMA CommandTyped ==
  ASSUME NEW args \in Seq(Argument), args # <<>>, NEW t \in Tool
  PROVE  BuildCommandLine(args, t) \in Seq(Argument) /\ BuildCommandLine(args, t) # <<>>
<1> DEFINE x == <<Word(InstrumentationWrapper(t))>>
           o == IF WrapperOptions(t) = Empty THEN <<>> ELSE <<Option(WrapperOptions(t))>>
           y == <<args[1]>>
<1>1. args[1] \in Argument
  BY EmptySeq, LenProperties, ElementOfSeq
<1>2. Word(InstrumentationWrapper(t)) \in Argument /\ Option(WrapperOptions(t)) \in Argument
  BY InvocationAssumption DEF Word, Option, Argument
<1>3. x \in Seq(Argument) /\ Len(x) = 1 /\ o \in Seq(Argument) /\ y \in Seq(Argument)
  <2>1. \A a \in Argument : <<a>> \in Seq(Argument) /\ Len(<<a>>) = 1
    OBVIOUS
  <2> QED BY <1>1, <1>2, <2>1, EmptySeq
<1>4. BuildCommandLine(args, t) = (x \o o) \o y
  BY DEF BuildCommandLine
<1> HIDE DEF x, o, y
<1>5. x \o o \in Seq(Argument) /\ Len(x \o o) = 1 + Len(o) /\ Len(o) \in Nat
  BY <1>3, ConcatProperties, LenProperties
<1>6. (x \o o) \o y \in Seq(Argument) /\ Len((x \o o) \o y) >= 1
  <2> DEFINE z == x \o o
  <2> HIDE DEF z
  <2>1. z \in Seq(Argument) /\ Len(z) \in Nat /\ Len(z) >= 1 /\ Len(y) \in Nat
    BY <1>3, <1>5, LenProperties DEF z
  <2>2. z \o y \in Seq(Argument) /\ Len(z \o y) >= 1
    BY <2>1, <1>3, ConcatProperties
  <2> QED BY <2>2 DEF z
<1> QED BY <1>4, <1>6, EmptySeq

LEMMA EnvironTyped ==
  ASSUME NEW env \in Seq(Entry), NEW t \in Tool
  PROVE  GetToolEnv(env, t) \in Seq(Entry)
<1> DEFINE pair == [key |-> Key, value |-> InstrumentationName(t)]
<1>1. pair \in Entry
  BY InvocationAssumption DEF Entry
<1> HIDE DEF pair
<1> QED BY <1>1, AppendProperties DEF GetToolEnv, InsertEnvironmentPair, pair

(* getenv finds a text, where it finds one. *)
LEMMA ActiveTyped ==
  ASSUME NEW env \in Seq(Entry), IsActive(env)
  PROVE  ActiveTool(env) \in String
<1> DEFINE Keyed == {i \in DOMAIN env : env[i].key = Key}
           First(i) == env[i].key = Key /\ \A j \in 1 .. i - 1 : env[j].key # Key
<1>1. Len(env) \in Nat /\ DOMAIN env = 1 .. Len(env)
  BY LenProperties
<1>2. Keyed \in SUBSET (0 .. Len(env)) /\ Keyed # {}
  BY <1>1 DEF IsActive
<1>3. PICK m \in Keyed : \A n \in Keyed : m <= n
  <2> HIDE DEF Keyed
  <2> QED BY <1>1, <1>2, HasLeast
<1>4. m \in DOMAIN env /\ First(m)
  <2>1. ASSUME NEW j \in 1 .. m - 1 PROVE env[j].key # Key
    <3>1. j \in DOMAIN env /\ ~(m <= j)
      BY <1>1, <1>3
    <3> QED BY <1>3, <3>1
  <2> QED BY <1>3, <2>1
<1> DEFINE c == CHOOSE i \in DOMAIN env : First(i)
<1>5. c \in DOMAIN env
  <2> HIDE DEF First
  <2> QED BY <1>4
<1>6. ActiveTool(env) = env[c].value
  BY DEF ActiveTool
<1> HIDE DEF c
<1>7. env[c] \in Entry
  BY <1>1, <1>5, ElementOfSeq
<1> QED BY <1>6, <1>7 DEF Entry

LEMMA RequestTyped ==
  ASSUME NEW a, NEW e \in Seq(Entry)
  PROVE  RequestOf([argv |-> a, environ |-> e])
           \in [is : {"plain", "inherited", "instrumented", "malformed"},
               name : String \cup {Nothing}]
<1> DEFINE t == ParseOptionsToTool(WithoutFlags(a))
<1>1. StringFromTool[t] \in String
  BY ParsesToTool, InvocationAssumption DEF InstrumentationName
<1>2. IsActive(e) => ActiveTool(e) \in String
  BY ActiveTyped
<1> QED BY <1>1, <1>2 DEF RequestOf
===============================================================================
