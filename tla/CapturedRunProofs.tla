--------------------------- MODULE CapturedRunProofs ---------------------------
(***************************************************************************)
(* That a test of the harness sees what its command means: the refinement  *)
(* of CapturedRun by Harness, for any tests, programs, size of the pipe    *)
(* and numbers of processes and descriptors.                               *)
(***************************************************************************)
EXTENDS HarnessProofs

(***************************************************************************)
(* The specification's vocabulary is the harness's.                        *)
(***************************************************************************)
LEMMA SameResults ==
  /\ Captured!None = None /\ Captured!Threw = Threw
  /\ \A c : Captured!Returned(c) = Returned(c)
BY DEF Captured!None, None, Captured!Threw, Threw, Captured!Returned, Returned

LEMMA SameWords ==
  /\ Captured!Empty = Empty
  /\ \A a, b : Captured!Says(a, b) = Says(a, b)
BY DEF Captured!Empty, Empty, Captured!Says, Says

LEMMA SameTools ==
  /\ \A a : Captured!WithoutFlags(a) = WithoutFlags(a)
  /\ \A a : Captured!ParseOptionsToTool(a) = ParseOptionsToTool(a)
  /\ \A tool : Captured!InstrumentationWrapper(tool) = InstrumentationWrapper(tool)
  /\ \A tool : Captured!WrapperOptions(tool) = WrapperOptions(tool)
<1>1. \A a : Captured!WithoutFlags(a) = WithoutFlags(a)
  BY DEF Captured!WithoutFlags, WithoutFlags, Captured!Nth, Nth, Captured!Cardinality, Cardinality
<1>2. \A a : Captured!ParseOptionsToTool(a) = ParseOptionsToTool(a)
  BY DEF Captured!ParseOptionsToTool, ParseOptionsToTool, Captured!ToolFromString, ToolFromString,
         Captured!StringFromTool, StringFromTool, Captured!ParseOptionsForTool, ParseOptionsForTool,
         Captured!Given, Given, Captured!Tool, Tool
<1>3. \A tool : Captured!ClassOf(tool) = ClassOf(tool)
  BY DEF Captured!ClassOf, ClassOf, Captured!NoneTool, NoneTool, Captured!TimerTool, TimerTool,
         Captured!PassthroughTool, PassthroughTool, Captured!ToolBase, ToolBase,
         Captured!MemcheckTool, MemcheckTool, Captured!CallgrindTool, CallgrindTool,
         Captured!CachegrindTool, CachegrindTool, Captured!Empty, Empty
<1>4. \A tool : Captured!InstrumentationWrapper(tool) = InstrumentationWrapper(tool)
  BY <1>3 DEF Captured!InstrumentationWrapper, InstrumentationWrapper
<1>5. \A tool : Captured!WrapperOptions(tool) = WrapperOptions(tool)
  BY <1>3 DEF Captured!WrapperOptions, WrapperOptions
<1> QED BY <1>1, <1>2, <1>4, <1>5

LEMMA SameRequests ==
  \A call : Captured!RequestOf(call) = RequestOf(call)
<1>1. \A tool : Captured!NeedsWrapper(tool) = NeedsWrapper(tool)
  BY SameTools DEF Captured!NeedsWrapper, NeedsWrapper, Captured!Empty, Empty
<1>2. \A a : Captured!Malformed(a) = Malformed(a)
  BY DEF Captured!Malformed, Malformed, Captured!Given, Given
<1>3. /\ \A e : Captured!IsActive(e) = IsActive(e)
      /\ \A e : Captured!ActiveTool(e) = ActiveTool(e)
  BY DEF Captured!IsActive, IsActive, Captured!ActiveTool, ActiveTool
<1>4. Captured!StringFromTool = StringFromTool
  BY DEF Captured!StringFromTool, StringFromTool, Captured!Tool, Tool
<1> QED
  BY SameTools, <1>1, <1>2, <1>3, <1>4 DEF Captured!RequestOf, RequestOf, Captured!Empty, Empty

(***************************************************************************)
(* What a command line means.                                              *)
(***************************************************************************)
Meant(m) ==
  \E l, k, c : Sequence(l) /\ m = [lines |-> l, killed |-> k, code |-> c]

LEMMA PrintsBefore ==
  ASSUME NEW s, Sequence(s), NEW m, Meant(m)
  PROVE  LET r == Captured!Prints(s, m)
         IN  Meant(r) /\ r.lines = s \o m.lines /\ r.killed = m.killed /\ r.code = m.code
<1>1. PICK l, k, c : Sequence(l) /\ m = [lines |-> l, killed |-> k, code |-> c]
  BY DEF Meant
<1>2. Captured!Prints(s, m) = [lines |-> s \o l, killed |-> k, code |-> c]
  BY <1>1 DEF Captured!Prints
<1>3. Sequence(s \o l)
  BY <1>1, Concatenated
<1>4. Meant(Captured!Prints(s, m))
  BY <1>2, <1>3 DEF Meant
<1> QED BY <1>1, <1>2, <1>4

LEMMA MeantLines ==
  ASSUME NEW m, Meant(m)
  PROVE  Sequence(m.lines) /\ m = [lines |-> m.lines, killed |-> m.killed, code |-> m.code]
BY DEF Meant

LEMMA PrintsNothing ==
  ASSUME NEW m, Meant(m) PROVE Captured!Prints(<<>>, m) = m
<1>1. <<>> \o m.lines = m.lines
  BY MeantLines, Empties
<1> QED BY <1>1, MeantLines DEF Captured!Prints

LEMMA PrintsInTurn ==
  ASSUME NEW s, Sequence(s), NEW t, Sequence(t), NEW m, Meant(m)
  PROVE  Captured!Prints(s, Captured!Prints(t, m)) = Captured!Prints(s \o t, m)
<1>1. Sequence(m.lines)
  BY MeantLines
<1>2. s \o (t \o m.lines) = (s \o t) \o m.lines
  <2> DEFINE u == m.lines
  <2> HIDE DEF u
  <2>1. Sequence(u)
    BY <1>1 DEF u
  <2>2. s \o (t \o u) = (s \o t) \o u
    BY <2>1, Associative
  <2> QED BY <2>2 DEF u
<1> QED BY <1>2 DEF Captured!Prints

LEMMA EndsMeant ==
  /\ Meant(Captured!Killed) /\ \A c : Meant(Captured!Exits(c))
  /\ Captured!Killed.lines = <<>> /\ Captured!Killed.killed = TRUE
  /\ \A c : /\ Captured!Exits(c).lines = <<>> /\ Captured!Exits(c).killed = FALSE
            /\ Captured!Exits(c).code = c
<1>1. Sequence(<<>>)
  BY Empties
<1> QED BY <1>1 DEF Meant, Captured!Killed, Captured!Exits

LEMMA TestsPrint ==
  Sequence(TestOutput) /\ Len(TestOutput) = 2
<1>1. TestOutput \in Seq({Says("tests", Empty), Says(Empty, Empty)}) /\ Len(TestOutput) = 2
  BY DEF TestOutput
<1> QED BY <1>1 DEF Sequence

LEMMA RequestKinds ==
  \A call : RequestOf(call).is \in {"plain", "inherited", "malformed", "instrumented"}
BY DEF RequestOf

LEMMA OwnMeant ==
  ASSUME NEW argv, NEW env, NEW onPath
  PROVE  Meant(Captured!Own(argv, env, onPath))
<1> DEFINE request == Captured!RequestOf([argv |-> argv, environ |-> env])
           T == Captured!Prints(TestOutput, Captured!Exits(0))
           U == Captured!Prints(<<Captured!Says("under", request.name)>>, T)
           o == Captured!WrapperOptions(Captured!ParseOptionsToTool(Captured!WithoutFlags(argv)))
           two == <<Captured!Says("started", Captured!Empty), Captured!Says("option", o)>>
           W == Captured!Prints(two, U)
<1>1. Meant(T)
  BY TestsPrint, EndsMeant, PrintsBefore
<1>2. Meant(U)
  BY <1>1, Single, PrintsBefore
<1>3. Meant(W)
  <2>1. two \in Seq({Captured!Says("started", Captured!Empty), Captured!Says("option", o)})
    OBVIOUS
  <2>2. Sequence(two)
    BY <2>1 DEF Sequence
  <2> QED BY <2>2, <1>2, PrintsBefore
<1>4. request.is \in {"plain", "inherited", "malformed", "instrumented"}
  BY RequestKinds, SameRequests
<1> DEFINE m == Captured!Own(argv, env, onPath)
           wrapper == Captured!InstrumentationWrapper(
                        Captured!ParseOptionsToTool(Captured!WithoutFlags(argv)))
<1>5. m = IF argv[1].text \notin Programs THEN Captured!Killed
          ELSE CASE request.is = "plain" -> T
                 [] request.is = "inherited" -> U
                 [] request.is = "malformed" -> Captured!Killed
                 [] request.is = "instrumented" ->
                      IF wrapper \in onPath \cap Programs THEN W ELSE Captured!Killed
  BY DEF Captured!Own
<1> HIDE DEF request, T, U, W, m, wrapper
<1>6. m \in {T, U, W, Captured!Killed}
  BY <1>4, <1>5
<1> QED BY <1>1, <1>2, <1>3, <1>6, EndsMeant DEF m

(* Where the wrapper's names in a command line end. *)
Proper(argv, i) == i \in Captured!Names(argv) /\ ~Captured!Wraps(argv[i])
EndsAt(argv, k, w) ==
  /\ w \in k .. Len(argv) + 1
  /\ w <= Len(argv) => Proper(argv, w)
  /\ \A i \in k .. w - 1 : ~Proper(argv, i)

LEMMA NamesAreIndices ==
  ASSUME NEW argv, Sequence(argv), Len(argv) >= 1
  PROVE  \A i \in Captured!Names(argv) : i \in 1 .. Len(argv)
BY SequenceShape DEF Captured!Names

LEMMA WrappedEnds ==
  ASSUME NEW argv, Sequence(argv), Len(argv) >= 1, NEW k \in Nat, 1 <= k, k <= Len(argv) + 1
  PROVE  EndsAt(argv, k, Captured!Wrapped(argv, k))
<1> DEFINE others == {i \in Captured!Names(argv) : k <= i /\ ~Captured!Wraps(argv[i])}
           L == Len(argv)
<1>1. L \in Nat /\ \A i \in others : i \in 1 .. L /\ k <= i /\ Proper(argv, i)
  BY SequenceShape, NamesAreIndices DEF Proper
<1>2. \A i \in 1 .. L : k <= i /\ Proper(argv, i) => i \in others
  BY DEF Proper
<1>3. Captured!Wrapped(argv, k) =
        IF others = {} THEN L + 1 ELSE CHOOSE i \in others : \A j \in others : i <= j
  BY DEF Captured!Wrapped
<1> HIDE DEF others, L
<1>4. CASE others = {}
  <2>1. \A i \in k .. L : i \in 1 .. L /\ k <= i
    BY <1>1
  <2>2. \A i \in k .. L : ~Proper(argv, i)
    BY <1>2, <1>4, <2>1
  <2>3. L + 1 \in k .. L + 1 /\ ~(L + 1 <= L) /\ L + 1 - 1 = L
    BY <1>1 DEF L
  <2> QED BY <1>3, <1>4, <2>2, <2>3 DEF EndsAt, L
<1>5. CASE others # {}
  <2>1. others \in SUBSET (0 .. L)
    BY <1>1
  <2>2. \E i \in others : \A j \in others : i <= j
    BY <1>1, <1>5, <2>1, HasLeast
  <2> DEFINE w == CHOOSE i \in others : \A j \in others : i <= j
  <2>3. w \in others /\ \A j \in others : w <= j
    BY <2>2
  <2> HIDE DEF w
  <2>4. w \in k .. L + 1 /\ Proper(argv, w)
    BY <1>1, <2>3
  <2>5. \A i \in k .. w - 1 : ~Proper(argv, i)
    <3>1. \A i \in k .. w - 1 : i \in 1 .. L /\ k <= i /\ ~(w <= i)
      BY <1>1, <2>3
    <3> QED BY <1>2, <2>3, <3>1
  <2> QED BY <1>3, <1>5, <2>4, <2>5 DEF EndsAt, w, L
<1> QED BY <1>4, <1>5

LEMMA EndsOnce ==
  ASSUME NEW argv, Sequence(argv), Len(argv) >= 1, NEW k \in Nat, 1 <= k, k <= Len(argv) + 1,
         NEW w, EndsAt(argv, k, w)
  PROVE  Captured!Wrapped(argv, k) = w
<1> DEFINE v == Captured!Wrapped(argv, k)
<1>1. EndsAt(argv, k, v)
  BY WrappedEnds
<1> HIDE DEF v
<1>2. Len(argv) \in Nat
  BY SequenceShape
<1>3. ~(v < w) /\ ~(w < v)
  BY <1>1, <1>2 DEF EndsAt
<1>4. v \in Nat /\ w \in Nat
  BY <1>1, <1>2 DEF EndsAt
<1> QED BY <1>3, <1>4 DEF v

Printed(argv, k, w) == [i \in 1 .. w - k |-> Captured!LineOf(argv, k + i - 1)]
Then(argv, w, env, onPath) ==
  IF w > Len(argv) THEN Captured!Exits(1)
  ELSE Captured!Own(SubSeq(argv, w, Len(argv)), env, onPath)

LEMMA PrintedLines ==
  ASSUME NEW argv, NEW k \in Nat, NEW w \in Nat, k <= w
  PROVE  /\ Sequence(Printed(argv, k, w)) /\ Len(Printed(argv, k, w)) = w - k
         /\ \A i \in 1 .. w - k : Printed(argv, k, w)[i] = Captured!LineOf(argv, k + i - 1)
<1> DEFINE f == Printed(argv, k, w)
           n == w - k
<1>1. n \in Nat
  OBVIOUS
<1>2. /\ DOMAIN f = 1 .. n /\ f = [i \in DOMAIN f |-> f[i]]
      /\ \A i \in 1 .. n : f[i] = Captured!LineOf(argv, k + i - 1)
  BY DEF Printed
<1> HIDE DEF f, n
<1>3. Sequence(f) /\ Len(f) = n
  BY <1>1, <1>2, FunctionIsSequence
<1> QED BY <1>2, <1>3 DEF f, n

LEMMA ThenMeant ==
  ASSUME NEW argv, NEW w, NEW env, NEW onPath PROVE Meant(Then(argv, w, env, onPath))
BY EndsMeant, OwnMeant DEF Then

LEMMA MeaningIs ==
  ASSUME NEW argv, Sequence(argv), Len(argv) >= 1, NEW k \in Nat, 1 <= k, k <= Len(argv) + 1,
         NEW env, NEW onPath, NEW w, EndsAt(argv, k, w)
  PROVE  /\ Captured!Meaning(argv, k, env, onPath)
              = Captured!Prints(Printed(argv, k, w), Then(argv, w, env, onPath))
         /\ Meant(Captured!Meaning(argv, k, env, onPath))
<1>1. Captured!Wrapped(argv, k) = w
  BY EndsOnce
<1>2. w \in Nat /\ k <= w
  BY SequenceShape DEF EndsAt
<1>3. Captured!Meaning(argv, k, env, onPath)
        = Captured!Prints(Printed(argv, k, w), Then(argv, w, env, onPath))
  BY <1>1 DEF Captured!Meaning, Printed, Then
<1> QED BY <1>2, <1>3, PrintedLines, ThenMeant, PrintsBefore

LEMMA MeaningMeant ==
  ASSUME NEW argv, Sequence(argv), Len(argv) >= 1, NEW k \in Nat, 1 <= k, k <= Len(argv) + 1,
         NEW env, NEW onPath
  PROVE  Meant(Captured!Meaning(argv, k, env, onPath))
BY WrappedEnds, MeaningIs

(* The wrapper prints a line for an argument that is not the name of another  *)
(* program.                                                                    *)
LEMMA MeansLine ==
  ASSUME NEW argv, Sequence(argv), NEW k \in Nat, 1 <= k, k <= Len(argv), ~Proper(argv, k),
         NEW env, NEW onPath
  PROVE  Captured!Meaning(argv, k, env, onPath)
           = Captured!Prints(<<Captured!LineOf(argv, k)>>,
                             Captured!Meaning(argv, k + 1, env, onPath))
<1> DEFINE w == Captured!Wrapped(argv, k + 1)
           l == Captured!LineOf(argv, k)
           f == Printed(argv, k, w)
           g == Printed(argv, k + 1, w)
           R == Then(argv, w, env, onPath)
<1>1. Len(argv) \in Nat /\ k + 1 \in Nat /\ 1 <= k + 1 /\ k + 1 <= Len(argv) + 1 /\ Len(argv) >= 1
  BY SequenceShape
<1>2. EndsAt(argv, k + 1, w)
  BY <1>1, WrappedEnds
<1> HIDE DEF w
<1>3. w \in Nat /\ k <= w /\ k + 1 <= w
  BY <1>1, <1>2 DEF EndsAt
<1>4. EndsAt(argv, k, w)
  <2>1. \A i \in k .. w - 1 : i = k \/ i \in k + 1 .. w - 1
    BY <1>3
  <2>2. w \in k .. Len(argv) + 1
    BY <1>1, <1>2, <1>3 DEF EndsAt
  <2> QED BY <1>2, <2>1, <2>2 DEF EndsAt
<1>5. /\ Sequence(f) /\ Len(f) = w - k
      /\ \A i \in 1 .. w - k : f[i] = Captured!LineOf(argv, k + i - 1)
  BY <1>3, PrintedLines
<1>6. /\ Sequence(g) /\ Len(g) = w - (k + 1)
      /\ \A i \in 1 .. w - (k + 1) : g[i] = Captured!LineOf(argv, k + 1 + i - 1)
  BY <1>3, PrintedLines
<1> HIDE DEF f, g
<1>7. f = <<l>> \o g
  <2> DEFINE h == <<l>> \o g
  <2> HIDE DEF l
  <2>1. /\ Sequence(h) /\ Len(h) = 1 + Len(g) /\ h[1] = l
        /\ \A i \in 1 .. Len(g) : h[1 + i] = g[i]
    BY <1>6, Prefixed
  <2> HIDE DEF h
  <2>2. Len(h) = Len(f)
    BY <1>3, <1>5, <1>6, <2>1
  <2>3. ASSUME NEW i \in 1 .. w - k PROVE f[i] = h[i]
    <3>1. CASE i = 1
      <4>1. k + 1 - 1 = k
        OBVIOUS
      <4> QED BY <3>1, <4>1, <1>5, <2>1 DEF l
    <3>2. CASE i # 1
      <4> DEFINE j == i - 1
      <4>1. j \in 1 .. w - (k + 1) /\ i = 1 + j /\ k + i - 1 = k + 1 + j - 1
        BY <1>3, <3>2
      <4> HIDE DEF j
      <4> QED BY <4>1, <1>5, <1>6, <2>1
    <3> QED BY <3>1, <3>2
  <2>4. f = h
    BY <1>5, <2>1, <2>2, <2>3, SequencesEqual
  <2> QED BY <2>4 DEF h
<1>8. Captured!Meaning(argv, k, env, onPath) = Captured!Prints(f, R)
  BY <1>1, <1>4, MeaningIs DEF f
<1>9. Captured!Meaning(argv, k + 1, env, onPath) = Captured!Prints(g, R)
  BY <1>1, <1>2, MeaningIs DEF g
<1>10. Meant(R)
  BY ThenMeant
<1> HIDE DEF R, l
<1>11. Captured!Prints(<<l>> \o g, R) = Captured!Prints(<<l>>, Captured!Prints(g, R))
  BY <1>6, <1>10, Single, PrintsInTurn
<1> QED BY <1>7, <1>8, <1>9, <1>11 DEF l

(* What a word names gets the command line from there on. *)
LEMMA MeansRest ==
  ASSUME NEW argv, Sequence(argv), NEW k \in Nat, 1 <= k, k <= Len(argv),
         k \in Captured!Names(argv), NEW env, NEW onPath
  PROVE  LET rest == SubSeq(argv, k, Len(argv))
         IN  /\ Sequence(rest) /\ Len(rest) >= 1 /\ rest[1] = argv[k]
             /\ Captured!Meaning(argv, k, env, onPath) = Captured!Meaning(rest, 1, env, onPath)
<1> DEFINE s == SubSeq(argv, k, Len(argv))
           L == Len(argv)
           w == Captured!Wrapped(argv, k)
           v == w - k + 1
<1>1. L \in Nat /\ k <= L + 1 /\ L >= 1 /\ DOMAIN argv = 1 .. L
  BY SequenceShape
<1>2. /\ Sequence(s) /\ Len(s) = L - k + 1
      /\ \A i \in 1 .. L - k + 1 : s[i] = argv[k + i - 1]
  BY <1>1, Rest
<1>3. EndsAt(argv, k, w)
  BY <1>1, WrappedEnds
<1> HIDE DEF s, w, v
<1>4. w \in Nat /\ k <= w /\ w <= L + 1
  BY <1>1, <1>3 DEF EndsAt
<1>5. v \in Nat /\ 1 <= v /\ v <= Len(s) + 1 /\ Len(s) \in Nat /\ Len(s) >= 1 /\ v - 1 = w - k
  BY <1>1, <1>2, <1>4 DEF v, L
<1>6. ASSUME NEW i \in 1 .. L - k + 1
      PROVE  /\ i \in Captured!Names(s) <=> k + i - 1 \in Captured!Names(argv)
             /\ Proper(s, i) <=> Proper(argv, k + i - 1)
             /\ Captured!LineOf(s, 1 + i - 1) = Captured!LineOf(argv, k + i - 1)
  <2> DEFINE j == k + i - 1
  <2>1. /\ j \in 1 .. L /\ s[i] = argv[j] /\ (i = 1 <=> j = k) /\ (j = 1 => i = 1)
        /\ i \in 1 .. Len(s) /\ 1 + i - 1 = i
    BY <1>1, <1>2 DEF L
  <2>2. DOMAIN s = 1 .. Len(s)
    BY <1>2, SequenceShape
  <2> HIDE DEF j
  <2>3. i \in Captured!Names(s) <=> j \in Captured!Names(argv)
    BY <1>1, <2>1, <2>2 DEF Captured!Names
  <2>4. Proper(s, i) <=> Proper(argv, j)
    BY <2>1, <2>3 DEF Proper
  <2>5. Captured!LineOf(s, i) = Captured!LineOf(argv, j)
    BY <2>1, <2>3 DEF Captured!LineOf
  <2> QED BY <2>1, <2>3, <2>4, <2>5 DEF j
<1>7. EndsAt(s, 1, v)
  <2>1. v <= Len(s) => v \in 1 .. L - k + 1 /\ w <= L /\ k + v - 1 = w
    BY <1>1, <1>2, <1>4, <1>5 DEF v
  <2>2. \A i \in 1 .. v - 1 : i \in 1 .. L - k + 1 /\ k + i - 1 \in k .. w - 1
    BY <1>1, <1>4, <1>5 DEF v
  <2>3. v \in 1 .. Len(s) + 1
    BY <1>5
  <2> QED BY <1>3, <1>6, <2>1, <2>2, <2>3 DEF EndsAt, L
<1>8. Printed(s, 1, v) = Printed(argv, k, w)
  <2>1. \A i \in 1 .. w - k : i \in 1 .. L - k + 1
    BY <1>1, <1>4
  <2> QED BY <1>5, <1>6, <2>1 DEF Printed
<1>9. Then(s, v, env, onPath) = Then(argv, w, env, onPath)
  <2>1. v > Len(s) <=> w > L
    BY <1>1, <1>2, <1>4 DEF v
  <2>2. CASE w > L
    BY <2>1, <2>2 DEF Then, L
  <2>3. CASE ~(w > L)
    <3> DEFINE a == SubSeq(s, v, Len(s))
               b == SubSeq(argv, w, L)
    <3>1. /\ Sequence(a) /\ Len(a) = Len(s) - v + 1
          /\ \A i \in 1 .. Len(s) - v + 1 : a[i] = s[v + i - 1]
      BY <1>2, <1>5, Rest
    <3>2. /\ Sequence(b) /\ Len(b) = L - w + 1
          /\ \A i \in 1 .. L - w + 1 : b[i] = argv[w + i - 1]
      <4>1. 1 <= w
        BY <1>4
      <4> QED BY <1>4, <4>1, Rest DEF L
    <3> HIDE DEF a, b
    <3>3. Len(a) = Len(b) /\ Len(s) - v + 1 = L - w + 1
      BY <1>1, <1>2, <1>4, <3>1, <3>2 DEF v
    <3>4. ASSUME NEW i \in 1 .. L - w + 1 PROVE a[i] = b[i]
      <4>1. v + i - 1 \in 1 .. L - k + 1 /\ k + (v + i - 1) - 1 = w + i - 1
        BY <1>1, <1>4, <1>5 DEF v
      <4> QED BY <4>1, <3>1, <3>2, <3>3, <1>2
    <3>5. a = b
      BY <3>1, <3>2, <3>3, <3>4, SequencesEqual
    <3> QED BY <2>1, <2>3, <3>5 DEF Then, a, b, L
  <2> QED BY <2>2, <2>3
<1>10. Captured!Meaning(s, 1, env, onPath)
         = Captured!Prints(Printed(s, 1, v), Then(s, v, env, onPath))
  BY <1>2, <1>5, <1>7, MeaningIs
<1>11. Captured!Meaning(argv, k, env, onPath)
         = Captured!Prints(Printed(argv, k, w), Then(argv, w, env, onPath))
  BY <1>1, <1>3, MeaningIs DEF L
<1>12. s[1] = argv[k]
  <2>1. 1 \in 1 .. L - k + 1 /\ k + 1 - 1 = k
    BY <1>1 DEF L
  <2> QED BY <1>2, <2>1
<1> QED BY <1>2, <1>5, <1>8, <1>9, <1>10, <1>11, <1>12 DEF s

(* A program that is not the wrapper means what it prints itself, *)
LEMMA MeansOwn ==
  ASSUME NEW argv, Sequence(argv), Len(argv) >= 1, ~Captured!Wraps(argv[1]),
         NEW env, NEW onPath
  PROVE  Captured!Meaning(argv, 1, env, onPath) = Captured!Own(argv, env, onPath)
<1>1. Len(argv) \in Nat
  BY SequenceShape
<1>2. EndsAt(argv, 1, 1)
  BY <1>1 DEF EndsAt, Proper, Captured!Names
<1>3. Printed(argv, 1, 1) = <<>>
  <2>1. 1 .. 1 - 1 = {}
    OBVIOUS
  <2> QED BY <2>1 DEF Printed
<1>4. SubSeq(argv, 1, Len(argv)) = argv
  BY SubSeqFull DEF Sequence
<1>5. Then(argv, 1, env, onPath) = Captured!Own(argv, env, onPath)
  <2>1. ~(1 > Len(argv))
    BY <1>1
  <2> QED BY <1>4, <2>1, Zenon DEF Then
<1> QED BY <1>1, <1>2, <1>3, <1>5, MeaningIs, OwnMeant, PrintsNothing

(* and a wrapper that has come to the end fails. *)
LEMMA MeansFailure ==
  ASSUME NEW argv, Sequence(argv), Len(argv) >= 1, NEW env, NEW onPath
  PROVE  Captured!Meaning(argv, Len(argv) + 1, env, onPath) = Captured!Exits(1)
<1> DEFINE w == Len(argv) + 1
<1>1. Len(argv) \in Nat /\ w \in Nat /\ 1 <= w /\ w <= Len(argv) + 1 /\ w > Len(argv)
  BY SequenceShape
<1>2. EndsAt(argv, w, w)
  BY <1>1 DEF EndsAt
<1>3. Printed(argv, w, w) = <<>>
  <2>1. 1 .. w - w = {}
    BY <1>1
  <2> QED BY <2>1 DEF Printed
<1>4. Then(argv, w, env, onPath) = Captured!Exits(1)
  BY <1>1 DEF Then
<1> HIDE DEF w
<1>5. Captured!Meaning(argv, w, env, onPath) = Captured!Exits(1)
  BY <1>1, <1>2, <1>3, <1>4, MeaningIs, EndsMeant, PrintsNothing
<1> QED BY <1>5 DEF w

(* What is no program is killed, and what is one does as it is asked to. *)
Tests == Captured!Prints(TestOutput, Captured!Exits(0))
Under(name) == Captured!Prints(<<Says("under", name)>>, Tests)

LEMMA NoProgram ==
  ASSUME NEW argv, NEW env, NEW onPath, argv[1].text \notin Programs
  PROVE  Captured!Own(argv, env, onPath) = Captured!Killed
BY DEF Captured!Own

LEMMA RunsTests ==
  ASSUME NEW argv, NEW env, NEW onPath, argv[1].text \in Programs,
         RequestOf([argv |-> argv, environ |-> env]).is = "plain"
  PROVE  Captured!Own(argv, env, onPath) = Tests
BY SameRequests DEF Captured!Own, Tests

LEMMA RejectsOptions ==
  ASSUME NEW argv, NEW env, NEW onPath, argv[1].text \in Programs,
         RequestOf([argv |-> argv, environ |-> env]).is = "malformed"
  PROVE  Captured!Own(argv, env, onPath) = Captured!Killed
BY SameRequests DEF Captured!Own

LEMMA FindsNoWrapper ==
  ASSUME NEW argv, NEW env, NEW onPath, argv[1].text \in Programs,
         RequestOf([argv |-> argv, environ |-> env]).is = "instrumented",
         InstrumentationWrapper(ParseOptionsToTool(WithoutFlags(argv))) \notin onPath \cap Programs
  PROVE  Captured!Own(argv, env, onPath) = Captured!Killed
BY SameRequests, SameTools DEF Captured!Own

LEMMA RunsUnder ==
  ASSUME NEW argv, NEW env, NEW onPath, argv[1].text \in Programs,
         RequestOf([argv |-> argv, environ |-> env]).is = "inherited"
  PROVE  Captured!Own(argv, env, onPath)
           = Under(RequestOf([argv |-> argv, environ |-> env]).name)
BY SameRequests, SameWords DEF Captured!Own, Tests, Under

LEMMA RunsAgain ==
  ASSUME NEW argv, NEW env, NEW onPath, argv[1].text \in Programs,
         RequestOf([argv |-> argv, environ |-> env]).is = "instrumented",
         NEW tool, tool = ParseOptionsToTool(WithoutFlags(argv)),
         InstrumentationWrapper(tool) \in onPath \cap Programs
  PROVE  Captured!Own(argv, env, onPath)
           = Captured!Prints(<<Says("started", Empty), Says("option", WrapperOptions(tool))>>,
                             Under(RequestOf([argv |-> argv, environ |-> env]).name))
BY SameRequests, SameTools, SameWords DEF Captured!Own, Tests, Under

LEMMA TestsMeant ==
  Meant(Tests) /\ \A name : Meant(Under(name))
<1>1. Meant(Tests)
  BY TestsPrint, EndsMeant, PrintsBefore DEF Tests
<1>2. ASSUME NEW name PROVE Meant(Under(name))
  BY <1>1, Single, PrintsBefore DEF Under
<1> QED BY <1>1, <1>2

(* A test program in the environment of a tool runs under it. *)
LEMMA Inherits ==
  ASSUME NEW argv, NEW env, NEW onPath, argv[1].text \in Programs, IsActive(env)
  PROVE  Captured!Own(argv, env, onPath) = Under(ActiveTool(env))
<1> DEFINE request == RequestOf([argv |-> argv, environ |-> env])
<1>1. request.is = "inherited" /\ request.name = ActiveTool(env)
  BY DEF RequestOf
<1> QED BY <1>1, RunsUnder

(* A program that runs itself again is run by the wrapper, in an environment  *)
(* that says so.                                                              *)
LEMMA RelaunchMeans ==
  ASSUME NEW argv, Sequence(argv), Len(argv) >= 1, argv[1].is = "word",
         argv[1].text \in Programs, argv[1].text # "passthrough",
         NEW env, Sequence(env), NEW onPath,
         NEW tool, tool = ParseOptionsToTool(WithoutFlags(argv)),
         NEW request, request = RequestOf([argv |-> argv, environ |-> env]),
         request.is = "instrumented", InstrumentationWrapper(tool) \in onPath \cap Programs,
         NEW command, command = BuildCommandLine(WithoutFlags(argv), tool),
         NEW new, new = GetToolEnv(env, tool)
  PROVE  /\ Sequence(command) /\ Len(command) >= 1 /\ command[1].is = "word"
         /\ command[1].text = InstrumentationWrapper(tool) /\ Sequence(new)
         /\ Captured!Own(argv, env, onPath) = Captured!Meaning(command, 1, new, onPath)
<1> DEFINE w == InstrumentationWrapper(tool)
           o == WrapperOptions(tool)
           name == StringFromTool[tool]
           a == Word(w)
           b == Option(o)
           c == argv[1]
<1>1. ~IsActive(env) /\ w # Empty /\ request.name = name
  BY DEF RequestOf, NeedsWrapper
<1>2. w = "passthrough" /\ tool = "Passthrough"
  BY <1>1, HarnessAssumption
     DEF InstrumentationWrapper, ClassOf, NoneTool, TimerTool, PassthroughTool, ToolBase,
         MemcheckTool, CallgrindTool, CachegrindTool
<1>3. o # Empty
  BY <1>2 DEF WrapperOptions, ClassOf, PassthroughTool, Empty
<1>4. /\ a.is = "word" /\ a.text = w /\ b.is = "option" /\ b.text = o
  BY DEF Word, Option
<1>5. command = (<<a>> \o <<b>>) \o <<c>>
  BY <1>3, NameIsKept DEF BuildCommandLine
<1>6. Sequence(new) /\ IsActive(new) /\ ActiveTool(new) = name
  BY <1>1, ToolEnviron
<1> HIDE DEF a, b, c, w, o, name
<1>7. /\ Sequence(command) /\ Len(command) = 3
      /\ command[1] = a /\ command[2] = b /\ command[3] = c
  <2> DEFINE t == (<<a>> \o <<b>>) \o <<c>>
  <2>1. Sequence(t) /\ Len(t) = 3 /\ t[1] = a /\ t[2] = b /\ t[3] = c
    BY Three
  <2>2. command = t
    BY <1>5
  <2> HIDE DEF t
  <2> QED BY <2>1, <2>2
<1>8. DOMAIN command = 1 .. 3
  BY <1>7, SequenceShape
<1>9. 1 \in Captured!Names(command) /\ 2 \notin Captured!Names(command)
      /\ 3 \in Captured!Names(command)
  BY <1>4, <1>7, <1>8 DEF Captured!Names, c
<1>10. ~Proper(command, 1) /\ ~Proper(command, 2)
  BY <1>2, <1>4, <1>7, <1>9 DEF Proper, Captured!Wraps, w
<1>11. /\ Captured!LineOf(command, 1) = Says("started", Empty)
       /\ Captured!LineOf(command, 2) = Says("option", o)
  BY <1>4, <1>7, <1>9, SameWords DEF Captured!LineOf
<1> DEFINE M(k) == Captured!Meaning(command, k, new, onPath)
<1>12. /\ M(1) = Captured!Prints(<<Captured!LineOf(command, 1)>>, M(1 + 1))
       /\ M(2) = Captured!Prints(<<Captured!LineOf(command, 2)>>, M(2 + 1))
  <2>1. ASSUME NEW k \in Nat, 1 <= k, k <= 3, ~Proper(command, k)
        PROVE  M(k) = Captured!Prints(<<Captured!LineOf(command, k)>>, M(k + 1))
    <3>1. Sequence(command) /\ k <= Len(command)
      BY <1>7, <2>1
    <3> QED BY <2>1, <3>1, MeansLine
  <2> HIDE DEF M
  <2>2. 1 \in Nat /\ 1 <= 1 /\ 1 <= 3 /\ 2 \in Nat /\ 1 <= 2 /\ 2 <= 3
    OBVIOUS
  <2> QED BY <1>10, <2>1, <2>2
<1> DEFINE rest == SubSeq(command, 3, Len(command))
<1>13. Sequence(rest) /\ Len(rest) >= 1 /\ rest[1] = c
       /\ M(3) = Captured!Meaning(rest, 1, new, onPath)
  <2>1. 3 \in Nat /\ 1 <= 3 /\ 3 <= Len(command) /\ Sequence(command) /\ command[3] = c
    BY <1>7
  <2>2. \A k \in Nat : 1 <= k /\ k <= Len(command) /\ k \in Captured!Names(command) =>
          LET r == SubSeq(command, k, Len(command))
          IN  /\ Sequence(r) /\ Len(r) >= 1 /\ r[1] = command[k]
              /\ Captured!Meaning(command, k, new, onPath) = Captured!Meaning(r, 1, new, onPath)
    BY <2>1, MeansRest
  <2> QED BY <1>9, <2>1, <2>2
<1> HIDE DEF rest
<1>14. M(3) = Captured!Own(rest, new, onPath)
  BY <1>13, MeansOwn DEF Captured!Wraps, c
<1>15. M(3) = Under(name)
  <2>1. rest[1].text \in Programs
    BY <1>13 DEF c
  <2> QED BY <1>14, <1>6, <2>1, Inherits
<1> DEFINE U == Under(name)
           s == Says("started", Empty)
           t == Says("option", o)
<1> HIDE DEF U, s, t, M
<1>16. M(1) = Captured!Prints(<<s>>, Captured!Prints(<<t>>, U))
  BY <1>11, <1>12, <1>15 DEF U, s, t
<1>17. Meant(U)
  BY TestsMeant DEF U
<1>18. M(1) = Captured!Prints(<<s>> \o <<t>>, U)
  BY <1>16, <1>17, Single, PrintsInTurn
<1>19. <<s>> \o <<t>> = <<s, t>>
  BY Two
<1>20. Captured!Own(argv, env, onPath) = Captured!Prints(<<s, t>>, U)
  BY <1>1, RunsAgain DEF s, t, U, o, w, name
<1>21. Captured!Own(argv, env, onPath) = M(1)
  BY <1>18, <1>19, <1>20
<1> QED BY <1>4, <1>6, <1>7, <1>21 DEF M, w

(***************************************************************************)
(* What a reader has of the lines.                                         *)
(***************************************************************************)
Worded(printed, k) == {i \in 1 .. k : printed[i].says # Empty}
Picks(read, printed, k, n, from) ==
  /\ n \in 0 .. k /\ from \in [1 .. n -> Worded(printed, k)]
  /\ \A i, j \in 1 .. n : i < j => from[i] < from[j]
  /\ \A i \in Worded(printed, k) : \E j \in 1 .. n : from[j] = i
  /\ read = [i \in 1 .. n |-> printed[from[i]]]

LEMMA ShowsPicks ==
  ASSUME NEW read, NEW printed, NEW k
  PROVE  Captured!Shows(read, printed, k) <=> \E n, from : Picks(read, printed, k, n, from)
<1>1. Worded(printed, k) = {i \in 1 .. k : printed[i].says # Captured!Empty}
  BY SameWords DEF Worded
<1> DEFINE kept == Worded(printed, k)
<1>2. Captured!Shows(read, printed, k) <=>
        \E n \in 0 .. k : \E from \in [1 .. n -> kept] :
          /\ \A i, j \in 1 .. n : i < j => from[i] < from[j]
          /\ \A i \in kept : \E j \in 1 .. n : from[j] = i
          /\ read = [i \in 1 .. n |-> printed[from[i]]]
  BY <1>1 DEF Captured!Shows
<1> HIDE DEF kept
<1>3. ASSUME Captured!Shows(read, printed, k) PROVE \E n, from : Picks(read, printed, k, n, from)
  <2>1. PICK n \in 0 .. k : \E from \in [1 .. n -> kept] :
          /\ \A i, j \in 1 .. n : i < j => from[i] < from[j]
          /\ \A i \in kept : \E j \in 1 .. n : from[j] = i
          /\ read = [i \in 1 .. n |-> printed[from[i]]]
    BY <1>2, <1>3
  <2>2. PICK from \in [1 .. n -> kept] :
          /\ \A i, j \in 1 .. n : i < j => from[i] < from[j]
          /\ \A i \in kept : \E j \in 1 .. n : from[j] = i
          /\ read = [i \in 1 .. n |-> printed[from[i]]]
    BY <2>1
  <2>3. Picks(read, printed, k, n, from)
    BY <2>2 DEF Picks, kept
  <2> QED BY <2>3
<1>4. ASSUME NEW n, NEW from, Picks(read, printed, k, n, from)
      PROVE  Captured!Shows(read, printed, k)
  BY <1>2, <1>4, Zenon DEF Picks, kept
<1> QED BY <1>3, <1>4

LEMMA ShowsNothing ==
  ASSUME NEW printed PROVE Captured!Shows(<<>>, printed, 0)
<1> DEFINE from == [i \in 1 .. 0 |-> 0]
<1>1. Worded(printed, 0) = {} /\ 1 .. 0 = {}
  BY DEF Worded
<1>2. from \in [1 .. 0 -> Worded(printed, 0)] /\ <<>> = [i \in 1 .. 0 |-> printed[from[i]]]
  BY <1>1
<1>3. Picks(<<>>, printed, 0, 0, from)
  BY <1>1, <1>2 DEF Picks
<1> QED BY <1>3, ShowsPicks

LEMMA ShowsNext ==
  ASSUME NEW read, NEW printed, NEW k \in Nat, Captured!Shows(read, printed, k),
         NEW l, l = printed[k + 1]
  PROVE  Captured!Shows(IF l.says = Empty THEN read ELSE Append(read, l), printed, k + 1)
<1>1. PICK n, from : Picks(read, printed, k, n, from)
  BY ShowsPicks
<1>2. n \in Nat /\ n <= k /\ n \in 0 .. k + 1 /\ n + 1 \in 0 .. k + 1
  BY <1>1 DEF Picks
<1>3. \A i \in 1 .. k + 1 : i \in 1 .. k \/ i = k + 1
  OBVIOUS
<1>4. \A i \in 1 .. k : i \in 1 .. k + 1 /\ i < k + 1
  OBVIOUS
<1>5. k + 1 \in 1 .. k + 1
  OBVIOUS
<1>6. CASE l.says = Empty
  <2>1. Worded(printed, k + 1) = Worded(printed, k)
    BY <1>3, <1>4, <1>6 DEF Worded
  <2>2. Picks(read, printed, k + 1, n, from)
    BY <1>1, <1>2, <2>1 DEF Picks
  <2> QED BY <1>6, <2>2, ShowsPicks
<1>7. CASE l.says # Empty
  <2> DEFINE to == [i \in 1 .. n + 1 |-> IF i = n + 1 THEN k + 1 ELSE from[i]]
             more == [i \in 1 .. n + 1 |-> printed[to[i]]]
  <2>1. Worded(printed, k + 1) = Worded(printed, k) \cup {k + 1}
    BY <1>3, <1>4, <1>5, <1>7 DEF Worded
  <2>2. \A i \in 1 .. n : i \in 1 .. n + 1 /\ i # n + 1 /\ i < n + 1
    BY <1>2
  <2>3. \A i \in 1 .. n + 1 : i \in 1 .. n \/ i = n + 1
    BY <1>2
  <2>4. n + 1 \in 1 .. n + 1 /\ n + 1 \in Nat
    BY <1>2
  <2>5. to[n + 1] = k + 1 /\ \A i \in 1 .. n : to[i] = from[i]
    BY <2>2, <2>4
  <2>6. \A i \in 1 .. n : from[i] \in Worded(printed, k) /\ from[i] \in 1 .. k
    BY <1>1 DEF Picks, Worded
  <2>7. to \in [1 .. n + 1 -> Worded(printed, k + 1)]
    BY <2>1, <2>3, <2>6
  <2>8. more[n + 1] = l /\ \A i \in 1 .. n : more[i] = printed[from[i]]
    BY <2>2, <2>4, <2>5
  <2>9. DOMAIN more = 1 .. n + 1 /\ more = [i \in DOMAIN more |-> more[i]]
    OBVIOUS
  <2> HIDE DEF to
  <2>10. \A i, j \in 1 .. n + 1 : i < j => to[i] < to[j]
    <3> SUFFICES ASSUME NEW i \in 1 .. n + 1, NEW j \in 1 .. n + 1, i < j
                 PROVE  to[i] < to[j]
      OBVIOUS
    <3>1. i \in 1 .. n
      BY <1>2
    <3>2. CASE j = n + 1
      BY <2>5, <2>6, <1>4, <3>1, <3>2
    <3>3. CASE j # n + 1
      <4>1. j \in 1 .. n
        BY <2>3, <3>3
      <4> QED BY <1>1, <2>5, <3>1, <4>1 DEF Picks
    <3> QED BY <3>2, <3>3
  <2>11. \A i \in Worded(printed, k + 1) : \E j \in 1 .. n + 1 : to[j] = i
    <3>1. ASSUME NEW i \in Worded(printed, k) PROVE \E j \in 1 .. n + 1 : to[j] = i
      <4>1. PICK j \in 1 .. n : from[j] = i
        BY <1>1 DEF Picks
      <4> QED BY <2>2, <2>5, <4>1
    <3> QED BY <2>1, <2>4, <2>5, <3>1
  <2> HIDE DEF more
  <2>12. more = Append(read, l)
    <3>1. Sequence(read) /\ Len(read) = n /\ \A i \in 1 .. n : read[i] = printed[from[i]]
      <4>1. /\ DOMAIN read = 1 .. n /\ read = [i \in DOMAIN read |-> read[i]]
            /\ \A i \in 1 .. n : read[i] = printed[from[i]]
        BY <1>1 DEF Picks
      <4> QED BY <1>2, <4>1, FunctionIsSequence
    <3> DEFINE r == read \o <<l>>
    <3>2. /\ Sequence(r) /\ Len(r) = Len(read) + 1 /\ r[Len(read) + 1] = l
          /\ \A i \in 1 .. Len(read) : r[i] = read[i]
      <4>1. \A v, e : Sequence(v) =>
              /\ Sequence(v \o <<e>>) /\ Len(v \o <<e>>) = Len(v) + 1
              /\ (v \o <<e>>)[Len(v) + 1] = e
              /\ \A i \in 1 .. Len(v) : (v \o <<e>>)[i] = v[i]
        BY Extended
      <4> QED BY <3>1, <4>1
    <3>3. Append(read, l) = r
      BY <3>1, Appended
    <3> HIDE DEF r
    <3>4. Sequence(more) /\ Len(more) = n + 1
      BY <2>4, <2>9, FunctionIsSequence
    <3>5. \A i \in 1 .. n + 1 : more[i] = r[i]
      BY <2>3, <2>8, <3>1, <3>2
    <3>6. more = r
      BY <3>1, <3>2, <3>4, <3>5, SequencesEqual
    <3> QED BY <3>3, <3>6
  <2>13. Append(read, l) = [i \in 1 .. n + 1 |-> printed[to[i]]]
    BY <2>12 DEF more
  <2>14. Picks(Append(read, l), printed, k + 1, n + 1, to)
    BY <1>2, <2>7, <2>10, <2>11, <2>13 DEF Picks
  <2> QED BY <1>7, <2>14, ShowsPicks
<1> QED BY <1>6, <1>7

(***************************************************************************)
(* What is still to come of a test's command, when c has been printed and  *)
(* is in the pipe: m.                                                      *)
(***************************************************************************)
Left(c, m, t) ==
  Sequence(c) /\ Meant(m) /\ Captured!MeaningOf(t) = Captured!Prints(c, m)

LEMMA LineLeft ==
  ASSUME NEW c, NEW l, NEW m, Meant(m), NEW t,
         Left(c, Captured!Prints(<<l>>, m), t)
  PROVE  Left(Append(c, l), m, t)
<1> DEFINE o == <<l>>
           r == Captured!Prints(c, Captured!Prints(o, m))
<1>1. Sequence(c) /\ Captured!MeaningOf(t) = r
  BY DEF Left
<1>2. Sequence(o)
  BY Single
<1>3. Append(c, l) = c \o o /\ Sequence(Append(c, l))
  BY <1>1, Appended
<1> HIDE DEF o
<1>4. r = Captured!Prints(c \o o, m)
  BY <1>1, <1>2, PrintsInTurn
<1> HIDE DEF r
<1> QED BY <1>1, <1>3, <1>4 DEF Left

LEMMA ExitLeft ==
  ASSUME NEW c, NEW code, NEW t, Left(c, Captured!Exits(code), t)
  PROVE  /\ Sequence(c)
         /\ Captured!MeaningOf(t) = [lines |-> c, killed |-> FALSE, code |-> code]
<1>1. Sequence(c) /\ Captured!MeaningOf(t) = Captured!Prints(c, Captured!Exits(code))
  BY DEF Left
<1>2. c \o <<>> = c
  BY <1>1, Empties
<1>3. /\ Captured!Exits(code).lines = <<>> /\ Captured!Exits(code).killed = FALSE
      /\ Captured!Exits(code).code = code
  BY EndsMeant
<1> QED BY <1>1, <1>2, <1>3 DEF Captured!Prints

LEMMA KillLeft ==
  ASSUME NEW c, NEW t, Left(c, Captured!Killed, t)
  PROVE  Captured!MeaningOf(t).killed = TRUE
BY EndsMeant DEF Left, Captured!Prints

(***************************************************************************)
(* What each process has yet to do of it.                                  *)
(***************************************************************************)
Sensible(s) ==
  Sequence(s.argv) /\ Len(s.argv) >= 1 /\ s.argv[1].is = "word" /\ Sequence(s.env)
From(s, k, t) == Captured!Meaning(s.argv, k, s.env, t.onPath)

ToExecute(s, c, t) ==
  s.image = "forked" /\ Sensible(s) /\ Left(c, From(s, 1, t), t)
ToWrap(s, c, t) ==
  /\ s.image = "passthrough" /\ Sensible(s) /\ s.at = 0
  /\ Captured!Wraps(s.argv[1]) /\ Left(c, From(s, 1, t), t)
Wrapping(s, c, t) ==
  /\ s.image = "passthrough" /\ Sensible(s) /\ s.at \in 2 .. Len(s.argv) + 1
  /\ Left(c, From(s, s.at, t), t)
ToTest(s, c, t) ==
  /\ s.image = "simple_test" /\ Sensible(s) /\ s.at = 0
  /\ s.argv[1].text = "simple_test" /\ s.argv[1].text \in Programs
  /\ Left(c, From(s, 1, t), t)
Testing(s, c, t) ==
  /\ s.image = "simple_test"
  /\ \/ s.at = 1 /\ Left(c, Tests, t)
     \/ s.at = 2 /\ Left(c, Captured!Prints(<<Says(Empty, Empty)>>, Captured!Exits(0)), t)
     \/ s.at = 3 /\ Left(c, Captured!Exits(0), t)
Over(s, c, t) ==
  \/ s.image = "exited" /\ Left(c, Captured!Exits(s.code), t)
  \/ s.image = "killed" /\ Left(c, Captured!Killed, t)

Tells(s, c, t) ==
  \/ ToExecute(s, c, t) \/ ToWrap(s, c, t) \/ Wrapping(s, c, t)
  \/ ToTest(s, c, t) \/ Testing(s, c, t) \/ Over(s, c, t)

(* The one of the harness's descendants that runs does what is left, unless a *)
(* call has failed: then it has been killed.                                  *)
Awaited ==
  \A p \in Child : process[p].image \notin {"none", "waiting"} =>
    IF failed THEN process[p].image = "killed" ELSE Tells(process[p], content, Current)

LEMMA OneTells ==
  ASSUME Tree, Awaited, NEW p \in Child, process[p].image # "waiting", process[p] # NoProcess,
         NEW s, s.image # "waiting",
         process' = [process EXCEPT ![p] = s], UNCHANGED <<suite, test>>,
         IF failed' THEN s.image = "killed" ELSE Tells(s, content', Current)
  PROVE  Awaited'
<1>1. \A q \in Child : process'[q] = IF q = p THEN s ELSE process[q]
  BY DEF Tree
<1>2. Current' = Current
  BY DEF Current
<1>3. ASSUME NEW q \in Child, q # p PROVE process[q].image \in {"none", "waiting"}
  <2>1. p \in Nat /\ q \in Nat
    BY DEF Child
  <2>2. CASE p < q
    BY <2>2, NoProcessIsNone DEF Tree
  <2>3. CASE q < p
    BY <2>3 DEF Tree
  <2> QED BY <1>3, <2>1, <2>2, <2>3
<1>4. ASSUME NEW q \in Child, process'[q].image \notin {"none", "waiting"}
      PROVE  IF failed' THEN process'[q].image = "killed"
             ELSE Tells(process'[q], content', Current')
  <2>1. q = p
    BY <1>1, <1>3, <1>4
  <2> QED BY <1>1, <1>2, <2>1
<1> QED BY <1>4 DEF Awaited

(* A process that runs is what has been told of it. *)
LEMMA RunsTold ==
  ASSUME Awaited, NEW p \in Child, process[p].image \in {"forked", "passthrough", "simple_test"}
  PROVE  ~failed /\ Tells(process[p], content, Current)
BY DEF Awaited

LEMMA Fields ==
  ASSUME NEW i, NEW a, NEW e, NEW k, NEW s, s = Running(i, a, e, k)
  PROVE  s.image = i /\ s.argv = a /\ s.env = e /\ s.at = k
BY DEF Running

LEMMA EndedFields ==
  ASSUME NEW i, NEW c, NEW s, s = Ended(i, c)
  PROVE  s.image = i /\ s.code = c
BY DEF Ended, Running

LEMMA StepFields ==
  ASSUME NEW s, Record(s), NEW k, NEW r, r = [s EXCEPT !.at = k]
  PROVE  r.image = s.image /\ r.argv = s.argv /\ r.env = s.env /\ r.at = k
BY DEF Record

LEMMA EndsTells ==
  ASSUME Tree, Awaited, NEW p \in Child, process[p].image # "waiting", process[p] # NoProcess,
         ~failed, NEW i, NEW code, Ends(p, i, code),
         \/ i = "exited" /\ Left(content, Captured!Exits(code), Current)
         \/ i = "killed" /\ Left(content, Captured!Killed, Current)
  PROVE  Awaited'
<1> DEFINE s == Ended(i, code)
<1>1. s.image = i /\ s.code = code
  BY EndedFields
<1>2. /\ process' = [process EXCEPT ![p] = s] /\ UNCHANGED <<suite, test, failed, content>>
  BY DEF Ends, Becomes
<1> HIDE DEF s
<1>3. Tells(s, content, Current)
  BY <1>1 DEF Tells, Over
<1> QED BY <1>1, <1>2, <1>3, OneTells

(* Those that write do so into the pipe. *)
Piped(t, e) == 1 \in DOMAIN t /\ t[1] = [file |-> e, cloexec |-> FALSE]

LEMMA WritesTells ==
  ASSUME Tree, Awaited, NEW p \in Child, process[p].image \notin {"none", "waiting"},
         ~failed, Piped(fds[p], End("write")),
         NEW line, NEW k, Writes(p, line, k),
         NEW m, Meant(m), Left(content, Captured!Prints(<<line>>, m), Current),
         \A s, c : /\ s.image = process[p].image /\ s.argv = process[p].argv
                   /\ s.env = process[p].env /\ s.at = k /\ Left(c, m, Current)
                   => Tells(s, c, Current)
  PROVE  Awaited'
<1> DEFINE s == [process[p] EXCEPT !.at = k]
<1>1. /\ s.image = process[p].image /\ s.argv = process[p].argv
      /\ s.env = process[p].env /\ s.at = k
  BY StepFields DEF Tree
<1>2. fds[p][1].file = End("write")
  BY DEF Piped
<1>3. /\ process' = [process EXCEPT ![p] = s] /\ UNCHANGED <<suite, test, failed>>
      /\ content' = Append(content, line)
  BY <1>2 DEF Writes, Becomes
<1> HIDE DEF s
<1>4. Left(content', m, Current)
  BY <1>3, LineLeft
<1>5. Tells(s, content', Current)
  BY <1>1, <1>4
<1>6. process[p] # NoProcess
  BY NoProcessIsNone
<1> QED BY <1>1, <1>3, <1>5, <1>6, OneTells

(* What executes a command does what that means. *)
LEMMA ExecutesTells ==
  ASSUME Tree, Awaited, NEW p \in Child, process[p].image # "waiting", process[p] # NoProcess,
         ~failed, NEW argv, NEW env, Executes(p, argv, env),
         Sequence(argv), Len(argv) >= 1, argv[1].is = "word", Sequence(env),
         Left(content, Captured!Meaning(argv, 1, env, Current.onPath), Current)
  PROVE  Awaited'
<1>1. CASE argv[1].text \in Programs
  <2> DEFINE s == Running(argv[1].text, argv, env, 0)
  <2>1. s.image = argv[1].text /\ s.argv = argv /\ s.env = env /\ s.at = 0
    BY Fields
  <2>2. /\ process' = [process EXCEPT ![p] = s] /\ UNCHANGED <<suite, test, failed, content>>
    BY <1>1 DEF Executes, Becomes
  <2> HIDE DEF s
  <2>3. s.image \in {"passthrough", "simple_test"}
    BY <1>1, <2>1, HarnessAssumption
  <2>4. Sensible(s) /\ Left(content, From(s, 1, Current), Current)
    BY <2>1 DEF Sensible, From
  <2>5. ToWrap(s, content, Current) \/ ToTest(s, content, Current)
    BY <1>1, <2>1, <2>3, <2>4 DEF ToWrap, ToTest, Captured!Wraps
  <2>6. Tells(s, content, Current)
    BY <2>5 DEF Tells
  <2> QED BY <2>2, <2>3, <2>6, OneTells
<1>2. CASE argv[1].text \notin Programs
  <2>1. ~Captured!Wraps(argv[1])
    BY <1>2 DEF Captured!Wraps
  <2>2. Captured!Meaning(argv, 1, env, Current.onPath) = Captured!Killed
    BY <1>2, <2>1, MeansOwn, NoProgram
  <2>3. Ends(p, "killed", 0)
    BY <1>2 DEF Executes
  <2> QED BY <2>2, <2>3, EndsTells
<1> QED BY <1>1, <1>2

ChildrenPiped ==
  \A p \in Child :
    process[p].image \notin {"none", "exited", "killed"} => Piped(fds[p], End("write"))

Plumbed ==
  /\ pc \in {"backup", "close", "redirect"} => fds[1][pipe.write].file = End("write")
  /\ pc = "fork" => Piped(fds[1], End("write"))
  /\ ChildrenPiped

(***************************************************************************)
(* The steps of passthrough.cpp.                                           *)
(***************************************************************************)
LEMMA StartsTells ==
  ASSUME Tree, Plumbed, Awaited, NEW p \in Child, PassthroughStarts(p) PROVE Awaited'
<1> DEFINE s == process[p]
           M(k) == From(s, k, Current)
<1>1. s.image = "passthrough" /\ s.at = 0 /\ Writes(p, Says("started", Empty), 2)
  BY DEF PassthroughStarts, Runs
<1>2. ~failed /\ Tells(s, content, Current) /\ Piped(fds[p], End("write"))
  BY <1>1, RunsTold DEF Plumbed, ChildrenPiped
<1>3. ToWrap(s, content, Current)
  BY <1>1, <1>2 DEF Tells, ToExecute, Wrapping, ToTest, Testing, Over
<1>4. /\ Sequence(s.argv) /\ Len(s.argv) \in Nat /\ Len(s.argv) >= 1
      /\ Captured!Wraps(s.argv[1]) /\ Left(content, M(1), Current) /\ Sensible(s)
  BY <1>3, SequenceShape DEF ToWrap, Sensible
<1>5. ~Proper(s.argv, 1) /\ Captured!LineOf(s.argv, 1) = Says("started", Empty)
  BY <1>4, SameWords DEF Proper, Captured!LineOf, Captured!Names
<1> HIDE DEF s, M
<1>6. M(1) = Captured!Prints(<<Says("started", Empty)>>, M(2))
  <2>1. \A argv, env, onPath : Sequence(argv) /\ 1 <= Len(argv) /\ ~Proper(argv, 1) =>
          Captured!Meaning(argv, 1, env, onPath)
            = Captured!Prints(<<Captured!LineOf(argv, 1)>>, Captured!Meaning(argv, 1 + 1, env, onPath))
    BY MeansLine
  <2> QED BY <1>4, <1>5, <2>1 DEF M, From
<1>7. Meant(M(2))
  <2>1. 2 \in Nat /\ 1 <= 2 /\ 2 <= Len(s.argv) + 1
    BY <1>4
  <2> QED BY <1>4, <2>1, MeaningMeant DEF M, From
<1>8. ASSUME NEW r, NEW c, r.image = s.image, r.argv = s.argv, r.env = s.env, r.at = 2,
             Left(c, M(2), Current)
      PROVE  Tells(r, c, Current)
  <2>1. r.at \in 2 .. Len(r.argv) + 1
    BY <1>4, <1>8
  <2>2. Sensible(r) /\ Left(c, From(r, r.at, Current), Current)
    BY <1>4, <1>8 DEF Sensible, M, From
  <2> QED BY <1>1, <1>8, <2>1, <2>2 DEF Tells, Wrapping, s
<1> QED BY <1>1, <1>2, <1>4, <1>6, <1>7, <1>8, WritesTells DEF s

(* The wrapper at its k-th argument. *)
LEMMA IsWrapping ==
  ASSUME Awaited, NEW p \in Child, process[p].image = "passthrough", process[p].at # 0,
         NEW s, s = process[p], NEW k, k = s.at
  PROVE  /\ ~failed /\ Sensible(s) /\ Len(s.argv) \in Nat /\ k \in 2 .. Len(s.argv) + 1
         /\ Left(content, From(s, k, Current), Current)
<1>1. ~failed /\ Tells(s, content, Current)
  BY RunsTold
<1>2. Wrapping(s, content, Current)
  BY <1>1 DEF Tells, ToExecute, ToWrap, ToTest, Testing, Over
<1> QED BY <1>1, <1>2, SequenceShape DEF Wrapping, Sensible

LEMMA PrintsOptionTells ==
  ASSUME Tree, Plumbed, Awaited, NEW p \in Child, PassthroughPrintsOption(p) PROVE Awaited'
<1> DEFINE s == process[p]
           k == s.at
           M(i) == From(s, i, Current)
           l == Says("option", s.argv[k].text)
<1>1. /\ s.image = "passthrough" /\ k \in 2 .. Len(s.argv) /\ s.argv[k].is # "word"
      /\ Writes(p, l, k + 1)
  BY DEF PassthroughPrintsOption, Looking, Argv
<1>2. Piped(fds[p], End("write"))
  BY <1>1 DEF Plumbed, ChildrenPiped
<1>3. ~failed /\ Sensible(s) /\ Len(s.argv) \in Nat /\ Left(content, M(k), Current)
  BY <1>1, IsWrapping
<1>4. k \notin Captured!Names(s.argv)
  BY <1>1 DEF Captured!Names
<1>5. ~Proper(s.argv, k) /\ Captured!LineOf(s.argv, k) = l
  BY <1>4, SameWords DEF Proper, Captured!LineOf
<1> HIDE DEF s, M, k, l
<1>6. k \in Nat /\ 1 <= k /\ k <= Len(s.argv) /\ k + 1 \in 2 .. Len(s.argv) + 1
  BY <1>1, <1>3
<1>7. M(k) = Captured!Prints(<<l>>, M(k + 1))
  <2>1. \A argv, env, onPath : Sequence(argv) /\ k <= Len(argv) /\ ~Proper(argv, k) =>
          Captured!Meaning(argv, k, env, onPath)
            = Captured!Prints(<<Captured!LineOf(argv, k)>>, Captured!Meaning(argv, k + 1, env, onPath))
    BY <1>6, MeansLine
  <2> QED BY <1>3, <1>5, <1>6, <2>1 DEF M, From, Sensible
<1>8. Meant(M(k + 1))
  <2>1. k + 1 \in Nat /\ 1 <= k + 1 /\ k + 1 <= Len(s.argv) + 1
    BY <1>3, <1>6
  <2> QED BY <1>3, <2>1, MeaningMeant DEF M, From, Sensible
<1>9. ASSUME NEW r, NEW c, r.image = s.image, r.argv = s.argv, r.env = s.env, r.at = k + 1,
             Left(c, M(k + 1), Current)
      PROVE  Tells(r, c, Current)
  <2>1. r.at \in 2 .. Len(r.argv) + 1
    BY <1>6, <1>9
  <2>2. Sensible(r) /\ Left(c, From(r, r.at, Current), Current)
    BY <1>3, <1>9 DEF Sensible, M, From
  <2> QED BY <1>1, <1>9, <2>1, <2>2 DEF Tells, Wrapping
<1> QED BY <1>1, <1>2, <1>3, <1>7, <1>8, <1>9, WritesTells DEF s

LEMMA ForksTells ==
  ASSUME Tree, Awaited, NEW p \in Child, PassthroughForks(p) PROVE Awaited'
<1> DEFINE s == process[p]
           k == s.at
           rest == SubSeq(s.argv, k, Len(s.argv))
           w == [s EXCEPT !.image = "waiting"]
           n == Running("forked", rest, s.env, 0)
<1>1. /\ s.image = "passthrough" /\ k \in 2 .. Len(s.argv) /\ s.argv[k].is = "word"
      /\ process' = [process EXCEPT ![p].image = "waiting", ![p + 1] = n]
      /\ UNCHANGED <<suite, test, content, failed>>
      /\ p < MaxProcess /\ process[p + 1] = NoProcess
  BY DEF PassthroughForks, Looking, Argv, Forks
<1>2. /\ ~failed /\ Sensible(s) /\ Len(s.argv) \in Nat
      /\ Left(content, From(s, k, Current), Current)
  BY <1>1, IsWrapping
<1>3. w.image = "waiting" /\ n.image = "forked" /\ n.argv = rest /\ n.env = s.env
  <2>1. w.image = "waiting"
    BY WaitingShape DEF Tree
  <2>2. n.image = "forked" /\ n.argv = rest /\ n.env = s.env
    BY DEF Running
  <2> QED BY <2>1, <2>2
<1>4. p + 1 \in Child /\ p \in Nat /\ p # p + 1
  BY <1>1, HarnessAssumption DEF Child
<1>5. \A q \in Child : process'[q] = IF q = p THEN w ELSE IF q = p + 1 THEN n ELSE process[q]
  BY <1>1, <1>4 DEF Tree
<1>6. k \in Captured!Names(s.argv)
  <2>1. DOMAIN s.argv = 1 .. Len(s.argv)
    BY <1>2, SequenceShape DEF Sensible
  <2>2. k \in 1 .. Len(s.argv)
    BY <1>1, <1>2
  <2> QED BY <1>1, <2>1, <2>2 DEF Captured!Names
<1> HIDE DEF w, n
<1>7. /\ Sequence(rest) /\ Len(rest) >= 1 /\ rest[1] = s.argv[k]
      /\ From(s, k, Current) = Captured!Meaning(rest, 1, s.env, Current.onPath)
  <2> HIDE DEF k
  <2>1. k \in Nat /\ 1 <= k /\ k <= Len(s.argv)
    BY <1>1, <1>2
  <2>2. \A argv, env, onPath : Sequence(argv) /\ k <= Len(argv) /\ k \in Captured!Names(argv) =>
          LET r == SubSeq(argv, k, Len(argv))
          IN  /\ Sequence(r) /\ Len(r) >= 1 /\ r[1] = argv[k]
              /\ Captured!Meaning(argv, k, env, onPath) = Captured!Meaning(r, 1, env, onPath)
    BY <2>1, MeansRest
  <2> QED BY <1>2, <1>6, <2>1, <2>2 DEF From, Sensible
<1> HIDE DEF rest
<1>8. Tells(n, content, Current)
  <2>1. Sensible(n) /\ Left(content, From(n, 1, Current), Current)
    BY <1>1, <1>2, <1>3, <1>7 DEF Sensible, From
  <2> QED BY <1>3, <2>1 DEF Tells, ToExecute
<1>9. Current' = Current
  BY <1>1 DEF Current
<1>10. ASSUME NEW q \in Child, process'[q].image \notin {"none", "waiting"}
       PROVE  IF failed' THEN process'[q].image = "killed"
              ELSE Tells(process'[q], content', Current')
  <2>1. q # p
    BY <1>3, <1>5, <1>10
  <2>2. CASE q = p + 1
    BY <1>1, <1>2, <1>4, <1>5, <1>8, <1>9, <2>2
  <2>3. CASE q # p + 1
    <3>1. process[q].image \notin {"none", "waiting"}
      BY <1>5, <1>10, <2>1, <2>3
    <3>2. q \in Nat
      BY DEF Child
    <3>3. ~(p < q) /\ ~(q < p)
      BY <1>1, <3>1, NoProcessIsNone DEF Tree
    <3> QED BY <1>4, <2>1, <3>2, <3>3
  <2> QED BY <2>2, <2>3
<1> QED BY <1>10 DEF Awaited

LEMMA WaitsTells ==
  ASSUME Tree, Awaited, NEW p \in Child, PassthroughWaits(p) PROVE Awaited'
<1> DEFINE s == process[p + 1]
<1>1. /\ process[p].image = "waiting" /\ s.image \in {"exited", "killed"}
      /\ process' = [process EXCEPT ![p] = s, ![p + 1] = NoProcess]
      /\ UNCHANGED <<suite, test, content, failed>>
  BY DEF PassthroughWaits
<1>2. p + 1 \in Child /\ p \in Nat /\ p # p + 1
  BY <1>1 DEF Tree, Child
<1>3. IF failed THEN s.image = "killed" ELSE Tells(s, content, Current)
  BY <1>1, <1>2 DEF Awaited
<1>4. \A q \in Child : process'[q] = IF q = p THEN s
                                     ELSE IF q = p + 1 THEN NoProcess ELSE process[q]
  BY <1>1, <1>2 DEF Tree
<1>5. Current' = Current
  BY <1>1 DEF Current
<1> HIDE DEF s
<1>6. ASSUME NEW q \in Child, process'[q].image \notin {"none", "waiting"}
      PROVE  IF failed' THEN process'[q].image = "killed"
             ELSE Tells(process'[q], content', Current')
  <2>1. CASE q = p
    BY <1>1, <1>3, <1>4, <1>5, <2>1
  <2>2. CASE q # p
    <3>1. process'[q] = process[q]
      BY <1>4, <1>6, <2>2, NoProcessIsNone
    <3> QED BY <1>1, <1>5, <1>6, <3>1 DEF Awaited
  <2> QED BY <2>1, <2>2
<1> QED BY <1>6 DEF Awaited

LEMMA NoWordTells ==
  ASSUME Tree, Awaited, NEW p \in Child, PassthroughFindsNoProgram(p) PROVE Awaited'
<1> DEFINE s == process[p]
           k == s.at
<1>1. s.image = "passthrough" /\ k = Len(s.argv) + 1 /\ Ends(p, "exited", 1)
  BY DEF PassthroughFindsNoProgram
<1>2. ~failed /\ Tells(s, content, Current) /\ s # NoProcess
  BY <1>1, RunsTold, NoProcessIsNone
<1>3. Len(s.argv) \in Nat
  BY <1>1, <1>2, SequenceShape DEF Tells, ToExecute, ToWrap, Wrapping, ToTest, Testing, Over, Sensible
<1>4. Sensible(s) /\ Left(content, From(s, k, Current), Current)
  BY <1>1, <1>3, IsWrapping
<1> HIDE DEF s
<1>5. From(s, k, Current) = Captured!Exits(1)
  BY <1>1, <1>4, MeansFailure DEF From, Sensible
<1> QED BY <1>1, <1>2, <1>4, <1>5, EndsTells DEF s

(***************************************************************************)
(* The steps of a test program.                                            *)
(***************************************************************************)
LEMMA IsToTest ==
  ASSUME Awaited, NEW p \in Child, process[p].image = "simple_test", process[p].at = 0,
         NEW argv, argv = process[p].argv, NEW env, env = process[p].env
  PROVE  /\ ~failed /\ Sequence(argv) /\ Len(argv) >= 1 /\ argv[1].is = "word" /\ Sequence(env)
         /\ argv[1].text = "simple_test" /\ argv[1].text \in Programs
         /\ Left(content, Captured!Own(argv, env, Current.onPath), Current)
<1> DEFINE s == process[p]
<1>1. ~failed /\ Tells(s, content, Current)
  BY RunsTold
<1>2. ToTest(s, content, Current)
  BY <1>1 DEF Tells, ToExecute, ToWrap, Wrapping, Testing, Over
<1>3. /\ Sequence(argv) /\ Len(argv) >= 1 /\ argv[1].is = "word" /\ Sequence(env)
      /\ argv[1].text = "simple_test" /\ argv[1].text \in Programs
      /\ Left(content, Captured!Meaning(argv, 1, env, Current.onPath), Current)
  BY <1>2 DEF ToTest, Sensible, From
<1>4. ~Captured!Wraps(argv[1])
  BY <1>3 DEF Captured!Wraps
<1>5. Captured!Meaning(argv, 1, env, Current.onPath) = Captured!Own(argv, env, Current.onPath)
  BY <1>3, <1>4, MeansOwn
<1> QED BY <1>1, <1>3, <1>5

LEMMA AnnouncesTells ==
  ASSUME Tree, Plumbed, Awaited, NEW p \in Child, TargetAnnounces(p) PROVE Awaited'
<1> DEFINE s == process[p]
           l == Says("under", Request(p).name)
<1>1. /\ s.image = "simple_test" /\ s.at = 0 /\ Request(p).is = "inherited"
      /\ Writes(p, l, 1)
  BY DEF TargetAnnounces, Runs
<1>2. Piped(fds[p], End("write"))
  BY <1>1 DEF Plumbed, ChildrenPiped
<1>3. PICK argv, env : argv = s.argv /\ env = s.env
  OBVIOUS
<1> DEFINE m == Captured!Own(argv, env, Current.onPath)
<1>4. ~failed /\ argv[1].text \in Programs /\ Left(content, m, Current)
  BY <1>1, <1>3, IsToTest
<1>5. m = Captured!Prints(<<l>>, Tests)
  <2>1. Request(p) = RequestOf([argv |-> argv, environ |-> env])
    BY <1>3 DEF Request
  <2> QED BY <1>1, <1>4, <2>1, RunsUnder DEF Under
<1>6. Meant(Tests)
  BY TestsMeant
<1>7. ASSUME NEW r, NEW c, r.image = s.image, r.at = 1, Left(c, Tests, Current)
      PROVE  Tells(r, c, Current)
  BY <1>1, <1>7 DEF Tells, Testing
<1> HIDE DEF l, m
<1> QED BY <1>1, <1>2, <1>4, <1>5, <1>6, <1>7, WritesTells

LEMMA PlainTells ==
  ASSUME Tree, Awaited, NEW p \in Child, TargetRunsPlain(p) PROVE Awaited'
<1> DEFINE s == process[p]
           r == [s EXCEPT !.at = 1]
<1>1. /\ s.image = "simple_test" /\ s.at = 0 /\ Request(p).is = "plain"
      /\ process' = [process EXCEPT ![p] = r] /\ UNCHANGED <<suite, test, content, failed>>
  BY DEF TargetRunsPlain, Runs, Becomes
<1>2. PICK argv, env : argv = s.argv /\ env = s.env
  OBVIOUS
<1> DEFINE m == Captured!Own(argv, env, Current.onPath)
<1>3. ~failed /\ argv[1].text \in Programs /\ Left(content, m, Current)
  BY <1>1, <1>2, IsToTest
<1>4. m = Tests
  <2>1. Request(p) = RequestOf([argv |-> argv, environ |-> env])
    BY <1>2 DEF Request
  <2> QED BY <1>1, <1>3, <2>1, RunsTests
<1>5. r.image = s.image /\ r.at = 1
  BY StepFields DEF Tree
<1>6. s # NoProcess
  BY <1>1, NoProcessIsNone
<1> HIDE DEF r, m
<1>7. Tells(r, content, Current)
  BY <1>1, <1>3, <1>4, <1>5 DEF Tells, Testing
<1> QED BY <1>1, <1>3, <1>5, <1>6, <1>7, OneTells

LEMMA RelaunchesTells ==
  ASSUME Tree, Awaited, NEW p \in Child, TargetRelaunches(p) PROVE Awaited'
<1> DEFINE s == process[p]
<1>1. PICK argv, env : argv = s.argv /\ env = s.env
  OBVIOUS
<1>2. PICK tool : tool = ParseOptionsToTool(WithoutFlags(argv))
  OBVIOUS
<1>3. PICK command, new : /\ command = BuildCommandLine(WithoutFlags(argv), tool)
                          /\ new = GetToolEnv(env, tool)
  OBVIOUS
<1>4. PICK request : request = RequestOf([argv |-> argv, environ |-> env])
  OBVIOUS
<1>5. /\ s.image = "simple_test" /\ s.at = 0 /\ request.is = "instrumented"
      /\ IF InstrumentationWrapper(tool) \in Current.onPath THEN Executes(p, command, new)
         ELSE Ends(p, "killed", 0)
  BY <1>1, <1>2, <1>3, <1>4 DEF TargetRelaunches, Runs, Request
<1> DEFINE m == Captured!Own(argv, env, Current.onPath)
<1>6. /\ ~failed /\ Sequence(argv) /\ Len(argv) >= 1 /\ argv[1].is = "word" /\ Sequence(env)
      /\ argv[1].text = "simple_test" /\ argv[1].text \in Programs /\ Left(content, m, Current)
  BY <1>1, <1>5, IsToTest
<1>7. s.image # "waiting" /\ s # NoProcess
  BY <1>5, NoProcessIsNone
<1>8. CASE InstrumentationWrapper(tool) \in Current.onPath \cap Programs
  <2>1. /\ Sequence(command) /\ Len(command) >= 1 /\ command[1].is = "word" /\ Sequence(new)
        /\ m = Captured!Meaning(command, 1, new, Current.onPath)
    BY <1>2, <1>3, <1>4, <1>5, <1>6, <1>8, RelaunchMeans
  <2>2. Executes(p, command, new)
    BY <1>5, <1>8
  <2>3. Left(content, Captured!Meaning(command, 1, new, Current.onPath), Current)
    BY <1>6, <2>1
  <2> QED BY <1>6, <1>7, <2>1, <2>2, <2>3, ExecutesTells
<1>9. CASE InstrumentationWrapper(tool) \notin Current.onPath \cap Programs
  <2>1. m = Captured!Killed
    BY <1>2, <1>4, <1>5, <1>6, <1>9, FindsNoWrapper
  <2>2. Ends(p, "killed", 0)
    <3>1. CASE InstrumentationWrapper(tool) \in Current.onPath
      <4>1. command[1].text = InstrumentationWrapper(tool)
        BY <1>3, CommandName
      <4> QED BY <1>5, <1>9, <3>1, <4>1 DEF Executes
    <3>2. CASE InstrumentationWrapper(tool) \notin Current.onPath
      BY <1>5, <3>2
    <3> QED BY <3>1, <3>2
  <2>3. Left(content, Captured!Killed, Current)
    BY <1>6, <2>1
  <2> QED BY <1>6, <1>7, <2>2, <2>3, EndsTells
<1> QED BY <1>8, <1>9

LEMMA RejectsTells ==
  ASSUME Tree, Awaited, NEW p \in Child, TargetRejectsOptions(p) PROVE Awaited'
<1> DEFINE s == process[p]
<1>1. /\ s.image = "simple_test" /\ s.at = 0 /\ Request(p).is = "malformed"
      /\ Ends(p, "killed", 0)
  BY DEF TargetRejectsOptions, Runs
<1>2. PICK argv, env : argv = s.argv /\ env = s.env
  OBVIOUS
<1> DEFINE m == Captured!Own(argv, env, Current.onPath)
<1>3. ~failed /\ argv[1].text \in Programs /\ Left(content, m, Current)
  BY <1>1, <1>2, IsToTest
<1>4. m = Captured!Killed
  <2>1. Request(p) = RequestOf([argv |-> argv, environ |-> env])
    BY <1>2 DEF Request
  <2> QED BY <1>1, <1>3, <2>1, RejectsOptions
<1>5. s # NoProcess
  BY <1>1, NoProcessIsNone
<1> QED BY <1>1, <1>3, <1>4, <1>5, EndsTells

(* The lines of TestOutput. *)
LEMMA TestLines ==
  /\ DOMAIN TestOutput = 1 .. 2
  /\ TestOutput[1] = Says("tests", Empty) /\ TestOutput[2] = Says(Empty, Empty)
BY DEF TestOutput

LEMMA TestsInTurn ==
  Tests = Captured!Prints(<<Says("tests", Empty)>>,
                          Captured!Prints(<<Says(Empty, Empty)>>, Captured!Exits(0)))
<1> DEFINE a == Says("tests", Empty)
           b == Says(Empty, Empty)
           x == <<a>>
           y == <<b>>
           E == Captured!Exits(0)
<1>1. TestOutput = <<a, b>>
  BY DEF TestOutput
<1> HIDE DEF a, b
<1>2. x \o y = <<a, b>>
  BY Two
<1>3. Sequence(x) /\ Sequence(y) /\ Meant(E)
  BY Single, EndsMeant
<1> HIDE DEF x, y, E
<1>4. Captured!Prints(x, Captured!Prints(y, E)) = Captured!Prints(x \o y, E)
  BY <1>3, PrintsInTurn
<1> QED BY <1>1, <1>2, <1>4 DEF Tests, x, y, E, a, b

LEMMA RunsTestsTells ==
  ASSUME Tree, Plumbed, Awaited, NEW p \in Child, TargetRunsTests(p) PROVE Awaited'
<1> DEFINE s == process[p]
           a == Says("tests", Empty)
           b == Says(Empty, Empty)
           E == Captured!Exits(0)
           B == Captured!Prints(<<b>>, E)
<1>1. /\ s.image = "simple_test" /\ s.at \in {1, 2}
      /\ Writes(p, TestOutput[s.at], s.at + 1)
  BY TestLines DEF TargetRunsTests
<1>2. ~failed /\ Tells(s, content, Current) /\ Piped(fds[p], End("write"))
  BY <1>1, RunsTold DEF Plumbed, ChildrenPiped
<1>3. Testing(s, content, Current)
  BY <1>1, <1>2 DEF Tells, ToExecute, ToWrap, Wrapping, ToTest, Over
<1>4. Meant(E) /\ Meant(B)
  BY EndsMeant, Single, PrintsBefore
<1>5. Tests = Captured!Prints(<<a>>, B)
  BY TestsInTurn
<1>6. CASE s.at = 1
  <2>1. Left(content, Captured!Prints(<<a>>, B), Current) /\ Writes(p, a, 2)
    BY <1>1, <1>3, <1>5, <1>6, TestLines DEF Testing
  <2>2. ASSUME NEW r, NEW c, r.image = s.image, r.at = 2, Left(c, B, Current)
        PROVE  Tells(r, c, Current)
    BY <1>1, <2>2 DEF Tells, Testing
  <2> HIDE DEF a, B
  <2> QED BY <1>1, <1>2, <1>4, <2>1, <2>2, WritesTells
<1>7. CASE s.at = 2
  <2>1. Left(content, Captured!Prints(<<b>>, E), Current) /\ Writes(p, b, 3)
    BY <1>1, <1>3, <1>7, TestLines DEF Testing
  <2>2. ASSUME NEW r, NEW c, r.image = s.image, r.at = 3, Left(c, E, Current)
        PROVE  Tells(r, c, Current)
    BY <1>1, <2>2 DEF Tells, Testing
  <2> HIDE DEF b, E
  <2> QED BY <1>1, <1>2, <1>4, <2>1, <2>2, WritesTells
<1> QED BY <1>1, <1>6, <1>7

LEMMA TargetEndsTells ==
  ASSUME Tree, Awaited, NEW p \in Child, TargetEnds(p) PROVE Awaited'
<1> DEFINE s == process[p]
<1>1. s.image = "simple_test" /\ s.at = 3 /\ Ends(p, "exited", 0)
  <2>1. Len(TestOutput) + 1 = 3
    BY TestsPrint
  <2> QED BY <2>1 DEF TargetEnds, Runs
<1>2. ~failed /\ Tells(s, content, Current) /\ s # NoProcess
  BY <1>1, RunsTold, NoProcessIsNone
<1>3. Left(content, Captured!Exits(0), Current)
  BY <1>1, <1>2 DEF Tells, ToExecute, ToWrap, Wrapping, ToTest, Testing, Over
<1> QED BY <1>1, <1>2, <1>3, EndsTells

(* What any other process does. *)
LEMMA ChildKeepsAwaited ==
  ASSUME Tree, Plumbed, Awaited, NEW p \in Child, ChildStep(p) PROVE Awaited'
<1>1. CASE ExecutesForked(p)
  <2> DEFINE s == process[p]
  <2>1. s.image = "forked" /\ Executes(p, s.argv, s.env) /\ s # NoProcess
    BY <1>1, NoProcessIsNone DEF ExecutesForked
  <2>2. ~failed /\ Tells(s, content, Current)
    BY <2>1, RunsTold
  <2>3. Sensible(s) /\ Left(content, From(s, 1, Current), Current)
    BY <2>1, <2>2 DEF Tells, ToExecute, ToWrap, Wrapping, ToTest, Testing, Over
  <2> QED BY <2>1, <2>2, <2>3, ExecutesTells DEF From, Sensible
<1>2. CASE PassthroughCannotFork(p) \/ CannotExecute(p)
  <2> DEFINE s == Ended("killed", 0)
  <2>1. /\ process[p].image \in {"passthrough", "forked", "simple_test"}
        /\ process' = [process EXCEPT ![p] = s]
        /\ failed' = TRUE /\ UNCHANGED <<suite, test>>
    BY <1>2 DEF PassthroughCannotFork, Looking, CannotExecute, Relaunching, Runs, Fails
  <2>2. s.image = "killed" /\ process[p] # NoProcess
    BY <2>1, EndedFields, NoProcessIsNone
  <2> QED BY <2>1, <2>2, OneTells
<1> QED BY <1>1, <1>2, StartsTells, PrintsOptionTells, ForksTells, WaitsTells, NoWordTells,
           AnnouncesTells, PlainTells, RelaunchesTells, RejectsTells, RunsTestsTells,
           TargetEndsTells
        DEF ChildStep, Passthrough, Target

(***************************************************************************)
(* The pipe is the standard output of every process the harness waits for. *)
(***************************************************************************)
LEMMA SameEnd == ASSUME test' = test PROVE End("write")' = End("write")
BY DEF End

LEMMA ExecutesKeepsPiped ==
  ASSUME NEW t, NEW e, Piped(t, e) PROVE Piped(AcrossExec(t), e)
<1>1. 1 \in {d \in DOMAIN t : ~t[d].cloexec}
  BY DEF Piped
<1> QED BY <1>1 DEF Piped, AcrossExec

LEMMA OneKeepsPiped ==
  ASSUME Tree, ChildrenPiped, NEW p \in Child, NEW s, process' = [process EXCEPT ![p] = s],
         test' = test, \A q \in Child \ {p} : fds'[q] = fds[q],
         s.image \notin {"none", "exited", "killed"} => Piped(fds'[p], End("write"))
  PROVE  ChildrenPiped'
<1>1. \A q \in Child : process'[q] = IF q = p THEN s ELSE process[q]
  BY DEF Tree
<1> QED BY <1>1, SameEnd DEF ChildrenPiped

LEMMA EndsKeepsPiped ==
  ASSUME Tree, ChildrenPiped, NEW p \in Child, NEW i \in {"exited", "killed"}, NEW c, Ends(p, i, c)
  PROVE  ChildrenPiped'
<1> DEFINE s == Ended(i, c)
<1>1. s.image = i
  BY EndedFields
<1>2. /\ process' = [process EXCEPT ![p] = s] /\ test' = test
      /\ \A q \in Child \ {p} : fds'[q] = fds[q]
  BY DEF Ends, Becomes, Tree, Child, Process
<1> HIDE DEF s
<1> QED BY <1>1, <1>2, OneKeepsPiped

LEMMA ProgramKeepsPiped ==
  ASSUME Tree, ChildrenPiped, NEW p \in Child,
         process[p].image \notin {"none", "exited", "killed"},
         NEW argv, NEW env, Executes(p, argv, env)
  PROVE  ChildrenPiped'
<1>1. CASE argv[1].text \in Programs
  <2> DEFINE s == Running(argv[1].text, argv, env, 0)
  <2>1. p \in Process
    BY DEF Child, Process
  <2>2. /\ process' = [process EXCEPT ![p] = s] /\ test' = test
        /\ fds' = [fds EXCEPT ![p] = AcrossExec(@)]
    BY <1>1 DEF Executes, Becomes
  <2>3. /\ \A q \in Child \ {p} : fds'[q] = fds[q]
        /\ fds'[p] = AcrossExec(fds[p])
    BY <2>1, <2>2 DEF Tree, Child, Process
  <2>4. Piped(fds'[p], End("write"))
    BY <2>3, ExecutesKeepsPiped DEF ChildrenPiped
  <2> HIDE DEF s
  <2> QED BY <2>2, <2>3, <2>4, OneKeepsPiped
<1>2. CASE argv[1].text \notin Programs
  BY <1>2, EndsKeepsPiped DEF Executes
<1> QED BY <1>1, <1>2

LEMMA WritesKeepsPiped ==
  ASSUME Tree, ChildrenPiped, NEW p \in Child,
         process[p].image \notin {"none", "exited", "killed"},
         NEW k, process' = [process EXCEPT ![p] = [process[p] EXCEPT !.at = k]],
         UNCHANGED <<fds, test>>
  PROVE  ChildrenPiped'
<1> DEFINE s == [process[p] EXCEPT !.at = k]
<1>1. \A q \in Child \ {p} : fds'[q] = fds[q]
  OBVIOUS
<1>2. Piped(fds'[p], End("write"))
  BY DEF ChildrenPiped
<1> HIDE DEF s
<1> QED BY <1>1, <1>2, OneKeepsPiped DEF s

LEMMA ChildKeepsPiped ==
  ASSUME Tree, ChildrenPiped, NEW p \in Child, ChildStep(p) PROVE ChildrenPiped'
<1>1. p \in Nat /\ p \in Process
  BY DEF Child, Process
<1>2. CASE ExecutesForked(p)
  BY <1>2, ProgramKeepsPiped DEF ExecutesForked
<1>3. CASE PassthroughStarts(p) \/ PassthroughPrintsOption(p) \/ TargetAnnounces(p)
             \/ TargetRunsTests(p) \/ TargetRunsPlain(p)
  <2>1. process[p].image \in {"passthrough", "simple_test"}
    BY <1>3 DEF PassthroughStarts, PassthroughPrintsOption, TargetAnnounces, TargetRunsTests,
                TargetRunsPlain, Runs, Looking
  <2>2. /\ \E k : process' = [process EXCEPT ![p] = [process[p] EXCEPT !.at = k]]
        /\ UNCHANGED <<fds, test>>
    BY <1>3 DEF PassthroughStarts, PassthroughPrintsOption, TargetAnnounces, TargetRunsTests,
                TargetRunsPlain, Writes, Becomes
  <2> QED BY <2>1, <2>2, WritesKeepsPiped
<1>4. CASE PassthroughForks(p)
  <2>1. PICK a, e : process' = [process EXCEPT ![p].image = "waiting",
                                               ![p + 1] = Running("forked", a, e, 0)]
    BY <1>4 DEF PassthroughForks
  <2>2. /\ process[p].image = "passthrough" /\ p < MaxProcess /\ test' = test
        /\ fds' = [fds EXCEPT ![p + 1] = fds[p]]
    BY <1>4 DEF PassthroughForks, Looking, Forks
  <2>3. p + 1 \in Child /\ p + 1 \in Process
    BY <1>1, <2>2, HarnessAssumption DEF Child, Process
  <2>4. \A q \in Child : fds'[q] = IF q = p + 1 THEN fds[p] ELSE fds[q]
    BY <2>2, <2>3 DEF Tree
  <2>5. \A q \in Child \ {p, p + 1} : process'[q] = process[q]
    BY <2>1 DEF Tree
  <2>6. Piped(fds[p], End("write"))
    BY <2>2 DEF ChildrenPiped
  <2>7. ASSUME NEW q \in Child, process'[q].image \notin {"none", "exited", "killed"}
        PROVE  Piped(fds'[q], End("write"))
    BY <2>4, <2>5, <2>6, <2>7 DEF ChildrenPiped
  <2> QED BY <2>2, <2>7, SameEnd DEF ChildrenPiped
<1>5. CASE PassthroughCannotFork(p) \/ CannotExecute(p)
  <2> DEFINE s == Ended("killed", 0)
  <2>1. s.image = "killed"
    BY EndedFields
  <2>2. Fails(p)
    BY <1>5 DEF PassthroughCannotFork, CannotExecute
  <2>3. /\ process' = [process EXCEPT ![p] = s] /\ test' = test
        /\ \A q \in Child \ {p} : fds'[q] = fds[q]
    BY <2>2 DEF Fails, Tree, Child, Process
  <2> HIDE DEF s
  <2> QED BY <2>1, <2>3, OneKeepsPiped
<1>6. CASE PassthroughWaits(p)
  <2>1. /\ process[p].image = "waiting" /\ process[p + 1].image \in {"exited", "killed"}
        /\ process' = [process EXCEPT ![p] = process[p + 1], ![p + 1] = NoProcess]
        /\ fds' = [fds EXCEPT ![p] = <<>>] /\ test' = test
    BY <1>6 DEF PassthroughWaits
  <2>2. p + 1 \in Child /\ p # p + 1
    BY <1>1, <2>1 DEF Tree
  <2>3. \A q \in Child : process'[q] = IF q = p THEN process[p + 1]
                                       ELSE IF q = p + 1 THEN NoProcess ELSE process[q]
    BY <2>1, <2>2 DEF Tree
  <2>4. \A q \in Child \ {p} : fds'[q] = fds[q]
    BY <2>1 DEF Tree, Child, Process
  <2> QED BY <2>1, <2>3, <2>4, NoProcessIsNone, SameEnd DEF ChildrenPiped
<1>7. CASE PassthroughFindsNoProgram(p) \/ TargetRejectsOptions(p) \/ TargetEnds(p)
  BY <1>7, EndsKeepsPiped DEF PassthroughFindsNoProgram, TargetRejectsOptions, TargetEnds
<1>8. CASE TargetRelaunches(p)
  <2>1. process[p].image = "simple_test"
    BY <1>8 DEF TargetRelaunches, Runs
  <2> QED BY <1>8, <2>1, ProgramKeepsPiped, EndsKeepsPiped DEF TargetRelaunches
<1> QED BY <1>2, <1>3, <1>4, <1>5, <1>6, <1>7, <1>8 DEF ChildStep, Passthrough, Target

(***************************************************************************)
(* How far the harness has come.                                           *)
(***************************************************************************)
Paced ==
  /\ suite \in Suites /\ test \in 1 .. Len(suite) + 1
  /\ pc # "fixture" => test <= Len(suite)
  /\ pc \in {"fixture", "backup", "close", "redirect", "fork"} => ~failed
  /\ pc \in {"backup", "close", "redirect", "fork"} => content = <<>>
  /\ pc \notin {"read", "unfixture", "report"} => lines = <<>>
  /\ pc \in {"unredirect", "restore"} /\ result = Threw => failed
  /\ pc \in {"unfixture", "report"} => result # None
  /\ pc \in {"unredirect", "restore"} /\ result # Threw => 2 \in Child
  /\ pc = "wait" => 2 \in Child
  /\ pc = "read" => Current.reads

(* c is what comes after the first k of some lines, of which read has been made. *)
Unread(read, c, all) ==
  \E k \in Nat : /\ Sequence(c) /\ Sequence(all) /\ Len(all) = k + Len(c)
                 /\ \A i \in 1 .. Len(c) : c[i] = all[k + i]
                 /\ Captured!Shows(read, all, k)
Reads(res, read, c, t) ==
  LET m == Captured!MeaningOf(t)
  IN  m.killed = FALSE /\ res = Returned(m.code) /\ Unread(read, c, m.lines)
Reading == pc = "read" => ~failed /\ Reads(result, lines, content, Current)

LEMMA NothingRead ==
  ASSUME NEW c, Sequence(c) PROVE Unread(<<>>, c, c)
<1>1. Len(c) \in Nat /\ Len(c) = 0 + Len(c) /\ \A i \in 1 .. Len(c) : 0 + i = i
  BY SequenceShape
<1>2. Captured!Shows(<<>>, c, 0)
  BY ShowsNothing
<1> QED BY <1>1, <1>2 DEF Unread

LEMMA LineRead ==
  ASSUME NEW read, NEW c, NEW all, Unread(read, c, all), c # <<>>
  PROVE  Unread(IF Head(c).says = Empty THEN read ELSE Append(read, Head(c)), Tail(c), all)
<1>1. PICK k \in Nat : /\ Sequence(c) /\ Sequence(all) /\ Len(all) = k + Len(c)
                       /\ \A i \in 1 .. Len(c) : c[i] = all[k + i]
                       /\ Captured!Shows(read, all, k)
  BY DEF Unread
<1>2. PICK S : c \in Seq(S)
  BY <1>1 DEF Sequence
<1>3. /\ Tail(c) \in Seq(S) /\ Len(Tail(c)) = Len(c) - 1 /\ Head(c) = c[1]
      /\ \A i \in 1 .. Len(Tail(c)) : Tail(c)[i] = c[i + 1]
  BY <1>2, HeadTailProperties
<1>4. Len(c) \in Nat /\ Len(c) # 0
  BY <1>2, LenProperties, EmptySeq
<1> DEFINE d == Tail(c)
           l == Head(c)
           j == k + 1
<1>5. Sequence(d) /\ Len(all) = j + Len(d) /\ j \in Nat
  BY <1>1, <1>3, <1>4 DEF Sequence
<1>6. l = all[k + 1]
  BY <1>1, <1>3, <1>4
<1>7. \A i \in 1 .. Len(d) : d[i] = all[j + i]
  <2>1. \A i \in 1 .. Len(d) : i + 1 \in 1 .. Len(c) /\ k + (i + 1) = j + i
    BY <1>3, <1>4
  <2> QED BY <1>1, <1>3, <2>1
<1> HIDE DEF d, l
<1>8. Captured!Shows(IF l.says = Empty THEN read ELSE Append(read, l), all, j)
  BY <1>1, <1>6, ShowsNext
<1> QED BY <1>1, <1>5, <1>7, <1>8 DEF Unread, d, l

LEMMA AllRead ==
  ASSUME NEW read, NEW all, Unread(read, <<>>, all)
  PROVE  Captured!Shows(read, all, Len(all))
<1>1. PICK k \in Nat : Len(all) = k + Len(<<>>) /\ Captured!Shows(read, all, k)
  BY DEF Unread
<1>2. k + Len(<<>>) = k
  BY Empties
<1> QED BY <1>1, <1>2

LEMMA TestShape ==
  ASSUME Paced, test <= Len(suite)
  PROVE  /\ Sequence(Current.args) /\ Len(Current.args) >= 1 /\ Current.args[1].is = "word"
         /\ Sequence(Current.env)
<1>1. suite \in Seq(Test) /\ test \in 1 .. Len(suite)
  BY HarnessAssumption DEF Paced
<1>2. DOMAIN suite = 1 .. Len(suite) /\ Current \in Test
  BY <1>1, LenProperties, ElementOfSeq DEF Current
<1>3. Current.args # <<>> /\ Current.args[1].is = "word"
  BY <1>1, <1>2, HarnessAssumption DEF Paced, Current
<1>4. Current.args \in Seq(Argument) /\ Current.env \in Seq(Entry)
  BY <1>2 DEF Test
<1>5. Len(Current.args) >= 1
  <2>1. Len(Current.args) \in Nat /\ Len(Current.args) # 0
    BY <1>3, <1>4, LenProperties, EmptySeq
  <2> QED BY <2>1
<1> QED BY <1>3, <1>4, <1>5 DEF Sequence

CInv == PInv /\ Plumbed /\ Awaited /\ Paced /\ Reading

LEMMA InitCaptured == Init => CInv
<1> SUFFICES ASSUME Init PROVE CInv
  OBVIOUS
<1>1. \A p \in Child : process[p].image = "none"
  BY NoProcessIsNone DEF Init
<1>2. /\ suite \in Suites /\ test = 1 /\ pc = "fixture" /\ lines = <<>> /\ failed = FALSE
  BY DEF Init
<1>3. Len(suite) \in Nat
  BY <1>2, HarnessAssumption, LenProperties
<1>4. Plumbed /\ Awaited /\ Reading
  BY <1>1, <1>2 DEF Plumbed, ChildrenPiped, Awaited, Reading
<1>5. Paced
  BY <1>2, <1>3 DEF Paced
<1> QED BY <1>4, <1>5, InitLaunch DEF CInv

LEMMA NobodyTells == ASSUME NobodyRuns PROVE Awaited /\ ChildrenPiped
BY NoProcessIsNone DEF NobodyRuns, Awaited, ChildrenPiped

LEMMA NobodyTellsNext == ASSUME NobodyRuns' PROVE Awaited' /\ ChildrenPiped'
BY NoProcessIsNone DEF NobodyRuns, Awaited, ChildrenPiped

(* The process the harness forks does what the test asks for. *)
LEMMA ForkTells ==
  ASSUME CInv, Fork PROVE Awaited' /\ ChildrenPiped'
<1> DEFINE n == Running("forked", Current.args, Current.env, 0)
<1>1. /\ pc = "fork" /\ test <= Len(suite) /\ 1 < MaxProcess
      /\ process' = [process EXCEPT ![2] = n] /\ fds' = [fds EXCEPT ![2] = fds[1]]
      /\ UNCHANGED <<suite, test, content, failed>>
  BY DEF Fork, At, Forks
<1>2. NobodyRuns /\ ~failed /\ content = <<>> /\ Piped(fds[1], End("write"))
  BY <1>1 DEF CInv, PInv, Launched, Paced, Plumbed
<1>3. 2 \in Child /\ 2 \in Process
  BY <1>1, HarnessAssumption DEF Child, Process
<1>4. /\ \A p \in Child : process'[p] = IF p = 2 THEN n ELSE NoProcess
      /\ \A p \in Child : fds'[p] = IF p = 2 THEN fds[1] ELSE fds[p]
  BY <1>1, <1>2, <1>3 DEF NobodyRuns, CInv, PInv, Tree
<1>5. n.image = "forked" /\ n.argv = Current.args /\ n.env = Current.env
  BY DEF Running
<1> HIDE DEF n
<1>6. Sensible(n)
  BY <1>1, <1>5, TestShape DEF Sensible, CInv
<1>7. Left(<<>>, From(n, 1, Current), Current)
  <2> DEFINE m == Captured!MeaningOf(Current)
  <2>1. From(n, 1, Current) = m
    BY <1>5 DEF From, Captured!MeaningOf
  <2>2. Meant(From(n, 1, Current))
    <3>1. 1 \in Nat /\ 1 <= 1 /\ 1 <= Len(n.argv) + 1
      BY <1>6, SequenceShape DEF Sensible
    <3> QED BY <1>6, <3>1, MeaningMeant DEF From, Sensible
  <2> HIDE DEF m
  <2>3. m = Captured!Prints(<<>>, m) /\ Meant(m)
    BY <2>1, <2>2, PrintsNothing
  <2> QED BY <2>1, <2>3, Empties DEF Left, m
<1>8. Tells(n, <<>>, Current)
  BY <1>5, <1>6, <1>7 DEF Tells, ToExecute
<1>9. Current' = Current
  BY <1>1 DEF Current
<1>10. ASSUME NEW p \in Child, process'[p].image \notin {"none", "waiting"}
       PROVE  IF failed' THEN process'[p].image = "killed"
              ELSE Tells(process'[p], content', Current')
  BY <1>1, <1>2, <1>4, <1>8, <1>9, <1>10, NoProcessIsNone
<1>11. ASSUME NEW p \in Child, process'[p].image \notin {"none", "exited", "killed"}
       PROVE  Piped(fds'[p], End("write"))
  BY <1>2, <1>4, <1>11, NoProcessIsNone
<1> QED BY <1>1, <1>10, <1>11, SameEnd DEF Awaited, ChildrenPiped

(* Steps of the harness that neither content nor processes change in. *)
LEMMA ApartTells ==
  ASSUME CInv, UNCHANGED <<suite, test, content, failed, process>>,
         \A p \in Child : fds'[p] = fds[p]
  PROVE  Awaited' /\ ChildrenPiped'
<1>1. Current' = Current
  BY DEF Current
<1> QED BY <1>1, SameEnd DEF CInv, Plumbed, Awaited, ChildrenPiped

LEMMA HarnessKeepsAwaited ==
  ASSUME CInv, PInv', HarnessStep PROVE Awaited' /\ ChildrenPiped'
<1>1. CASE pc' \notin {"unredirect", "restore", "wait"}
  BY <1>1, NobodyTellsNext DEF PInv, Launched
<1>2. CASE Fork
  BY <1>2, ForkTells
<1>3. CASE ForkFails
  <2>1. pc' = "unredirect" /\ result' = Threw
    BY <1>3 DEF ForkFails
  <2>2. NobodyRuns'
    BY <2>1 DEF PInv, Launched, None, Threw
  <2> QED BY <2>2, NobodyTellsNext
<1>4. CASE CloseWriteEnd \/ Restore
  <2>1. /\ UNCHANGED <<suite, test, content, failed, process>>
        /\ \E t : fds' = [fds EXCEPT ![1] = t]
    BY <1>4 DEF CloseWriteEnd, Restore
  <2>2. \A p \in Child : fds'[p] = fds[p]
    BY <2>1 DEF CInv, PInv, Tree, Child, Process
  <2> QED BY <2>1, <2>2, ApartTells
<1>5. ASSUME pc' \in {"unredirect", "restore", "wait"}
      PROVE  Fork \/ ForkFails \/ CloseWriteEnd \/ Restore
  BY <1>5 DEF HarnessStep, OpenPipe, PipeFails, BackUp, BackupFails, CloseStdout, Redirect,
              Wait, ReadLine, ReadEnds, ClosePipe, NextTest, At
<1> QED BY <1>1, <1>2, <1>3, <1>4, <1>5

LEMMA HarnessKeepsPlumbed ==
  ASSUME CInv, PInv', HarnessStep PROVE Plumbed'
<1>1. ChildrenPiped'
  BY HarnessKeepsAwaited
<1>2. 1 \in Process /\ DOMAIN fds = Process
  BY HarnessAssumption DEF Process, CInv, PInv, Tree
<1> DEFINE t == fds[1]
<1>3. CASE OpenPipe
  <2> DEFINE r == Lowest(Free(t))
             w == Lowest(Free(t) \ {r})
  <2>1. /\ pipe' = [read |-> r, write |-> w] /\ pc' = "backup" /\ test' = test
        /\ fds' = [fds EXCEPT ![1] = With(With(t, r, End("read"), TRUE), w, End("write"), TRUE)]
    BY <1>3 DEF OpenPipe
  <2> HIDE DEF r, w
  <2>2. fds'[1][w].file = End("write") /\ pipe'.write = w
    BY <1>2, <2>1 DEF With
  <2> QED BY <1>1, <2>1, <2>2, SameEnd DEF Plumbed
<1>4. CASE BackUp
  <2> DEFINE b == Lowest(Free(t))
  <2>1. /\ pc = "backup" /\ Free(t) # {} /\ pc' = "close" /\ pipe' = pipe /\ test' = test
        /\ fds' = [fds EXCEPT ![1] = Dup2(t, 1, b)]
    BY <1>4 DEF BackUp, At
  <2>2. b \in Free(t)
    BY <2>1, FreeIsFinite, LowestIsLowest
  <2>3. pipe.write \in DOMAIN t /\ t[pipe.write].file = End("write") /\ b # pipe.write
    BY <2>1, <2>2 DEF CInv, PInv, WriteEnds, Plumbed, Free
  <2> HIDE DEF b
  <2>4. fds'[1][pipe.write] = t[pipe.write]
    BY <1>2, <2>1, <2>3 DEF Dup2, With
  <2> QED BY <1>1, <2>1, <2>3, <2>4, SameEnd DEF Plumbed
<1>5. CASE CloseStdout
  <2>1. /\ pc = "close" /\ pc' = "redirect" /\ pipe' = pipe /\ test' = test
        /\ fds' = [fds EXCEPT ![1] = Without(t, 1)]
    BY <1>5 DEF CloseStdout, At
  <2>2. pipe.write \in DOMAIN t /\ t[pipe.write].file = End("write") /\ pipe.write # 1
    BY <2>1 DEF CInv, PInv, WriteEnds, Plumbed, IInv, Redirection
  <2>3. fds'[1][pipe.write] = t[pipe.write]
    BY <1>2, <2>1, <2>2 DEF Without
  <2> QED BY <1>1, <2>1, <2>2, <2>3, SameEnd DEF Plumbed
<1>6. CASE Redirect
  <2>1. /\ pc = "redirect" /\ pc' = "fork" /\ test' = test
        /\ fds' = [fds EXCEPT ![1] = Dup2(t, pipe.write, 1)]
    BY <1>6 DEF Redirect, At
  <2>2. t[pipe.write].file = End("write")
    BY <2>1 DEF CInv, Plumbed
  <2>3. Piped(fds'[1], End("write"))
    BY <1>2, <2>1, <2>2 DEF Dup2, With, Piped
  <2> QED BY <1>1, <2>1, <2>3, SameEnd DEF Plumbed
<1>7. ASSUME pc' \in {"backup", "close", "redirect", "fork"}
      PROVE  OpenPipe \/ BackUp \/ CloseStdout \/ Redirect
  BY <1>7 DEF HarnessStep, PipeFails, BackupFails, Fork, ForkFails, CloseWriteEnd, Restore,
              Wait, ReadLine, ReadEnds, ClosePipe, NextTest, At
<1>8. CASE pc' \notin {"backup", "close", "redirect", "fork"}
  BY <1>1, <1>8 DEF Plumbed
<1> QED BY <1>3, <1>4, <1>5, <1>6, <1>7, <1>8

(* Nothing of what has been a result is none. *)
LEMMA ResultsDiffer ==
  None # Threw /\ \A c : Returned(c) # None /\ Returned(c) # Threw
BY DEF None, Threw, Returned

LEMMA HarnessKeepsPaced ==
  ASSUME CInv, HarnessStep PROVE Paced'
<1>1. Len(suite) \in Nat /\ test \in 1 .. Len(suite) + 1
  BY HarnessAssumption, LenProperties DEF CInv, Paced
<1>2. CASE OpenPipe \/ PipeFails
  <2>1. /\ pc = "fixture" /\ test <= Len(suite) /\ UNCHANGED <<suite, test, lines>>
        /\ \/ pc' = "backup" /\ content' = <<>> /\ failed' = failed
           \/ pc' = "report" /\ result' = Threw
    BY <1>2 DEF OpenPipe, PipeFails, At
  <2> QED BY <1>1, <2>1, ResultsDiffer DEF CInv, Paced
<1>3. CASE BackUp \/ BackupFails \/ CloseStdout \/ Redirect
  BY <1>1, <1>3, ResultsDiffer
     DEF BackUp, BackupFails, CloseStdout, Redirect, At, CInv, Paced, world
<1>4. CASE Fork
  <2>1. result = None /\ 2 \in Child
    BY <1>4, HarnessAssumption DEF Fork, At, Forks, CInv, PInv, Launched, Child
  <2> QED BY <1>1, <1>4, <2>1, ResultsDiffer DEF Fork, At, CInv, Paced
<1>5. CASE ForkFails \/ CloseWriteEnd
  BY <1>1, <1>5 DEF ForkFails, CloseWriteEnd, At, CInv, Paced, world
<1>6. CASE Restore
  BY <1>1, <1>6, ResultsDiffer DEF Restore, At, CInv, Paced
<1>7. CASE Wait
  <2>1. /\ pc = "wait" /\ test <= Len(suite) /\ pc' \in {"read", "unfixture"}
        /\ result' # None /\ UNCHANGED <<suite, test, lines, content, failed>>
        /\ pc' = "read" => Current.reads
    BY <1>7, ResultsDiffer DEF Wait, At
  <2>2. lines = <<>>
    BY <2>1 DEF CInv, Paced
  <2>3. Current' = Current
    BY <2>1 DEF Current
  <2> QED BY <1>1, <2>1, <2>2, <2>3 DEF CInv, Paced
<1>8. CASE ReadLine \/ ReadEnds
  <2>1. /\ pc = "read" /\ pc' \in {"read", "unfixture"} /\ test <= Len(suite)
        /\ UNCHANGED <<suite, test, result>>
    BY <1>8 DEF ReadLine, ReadEnds, At
  <2>2. result # None
    BY <2>1, ResultsDiffer DEF CInv, Reading, Reads
  <2>3. Current' = Current
    BY <2>1 DEF Current
  <2> QED BY <1>1, <2>1, <2>2, <2>3 DEF CInv, Paced
<1>9. CASE ClosePipe
  BY <1>1, <1>9 DEF ClosePipe, At, CInv, Paced
<1>10. CASE NextTest
  BY <1>1, <1>10 DEF NextTest, At, CInv, Paced, world
<1> QED BY <1>2, <1>3, <1>4, <1>5, <1>6, <1>7, <1>8, <1>9, <1>10 DEF HarnessStep

(* The process the harness waits for has ended. *)
LEMMA WaitTold ==
  ASSUME CInv, Wait
  PROVE  /\ 2 \in Child /\ process[2].image \in {"exited", "killed"}
         /\ process[2].image = "killed" => failed \/ Captured!MeaningOf(Current).killed = TRUE
         /\ process[2].image = "exited" =>
              ~failed /\ Left(content, Captured!Exits(process[2].code), Current)
<1>1. pc = "wait" /\ process[2].image \in {"exited", "killed"}
  BY DEF Wait, At
<1>2. 2 \in Child
  BY <1>1 DEF CInv, Paced
<1> DEFINE s == process[2]
<1>3. IF failed THEN s.image = "killed" ELSE Tells(s, content, Current)
  BY <1>1, <1>2 DEF CInv, Awaited
<1> HIDE DEF s
<1>4. s.image \in {"exited", "killed"}
  BY <1>1 DEF s
<1>5. ~failed => Over(s, content, Current)
  BY <1>3, <1>4 DEF Tells, ToExecute, ToWrap, Wrapping, ToTest, Testing
<1>6. s.image = "killed" => failed \/ Captured!MeaningOf(Current).killed = TRUE
  BY <1>5, KillLeft DEF Over
<1>7. s.image = "exited" => ~failed /\ Left(content, Captured!Exits(s.code), Current)
  BY <1>3, <1>5 DEF Over
<1> QED BY <1>2, <1>4, <1>6, <1>7 DEF s

(* What can be read of the pipe is all of what the command prints. *)
LEMMA HarnessKeepsReading ==
  ASSUME CInv, HarnessStep PROVE Reading'
<1>1. CASE Wait
  <2>1. /\ pc = "wait" /\ UNCHANGED <<suite, test, lines, content, failed>>
        /\ process[2].image # "killed" => result' = Returned(process[2].code)
        /\ process[2].image = "killed" => pc' = "unfixture"
    BY <1>1 DEF Wait, At
  <2>2. SUFFICES ASSUME pc' = "read"
                 PROVE  ~failed /\ Reads(result', lines, content, Current)
    <3>1. Current' = Current
      BY <2>1 DEF Current
    <3> QED BY <2>1, <3>1, <2>2 DEF Reading
  <2> DEFINE code == process[2].code
             m == Captured!MeaningOf(Current)
  <2>3. ~failed /\ Left(content, Captured!Exits(code), Current) /\ result' = Returned(code)
    BY <1>1, <2>1, <2>2, WaitTold
  <2>4. lines = <<>>
    BY <2>1 DEF CInv, Paced
  <2>5. Sequence(content) /\ m.lines = content /\ m.killed = FALSE /\ m.code = code
    <3>1. Sequence(content) /\ m = [lines |-> content, killed |-> FALSE, code |-> code]
      BY <2>3, ExitLeft
    <3> HIDE DEF code, m
    <3> QED BY <3>1
  <2>6. Unread(lines, content, m.lines)
    BY <2>4, <2>5, NothingRead
  <2> QED BY <2>3, <2>5, <2>6 DEF Reads
<1>2. CASE ReadLine
  <2> DEFINE now == IF Head(content).says = Empty THEN lines ELSE Append(lines, Head(content))
             m == Captured!MeaningOf(Current)
  <2>1. /\ pc = "read" /\ content # <<>> /\ content' = Tail(content) /\ lines' = now
        /\ UNCHANGED <<suite, test, result, failed>>
    BY <1>2 DEF ReadLine, At
  <2>2. ~failed /\ m.killed = FALSE /\ result = Returned(m.code)
        /\ Unread(lines, content, m.lines)
    BY <2>1 DEF CInv, Reading, Reads
  <2>3. Unread(now, Tail(content), m.lines)
    BY <2>1, <2>2, LineRead
  <2>4. Current' = Current
    BY <2>1 DEF Current
  <2> HIDE DEF now
  <2>5. Reads(result', lines', content', Current)
    BY <2>1, <2>2, <2>3 DEF Reads
  <2> QED BY <2>1, <2>2, <2>4, <2>5 DEF Reading
<1>3. ASSUME pc' = "read" PROVE Wait \/ ReadLine
  BY <1>3 DEF HarnessStep, OpenPipe, PipeFails, BackUp, BackupFails, CloseStdout, Redirect,
              Fork, ForkFails, CloseWriteEnd, Restore, ReadEnds, ClosePipe, NextTest
<1>4. CASE pc' # "read"
  BY <1>4 DEF Reading
<1> QED BY <1>1, <1>2, <1>3, <1>4

(***************************************************************************)
(* Every step.                                                             *)
(***************************************************************************)

(* A process can only take a step while the harness waits, or is about to. *)
LEMMA ChildFinds ==
  ASSUME CInv, NEW p \in Child, ChildStep(p)
  PROVE  /\ pc \in {"unredirect", "restore", "wait"} /\ result = None
         /\ UNCHANGED <<suite, test, pc, pipe, result, lines>> /\ fds'[1] = fds[1]
<1>1. process[p] # NoProcess /\ DOMAIN fds = Process
  BY ChildKeepsTree DEF CInv, PInv, Tree
<1>2. ~NobodyRuns
  BY <1>1 DEF NobodyRuns
<1>3. UNCHANGED <<suite, test, pc, pipe, result, lines>> /\ fds'[1] = fds[1]
  BY <1>1, ChildrenApart DEF harness
<1> QED BY <1>2, <1>3 DEF CInv, PInv, Launched

LEMMA ChildKeepsRest ==
  ASSUME CInv, NEW p \in Child, ChildStep(p) PROVE Plumbed' /\ Paced' /\ Reading'
<1>1. /\ pc \in {"unredirect", "restore", "wait"} /\ result = None
      /\ UNCHANGED <<suite, test, pc, pipe, result, lines>> /\ fds'[1] = fds[1]
  BY ChildFinds
<1>2. ChildrenPiped'
  BY ChildKeepsPiped DEF CInv, PInv, Plumbed
<1>3. Plumbed'
  BY <1>1, <1>2 DEF Plumbed
<1>4. Paced'
  BY <1>1, ResultsDiffer DEF CInv, Paced
<1>5. Reading'
  BY <1>1 DEF Reading
<1> QED BY <1>3, <1>4, <1>5

LEMMA StepCaptured == CInv /\ [Next]_vars => CInv'
<1> SUFFICES ASSUME CInv, [Next]_vars PROVE CInv'
  OBVIOUS
<1>1. PInv'
  BY StepLaunch DEF CInv
<1>2. CASE HarnessStep
  BY <1>1, <1>2, HarnessKeepsAwaited, HarnessKeepsPlumbed, HarnessKeepsPaced,
     HarnessKeepsReading DEF CInv
<1>3. ASSUME NEW p \in Child, ChildStep(p) PROVE CInv'
  <2>1. Awaited'
    BY <1>3, ChildKeepsAwaited DEF CInv, PInv
  <2> QED BY <1>1, <1>3, <2>1, ChildKeepsRest DEF CInv
<1>4. CASE Finished \/ UNCHANGED vars
  <2>1. UNCHANGED <<suite, test, pc, pipe, result, lines, fds, process, content, failed>>
    BY <1>4 DEF Finished, vars, harness, world
  <2>2. Current' = Current /\ End("write")' = End("write")
    BY <2>1, SameEnd DEF Current
  <2>3. Awaited' /\ Reading'
    BY <2>1, <2>2 DEF CInv, Awaited, Reading
  <2>4. Plumbed'
    BY <2>1, <2>2 DEF CInv, Plumbed, ChildrenPiped
  <2>5. Paced'
    BY <2>1, <2>2 DEF CInv, Paced
  <2> QED BY <1>1, <2>3, <2>4, <2>5 DEF CInv
<1> QED BY <1>2, <1>3, <1>4 DEF Next

(***************************************************************************)
(* What the tests see of each step.                                        *)
(***************************************************************************)
Seen == {"unfixture", "report"}

(* A step of which they see nothing. *)
LEMMA Unseen ==
  ASSUME UNCHANGED <<suite, test, failed>>,
         \/ pc \notin Seen /\ pc' \notin Seen
         \/ pc \in Seen /\ pc' \in Seen /\ UNCHANGED <<result, lines>>
  PROVE  UNCHANGED Captured!vars
BY DEF Captured!vars, Answer, Output, Seen

(* A call fails, and the test goes on. *)
LEMMA FailureSeen ==
  ASSUME UNCHANGED <<suite, test>>, pc \notin Seen, pc' \notin Seen, failed' = TRUE,
         test <= Len(suite)
  PROVE  Captured!Next
<1>1. Answer = None /\ Answer' = None /\ Output' = Output
  BY DEF Answer, Output, Seen
<1>2. Captured!Fail
  BY <1>1, SameResults DEF Captured!Fail
<1> QED BY <1>2 DEF Captured!Next

LEMMA ThrowSeen ==
  ASSUME UNCHANGED <<suite, test>>, pc \notin Seen, pc' \in Seen, test <= Len(suite),
         result' = Threw, lines' = <<>>, failed' \in {failed, TRUE},
         failed' \/ Captured!MeaningOf(Current).killed = TRUE
  PROVE  Captured!Next
<1>1. Answer = None /\ Answer' = Threw /\ Output = <<>> /\ Output' = <<>>
  BY DEF Answer, Output, Seen
<1>2. failed' \/ Captured!MeaningOf(suite[test]).killed
  BY DEF Current
<1>3. Captured!Throw
  BY <1>1, <1>2, SameResults DEF Captured!Throw
<1> QED BY <1>3 DEF Captured!Next

LEMMA AnswerSeen ==
  ASSUME UNCHANGED <<suite, test, failed>>, pc \notin Seen, pc' \in Seen, test <= Len(suite),
         ~failed, NEW m, m = Captured!MeaningOf(Current), m.killed = FALSE,
         result' = Returned(m.code),
         IF Current.reads THEN Captured!Shows(lines', m.lines, Len(m.lines)) ELSE lines' = <<>>
  PROVE  Captured!Next
<1>1. Answer = None /\ Answer' = result' /\ Output' = lines'
  BY DEF Answer, Output, Seen
<1>2. Captured!MeaningOf(suite[test]) = m /\ suite[test] = Current
  BY DEF Current
<1>3. Captured!Answer
  BY <1>1, <1>2, SameResults DEF Captured!Answer
<1> QED BY <1>3 DEF Captured!Next

LEMMA HarnessSeen ==
  ASSUME CInv, HarnessStep PROVE [Captured!Next]_(Captured!vars)
<1>1. CASE OpenPipe \/ BackUp \/ CloseStdout \/ Redirect \/ Fork \/ CloseWriteEnd
  <2>1. pc \notin Seen /\ pc' \notin Seen /\ UNCHANGED <<suite, test, failed>>
    BY <1>1 DEF OpenPipe, BackUp, CloseStdout, Redirect, Fork, CloseWriteEnd, At, Seen
  <2> QED BY <2>1, Unseen
<1>2. CASE PipeFails \/ BackupFails
  <2>1. /\ pc \notin Seen /\ pc' \in Seen /\ result' = Threw /\ failed' = TRUE
        /\ pc \in {"fixture", "backup"} /\ test <= Len(suite) /\ UNCHANGED <<suite, test, lines>>
    BY <1>2 DEF PipeFails, BackupFails, At, Seen
  <2>2. lines = <<>>
    BY <2>1 DEF CInv, Paced
  <2> QED BY <2>1, <2>2, ThrowSeen
<1>3. CASE ForkFails
  <2>1. /\ pc \notin Seen /\ pc' \notin Seen /\ failed' = TRUE /\ test <= Len(suite)
        /\ UNCHANGED <<suite, test>>
    BY <1>3 DEF ForkFails, At, Seen
  <2> QED BY <2>1, FailureSeen
<1>4. CASE Restore
  <2>1. /\ pc = "restore" /\ test <= Len(suite) /\ UNCHANGED <<suite, test, lines, result, failed>>
        /\ pc' = IF result = Threw THEN "unfixture" ELSE "wait"
    BY <1>4 DEF Restore, At
  <2>2. lines = <<>> /\ (result = Threw => failed)
    BY <2>1 DEF CInv, Paced
  <2>3. CASE result = Threw
    BY <2>1, <2>2, <2>3, ThrowSeen DEF Seen
  <2>4. CASE result # Threw
    BY <2>1, <2>4, Unseen DEF Seen
  <2> QED BY <2>3, <2>4
<1>5. CASE Wait
  <2> DEFINE s == process[2]
  <2>1. /\ pc = "wait" /\ test <= Len(suite) /\ UNCHANGED <<suite, test, lines, failed>>
        /\ s.image = "killed" => result' = Threw /\ pc' = "unfixture"
        /\ s.image # "killed" => /\ result' = Returned(s.code)
                                 /\ pc' = IF Current.reads THEN "read" ELSE "unfixture"
    BY <1>5 DEF Wait, At
  <2>2. lines = <<>>
    BY <2>1 DEF CInv, Paced
  <2>3. CASE s.image = "killed"
    <3>1. failed \/ Captured!MeaningOf(Current).killed = TRUE
      BY <1>5, <2>3, WaitTold
    <3> QED BY <2>1, <2>2, <2>3, <3>1, ThrowSeen DEF Seen
  <2>4. CASE s.image # "killed" /\ Current.reads
    BY <2>1, <2>4, Unseen DEF Seen
  <2>5. CASE s.image # "killed" /\ ~Current.reads
    <3> DEFINE m == Captured!MeaningOf(Current)
               code == s.code
    <3>1. ~failed /\ Left(content, Captured!Exits(code), Current)
      BY <1>5, <2>5, WaitTold
    <3>2. m = [lines |-> content, killed |-> FALSE, code |-> code]
      BY <3>1, ExitLeft
    <3>3. m = Captured!MeaningOf(Current) /\ pc' = "unfixture" /\ result' = Returned(code)
      BY <2>1, <2>5
    <3> HIDE DEF m, code
    <3>4. m.killed = FALSE /\ m.code = code
      BY <3>2
    <3> QED BY <2>1, <2>2, <2>5, <3>1, <3>3, <3>4, AnswerSeen DEF Seen
  <2> QED BY <2>3, <2>4, <2>5
<1>6. CASE ReadLine
  <2>1. pc \notin Seen /\ pc' \notin Seen /\ UNCHANGED <<suite, test, failed>>
    BY <1>6 DEF ReadLine, At, Seen
  <2> QED BY <2>1, Unseen
<1>7. CASE ReadEnds
  <2> DEFINE m == Captured!MeaningOf(Current)
  <2>1. /\ pc = "read" /\ pc' = "unfixture" /\ test <= Len(suite) /\ content = <<>>
        /\ UNCHANGED <<suite, test, result, lines, failed>>
    BY <1>7 DEF ReadEnds, At
  <2>2. ~failed /\ m.killed = FALSE /\ result = Returned(m.code)
        /\ Unread(lines, <<>>, m.lines)
    BY <2>1 DEF CInv, Reading, Reads
  <2>3. m = Captured!MeaningOf(Current)
    OBVIOUS
  <2>4. Current.reads
    BY <2>1 DEF CInv, Paced
  <2> HIDE DEF m
  <2>5. Captured!Shows(lines, m.lines, Len(m.lines))
    BY <2>2, AllRead
  <2> QED BY <2>1, <2>2, <2>3, <2>4, <2>5, AnswerSeen DEF Seen
<1>8. CASE ClosePipe
  <2>1. pc \in Seen /\ pc' \in Seen /\ UNCHANGED <<suite, test, failed, result, lines>>
    BY <1>8 DEF ClosePipe, At, Seen
  <2> QED BY <2>1, Unseen
<1>9. CASE NextTest
  <2>1. /\ pc = "report" /\ pc' = "fixture" /\ test <= Len(suite) /\ test' = test + 1
        /\ suite' = suite /\ failed' = FALSE
    BY <1>9 DEF NextTest, At
  <2>2. result # None
    BY <2>1 DEF CInv, Paced
  <2>3. Answer = result /\ Answer' = None /\ Output' = <<>>
    BY <2>1 DEF Answer, Output
  <2>4. Captured!NextTest
    BY <2>1, <2>2, <2>3, SameResults DEF Captured!NextTest
  <2> QED BY <2>1, <2>4 DEF Captured!Next
<1> QED BY <1>1, <1>2, <1>3, <1>4, <1>5, <1>6, <1>7, <1>8, <1>9 DEF HarnessStep

LEMMA StepSeen ==
  ASSUME CInv, [Next]_vars PROVE [Captured!Next]_(Captured!vars)
<1>1. CASE HarnessStep
  BY <1>1, HarnessSeen
<1>2. ASSUME NEW p \in Child, ChildStep(p) PROVE [Captured!Next]_(Captured!vars)
  <2>1. /\ pc \in {"unredirect", "restore", "wait"} /\ UNCHANGED <<suite, test, pc>>
    BY <1>2, ChildFinds
  <2>2. test <= Len(suite)
    BY <2>1 DEF CInv, Paced
  <2>3. failed' = failed \/ failed' = TRUE
    BY <1>2 DEF ChildStep, Passthrough, Target, ExecutesForked, PassthroughStarts,
                PassthroughPrintsOption, PassthroughForks, PassthroughCannotFork,
                CannotExecute, Fails, PassthroughWaits, PassthroughFindsNoProgram, TargetAnnounces,
                TargetRunsPlain, TargetRelaunches, TargetRejectsOptions, TargetRunsTests,
                TargetEnds, Executes, Ends, Writes, Becomes
  <2>4. CASE failed' = failed
    BY <2>1, <2>4, Unseen DEF Seen
  <2>5. CASE failed' = TRUE
    BY <2>1, <2>2, <2>5, FailureSeen DEF Seen
  <2> QED BY <2>3, <2>4, <2>5
<1>3. CASE Finished \/ UNCHANGED vars
  <2>1. UNCHANGED <<suite, test, pc, result, lines, failed>>
    BY <1>3 DEF Finished, vars, harness
  <2> QED BY <2>1, Unseen
<1> QED BY <1>1, <1>2, <1>3 DEF Next

LEMMA InitSeen == Init => Captured!Init
<1> SUFFICES ASSUME Init PROVE Captured!Init
  OBVIOUS
<1>1. Answer = None /\ Output = <<>> /\ test = 1 /\ failed = FALSE
  BY DEF Init, Answer, Output
<1> QED BY <1>1, SameResults DEF Captured!Init

(* Whatever programs the tests launch, under whatever wrappers, and wherever  *)
(* a pipe, a descriptor or a process runs out or exec fails: a test that is   *)
(* told an exit code is told the one its command line means and, when it      *)
(* reads the output, has read the lines it means that are not empty, and no   *)
(* others; an exception has a reason.  Nothing of one test is read by another.*)
THEOREM SeesWhatIsMeant == Spec => ImplementsCapturedRun
<1>1. CInv /\ [Next]_vars => [Captured!Next]_(Captured!vars)
  BY StepSeen
<1> QED BY <1>1, InitCaptured, StepCaptured, InitSeen, PTL
        DEF Spec, ImplementsCapturedRun, Captured!Spec

=============================================================================
