----------------------------- MODULE PromiseProofs -----------------------------
(***************************************************************************)
(* Programs of the safe calls see arrays that own their strings: the       *)
(* refinement of StringArrays by NullTermArray, for any number of arrays,  *)
(* any texts and any bounds.                                               *)
(***************************************************************************)
EXTENDS NullTermArrayProofs

(* An array that does not exist has no pointers. *)
Bare == \A x \in Arrays : life[x] # "live" => vector[x] = <<>>

Safe == Inv /\ Owned /\ Bare

(* The texts of a vector's pointers, were all of them sound. *)
Plain(v) == [i \in 1 .. Len(v) - 1 |-> v[i].text]
Texts == [x \in Arrays |-> Plain(vector[x])]

LEMMA EmptyIsPlain == Plain(<<>>) = <<>>
<1>1. 1 .. Len(<<>>) - 1 = {}
  OBVIOUS
<1> QED BY <1>1 DEF Plain

(* A safe program reads all of its texts. *)
LEMMA ReadsTexts ==
  ASSUME Safe, ConstantsAssumption
  PROVE  Contents = Texts
<1>1. ASSUME NEW x \in Arrays, NEW i \in 1 .. Len(vector[x]) - 1
      PROVE  Sound(vector[x][i])
  <2>1. CASE life[x] # "live"
    BY <2>1 DEF Safe, Bare
  <2>2. CASE life[x] = "live"
    <3>1. vector[x] \in Vectors /\ Null \notin Pointer
      BY <2>2, LiveVectors, PointersInMemory DEF Safe
    <3>2. i \in DOMAIN vector[x] /\ vector[x][i] # Null
      BY <3>1, VectorShape
    <3>3. PointersSound
      BY OwnedIsSound DEF Safe
    <3> QED BY <3>2, <3>3, <2>2 DEF PointersSound
  <2> QED BY <2>1, <2>2
<1> QED BY <1>1 DEF Contents, Texts, Plain, Sound, Held, Items

LEMMA BecomesReads ==
  ASSUME Safe, NEW x \in Arrays, NEW state, NEW v, NEW s, Becomes(x, state, v, s)
  PROVE  Texts' = [Texts EXCEPT ![x] = Plain(v)] /\ life' = [life EXCEPT ![x] = state]
<1>1. vector' = [vector EXCEPT ![x] = v] /\ DOMAIN vector = Arrays
  BY DEF Becomes, Safe, Inv, TypeOK
<1>2. \A y \in Arrays : vector'[y] = IF y = x THEN v ELSE vector[y]
  BY <1>1
<1>3. Texts' = [y \in Arrays |-> Plain(vector'[y])]
  BY DEF Texts, Plain
<1>4. Texts' = [Texts EXCEPT ![x] = Plain(v)]
  BY <1>2, <1>3 DEF Texts
<1> QED BY <1>4 DEF Becomes

(* The vector of a literal array. *)
LEMMA LiteralsRead ==
  ASSUME NEW texts \in Seq(Text), ConstantsAssumption
  PROVE  Plain([i \in DOMAIN texts |-> Literal(texts[i])] \o <<Null>>) = texts
<1> DEFINE ptrs == [i \in DOMAIN texts |-> Literal(texts[i])]
           S == Pointer \cup {Null}
<1>1. DOMAIN texts = 1 .. Len(texts) /\ Len(texts) \in Nat
  BY LenProperties
<1>2. \A i \in 1 .. Len(texts) : texts[i] \in Text
  BY ElementOfSeq
<1>3. ptrs \in [1 .. Len(texts) -> S] /\ \A i \in 1 .. Len(texts) : ptrs[i].text = texts[i]
  BY <1>1, <1>2, PointersInMemory DEF Literal
<1> HIDE DEF ptrs
<1>4. ptrs \in Seq(S) /\ Len(ptrs) = Len(texts) /\ <<Null>> \in Seq(S) /\ Len(<<Null>>) = 1
  BY <1>1, <1>3, FunctionIsSeq
<1>5. /\ Len(ptrs \o <<Null>>) = Len(texts) + 1
      /\ \A i \in 1 .. Len(texts) : (ptrs \o <<Null>>)[i] = ptrs[i]
  BY <1>1, <1>4, ConcatProperties
<1>6. Plain(ptrs \o <<Null>>) = [i \in 1 .. Len(texts) |-> texts[i]]
  BY <1>1, <1>3, <1>5 DEF Plain
<1>7. texts = [i \in 1 .. Len(texts) |-> texts[i]]
  BY LenProperties
<1> QED BY <1>6, <1>7 DEF ptrs

(* The first elements of a sequence. *)
LEMMA Front ==
  ASSUME NEW S, NEW s \in Seq(S), NEW n \in Nat, n <= Len(s)
  PROVE  /\ SubSeq(s, 1, n) \in Seq(S) /\ Len(SubSeq(s, 1, n)) = n
         /\ \A i \in 1 .. n : SubSeq(s, 1, n)[i] = s[i]
<1>1. Len(s) \in Nat
  BY LenProperties
<1>2. \A i \in 1 .. n : s[i] \in S
  BY <1>1, ElementOfSeq
<1>3. /\ SubSeq(s, 1, n) \in Seq(S)
      /\ Len(SubSeq(s, 1, n)) = IF 1 <= n THEN n - 1 + 1 ELSE 0
      /\ \A i \in 1 .. n - 1 + 1 : SubSeq(s, 1, n)[i] = s[1 + i - 1]
  <2>1. 1 \in Int /\ n \in Int
    OBVIOUS
  <2> QED BY <1>2, <2>1, SubSeqProperties
<1> QED BY <1>3

(* What a sequence is to which another was appended. *)
LEMMA Extended ==
  ASSUME NEW S, NEW s \in Seq(S), NEW t \in Seq(S)
  PROVE  /\ s \o t \in Seq(S)
         /\ Len(s) \in Nat /\ Len(t) \in Nat /\ Len(s \o t) = Len(s) + Len(t)
         /\ \A i \in 1 .. Len(s) : (s \o t)[i] = s[i]
<1>1. Len(s) \in Nat /\ Len(t) \in Nat
  BY LenProperties
<1>2. /\ s \o t \in Seq(S) /\ Len(s \o t) = Len(s) + Len(t)
      /\ \A i \in 1 .. Len(s) + Len(t) : (s \o t)[i] = IF i <= Len(s) THEN s[i] ELSE t[i - Len(s)]
  BY ConcatProperties
<1>3. \A i \in 1 .. Len(s) : i \in 1 .. Len(s) + Len(t) /\ i <= Len(s)
  BY <1>1
<1> QED BY <1>1, <1>2, <1>3

(* A vector of pointers reads a text for each. *)
LEMMA PlainTexts ==
  ASSUME NEW v \in Vectors, Null \notin Pointer
  PROVE  Plain(v) \in Seq(Text) /\ Len(Plain(v)) = Len(v) - 1
<1>1. Len(v) - 1 \in Nat /\ \A i \in 1 .. Len(v) - 1 : v[i] \in Pointer
  BY VectorShape
<1>2. Plain(v) \in [1 .. Len(v) - 1 -> Text]
  BY <1>1 DEF Plain, Pointer
<1> QED BY <1>1, <1>2, FunctionIsSeq

(* What a vector reads after some pointers are appended: more, after what was *)
(* there.                                                                      *)
LEMMA InsertReads ==
  ASSUME NEW v \in Vectors, NEW ptrs \in Seq(Pointer), ptrs # <<>>, Null \notin Pointer
  PROVE  LET w == InsertBeforeLast(v, ptrs)
         IN  /\ Plain(v) \in Seq(Text) /\ Plain(w) \in Seq(Text)
             /\ Len(Plain(v)) < Len(Plain(w))
             /\ SubSeq(Plain(w), 1, Len(Plain(v))) = Plain(v)
<1> DEFINE S == Pointer \cup {Null}
           head == SubSeq(v, 1, Len(v) - 1)
           w == InsertBeforeLast(v, ptrs)
<1>1. v \in Seq(S) /\ Len(v) \in Nat /\ Len(v) >= 1 /\ v[Len(v)] = Null
  BY VectorShape
<1>2. /\ head \in Seq(S) /\ Len(head) = Len(v) - 1
      /\ \A i \in 1 .. Len(v) - 1 : head[i] = v[i]
  <2>1. Len(v) - 1 \in Nat /\ Len(v) - 1 <= Len(v)
    BY <1>1
  <2> HIDE DEF S
  <2> QED BY <1>1, <2>1, Front
<1>3. ptrs \in Seq(S) /\ Len(ptrs) \in Nat /\ Len(ptrs) >= 1
  BY SeqMonotonic, LenProperties, EmptySeq
<1>4. <<Null>> \in Seq(S) /\ Len(<<Null>>) = 1
  OBVIOUS
<1>5. w = (head \o ptrs) \o <<Null>>
  BY <1>1 DEF InsertBeforeLast
<1>6. w \in Vectors
  BY InsertKeepsTerminator
<1> HIDE DEF head, w, S
<1>7. /\ head \o ptrs \in Seq(S) /\ Len(head \o ptrs) = Len(head) + Len(ptrs)
      /\ \A i \in 1 .. Len(head) : (head \o ptrs)[i] = head[i]
  BY <1>2, <1>3, Extended
<1>8. /\ Len(w) = Len(head \o ptrs) + 1
      /\ \A i \in 1 .. Len(head \o ptrs) : w[i] = (head \o ptrs)[i]
  BY <1>4, <1>5, <1>7, Extended
<1>9. /\ Len(w) = Len(v) + Len(ptrs)
      /\ \A i \in 1 .. Len(v) - 1 : w[i] = v[i]
  <2>1. \A i \in 1 .. Len(v) - 1 : i \in 1 .. Len(head) /\ i \in 1 .. Len(head \o ptrs)
    BY <1>1, <1>2, <1>3, <1>7
  <2>2. Len(w) = Len(v) + Len(ptrs)
    BY <1>1, <1>2, <1>3, <1>7, <1>8
  <2> QED BY <2>1, <2>2, <1>2, <1>7, <1>8
<1>10. /\ Plain(v) \in Seq(Text) /\ Len(Plain(v)) = Len(v) - 1
       /\ Plain(w) \in Seq(Text) /\ Len(Plain(w)) = Len(w) - 1
  BY <1>6, PlainTexts
<1>11. \A i \in 1 .. Len(v) - 1 : Plain(w)[i] = Plain(v)[i]
  <2>1. \A i \in 1 .. Len(v) - 1 : i \in 1 .. Len(w) - 1
    BY <1>1, <1>3, <1>9
  <2> QED BY <2>1, <1>9 DEF Plain
<1>12. SubSeq(Plain(w), 1, Len(v) - 1) = Plain(v)
  <2> DEFINE p == SubSeq(Plain(w), 1, Len(v) - 1)
  <2>1. Len(v) - 1 \in Nat /\ Len(v) - 1 <= Len(Plain(w))
    BY <1>1, <1>3, <1>9, <1>10
  <2>2. /\ p \in Seq(Text) /\ Len(p) = Len(v) - 1
        /\ \A i \in 1 .. Len(v) - 1 : p[i] = Plain(w)[i]
    BY <2>1, <1>10, Front
  <2> HIDE DEF p
  <2>3. p = Plain(v)
    BY <2>2, <1>10, <1>11, SeqEqual
  <2> QED BY <2>3 DEF p
<1>13. Len(Plain(v)) < Len(Plain(w))
  BY <1>1, <1>3, <1>9, <1>10
<1> QED BY <1>10, <1>12, <1>13 DEF w

(* The vectors removeAnyMatching can leave, which are as one. *)
Survivals(v, matching) == Filterings(v, LAMBDA p : p # Null /\ p.text \in matching)

(* What a vector reads after a filter: the texts that do not match, in their  *)
(* order.                                                                      *)
LEMMA FilterReads ==
  ASSUME NEW v \in Vectors, Null \notin Pointer, NEW matching,
         NEW w, w \in Survivals(v, matching)
  PROVE  LET kept == {i \in DOMAIN Plain(v) : Plain(v)[i] \notin matching}
         IN  \E from \in [1 .. Cardinality(kept) -> kept] :
               /\ \A i, j \in DOMAIN from : i < j => from[i] < from[j]
               /\ Plain(w) = [i \in DOMAIN from |-> Plain(v)[from[i]]]
<1> DEFINE L == Len(v)
           all == {i \in DOMAIN v : ~(v[i] # Null /\ v[i].text \in matching)}
           kept == {i \in DOMAIN Plain(v) : Plain(v)[i] \notin matching}
           n == Cardinality(all)
<1>1. /\ L \in Nat /\ L >= 1 /\ DOMAIN v = 1 .. L
      /\ \A i \in 1 .. L : v[i] = Null <=> i = L
  BY VectorShape DEF Vectors, Terminated
<1>3. all \in SUBSET (1 .. L) /\ L \in all
  <2>1. L \in 1 .. L /\ v[L] = Null
    <3> HIDE DEF L, all, kept, n
    <3> QED BY <1>1
  <2>2. all \subseteq DOMAIN v
    BY Zenon
  <2>3. L \in all
    BY <1>1, <2>1, Zenon
  <2> QED BY <1>1, <2>2, <2>3
<1>4. IsFiniteSet(all) /\ n \in Nat
  <2>1. IsFiniteSet(1 .. L)
    <3>1. L \in Nat
      BY <1>1
    <3> HIDE DEF L
    <3> QED BY <3>1, FS_Interval
  <2> QED BY <1>3, <2>1, FS_Subset, FS_CardinalityType
<1>5. kept = all \ {L}
  <2>0. L \in Nat
    BY <1>1
  <2>1. \A i \in 1 .. L - 1 : i \in 1 .. L /\ i # L
    <3> HIDE DEF L, all, kept, n
    <3> QED BY <2>0
  <2>2. \A i \in 1 .. L : i # L => i \in 1 .. L - 1
    <3> HIDE DEF L, all, kept, n
    <3> QED BY <2>0
  <2> QED BY <1>1, <2>1, <2>2 DEF Plain
<1>2. PICK f \in [1 .. n -> all] :
        (\A i, j \in 1 .. n : i < j => f[i] < f[j]) /\ w = [i \in 1 .. n |-> v[f[i]]]
  BY DEF Survivals, Filterings
<1> HIDE DEF all
<1>6. Cardinality(kept) = n - 1
  BY <1>3, <1>4, <1>5, FS_RemoveElement
<1> HIDE DEF kept
<1>7. w \in Vectors
  <2>1. [i \in 1 .. n |-> v[f[i]]] \in Vectors
    BY <1>2, <1>3, FilterKeepsTerminator
  <2> QED BY <2>1, <1>2
<1>8. /\ n >= 1 /\ Len(w) = n
      /\ \A i \in 1 .. n : w[i] = Null <=> i = n
  <2>1. Len(w) \in Nat /\ Len(w) >= 1 /\ DOMAIN w = 1 .. Len(w)
    BY <1>7, VectorShape
  <2>2. DOMAIN w = 1 .. n
    BY <1>2
  <2>3. Len(w) = n
    BY <2>1, <2>2, <1>4
  <2> QED BY <2>1, <2>2, <2>3, <1>7 DEF Vectors, Terminated
<1>9. \A i \in 1 .. n - 1 : i \in 1 .. n /\ f[i] \in kept /\ w[i] = v[f[i]]
  <2>1. ASSUME NEW i \in 1 .. n - 1 PROVE i \in 1 .. n /\ f[i] \in kept /\ w[i] = v[f[i]]
    <3>1. i \in 1 .. n /\ i # n
      BY <1>4
    <3>2. f[i] \in all /\ w[i] = v[f[i]]
      BY <1>2, <3>1
    <3>3. f[i] # L
      BY <1>1, <1>3, <1>8, <3>1, <3>2
    <3> QED BY <3>1, <3>2, <3>3, <1>5
  <2> QED BY <2>1
<1> DEFINE from == [i \in 1 .. n - 1 |-> f[i]]
<1>10. from \in [1 .. Cardinality(kept) -> kept] /\ DOMAIN from = 1 .. n - 1
  BY <1>6, <1>9
<1>11. \A i, j \in 1 .. n - 1 : i < j => from[i] < from[j]
  BY <1>2, <1>9
<1>12. Plain(w) = [i \in 1 .. n - 1 |-> Plain(v)[from[i]]]
  <2>1. \A i \in 1 .. n - 1 : Plain(v)[from[i]] = w[i].text
    <3>1. \A i \in kept : Plain(v)[i] = v[i].text
      BY DEF kept, Plain
    <3> QED BY <3>1, <1>9
  <2>2. Plain(w) = [i \in 1 .. n - 1 |-> w[i].text]
    BY <1>8 DEF Plain
  <2> QED BY <2>1, <2>2
<1> HIDE DEF from
<1> QED BY <1>10, <1>11, <1>12 DEF kept

(***************************************************************************)
(* The refinement.                                                         *)
(***************************************************************************)

LEMMA NextKeepsBare ==
  ASSUME Safe, SafeProgram, [Next]_vars
  PROVE  Bare'
<1>1. DOMAIN life = Arrays /\ DOMAIN vector = Arrays
  BY DEF Safe, Inv, TypeOK
<1>2. ASSUME NEW x \in Arrays, NEW state, NEW v, NEW s, Becomes(x, state, v, s),
             state = "live" \/ v = <<>>
      PROVE  Bare'
  BY <1>1, <1>2 DEF Becomes, Safe, Bare
<1>3. ASSUME NEW x \in Arrays, NEW texts \in Environs, Construct(x, texts) PROVE Bare'
  BY <1>2, <1>3 DEF Construct
<1>4. ASSUME NEW x \in Arrays, NEW texts \in Blocks, AppendValues(x, texts) PROVE Bare'
  BY <1>2, <1>4 DEF AppendValues
<1>5. ASSUME NEW x \in Arrays, NEW matching \in SUBSET Text, RemoveAnyMatching(x, matching)
      PROVE  Bare'
  <2>1. CASE UndefinedBehaviour
    BY <2>1 DEF UndefinedBehaviour, Safe, Bare
  <2>2. CASE \E v : Becomes(x, "live", v, stored[x])
    BY <2>2, <1>2
  <2> QED BY <1>5, <2>1, <2>2 DEF RemoveAnyMatching
<1>6. ASSUME NEW x \in Arrays, NEW y \in Arrays, MoveConstruct(x, y) PROVE Bare'
  BY <1>1, <1>6 DEF MoveConstruct, Safe, Bare
<1>7. ASSUME NEW x \in Arrays, Destroy(x) PROVE Bare'
  BY <1>2, <1>7 DEF Destroy
<1>8. CASE UNCHANGED vars
  BY <1>8 DEF vars, Safe, Bare
<1>9. \A call \in {"throw", "erase", "copy", "assign", "moveAssign", "swap", "useMoved"} :
        ~Calling(call)
  BY DEF Calling, SafeProgram, SafeCalls
<1> QED BY <1>3, <1>4, <1>5, <1>6, <1>7, <1>8, <1>9
        DEF Next, AppendThrowsStoring, AppendThrowsInserting, EraseAppended, CopyConstruct,
            CopyAssign, MoveAssign, Swap, UseMoved

LEMMA NextKeepsSafe ==
  ASSUME Safe, ConstantsAssumption, SafeProgram, [Next]_vars
  PROVE  Safe'
BY NextKeepsInv, NextKeepsOwned, NextKeepsBare DEF Safe

(* Each call does to the texts what it does to arrays of strings. *)
LEMMA StepKeepsPromise ==
  ASSUME Safe, ConstantsAssumption, SafeProgram, [Next]_vars
  PROVE  [Promise!Next]_(Promise!vars)
<1>1. Contents = Texts /\ Contents' = Texts'
  <2>1. Safe'
    BY NextKeepsSafe
  <2>2. Contents = Texts
    BY ReadsTexts
  <2>3. (Safe /\ ConstantsAssumption => Contents = Texts)'
    BY ReadsTexts, PTL
  <2> QED BY <2>1, <2>2, <2>3
<1>2. DOMAIN life = Arrays /\ DOMAIN vector = Arrays /\ DOMAIN Texts = Arrays
  BY DEF Safe, Inv, TypeOK, Texts
<1>3. Null \notin Pointer /\ StoredString \subseteq Pointer
  BY PointersInMemory
<1>4. ASSUME NEW x \in Arrays, NEW texts \in Environs, Construct(x, texts)
      PROVE  Promise!Construct(x)
  <2>1. texts \in Seq(Text)
    BY DEF ConstantsAssumption
  <2>2. life[x] = "none"
        /\ Becomes(x, "live", [i \in DOMAIN texts |-> Literal(texts[i])] \o <<Null>>, <<>>)
    BY <1>4 DEF Construct
  <2>3. Texts' = [Texts EXCEPT ![x] = texts] /\ life' = [life EXCEPT ![x] = "live"]
    BY <2>1, <2>2, BecomesReads, LiteralsRead
  <2> QED BY <2>2, <2>3, <1>1 DEF Promise!Construct, Promise!Becomes
<1>5. ASSUME NEW x \in Arrays, NEW texts \in Blocks, AppendValues(x, texts)
      PROVE  Promise!Extend(x)
  <2>1. life[x] = "live"
    BY <1>5 DEF AppendValues, MayAppend
  <2>2. PICK s \in Grown(x, texts) :
          Becomes(x, "live", InsertBeforeLast(vector[x], SubSeq(s, Len(stored[x]) + 1, Len(s))), s)
    BY <1>5 DEF AppendValues
  <2> DEFINE new == SubSeq(s, Len(stored[x]) + 1, Len(s))
             w == InsertBeforeLast(vector[x], new)
  <2>3. new \in Seq(Pointer) /\ new # <<>>
    <3>1. new \in Seq(StoredString) /\ Len(new) = Len(texts) /\ Len(texts) \in Nat /\ 1 <= Len(texts)
      BY <2>1, AppendedStrings DEF Safe
    <3> HIDE DEF new
    <3>2. new # <<>>
      BY <3>1, EmptySeq
    <3> QED BY <3>1, <3>2, <1>3, SeqMonotonic
  <2>4. vector[x] \in Vectors
    BY <2>1, LiveVectors DEF Safe
  <2> HIDE DEF new
  <2>5. /\ Plain(vector[x]) \in Seq(Text) /\ Plain(w) \in Seq(Text)
        /\ Len(Plain(vector[x])) < Len(Plain(w))
        /\ SubSeq(Plain(w), 1, Len(Plain(vector[x]))) = Plain(vector[x])
    BY <2>3, <2>4, <1>3, InsertReads
  <2>6. Texts' = [Texts EXCEPT ![x] = Plain(w)] /\ life' = [life EXCEPT ![x] = "live"]
    BY <2>2, BecomesReads DEF new
  <2>7. Texts[x] = Plain(vector[x]) /\ Texts'[x] = Plain(w)
    <3>1. Texts[x] = Plain(vector[x])
      BY DEF Texts
    <3> HIDE DEF w
    <3> QED BY <3>1, <2>6, <1>2
  <2> HIDE DEF w
  <2> QED BY <2>1, <2>5, <2>6, <2>7, <1>1 DEF Promise!Extend, Promise!Becomes
<1>6. ASSUME NEW x \in Arrays, NEW matching \in SUBSET Text, RemoveAnyMatching(x, matching)
      PROVE  Promise!Remove(x)
  <2>1. life[x] = "live" /\ vector[x] \in Vectors
    BY <1>6, LiveVectors DEF RemoveAnyMatching, Safe
  <2>2. ~\E p \in Items(vector[x]) : p # Null /\ ~Sound(p)
    <3>1. PointersSound
      BY OwnedIsSound DEF Safe
    <3> QED BY <3>1, <2>1 DEF PointersSound, Items
  <2>3. PICK w \in Survivals(vector[x], matching) : Becomes(x, "live", w, stored[x])
    BY <1>6, <2>2 DEF RemoveAnyMatching, Survivals
  <2> DEFINE old == Plain(vector[x])
             kept == {i \in DOMAIN old : old[i] \notin matching}
  <2>4. PICK from \in [1 .. Cardinality(kept) -> kept] :
          /\ \A i, j \in DOMAIN from : i < j => from[i] < from[j]
          /\ Plain(w) = [i \in DOMAIN from |-> old[from[i]]]
    BY <2>1, <2>3, <1>3, FilterReads
  <2>5. Texts' = [Texts EXCEPT ![x] = Plain(w)] /\ life' = [life EXCEPT ![x] = "live"]
    BY <2>3, BecomesReads
  <2>6. Texts[x] = old
    BY DEF Texts
  <2>7. \A S : Promise!Cardinality(S) = Cardinality(S)
    BY DEF Promise!Cardinality, Cardinality
  <2>8. Contents[x] = old /\ kept = {i \in DOMAIN Contents[x] : Contents[x][i] \notin matching}
    BY <2>6, <1>1
  <2>9. Promise!Becomes(x, "live", [i \in DOMAIN from |-> Contents[x][from[i]]])
    BY <2>4, <2>5, <2>6, <1>1 DEF Promise!Becomes
  <2>10. from \in [1 .. Promise!Cardinality(kept) -> kept]
    BY <2>4, <2>7
  <2> HIDE DEF old, kept
  <2> QED BY <2>1, <2>4, <2>8, <2>9, <2>10 DEF Promise!Remove
<1>7. ASSUME NEW x \in Arrays, NEW y \in Arrays, MoveConstruct(x, y)
      PROVE  Promise!Move(x, y)
  <2>1. /\ life[x] = "none" /\ life[y] = "live"
        /\ life' = [life EXCEPT ![x] = "live", ![y] = "moved"]
        /\ vector' = [vector EXCEPT ![x] = vector[y], ![y] = <<>>]
    BY <1>7 DEF MoveConstruct
  <2>2. x # y
    BY <2>1
  <2>3. Texts' = [z \in Arrays |-> Plain(vector'[z])]
    BY DEF Texts, Plain
  <2>4. Texts' = [Texts EXCEPT ![x] = Texts[y], ![y] = <<>>]
    <3>1. \A z \in Arrays : vector'[z] = IF z = y THEN <<>> ELSE IF z = x THEN vector[y] ELSE vector[z]
      BY <2>1, <1>2
    <3> QED BY <3>1, <2>3, <1>2, EmptyIsPlain DEF Texts
  <2> QED BY <2>1, <2>2, <2>4, <1>1 DEF Promise!Move
<1>8. ASSUME NEW x \in Arrays, Destroy(x)
      PROVE  Promise!Destroy(x)
  <2>1. life[x] # "none" /\ Becomes(x, "none", <<>>, <<>>)
    BY <1>8 DEF Destroy
  <2>2. Texts' = [Texts EXCEPT ![x] = <<>>] /\ life' = [life EXCEPT ![x] = "none"]
    BY <2>1, BecomesReads, EmptyIsPlain
  <2> QED BY <2>1, <2>2, <1>1 DEF Promise!Destroy, Promise!Becomes
<1>9. CASE UNCHANGED vars
  <2>1. vector' = vector /\ life' = life
    BY <1>9 DEF vars
  <2>2. Texts' = [z \in Arrays |-> Plain(vector'[z])]
    BY DEF Texts, Plain
  <2>3. Texts' = Texts
    BY <2>1, <2>2 DEF Texts
  <2> QED BY <2>1, <2>3, <1>1 DEF Promise!vars
<1>10. \A call \in {"throw", "erase", "copy", "assign", "moveAssign", "swap", "useMoved"} :
         ~Calling(call)
  BY DEF Calling, SafeProgram, SafeCalls
<1>11. CASE Next
  <2>1. PICK x \in Arrays :
          \/ \E texts \in Environs : Construct(x, texts)
          \/ \E texts \in Blocks : AppendValues(x, texts)
          \/ \E matching \in SUBSET Text : RemoveAnyMatching(x, matching)
          \/ \E y \in Arrays : MoveConstruct(x, y)
          \/ Destroy(x)
    BY <1>10, <1>11 DEF Next, AppendThrowsStoring, AppendThrowsInserting, EraseAppended,
         CopyConstruct, CopyAssign, MoveAssign, Swap, UseMoved
  <2> QED BY <2>1, <1>4, <1>5, <1>6, <1>7, <1>8 DEF Promise!Next
<1> QED BY <1>9, <1>11

(* Arrays that do not exist yet hold nothing. *)
LEMMA InitKeepsPromise ==
  ASSUME Init, ConstantsAssumption
  PROVE  Safe /\ Promise!Init
<1>1. Safe
  BY InitInv DEF Safe, Init, Owned, Bare
<1>2. Texts = [x \in Arrays |-> <<>>]
  BY EmptyIsPlain DEF Init, Texts
<1> QED BY <1>1, <1>2, ReadsTexts DEF Init, Promise!Init

(* To a safe program the arrays are sequences of strings of their own: the    *)
(* pointers, the strings they point into, and what a growing vector of them   *)
(* does to either never show.                                                  *)
THEOREM SafeProgramsKeepPromise ==
  ASSUME SafeProgram
  PROVE  Spec => ImplementsPromise
<1>1. Init => Safe /\ Promise!Init
  BY ConstantsAssumption, InitKeepsPromise
<1>2. Safe /\ [Next]_vars => Safe'
  BY ConstantsAssumption, NextKeepsSafe
<1>3. Safe /\ [Next]_vars => [Promise!Next]_(Promise!vars)
  BY ConstantsAssumption, StepKeepsPromise
<1> QED BY <1>1, <1>2, <1>3, PTL DEF Spec, ImplementsPromise, Promise!Spec

=============================================================================
