------------------------- MODULE NullTermArrayProofs -------------------------
(***************************************************************************)
(* Theorems about NullTermArray, for any number of arrays, any texts and   *)
(* any bounds.                                                             *)
(***************************************************************************)
EXTENDS NullTermArray, LeastElements, TLAPS, FiniteSetTheorems, SequenceTheorems

(***************************************************************************)
(* Sequences and least elements.                                           *)
(***************************************************************************)

(* A non-empty set of natural numbers with a bound has the least element that *)
(* the searches of eraseAppended stop at.                                     *)
LEMMA LeastIsLeast ==
  ASSUME NEW k \in Nat, NEW S \in SUBSET (0 .. k), S # {}
  PROVE  /\ Least(S) \in S
         /\ \A n \in S : Least(S) <= n
BY HasLeast DEF Least

(* A function on an initial interval of the positive integers is a sequence. *)
LEMMA FunctionIsSeq ==
  ASSUME NEW S, NEW n \in Nat, NEW f \in [1 .. n -> S]
  PROVE  f \in Seq(S) /\ Len(f) = n
<1>1. f \in Seq(S)
  BY SeqDef
<1>2. DOMAIN f = 1 .. n /\ DOMAIN f = 1 .. Len(f) /\ Len(f) \in Nat
  BY <1>1, LenProperties
<1> QED BY <1>1, <1>2

(* The arguments of append and of eraseAppended are sequences, never empty. *)
LEMMA BlocksAreSeqs ==
  ASSUME NEW texts \in Blocks, MaxBlock \in Nat
  PROVE  texts \in Seq(Text) /\ Len(texts) \in Nat \ {0} /\ DOMAIN texts = 1 .. Len(texts)
<1>1. PICK n \in 1 .. MaxBlock : texts \in [1 .. n -> Text]
  BY DEF Blocks
<1>2. n \in Nat \ {0}
  BY <1>1
<1> QED BY <1>1, <1>2, FunctionIsSeq

(***************************************************************************)
(* Vectors of pointers.                                                    *)
(***************************************************************************)
Terminated(v) ==
  /\ v # <<>>
  /\ \A i \in DOMAIN v : v[i] = Null <=> i = Len(v)

Vectors == {v \in Seq(Pointer \cup {Null}) : Terminated(v)}

(* A NULL-terminated vector is a list of pointers and then the NULL. *)
LEMMA VectorShape ==
  ASSUME NEW v \in Vectors, Null \notin Pointer
  PROVE  /\ v \in Seq(Pointer \cup {Null})
         /\ Len(v) \in Nat \ {0}
         /\ DOMAIN v = 1 .. Len(v)
         /\ v[Len(v)] = Null
         /\ \A i \in 1 .. Len(v) - 1 : v[i] \in Pointer
<1>1. v \in Seq(Pointer \cup {Null}) /\ v # <<>>
  BY DEF Vectors, Terminated
<1>2. Len(v) \in Nat \ {0} /\ DOMAIN v = 1 .. Len(v)
  BY <1>1, LenProperties, EmptySeq
<1>3. \A i \in 1 .. Len(v) : v[i] \in Pointer \cup {Null}
  BY <1>1, ElementOfSeq
<1>4. \A i \in 1 .. Len(v) : v[i] = Null <=> i = Len(v)
  BY <1>2 DEF Vectors, Terminated
<1>5. Len(v) \in Nat /\ Len(v) >= 1
  BY <1>2
<1> HIDE <1>2
<1>6. \A i \in 1 .. Len(v) - 1 : i \in 1 .. Len(v) /\ i # Len(v)
  BY <1>5
<1>7. v[Len(v)] = Null
  BY <1>5, <1>4
<1> QED BY <1>1, <1>2, <1>3, <1>4, <1>6, <1>7

(* and any list of pointers followed by a NULL is such a vector. *)
LEMMA VectorFromPointers ==
  ASSUME NEW ptrs \in Seq(Pointer), Null \notin Pointer
  PROVE  ptrs \o <<Null>> \in Vectors
<1> DEFINE S == Pointer \cup {Null}
           w == ptrs \o <<Null>>
<1>1. ptrs \in Seq(S)
  BY SeqMonotonic
<1>2. <<Null>> \in Seq(S) /\ Len(<<Null>>) = 1
  OBVIOUS
<1>3. /\ w \in Seq(S)
      /\ Len(w) = Len(ptrs) + 1
      /\ \A i \in 1 .. Len(ptrs) + 1 : w[i] = IF i <= Len(ptrs) THEN ptrs[i]
                                               ELSE <<Null>>[i - Len(ptrs)]
  BY <1>1, <1>2, ConcatProperties
<1>4. Len(ptrs) \in Nat /\ \A i \in 1 .. Len(ptrs) : ptrs[i] \in Pointer
  BY LenProperties, ElementOfSeq
<1>5. DOMAIN w = 1 .. Len(ptrs) + 1
  BY <1>3, LenProperties
<1>6. ASSUME NEW i \in 1 .. Len(ptrs) + 1
      PROVE  w[i] = Null <=> i = Len(ptrs) + 1
  <2>1. CASE i <= Len(ptrs)
    BY <2>1, <1>3, <1>4
  <2>2. CASE i = Len(ptrs) + 1
    BY <2>2, <1>3, <1>4
  <2> QED BY <2>1, <2>2, <1>4
<1>7. w # <<>>
  BY <1>3, <1>4
<1> QED BY <1>3, <1>5, <1>6, <1>7 DEF Vectors, Terminated

(* The pointers of a vector, without its terminator. *)
LEMMA VectorSplits ==
  ASSUME NEW v \in Vectors, Null \notin Pointer
  PROVE  /\ SubSeq(v, 1, Len(v) - 1) \in Seq(Pointer)
         /\ v = SubSeq(v, 1, Len(v) - 1) \o <<Null>>
<1>1. /\ v \in Seq(Pointer \cup {Null})
      /\ Len(v) \in Nat \ {0}
      /\ v[Len(v)] = Null
      /\ \A i \in 1 .. Len(v) - 1 : v[i] \in Pointer
  BY VectorShape
<1>2. SubSeq(v, 1, Len(v) - 1) \in Seq(Pointer)
  BY <1>1, SubSeqProperties
<1>3. SubSeq(v, 1, Len(v)) = SubSeq(v, 1, Len(v) - 1) \o <<v[Len(v)]>>
  BY <1>1, SubSeqRecursiveSecond
<1>4. SubSeq(v, 1, Len(v)) = v
  BY <1>1, SubSeqFull
<1> QED BY <1>1, <1>2, <1>3, <1>4

(* Inserting before the last element keeps the terminator where it is. *)
LEMMA InsertKeepsTerminator ==
  ASSUME NEW v \in Vectors, NEW ptrs \in Seq(Pointer), Null \notin Pointer
  PROVE  InsertBeforeLast(v, ptrs) \in Vectors
<1>1. SubSeq(v, 1, Len(v) - 1) \in Seq(Pointer) /\ v[Len(v)] = Null
  BY VectorSplits, VectorShape
<1>2. SubSeq(v, 1, Len(v) - 1) \o ptrs \in Seq(Pointer)
  BY <1>1, ConcatProperties
<1>3. (SubSeq(v, 1, Len(v) - 1) \o ptrs) \o <<Null>> \in Vectors
  BY <1>2, VectorFromPointers
<1> QED BY <1>1, <1>3 DEF InsertBeforeLast

(* Nor does taking out a run of pointers that ends before it. *)
LEMMA CutKeepsTerminator ==
  ASSUME NEW v \in Vectors, NEW first \in Nat, NEW last \in Nat, Null \notin Pointer,
         1 <= first, first <= last, last <= Len(v)
  PROVE  Cut(v, first, last) \in Vectors
<1> DEFINE S == Pointer \cup {Null}
           head == SubSeq(v, 1, first - 1)
           tail == SubSeq(v, last, Len(v) - 1)
<1>1. v \in Seq(S) /\ v[Len(v)] = Null /\ \A i \in 1 .. Len(v) - 1 : v[i] \in Pointer
  BY VectorShape
<1>2. Len(v) \in Nat /\ Len(v) >= 1
  BY VectorShape
<1>3. head \in Seq(Pointer)
  BY <1>1, <1>2, SubSeqProperties
<1>4. tail \in Seq(Pointer)
  BY <1>1, <1>2, SubSeqProperties
<1>5. SubSeq(v, last, Len(v)) = tail \o <<Null>>
  BY <1>1, <1>2, SubSeqRecursiveSecond
<1>6. head \o tail \in Seq(Pointer)
  BY <1>3, <1>4, ConcatProperties
<1>7. (head \o tail) \o <<Null>> = head \o (tail \o <<Null>>)
  <2> DEFINE stop == <<Null>>
  <2>1. head \in Seq(S)
    BY <1>3, SeqMonotonic
  <2>2. tail \in Seq(S)
    BY <1>4, SeqMonotonic
  <2>3. stop \in Seq(S)
    OBVIOUS
  <2>4. (head \o tail) \o stop = head \o (tail \o stop)
    <3> HIDE DEF head, tail, stop, S
    <3> QED BY <2>1, <2>2, <2>3, ConcatAssociative, SMTT(60)
  <2> QED BY <2>4
<1>8. (head \o tail) \o <<Null>> \in Vectors
  BY <1>6, VectorFromPointers
<1> QED BY <1>5, <1>7, <1>8 DEF Cut

(* What is left of a vector when some of its pointers are filtered out, in   *)
(* order, ends with the terminator: an increasing enumeration of as many     *)
(* positions as are kept reaches the last.                                   *)
LEMMA FilterKeepsTerminator ==
  ASSUME NEW v \in Vectors, Null \notin Pointer,
         NEW kept \in SUBSET (1 .. Len(v)), Len(v) \in kept,
         NEW f \in [1 .. Cardinality(kept) -> kept],
         \A i, j \in 1 .. Cardinality(kept) : i < j => f[i] < f[j]
  PROVE  [i \in 1 .. Cardinality(kept) |-> v[f[i]]] \in Vectors
<1> DEFINE n == Cardinality(kept)
           L == Len(v)
           w == [i \in 1 .. n |-> v[f[i]]]
<1>1. /\ v \in Seq(Pointer \cup {Null})
      /\ L \in Nat /\ L >= 1
      /\ DOMAIN v = 1 .. L
  BY VectorShape
<1>2. IsFiniteSet(kept) /\ n \in Nat
  <2>1. IsFiniteSet(1 .. L)
    BY <1>1, FS_Interval
  <2> QED BY <2>1, FS_Subset, FS_CardinalityType
<1>3. IsFiniteSet(1 .. n) /\ Cardinality(1 .. n) = n
  BY <1>2, FS_Interval
<1>4. PICK i \in 1 .. n : f[i] = L
  <2> SUFFICES ASSUME \A i \in 1 .. n : f[i] # L PROVE FALSE
    OBVIOUS
  <2>1. IsFiniteSet(kept \ {L}) /\ Cardinality(kept \ {L}) = n - 1
    BY <1>2, FS_RemoveElement
  <2>2. f \in [1 .. n -> kept \ {L}]
    OBVIOUS
  <2>3. PICK j, k \in 1 .. n : j # k /\ f[j] = f[k]
    BY <1>2, <1>3, <2>1, <2>2, FS_PigeonHole
  <2>4. j < k \/ k < j
    BY <1>2, <2>3
  <2>5. f[j] \in 1 .. L /\ f[k] \in 1 .. L
    OBVIOUS
  <2> QED BY <2>3, <2>4, <2>5, <1>1
<1>5. i = n /\ n >= 1
  <2>1. i \in 1 .. n /\ n \in 1 .. n
    BY <1>2
  <2>2. f[n] \in 1 .. L
    BY <2>1
  <2>3. ~(i < n)
    BY <2>1, <2>2, <1>4, <1>1
  <2> QED BY <2>1, <2>3, <1>2
<1>6. \A j \in 1 .. n : f[j] \in 1 .. L /\ (f[j] = L <=> j = n)
  <2>1. ASSUME NEW j \in 1 .. n PROVE f[j] \in 1 .. L /\ (f[j] = L <=> j = n)
    <3>1. f[j] \in 1 .. L
      OBVIOUS
    <3>2. CASE j = n
      BY <3>1, <3>2, <1>4, <1>5
    <3>3. CASE j < n
      BY <3>1, <3>3, <1>4, <1>5, <1>1
    <3> QED BY <3>2, <3>3, <1>2
  <2> QED BY <2>1
<1>7. \A j \in 1 .. n : w[j] \in Pointer \cup {Null} /\ (w[j] = Null <=> j = n)
  BY <1>1, <1>6 DEF Vectors, Terminated
<1>8. w \in Seq(Pointer \cup {Null}) /\ Len(w) = n
  <2>1. w \in [1 .. n -> Pointer \cup {Null}]
    BY <1>7
  <2> HIDE DEF w
  <2> QED BY <2>1, <1>2, FunctionIsSeq
<1>9. w # <<>>
  BY <1>8, <1>5
<1> QED BY <1>7, <1>8, <1>9 DEF Vectors, Terminated

(***************************************************************************)
(* eraseAppended.                                                          *)
(***************************************************************************)

(* The end of a run of rangeMatchingPredicate, stops being the distances at  *)
(* which it can stop: the run is not empty, and it ends no later than at a   *)
(* position where it would have to stop, when there is one before the end.   *)
LEMMA RunEnds ==
  ASSUME NEW first \in Nat, NEW end \in Nat, NEW n \in Nat, first < end, 1 <= n,
         NEW stops \in SUBSET (1 .. n - 1)
  PROVE  /\ RunEnd(first, end, n, stops) \in Nat
         /\ first < RunEnd(first, end, n, stops)
         /\ \A stop \in first + 1 .. end - 1 :
              (stop - first <= n - 1 => stop - first \in stops)
                => RunEnd(first, end, n, stops) <= stop
<1> DEFINE last == RunEnd(first, end, n, stops)
<1>1. stops # {} => Least(stops) \in stops /\ \A m \in stops : Least(stops) <= m
  <2>1. stops \in SUBSET (0 .. n)
    OBVIOUS
  <2> QED BY <2>1, LeastIsLeast
<1>2. stops # {} => Least(stops) \in 1 .. n - 1
  BY <1>1
<1>3. last \in Nat /\ first < last
  BY <1>2 DEF RunEnd
<1>4. ASSUME NEW stop \in first + 1 .. end - 1,
             stop - first <= n - 1 => stop - first \in stops
      PROVE  last <= stop
  <2>1. CASE stop - first <= n - 1
    <3>1. stop - first \in stops
      BY <1>4, <2>1
    <3>2. Least(stops) <= stop - first
      BY <3>1, <1>1
    <3> QED BY <3>1, <3>2, <1>2 DEF RunEnd
  <2>2. CASE n <= stop - first
    BY <2>2, <1>2 DEF RunEnd
  <2> QED BY <2>1, <2>2
<1> QED BY <1>3, <1>4

(* The vector and the strings that eraseAppended leaves: whatever block it   *)
(* was given, what it erases of the pointers ends before the terminator, and *)
(* the strings it erases are strings the array has.                          *)
LEMMA ErasureKeepsTerminator ==
  ASSUME NEW v \in Vectors, Null \notin Pointer,
         NEW s \in Seq(StoredString),
         NEW block, Len(block) \in Nat, 1 <= Len(block),
         NEW e, e = Erasure(v, s, block), e.result = "erased"
  PROVE  /\ e.vector \in Vectors
         /\ \E first, last \in Nat : /\ 1 <= first /\ first < last /\ last <= Len(s) + 1
                                     /\ e.strings = <<first, last>>
<1> DEFINE n == Len(block)
           L == Len(v)
           firsts == {i \in Len(s) - n + 1 .. Len(s) : s[i].text = block[1].text}
           first == Least(firsts \cup {Len(s) + 1})
           sstops == {m \in 1 .. n - 1 :
                        /\ first + m <= Len(s) + 1
                        /\ first + m = Len(s) + 1 \/ s[first + m].text # block[m + 1].text}
           last == RunEnd(first, Len(s) + 1, n, sstops)
           from == L - (last - first)
           pfirsts == {i \in from .. L : v[i] # Null /\ v[i].addr = s[first].addr}
           pfirst == Least(pfirsts \cup {L + 1})
           pstops == {m \in 1 .. n - 1 :
                        /\ pfirst + m <= L + 1
                        /\ \/ pfirst + m = L + 1
                           \/ ~(v[pfirst + m] # Null /\ v[pfirst + m].addr = block[m + 1].addr)}
           plast == RunEnd(pfirst, L + 1, n, pstops)
<1>1. e = IF n > Len(s) THEN [result |-> "undefined"]
          ELSE IF first > Len(s) THEN [result |-> "nothing"]
          ELSE IF last > Len(s) + 1 \/ from < 1 THEN [result |-> "undefined"]
          ELSE [result  |-> "erased",
                vector  |-> IF pfirst > L THEN v ELSE Cut(v, pfirst, plast),
                strings |-> <<first, last>>]
  BY DEF Erasure, FirstFrom, RangeEnd
<1>2. /\ ~(n > Len(s)) /\ ~(first > Len(s)) /\ ~(last > Len(s) + 1) /\ ~(from < 1)
      /\ e.vector = IF pfirst > L THEN v ELSE Cut(v, pfirst, plast)
      /\ e.strings = <<first, last>>
  <2> DEFINE none == [result |-> "nothing"]
             undef == [result |-> "undefined"]
             erased == [result  |-> "erased",
                        vector  |-> IF pfirst > L THEN v ELSE Cut(v, pfirst, plast),
                        strings |-> <<first, last>>]
  <2>1. e # none /\ e # undef
    OBVIOUS
  <2>2. /\ erased.vector = IF pfirst > L THEN v ELSE Cut(v, pfirst, plast)
        /\ erased.strings = <<first, last>>
    OBVIOUS
  <2>3. e = IF n > Len(s) THEN undef
            ELSE IF first > Len(s) THEN none
            ELSE IF last > Len(s) + 1 \/ from < 1 THEN undef ELSE erased
    BY <1>1
  <2> HIDE DEF n, L, first, last, from, pfirst, plast, none, undef, erased
  <2>4. ~(n > Len(s)) /\ ~(first > Len(s)) /\ ~(last > Len(s) + 1) /\ ~(from < 1)
    BY <2>1, <2>3
  <2>5. e = erased
    BY <2>3, <2>4
  <2> QED BY <2>2, <2>4, <2>5
<1>3. Len(s) \in Nat /\ n \in Nat /\ 1 <= n /\ n <= Len(s)
  <2>1. Len(s) \in Nat
    BY LenProperties
  <2>2. n \in Nat /\ 1 <= n
    OBVIOUS
  <2> HIDE DEF n, first, last, from
  <2> QED BY <2>1, <2>2, <1>2
<1>4. L \in Nat /\ L >= 1 /\ v[L] = Null
  BY VectorShape
<1> HIDE DEF n, L
<1>5. first \in 1 .. Len(s)
  <2>1. firsts \cup {Len(s) + 1} \in SUBSET (1 .. Len(s) + 1)
    BY <1>3
  <2> HIDE DEF firsts
  <2>2. firsts \cup {Len(s) + 1} \in SUBSET (0 .. Len(s) + 1)
    BY <2>1, <1>3
  <2>3. Len(s) + 1 \in Nat /\ firsts \cup {Len(s) + 1} # {}
    BY <1>3
  <2>4. first \in firsts \cup {Len(s) + 1}
    BY <2>2, <2>3, LeastIsLeast
  <2> HIDE DEF first, last, from
  <2>5. first \in 1 .. Len(s) + 1 /\ ~(first > Len(s))
    BY <2>1, <2>4, <1>2
  <2> QED BY <2>5, <1>3
<1> HIDE DEF first
<1>6. last \in Nat /\ first < last /\ last <= Len(s) + 1
  <2>1. sstops \in SUBSET (1 .. n - 1)
    OBVIOUS
  <2> HIDE DEF sstops
  <2>2. first \in Nat /\ Len(s) + 1 \in Nat /\ first < Len(s) + 1
    BY <1>3, <1>5
  <2>3. last \in Nat /\ first < last
    BY <2>1, <2>2, <1>3, RunEnds
  <2> HIDE DEF last
  <2> QED BY <2>3, <1>2, <1>3
<1> HIDE DEF last
<1>7. from \in Nat /\ 1 <= from /\ from <= L
  <2>1. from \in Int /\ from <= L
    BY <1>4, <1>5, <1>6, <1>3
  <2> HIDE DEF from
  <2> QED BY <2>1, <1>2
<1> HIDE DEF from
<1>8. pfirst \in pfirsts \cup {L + 1} /\ pfirsts \in SUBSET (from .. L)
  <2>1. pfirsts \in SUBSET (from .. L)
    OBVIOUS
  <2> HIDE DEF pfirsts
  <2>2. pfirsts \cup {L + 1} \in SUBSET (0 .. L + 1)
    BY <2>1, <1>4, <1>7
  <2>3. L + 1 \in Nat /\ pfirsts \cup {L + 1} # {}
    BY <1>4
  <2>4. pfirst \in pfirsts \cup {L + 1}
    BY <2>2, <2>3, LeastIsLeast
  <2> QED BY <2>1, <2>4
<1>9. CASE pfirst \notin pfirsts
  <2>1. pfirst = L + 1
    BY <1>8, <1>9
  <2> HIDE DEF pfirst
  <2> QED BY <2>1, <1>2, <1>4, <1>5, <1>6
<1>10. CASE pfirst \in pfirsts
  <2>1. pfirst \in from .. L /\ v[pfirst] # Null
    <3> HIDE DEF pfirst
    <3> QED BY <1>10
  <2> HIDE DEF pfirst, pfirsts
  <2>2. pfirst \in Nat /\ 1 <= pfirst /\ pfirst < L
    BY <2>1, <1>4, <1>7
  <2>3. pstops \in SUBSET (1 .. n - 1)
    OBVIOUS
  <2>4. L - pfirst <= n - 1 => L - pfirst \in pstops
    <3>1. L - pfirst \in Nat /\ 1 <= L - pfirst /\ pfirst + (L - pfirst) = L
      BY <2>2, <1>4
    <3> QED BY <3>1, <1>3, <1>4
  <2> HIDE DEF pstops
  <2>5. plast \in Nat /\ pfirst < plast /\ plast <= L
    <3>1. L + 1 \in Nat /\ pfirst < L + 1 /\ L \in pfirst + 1 .. L + 1 - 1
      BY <2>2, <1>4
    <3>2. /\ plast \in Nat /\ pfirst < plast
          /\ \A stop \in pfirst + 1 .. L + 1 - 1 :
               (stop - pfirst <= n - 1 => stop - pfirst \in pstops) => plast <= stop
      BY <3>1, <2>2, <2>3, <1>3, RunEnds
    <3> HIDE DEF plast
    <3> QED BY <3>1, <3>2, <2>4
  <2> HIDE DEF plast
  <2>6. Cut(v, pfirst, plast) \in Vectors
    <3>1. pfirst <= plast /\ plast <= Len(v)
      BY <2>2, <2>5 DEF L
    <3> QED BY <3>1, <2>2, <2>5, CutKeepsTerminator
  <2>7. e.vector = Cut(v, pfirst, plast)
    BY <1>2, <2>2, <1>4
  <2> QED BY <2>6, <2>7, <1>2, <1>5, <1>6
<1> QED BY <1>9, <1>10

(***************************************************************************)
(* The strings an array stores.                                            *)
(***************************************************************************)

(* Strings placed in memory have the texts they were to have, and those that *)
(* were to stay at an address stay there.                                    *)
LEMMA PlacedStrings ==
  ASSUME NEW texts \in Seq(Text), NEW keep, DOMAIN keep \subseteq DOMAIN texts,
         \A j \in DOMAIN keep : keep[j] \in Addr,
         NEW held, NEW s \in Placed(texts, keep, held)
  PROVE  /\ s \in Seq(StoredString)
         /\ Len(s) = Len(texts)
         /\ \A j \in DOMAIN texts : s[j].text = texts[j]
         /\ \A j \in DOMAIN keep : s[j].addr = keep[j]
<1> DEFINE new == DOMAIN texts \ DOMAIN keep
<1>1. PICK at \in [new -> Addr] :
        s = [j \in DOMAIN texts |-> [addr |-> IF j \in new THEN at[j] ELSE keep[j],
                                     text |-> texts[j]]]
  BY DEF Placed
<1>2. DOMAIN texts = 1 .. Len(texts) /\ Len(texts) \in Nat
  BY LenProperties
<1>3. \A j \in DOMAIN texts : texts[j] \in Text
  BY <1>2, ElementOfSeq
<1>4. s \in [DOMAIN texts -> StoredString]
  BY <1>1, <1>3 DEF StoredString
<1>5. s \in Seq(StoredString) /\ Len(s) = Len(texts)
  <2>1. s \in [1 .. Len(texts) -> StoredString]
    BY <1>2, <1>4
  <2> QED BY <2>1, <1>2, FunctionIsSeq
<1>6. \A j \in DOMAIN texts : s[j].text = texts[j]
  BY <1>1
<1>7. \A j \in DOMAIN keep : s[j].addr = keep[j]
  BY <1>1
<1> QED BY <1>5, <1>6, <1>7

(* append's strings come after those that were stored, which keep their      *)
(* texts, and their addresses too if they can keep them when they move.      *)
LEMMA GrownStrings ==
  ASSUME NEW x \in Arrays, stored[x] \in Seq(StoredString),
         NEW texts \in Seq(Text), NEW s \in Grown(x, texts)
  PROVE  /\ s \in Seq(StoredString)
         /\ Len(s) = Len(stored[x]) + Len(texts)
         /\ \A j \in 1 .. Len(stored[x]) :
              Travels(stored[x][j].text) => s[j] = stored[x][j]
<1> DEFINE old == stored[x]
           all == TextsOf(old) \o texts
           stay == [j \in DOMAIN old |-> old[j].addr]
           moved == [j \in {i \in DOMAIN old : Travels(old[i].text)} |-> old[j].addr]
<1>1. Len(old) \in Nat /\ DOMAIN old = 1 .. Len(old)
  BY LenProperties
<1>2. \A j \in 1 .. Len(old) : old[j] \in StoredString
  BY ElementOfSeq
<1>3. \A j \in 1 .. Len(old) : /\ old[j].addr \in Addr /\ old[j].text \in Text
                               /\ old[j] = [addr |-> old[j].addr, text |-> old[j].text]
  BY <1>2 DEF StoredString
<1>4. TextsOf(old) \in Seq(Text) /\ Len(TextsOf(old)) = Len(old)
  <2>1. TextsOf(old) \in [1 .. Len(old) -> Text]
    BY <1>1, <1>3 DEF TextsOf
  <2> HIDE DEF old
  <2> QED BY <2>1, <1>1, FunctionIsSeq
<1>5. /\ all \in Seq(Text) /\ Len(all) = Len(old) + Len(texts)
      /\ \A j \in 1 .. Len(old) : all[j] = old[j].text
  <2> HIDE DEF old
  <2>1. /\ all \in Seq(Text) /\ Len(all) = Len(old) + Len(texts)
        /\ \A j \in 1 .. Len(old) + Len(texts) :
             all[j] = IF j <= Len(old) THEN TextsOf(old)[j] ELSE texts[j - Len(old)]
    <3> DEFINE t == TextsOf(old)
    <3>1. t \in Seq(Text) /\ Len(t) = Len(old)
      BY <1>4
    <3> HIDE DEF t
    <3>2. /\ t \o texts \in Seq(Text) /\ Len(t \o texts) = Len(t) + Len(texts)
          /\ \A j \in 1 .. Len(t) + Len(texts) :
               (t \o texts)[j] = IF j <= Len(t) THEN t[j] ELSE texts[j - Len(t)]
      BY <3>1, ConcatProperties
    <3>3. all = t \o texts
      BY DEF t
    <3> HIDE DEF all
    <3> QED BY <3>1, <3>2, <3>3 DEF t
  <2>2. Len(texts) \in Nat
    BY LenProperties
  <2>3. \A j \in 1 .. Len(old) : TextsOf(old)[j] = old[j].text
    BY <1>1 DEF TextsOf
  <2> HIDE DEF all
  <2> QED BY <2>1, <2>2, <2>3, <1>1
<1>6. DOMAIN old \subseteq DOMAIN all
  <2>1. DOMAIN all = 1 .. Len(all) /\ Len(texts) \in Nat
    BY <1>5, LenProperties
  <2> HIDE DEF all, old
  <2> QED BY <2>1, <1>1, <1>5
<1>7. ASSUME NEW keep, DOMAIN keep \subseteq DOMAIN old,
             \A j \in DOMAIN old : Travels(old[j].text) => j \in DOMAIN keep,
             \A j \in DOMAIN keep : keep[j] = old[j].addr,
             s \in Placed(all, keep, Held(Arrays))
      PROVE  /\ s \in Seq(StoredString)
             /\ Len(s) = Len(old) + Len(texts)
             /\ \A j \in 1 .. Len(old) : Travels(old[j].text) => s[j] = old[j]
  <2>1. \A j \in DOMAIN keep : keep[j] \in Addr
    BY <1>1, <1>3, <1>7
  <2>2. DOMAIN keep \subseteq DOMAIN all
    BY <1>6, <1>7
  <2> HIDE DEF all
  <2>3. /\ s \in Seq(StoredString) /\ Len(s) = Len(all)
        /\ \A j \in DOMAIN all : s[j].text = all[j]
        /\ \A j \in DOMAIN keep : s[j].addr = keep[j]
    <3>1. all \in Seq(Text) /\ s \in Placed(all, keep, Held(Arrays))
      BY <1>5, <1>7
    <3> HIDE DEF old, stay, moved
    <3> QED BY <3>1, <2>1, <2>2, PlacedStrings
  <2>4. ASSUME NEW j \in 1 .. Len(old), Travels(old[j].text) PROVE s[j] = old[j]
    <3>1. j \in DOMAIN keep /\ j \in DOMAIN all
      BY <1>1, <1>6, <1>7, <2>4
    <3>2. s[j].text = old[j].text /\ s[j].addr = old[j].addr
      BY <3>1, <2>3, <1>5, <1>7
    <3>3. s[j] \in StoredString
      <4>1. DOMAIN all = DOMAIN s /\ DOMAIN s = 1 .. Len(s)
        BY <1>5, <2>3, LenProperties
      <4> QED BY <4>1, <3>1, <2>3, ElementOfSeq
    <3> QED BY <3>2, <3>3, <1>2 DEF StoredString
  <2> QED BY <2>3, <2>4, <1>5
<1>8. s \in Placed(all, stay, Held(Arrays)) \/ s \in Placed(all, moved, Held(Arrays))
  BY DEF Grown
<1>9. CASE s \in Placed(all, stay, Held(Arrays))
  <2>1. DOMAIN stay = DOMAIN old /\ \A j \in DOMAIN old : stay[j] = old[j].addr
    OBVIOUS
  <2> HIDE DEF stay, all, old
  <2> QED BY <2>1, <1>7, <1>9 DEF old
<1>10. CASE s \in Placed(all, moved, Held(Arrays))
  <2>1. /\ DOMAIN moved = {i \in DOMAIN old : Travels(old[i].text)}
        /\ \A j \in DOMAIN moved : moved[j] = old[j].addr
    OBVIOUS
  <2> HIDE DEF moved, all, old
  <2> QED BY <2>1, <1>7, <1>10 DEF old
<1> QED BY <1>8, <1>9, <1>10

(* Erasing strings leaves strings. *)
LEMMA ShrunkStrings ==
  ASSUME NEW x \in Arrays, NEW s \in Seq(StoredString),
         NEW first \in Nat, NEW last \in Nat,
         1 <= first, first < last, last <= Len(s) + 1,
         NEW left \in Shrunk(x, s, first, last)
  PROVE  left \in Seq(StoredString)
<1> DEFINE From(j) == IF j < first THEN j ELSE j + last - first
           n == Len(s) - (last - first)
           texts == [j \in 1 .. n |-> s[From(j)].text]
           keep == [j \in {i \in DOMAIN texts : i < first \/ Travels(texts[i])}
                      |-> s[From(j)].addr]
           held == Held(Arrays \ {x}) \cup {s[From(j)] : j \in DOMAIN keep}
<1>1. left \in Placed(texts, keep, held)
  BY DEF Shrunk
<1>2. n \in Nat /\ \A j \in 1 .. n : From(j) \in 1 .. Len(s)
  <2>1. Len(s) \in Nat
    BY LenProperties
  <2> QED BY <2>1
<1>3. \A j \in 1 .. n : s[From(j)].text \in Text /\ s[From(j)].addr \in Addr
  <2>1. \A j \in 1 .. n : s[From(j)] \in StoredString
    BY <1>2, ElementOfSeq
  <2> QED BY <2>1 DEF StoredString
<1>4. texts \in Seq(Text)
  <2>1. texts \in [1 .. n -> Text]
    BY <1>3
  <2> HIDE DEF texts, n
  <2> QED BY <2>1, <1>2, FunctionIsSeq
<1>5. DOMAIN keep \subseteq DOMAIN texts /\ \A j \in DOMAIN keep : keep[j] \in Addr
  BY <1>3
<1> HIDE DEF texts, keep, held
<1> QED BY <1>1, <1>4, <1>5, PlacedStrings

(* The block a caller passes to eraseAppended is as long as its texts, and not *)
(* empty.                                                                      *)
LEMMA CallersBlocks ==
  ASSUME NEW texts \in Blocks, MaxBlock \in Nat, NEW block \in Callers(texts)
  PROVE  Len(block) = Len(texts) /\ Len(block) \in Nat /\ 1 <= Len(block)
<1>1. texts \in Seq(Text) /\ Len(texts) \in Nat /\ 1 <= Len(texts) /\ DOMAIN texts = 1 .. Len(texts)
  BY BlocksAreSeqs
<1>2. CASE SharedStrings
  <2>1. block \in Placed(texts, <<>>, Held(Arrays))
    BY <1>2 DEF Callers
  <2>2. DOMAIN <<>> \subseteq DOMAIN texts /\ \A j \in DOMAIN <<>> : <<>>[j] \in Addr
    OBVIOUS
  <2>3. Len(block) = Len(texts)
    BY <2>1, <2>2, <1>1, PlacedStrings
  <2> QED BY <2>3, <1>1
<1>3. CASE ~SharedStrings
  <2>1. block = [i \in DOMAIN texts |-> [addr |-> Null, text |-> texts[i]]]
    BY <1>3 DEF Callers
  <2>2. block \in [1 .. Len(texts) -> {[addr |-> Null, text |-> texts[i]] : i \in DOMAIN texts}]
    BY <2>1, <1>1
  <2>3. Len(block) = Len(texts)
    BY <2>2, <1>1, FunctionIsSeq
  <2> QED BY <2>3, <1>1
<1> QED BY <1>2, <1>3

(* It is so long in append as well. *)
LEMMA CallersLength ==
  ASSUME NEW texts, Len(texts) \in Nat, DOMAIN texts = 1 .. Len(texts),
         NEW new, Len(new) = Len(texts)
  PROVE  Len(CallersOf(texts, new)) = Len(texts)
<1> DEFINE caller == [i \in DOMAIN texts |-> [addr |-> Null, text |-> texts[i]]]
<1>1. caller \in [1 .. Len(texts) -> {[addr |-> Null, text |-> texts[i]] : i \in 1 .. Len(texts)}]
  OBVIOUS
<1>2. CallersOf(texts, new) = IF SharedStrings THEN new ELSE caller
  BY DEF CallersOf
<1> HIDE DEF caller
<1> QED BY <1>1, <1>2, FunctionIsSeq

(***************************************************************************)
(* The types, and the terminator.                                          *)
(***************************************************************************)
Inv == TypeOK /\ NullTerminated

(* Strings and literals are pointers, and NULL is none. *)
LEMMA PointersInMemory ==
  ASSUME ConstantsAssumption
  PROVE  /\ Null \notin Pointer
         /\ StoredString \subseteq Pointer
         /\ \A t \in Text : Literal(t) \in Pointer
         /\ MaxBlock \in Nat
BY DEF ConstantsAssumption, StoredString, Pointer, Literal

(* What the invariant says of one array that exists. *)
LEMMA LiveVectors ==
  ASSUME Inv, NEW x \in Arrays, life[x] = "live"
  PROVE  vector[x] \in Vectors /\ stored[x] \in Seq(StoredString)
BY DEF Inv, TypeOK, NullTerminated, Vectors, Terminated

(* An array that is given a terminated vector, or none with its object gone, *)
(* keeps the invariant, since no other array is touched.                     *)
LEMMA BecomesKeepsInv ==
  ASSUME Inv, NEW x \in Arrays,
         NEW state \in {"none", "live", "moved"},
         NEW v \in Seq(Pointer \cup {Null}), state = "live" => v \in Vectors,
         NEW s \in Seq(StoredString),
         Becomes(x, state, v, s)
  PROVE  Inv'
<1>1. /\ life' = [life EXCEPT ![x] = state]
      /\ vector' = [vector EXCEPT ![x] = v]
      /\ stored' = [stored EXCEPT ![x] = s]
      /\ undefined' = undefined
  BY DEF Becomes
<1>2. TypeOK'
  BY <1>1 DEF Inv, TypeOK
<1>3. ASSUME NEW y \in Arrays, life'[y] = "live" PROVE Terminated(vector'[y])
  <2>1. CASE y = x
    BY <2>1, <1>1, <1>3 DEF Inv, TypeOK, Vectors
  <2>2. CASE y # x
    <3>1. life[y] = "live" /\ vector'[y] = vector[y]
      BY <2>2, <1>1, <1>3 DEF Inv, TypeOK
    <3>2. Terminated(vector[y])
      BY <3>1 DEF Inv, NullTerminated, Terminated
    <3> QED BY <3>1, <3>2
  <2> QED BY <2>1, <2>2
<1>4. NullTerminated'
  BY <1>3 DEF NullTerminated, Terminated
<1> QED BY <1>2, <1>4 DEF Inv

(* Undefined behaviour stops the program, and leaves the model's arrays be. *)
LEMMA UndefinedKeepsInv ==
  ASSUME Inv, UndefinedBehaviour
  PROVE  Inv'
BY DEF Inv, TypeOK, NullTerminated, UndefinedBehaviour

(* Whatever the end of eraseAppended does keeps the invariant: on an array    *)
(* as it is, or on one with as much appended as there was when append threw.  *)
LEMMA EraseKeepsInv ==
  ASSUME Inv, ConstantsAssumption, NEW x \in Arrays,
         NEW v \in Vectors, NEW s \in Seq(StoredString),
         NEW block, Len(block) \in Nat, 1 <= Len(block),
         Erase(x, v, s, block)
  PROVE  Inv'
<1> DEFINE e == Erasure(v, s, block)
<1>1. v \in Seq(Pointer \cup {Null})
  BY DEF Vectors
<1>2. CASE UndefinedBehaviour
  BY <1>2, UndefinedKeepsInv
<1>3. CASE Becomes(x, "live", v, s)
  BY <1>1, <1>3, BecomesKeepsInv
<1>4. ASSUME e.result = "erased",
             NEW left \in Shrunk(x, s, e.strings[1], e.strings[2]),
             Becomes(x, "live", e.vector, left)
      PROVE  Inv'
  <2>1. /\ e.vector \in Vectors
        /\ \E first, last \in Nat : /\ 1 <= first /\ first < last /\ last <= Len(s) + 1
                                    /\ e.strings = <<first, last>>
    BY <1>4, PointersInMemory, ErasureKeepsTerminator
  <2> HIDE DEF e
  <2>2. left \in Seq(StoredString)
    <3>1. PICK first, last \in Nat : /\ 1 <= first /\ first < last /\ last <= Len(s) + 1
                                     /\ e.strings = <<first, last>>
      BY <2>1
    <3>2. left \in Shrunk(x, s, first, last)
      BY <1>4, <3>1
    <3> QED BY <3>1, <3>2, ShrunkStrings
  <2>3. e.vector \in Seq(Pointer \cup {Null})
    BY <2>1 DEF Vectors
  <2> QED BY <1>4, <2>1, <2>2, <2>3, BecomesKeepsInv
<1> QED BY <1>2, <1>3, <1>4 DEF Erase

(* No array exists at first. *)
LEMMA InitInv ==
  ASSUME Init PROVE Inv
<1>1. \A S : <<>> \in Seq(S)
  BY EmptySeq
<1> QED BY <1>1 DEF Init, Inv, TypeOK, NullTerminated

(* What append has stored and points at. *)
LEMMA AppendedStrings ==
  ASSUME Inv, ConstantsAssumption, NEW x \in Arrays, life[x] = "live",
         NEW texts \in Blocks, NEW s \in Grown(x, texts)
  PROVE  LET new == SubSeq(s, Len(stored[x]) + 1, Len(s))
         IN  /\ s \in Seq(StoredString)
             /\ new \in Seq(StoredString)
             /\ Len(new) = Len(texts) /\ Len(texts) \in Nat /\ 1 <= Len(texts)
             /\ DOMAIN texts = 1 .. Len(texts)
<1> DEFINE new == SubSeq(s, Len(stored[x]) + 1, Len(s))
<1>1. stored[x] \in Seq(StoredString)
  BY LiveVectors
<1>2. texts \in Seq(Text) /\ Len(texts) \in Nat /\ 1 <= Len(texts)
  BY BlocksAreSeqs, PointersInMemory
<1>3. s \in Seq(StoredString) /\ Len(s) = Len(stored[x]) + Len(texts)
  BY <1>1, <1>2, GrownStrings
<1>4. Len(stored[x]) \in Nat
  BY <1>1, LenProperties
<1>5. \A i \in Len(stored[x]) + 1 .. Len(s) : s[i] \in StoredString
  <2>1. \A i \in 1 .. Len(s) : s[i] \in StoredString
    BY <1>3, ElementOfSeq
  <2> QED BY <2>1, <1>4
<1>6. new \in Seq(StoredString) /\ Len(new) = Len(texts)
  <2> DEFINE m == Len(stored[x]) + 1
             k == Len(s)
  <2>1. m \in Int /\ k \in Int /\ k - m + 1 = Len(texts) /\ m <= k
    BY <1>2, <1>3, <1>4
  <2>2. \A i \in m .. k : s[i] \in StoredString
    BY <1>5
  <2>3. new = SubSeq(s, m, k)
    OBVIOUS
  <2> HIDE DEF m, k, new
  <2> QED BY <2>1, <2>2, <2>3, SubSeqProperties
<1> QED BY <1>2, <1>3, <1>6, BlocksAreSeqs, PointersInMemory

(* Each call keeps the invariant, those that throw included. *)
LEMMA NextKeepsInv ==
  ASSUME Inv, ConstantsAssumption, [Next]_vars
  PROVE  Inv'
<1>1. \A S : <<>> \in Seq(S)
  BY EmptySeq
<1>2. MaxBlock \in Nat /\ Null \notin Pointer /\ StoredString \subseteq Pointer
  BY PointersInMemory
<1>3. \A v \in Vectors : v \in Seq(Pointer \cup {Null})
  BY DEF Vectors
<1>4. ASSUME NEW x \in Arrays, NEW texts \in Environs, Construct(x, texts)
      PROVE  Inv'
  <2> DEFINE ptrs == [i \in DOMAIN texts |-> Literal(texts[i])]
  <2>1. texts \in Seq(Text) /\ DOMAIN texts = 1 .. Len(texts) /\ Len(texts) \in Nat
    BY LenProperties DEF ConstantsAssumption
  <2>2. \A i \in 1 .. Len(texts) : texts[i] \in Text
    BY <2>1, ElementOfSeq
  <2>3. ptrs \in [1 .. Len(texts) -> Pointer]
    BY <2>1, <2>2, PointersInMemory
  <2>4. Becomes(x, "live", ptrs \o <<Null>>, <<>>)
    BY <1>4 DEF Construct
  <2> HIDE DEF ptrs
  <2>5. ptrs \in Seq(Pointer)
    BY <2>1, <2>3, FunctionIsSeq
  <2>6. ptrs \o <<Null>> \in Vectors
    BY <2>5, <1>2, VectorFromPointers
  <2> QED BY <2>4, <2>6, <1>1, <1>3, BecomesKeepsInv
<1>5. ASSUME NEW x \in Arrays, NEW texts \in Blocks, AppendValues(x, texts)
      PROVE  Inv'
  <2> DEFINE new(s) == SubSeq(s, Len(stored[x]) + 1, Len(s))
  <2>1. PICK s \in Grown(x, texts) :
          Becomes(x, "live", InsertBeforeLast(vector[x], new(s)), s)
    BY <1>5 DEF AppendValues
  <2>2. life[x] = "live"
    BY <1>5 DEF AppendValues, MayAppend
  <2>3. s \in Seq(StoredString) /\ new(s) \in Seq(StoredString)
    BY <2>1, <2>2, AppendedStrings
  <2> HIDE DEF new
  <2>4. new(s) \in Seq(Pointer)
    BY <2>3, <1>2, SeqMonotonic
  <2>5. InsertBeforeLast(vector[x], new(s)) \in Vectors
    BY <2>2, <2>4, <1>2, LiveVectors, InsertKeepsTerminator
  <2> QED BY <2>1, <2>3, <2>5, <1>3, BecomesKeepsInv
<1>6. ASSUME NEW x \in Arrays, NEW texts \in Blocks,
             AppendThrowsStoring(x, texts) \/ EraseAppended(x, texts)
      PROVE  Inv'
  <2> DEFINE n == Len(stored[x])
             new(s) == SubSeq(s, n + 1, Len(s))
  <2>1. life[x] = "live"
    BY <1>6 DEF AppendThrowsStoring, EraseAppended, MayAppend
  <2>2. ASSUME NEW block \in Callers(texts), Erase(x, vector[x], stored[x], block) PROVE Inv'
    <3>1. Len(block) \in Nat /\ 1 <= Len(block)
      BY <1>2, CallersBlocks
    <3> QED BY <2>1, <2>2, <3>1, LiveVectors, EraseKeepsInv
  <2>3. ASSUME NEW s \in Grown(x, texts), NEW k \in 1 .. Len(texts) - 1,
               Erase(x, vector[x], SubSeq(s, 1, n + k), CallersOf(texts, new(s)))
        PROVE  Inv'
    <3>1. /\ s \in Seq(StoredString) /\ new(s) \in Seq(StoredString)
          /\ Len(new(s)) = Len(texts) /\ Len(texts) \in Nat /\ 1 <= Len(texts)
          /\ DOMAIN texts = 1 .. Len(texts)
      BY <2>1, AppendedStrings
    <3>2. n \in Nat /\ Len(s) = n + Len(texts)
      <4>1. texts \in Seq(Text) /\ stored[x] \in Seq(StoredString)
        BY <1>2, <2>1, BlocksAreSeqs, LiveVectors
      <4> QED BY <4>1, GrownStrings, LenProperties
    <3> HIDE DEF n, new
    <3>3. SubSeq(s, 1, n + k) \in Seq(StoredString)
      <4>1. \A i \in 1 .. Len(s) : s[i] \in StoredString
        BY <3>1, ElementOfSeq
      <4> DEFINE m == n + k
      <4>2. m \in Int /\ \A i \in 1 .. m : s[i] \in StoredString
        BY <3>1, <3>2, <4>1
      <4> HIDE DEF m
      <4>3. SubSeq(s, 1, m) \in Seq(StoredString)
        BY <4>2, SubSeqProperties
      <4> QED BY <4>3 DEF m
    <3>4. Len(CallersOf(texts, new(s))) = Len(texts)
      BY <3>1, CallersLength
    <3> QED BY <2>1, <2>3, <3>1, <3>3, <3>4, LiveVectors, EraseKeepsInv
  <2> QED BY <1>6, <2>2, <2>3 DEF AppendThrowsStoring, EraseAppended
<1>7. ASSUME NEW x \in Arrays, NEW texts \in Blocks, AppendThrowsInserting(x, texts)
      PROVE  Inv'
  <2> DEFINE new(s) == SubSeq(s, Len(stored[x]) + 1, Len(s))
             block(s) == CallersOf(texts, new(s))
  <2>1. PICK s \in Grown(x, texts), k \in 0 .. Len(texts) - 1 :
          Erase(x, InsertBeforeLast(vector[x], SubSeq(new(s), 1, k)), s, block(s))
    BY <1>7 DEF AppendThrowsInserting
  <2>2. life[x] = "live"
    BY <1>7 DEF AppendThrowsInserting, MayAppend
  <2>3. /\ s \in Seq(StoredString) /\ new(s) \in Seq(StoredString)
        /\ Len(new(s)) = Len(texts) /\ Len(texts) \in Nat /\ 1 <= Len(texts)
        /\ DOMAIN texts = 1 .. Len(texts)
    BY <2>2, AppendedStrings
  <2>5. Len(block(s)) = Len(texts)
    BY <2>3, CallersLength
  <2> HIDE DEF block, new
  <2>6. SubSeq(new(s), 1, k) \in Seq(Pointer)
    <3>1. \A i \in 1 .. Len(new(s)) : new(s)[i] \in Pointer
      BY <2>3, <1>2, ElementOfSeq
    <3>2. k \in Int /\ \A i \in 1 .. k : new(s)[i] \in Pointer
      BY <3>1, <2>3
    <3> QED BY <3>2, SubSeqProperties
  <2>7. InsertBeforeLast(vector[x], SubSeq(new(s), 1, k)) \in Vectors
    BY <2>2, <2>6, <1>2, LiveVectors, InsertKeepsTerminator
  <2> QED BY <2>1, <2>3, <2>5, <2>7, EraseKeepsInv
<1>8. ASSUME NEW x \in Arrays, NEW matching \in SUBSET Text, RemoveAnyMatching(x, matching)
      PROVE  Inv'
  <2> DEFINE kept == {i \in DOMAIN vector[x] :
                        ~(vector[x][i] # Null /\ vector[x][i].text \in matching)}
             n == Cardinality(kept)
  <2>1. life[x] = "live"
    BY <1>8 DEF RemoveAnyMatching
  <2>2. vector[x] \in Vectors /\ stored[x] \in Seq(StoredString)
    BY <2>1, LiveVectors
  <2>3. CASE UndefinedBehaviour
    BY <2>3, UndefinedKeepsInv
  <2>4. ASSUME NEW v \in Filterings(vector[x], LAMBDA p : p # Null /\ p.text \in matching),
               Becomes(x, "live", v, stored[x])
        PROVE  Inv'
    <3>1. PICK f \in [1 .. n -> kept] :
            /\ \A i, j \in 1 .. n : i < j => f[i] < f[j]
            /\ v = [i \in 1 .. n |-> vector[x][f[i]]]
      BY <2>4 DEF Filterings
    <3>2. kept \in SUBSET (1 .. Len(vector[x])) /\ Len(vector[x]) \in kept
      BY <2>2, <1>2, VectorShape
    <3> HIDE DEF kept
    <3>3. [i \in 1 .. n |-> vector[x][f[i]]] \in Vectors
      BY <3>1, <3>2, <2>2, <1>2, FilterKeepsTerminator
    <3>4. v \in Vectors
      BY <3>1, <3>3
    <3> QED BY <3>4, <2>4, <2>2, <1>3, BecomesKeepsInv
  <2> QED BY <1>8, <2>3, <2>4 DEF RemoveAnyMatching
<1>9. ASSUME NEW x \in Arrays, NEW y \in Arrays, CopyConstruct(x, y) PROVE Inv'
  <2>1. life[y] = "live" /\ Becomes(x, "live", vector[y], <<>>)
    BY <1>9 DEF CopyConstruct
  <2> QED BY <2>1, <1>1, <1>3, LiveVectors, BecomesKeepsInv
<1>10. ASSUME NEW x \in Arrays, NEW y \in Arrays, CopyAssign(x, y) PROVE Inv'
  <2>1. life[x] = "live" /\ life[y] = "live" /\ Becomes(x, "live", vector[y], stored[x])
    BY <1>10 DEF CopyAssign
  <2> QED BY <2>1, <1>3, LiveVectors, BecomesKeepsInv
<1>11. ASSUME NEW x \in Arrays, NEW y \in Arrays, MoveConstruct(x, y) PROVE Inv'
  BY <1>1, <1>11 DEF MoveConstruct, Inv, TypeOK, NullTerminated
<1>12. ASSUME NEW x \in Arrays, NEW y \in Arrays, MoveAssign(x, y) PROVE Inv'
  BY <1>1, <1>12 DEF MoveAssign, Inv, TypeOK, NullTerminated
<1>13. ASSUME NEW x \in Arrays, NEW y \in Arrays, Swap(x, y) PROVE Inv'
  BY <1>13 DEF Swap, Inv, TypeOK, NullTerminated
<1>14. ASSUME NEW x \in Arrays, UseMoved(x) PROVE Inv'
  BY <1>14, UndefinedKeepsInv DEF UseMoved
<1>15. ASSUME NEW x \in Arrays, Destroy(x) PROVE Inv'
  BY <1>1, <1>15, BecomesKeepsInv DEF Destroy
<1>16. CASE UNCHANGED vars
  BY <1>16 DEF vars, Inv, TypeOK, NullTerminated
<1> QED BY <1>4, <1>5, <1>6, <1>7, <1>8, <1>9, <1>10, <1>11, <1>12, <1>13, <1>14,
           <1>15, <1>16 DEF Next

(* In every state the program can reach the variables have their types. *)
THEOREM TypeCorrect == Spec => []TypeOK
<1>1. Init => Inv
  BY InitInv
<1>2. Inv /\ [Next]_vars => Inv'
  BY ConstantsAssumption, NextKeepsInv
<1>3. Inv => TypeOK
  BY DEF Inv
<1> QED BY <1>1, <1>2, <1>3, PTL DEF Spec

(* Whatever calls the program makes, exceptions, copies, moves and undefined *)
(* corners of eraseAppended included, an array that is passed to exec ends   *)
(* with its one and only NULL.                                               *)
THEOREM AlwaysTerminated == Spec => []NullTerminated
<1>1. Init => Inv
  BY InitInv
<1>2. Inv /\ [Next]_vars => Inv'
  BY ConstantsAssumption, NextKeepsInv
<1>3. Inv => NullTerminated
  BY DEF Inv
<1> QED BY <1>1, <1>2, <1>3, PTL DEF Spec

(***************************************************************************)
(* Sound pointers.                                                         *)
(***************************************************************************)

(* Each array's pointers are to literals or to strings of the array's own: a *)
(* stronger fact than that the strings exist, which holds no longer when the *)
(* array that owns them grows or is destroyed.                               *)
Owns(x, p) == p = Literal(p.text) \/ p \in Items(stored[x])

Owned ==
  \A x \in Arrays : life[x] = "live" =>
    \A p \in Items(vector[x]) : p # Null => Owns(x, p)

(* The items of sequences put together are those of one or the other. *)
LEMMA ItemsOfConcat ==
  ASSUME NEW S, NEW s \in Seq(S), NEW t \in Seq(S)
  PROVE  Items(s \o t) \subseteq Items(s) \cup Items(t)
<1>1. /\ Len(s) \in Nat /\ DOMAIN s = 1 .. Len(s)
      /\ Len(t) \in Nat /\ DOMAIN t = 1 .. Len(t)
  BY LenProperties
<1>2. /\ s \o t \in Seq(S) /\ Len(s \o t) = Len(s) + Len(t)
      /\ \A i \in 1 .. Len(s) + Len(t) :
           (s \o t)[i] = IF i <= Len(s) THEN s[i] ELSE t[i - Len(s)]
  BY ConcatProperties
<1>3. DOMAIN (s \o t) = 1 .. Len(s) + Len(t)
  BY <1>2, LenProperties
<1>4. ASSUME NEW i \in 1 .. Len(s) + Len(t)
      PROVE  (s \o t)[i] \in Items(s) \cup Items(t)
  <2>1. CASE i <= Len(s)
    <3>1. (s \o t)[i] = s[i] /\ i \in DOMAIN s
      BY <1>1, <1>2, <2>1
    <3> QED BY <3>1 DEF Items
  <2>2. CASE i > Len(s)
    <3>1. (s \o t)[i] = t[i - Len(s)] /\ i - Len(s) \in DOMAIN t
      BY <1>1, <1>2, <2>2
    <3> QED BY <3>1 DEF Items
  <2> QED BY <2>1, <2>2, <1>1
<1> QED BY <1>3, <1>4 DEF Items

(* A part of a sequence has no other items. *)
LEMMA ItemsOfSubSeq ==
  ASSUME NEW S, NEW s \in Seq(S), NEW m \in Nat, NEW n \in Nat, 1 <= m, n <= Len(s)
  PROVE  Items(SubSeq(s, m, n)) \subseteq Items(s)
<1> DEFINE t == SubSeq(s, m, n)
<1>1. Len(s) \in Nat /\ DOMAIN s = 1 .. Len(s)
  BY LenProperties
<1>2. \A i \in m .. n : i \in DOMAIN s /\ s[i] \in S
  BY <1>1, ElementOfSeq
<1>3. /\ t \in Seq(S) /\ Len(t) = IF m <= n THEN n - m + 1 ELSE 0
      /\ \A i \in 1 .. n - m + 1 : t[i] = s[m + i - 1]
  BY <1>2, SubSeqProperties
<1>4. DOMAIN t = 1 .. Len(t)
  BY <1>3, LenProperties
<1> HIDE DEF t
<1>5. ASSUME NEW i \in DOMAIN t PROVE t[i] \in Items(s)
  <2>1. i \in 1 .. n - m + 1
    BY <1>3, <1>4
  <2>2. t[i] = s[m + i - 1] /\ m + i - 1 \in m .. n
    BY <2>1, <1>3
  <2>3. m + i - 1 \in DOMAIN s
    BY <2>2, <1>2
  <2> QED BY <2>2, <2>3 DEF Items
<1>6. Items(t) \subseteq Items(s)
  BY <1>5 DEF Items
<1> QED BY <1>6 DEF t

(* append adds the pointers it is given and no other. *)
LEMMA ItemsOfInsert ==
  ASSUME NEW v \in Vectors, Null \notin Pointer, NEW ptrs \in Seq(Pointer)
  PROVE  Items(InsertBeforeLast(v, ptrs)) \subseteq Items(v) \cup Items(ptrs) \cup {Null}
<1> DEFINE S == Pointer \cup {Null}
           head == SubSeq(v, 1, Len(v) - 1)
<1>1. v \in Seq(S) /\ Len(v) \in Nat /\ 1 <= Len(v) /\ v[Len(v)] = Null
  BY VectorShape
<1>2. head \in Seq(S) /\ ptrs \in Seq(S) /\ <<Null>> \in Seq(S)
  BY VectorSplits, SeqMonotonic
<1>3. Items(head) \subseteq Items(v)
  <2>1. Len(v) - 1 \in Nat /\ Len(v) - 1 <= Len(v)
    BY <1>1
  <2> QED BY <2>1, <1>1, ItemsOfSubSeq
<1> HIDE DEF head
<1>4. head \o ptrs \in Seq(S) /\ Items(head \o ptrs) \subseteq Items(head) \cup Items(ptrs)
  BY <1>2, ItemsOfConcat, ConcatProperties
<1>5. Items((head \o ptrs) \o <<Null>>) \subseteq Items(head \o ptrs) \cup Items(<<Null>>)
  BY <1>2, <1>4, ItemsOfConcat
<1>6. Items(<<Null>>) = {Null}
  BY DEF Items
<1> QED BY <1>1, <1>3, <1>4, <1>5, <1>6 DEF InsertBeforeLast, head

(* An array keeps owning what it points at when its new pointers are to      *)
(* literals and to strings among those it then has, and no other changes.    *)
LEMMA BecomesKeepsOwned ==
  ASSUME Inv, Owned, NEW x \in Arrays, NEW state, NEW v, NEW s,
         Becomes(x, state, v, s),
         state = "live" => \A p \in Items(v) : p # Null => p = Literal(p.text) \/ p \in Items(s)
  PROVE  Owned'
<1>1. /\ life' = [life EXCEPT ![x] = state]
      /\ vector' = [vector EXCEPT ![x] = v]
      /\ stored' = [stored EXCEPT ![x] = s]
  BY DEF Becomes
<1>2. ASSUME NEW y \in Arrays, life'[y] = "live", NEW p \in Items(vector'[y]), p # Null
      PROVE  p = Literal(p.text) \/ p \in Items(stored'[y])
  <2>1. CASE y = x
    <3>1. state = "live" /\ vector'[y] = v /\ stored'[y] = s
      BY <2>1, <1>1, <1>2 DEF Inv, TypeOK
    <3> QED BY <3>1, <1>2
  <2>2. CASE y # x
    <3>1. life[y] = "live" /\ vector'[y] = vector[y] /\ stored'[y] = stored[y]
      BY <2>2, <1>1, <1>2 DEF Inv, TypeOK
    <3> QED BY <3>1, <1>2 DEF Owned, Owns
  <2> QED BY <2>1, <2>2
<1> QED BY <1>2 DEF Owned, Owns, Items

(* The strings that were there before append are there after it, if append   *)
(* is the first or the strings do not move with the vector.                  *)
LEMMA AppendKeepsStrings ==
  ASSUME Inv, ConstantsAssumption, SafeProgram, NEW x \in Arrays,
         NEW texts \in Blocks, MayAppend(x, texts), NEW s \in Grown(x, texts)
  PROVE  Items(stored[x]) \subseteq Items(s)
<1>1. life[x] = "live" /\ (AppendsOnce => stored[x] = <<>>)
  BY DEF MayAppend
<1>2. stored[x] \in Seq(StoredString)
  BY <1>1, LiveVectors
<1>3. texts \in Seq(Text) /\ Len(texts) \in Nat
  BY BlocksAreSeqs, PointersInMemory
<1>4. /\ s \in Seq(StoredString) /\ Len(s) = Len(stored[x]) + Len(texts)
      /\ \A j \in 1 .. Len(stored[x]) : Travels(stored[x][j].text) => s[j] = stored[x][j]
  BY <1>2, <1>3, GrownStrings
<1>5. CASE AppendsOnce
  <2>1. Items(<<>>) = {}
    BY DEF Items
  <2> QED BY <2>1, <1>1, <1>5
<1>6. CASE SharedStrings \/ Inline = {}
  <2>1. \A t : Travels(t)
    BY <1>6 DEF Travels
  <2>2. /\ DOMAIN stored[x] = 1 .. Len(stored[x]) /\ Len(stored[x]) \in Nat
        /\ DOMAIN s = 1 .. Len(s)
    BY <1>2, <1>4, LenProperties
  <2>3. DOMAIN stored[x] \subseteq DOMAIN s
    BY <2>2, <1>3, <1>4
  <2>4. \A j \in DOMAIN stored[x] : j \in DOMAIN s /\ s[j] = stored[x][j]
    BY <2>1, <2>2, <2>3, <1>4
  <2> QED BY <2>4 DEF Items
<1> QED BY <1>5, <1>6 DEF SafeProgram

(* Each call of a safe program leaves every array owning what it points at. *)
LEMMA NextKeepsOwned ==
  ASSUME Inv, Owned, ConstantsAssumption, SafeProgram, [Next]_vars
  PROVE  Owned'
<1>1. Null \notin Pointer /\ StoredString \subseteq Pointer
  BY PointersInMemory
<1>2. ASSUME NEW x \in Arrays, NEW texts \in Environs, Construct(x, texts)
      PROVE  Owned'
  <2> DEFINE ptrs == [i \in DOMAIN texts |-> Literal(texts[i])]
  <2>1. texts \in Seq(Text) /\ DOMAIN texts = 1 .. Len(texts) /\ Len(texts) \in Nat
    BY LenProperties DEF ConstantsAssumption
  <2>2. \A i \in 1 .. Len(texts) : texts[i] \in Text
    BY <2>1, ElementOfSeq
  <2>3. ptrs \in [1 .. Len(texts) -> Pointer] /\ \A p \in Items(ptrs) : p = Literal(p.text)
    BY <2>1, <2>2, PointersInMemory DEF Items, Literal
  <2>4. Becomes(x, "live", ptrs \o <<Null>>, <<>>)
    BY <1>2 DEF Construct
  <2> HIDE DEF ptrs
  <2>5. ptrs \in Seq(Pointer \cup {Null}) /\ <<Null>> \in Seq(Pointer \cup {Null})
    <3>1. ptrs \in Seq(Pointer)
      BY <2>1, <2>3, FunctionIsSeq
    <3> QED BY <3>1, SeqMonotonic
  <2>6. Items(ptrs \o <<Null>>) \subseteq Items(ptrs) \cup Items(<<Null>>)
    BY <2>5, ItemsOfConcat
  <2>7. Items(<<Null>>) = {Null}
    BY DEF Items
  <2>8. \A p \in Items(ptrs \o <<Null>>) : p # Null => p = Literal(p.text)
    BY <2>3, <2>6, <2>7
  <2> QED BY <2>4, <2>8, BecomesKeepsOwned
<1>3. ASSUME NEW x \in Arrays, NEW texts \in Blocks, AppendValues(x, texts)
      PROVE  Owned'
  <2> DEFINE new(s) == SubSeq(s, Len(stored[x]) + 1, Len(s))
  <2>1. PICK s \in Grown(x, texts) :
          Becomes(x, "live", InsertBeforeLast(vector[x], new(s)), s)
    BY <1>3 DEF AppendValues
  <2>2. MayAppend(x, texts) /\ life[x] = "live"
    BY <1>3 DEF AppendValues, MayAppend
  <2>3. s \in Seq(StoredString) /\ new(s) \in Seq(StoredString)
    BY <2>1, <2>2, AppendedStrings
  <2>4. Items(new(s)) \subseteq Items(s)
    <3>1. Len(stored[x]) \in Nat /\ Len(s) \in Nat
      BY <2>2, <2>3, LiveVectors, LenProperties
    <3>2. Len(stored[x]) + 1 \in Nat /\ 1 <= Len(stored[x]) + 1 /\ Len(s) <= Len(s)
      BY <3>1
    <3> QED BY <3>1, <3>2, <2>3, ItemsOfSubSeq
  <2> HIDE DEF new
  <2>5. new(s) \in Seq(Pointer)
    BY <2>3, <1>1, SeqMonotonic
  <2>6. Items(InsertBeforeLast(vector[x], new(s)))
          \subseteq Items(vector[x]) \cup Items(new(s)) \cup {Null}
    BY <2>2, <2>5, <1>1, LiveVectors, ItemsOfInsert
  <2>7. Items(stored[x]) \subseteq Items(s)
    BY <2>1, <2>2, AppendKeepsStrings
  <2>8. \A p \in Items(vector[x]) : p # Null => p = Literal(p.text) \/ p \in Items(s)
    BY <2>2, <2>7 DEF Owned, Owns
  <2>9. \A p \in Items(InsertBeforeLast(vector[x], new(s))) :
          p # Null => p = Literal(p.text) \/ p \in Items(s)
    BY <2>4, <2>6, <2>8
  <2> QED BY <2>1, <2>9, BecomesKeepsOwned
<1>4. ASSUME NEW x \in Arrays, NEW matching \in SUBSET Text, RemoveAnyMatching(x, matching)
      PROVE  Owned'
  <2>1. life[x] = "live"
    BY <1>4 DEF RemoveAnyMatching
  <2>2. CASE UndefinedBehaviour
    BY <2>2 DEF UndefinedBehaviour, Owned, Owns, Items
  <2>3. ASSUME NEW v \in Filterings(vector[x], LAMBDA p : p # Null /\ p.text \in matching),
               Becomes(x, "live", v, stored[x])
        PROVE  Owned'
    <3> DEFINE kept == {i \in DOMAIN vector[x] :
                          ~(vector[x][i] # Null /\ vector[x][i].text \in matching)}
               n == Cardinality(kept)
    <3>1. PICK f \in [1 .. n -> kept] : v = [i \in 1 .. n |-> vector[x][f[i]]]
      BY <2>3 DEF Filterings
    <3>2. Items(v) \subseteq Items(vector[x])
      <4> HIDE DEF n
      <4> QED BY <3>1 DEF Items
    <3>3. \A p \in Items(v) : p # Null => p = Literal(p.text) \/ p \in Items(stored[x])
      BY <3>2, <2>1 DEF Owned, Owns
    <3> QED BY <3>3, <2>3, BecomesKeepsOwned
  <2> QED BY <1>4, <2>2, <2>3 DEF RemoveAnyMatching
<1>5. ASSUME NEW x \in Arrays, NEW y \in Arrays, MoveConstruct(x, y) PROVE Owned'
  <2>1. /\ x # y /\ life[y] = "live"
        /\ life' = [life EXCEPT ![x] = "live", ![y] = "moved"]
        /\ vector' = [vector EXCEPT ![x] = vector[y], ![y] = <<>>]
        /\ stored' = [stored EXCEPT ![x] = stored[y], ![y] = <<>>]
    BY <1>5 DEF MoveConstruct
  <2>2. ASSUME NEW z \in Arrays, life'[z] = "live", NEW p \in Items(vector'[z]), p # Null
        PROVE  p = Literal(p.text) \/ p \in Items(stored'[z])
    <3>1. PICK w \in Arrays : /\ life[w] = "live" /\ vector'[z] = vector[w]
                              /\ stored'[z] = stored[w]
      BY <2>1, <2>2 DEF Inv, TypeOK
    <3> QED BY <3>1, <2>2 DEF Owned, Owns
  <2> QED BY <2>2 DEF Owned, Owns, Items
<1>6. ASSUME NEW x \in Arrays, Destroy(x) PROVE Owned'
  BY <1>6, BecomesKeepsOwned DEF Destroy
<1>7. CASE UNCHANGED vars
  BY <1>7 DEF vars, Owned, Owns, Items
<1>8. \A call \in {"throw", "erase", "copy", "assign", "moveAssign", "swap", "useMoved"} :
        ~Calling(call)
  BY DEF Calling, SafeProgram, SafeCalls
<1> QED BY <1>2, <1>3, <1>4, <1>5, <1>6, <1>7, <1>8
        DEF Next, AppendThrowsStoring, AppendThrowsInserting, EraseAppended, CopyConstruct,
            CopyAssign, MoveAssign, Swap, UseMoved

(* A string an array owns is a live string. *)
LEMMA OwnedIsSound ==
  ASSUME Inv, Owned PROVE PointersSound
<1>1. ASSUME NEW x \in Arrays, life[x] = "live",
             NEW i \in DOMAIN vector[x], vector[x][i] # Null
      PROVE  Sound(vector[x][i])
  <2>1. vector[x][i] \in Items(vector[x])
    BY DEF Items
  <2>2. Owns(x, vector[x][i])
    BY <2>1, <1>1 DEF Owned
  <2> QED BY <2>2 DEF Owns, Sound, Held
<1> QED BY <1>1 DEF PointersSound

(* A program that keeps to the calls of SafeProgram, as yiqi's own relaunch  *)
(* does, never has a dangling pointer in an array, however many arrays it    *)
(* has and however much it appends to them.                                  *)
THEOREM SafeProgramsSound ==
  ASSUME SafeProgram
  PROVE  Spec => []PointersSound
<1>1. Init => Inv /\ Owned
  <2>1. Init => Owned
    BY DEF Init, Owned
  <2> QED BY <2>1, InitInv
<1>2. Inv /\ Owned /\ [Next]_vars => (Inv /\ Owned)'
  BY ConstantsAssumption, SafeProgram, NextKeepsInv, NextKeepsOwned
<1>3. Inv /\ Owned => PointersSound
  BY OwnedIsSound
<1> QED BY <1>1, <1>2, <1>3, PTL DEF Spec

(***************************************************************************)
(* Programs that pass one string at a time, whose appends may fail and be  *)
(* undone.  Undoing one erases the last string, and the last pointer only  *)
(* when it is to that string: that no pointer to it is left takes more     *)
(* than that an array owns what it points at.                              *)
(***************************************************************************)

(* The pointers of an array are to literals or to strings of its own, each to *)
(* a string of its own and all in the strings' order: f says to which, and 0  *)
(* is a literal.                                                              *)
Pairs(f, v, s) ==
  /\ f \in [1 .. Len(v) - 1 -> 0 .. Len(s)]
  /\ \A i \in 1 .. Len(v) - 1 : v[i] = IF f[i] = 0 THEN Literal(v[i].text) ELSE s[f[i]]
  /\ \A i, j \in 1 .. Len(v) - 1 : i < j => f[i] = 0 \/ f[i] < f[j]
Paired(v, s) == \E f : Pairs(f, v, s)
InPairs == \A x \in Arrays : life[x] = "live" => Paired(vector[x], stored[x])

(* What a vector is after pointers were inserted before its last. *)
LEMMA InsertedPointers ==
  ASSUME NEW v \in Vectors, NEW ptrs \in Seq(Pointer), Null \notin Pointer
  PROVE  LET w == InsertBeforeLast(v, ptrs)
         IN  /\ Len(w) = Len(v) + Len(ptrs) /\ Len(ptrs) \in Nat
             /\ \A i \in 1 .. Len(v) - 1 : w[i] = v[i]
             /\ \A i \in 1 .. Len(ptrs) : w[Len(v) - 1 + i] = ptrs[i]
<1> DEFINE S == Pointer \cup {Null}
           head == SubSeq(v, 1, Len(v) - 1)
           w == InsertBeforeLast(v, ptrs)
<1>1. v \in Seq(S) /\ Len(v) \in Nat /\ Len(v) >= 1 /\ v[Len(v)] = Null
  BY VectorShape
<1>2. /\ head \in Seq(S) /\ Len(head) = Len(v) - 1
      /\ \A i \in 1 .. Len(v) - 1 : head[i] = v[i]
  <2> DEFINE k == Len(v) - 1
  <2>1. k \in Nat /\ \A i \in 1 .. k : v[i] \in S
    BY <1>1, ElementOfSeq
  <2> HIDE DEF k, S
  <2>2. 1 \in Int /\ k \in Int
    BY <2>1
  <2>3. /\ SubSeq(v, 1, k) \in Seq(S)
        /\ Len(SubSeq(v, 1, k)) = IF 1 <= k THEN k - 1 + 1 ELSE 0
        /\ \A i \in 1 .. k - 1 + 1 : SubSeq(v, 1, k)[i] = v[1 + i - 1]
    BY <2>1, <2>2, SubSeqProperties
  <2>4. /\ SubSeq(v, 1, k) \in Seq(S) /\ Len(SubSeq(v, 1, k)) = k
        /\ \A i \in 1 .. k : SubSeq(v, 1, k)[i] = v[i]
    BY <2>1, <2>3
  <2> QED BY <2>4 DEF k
<1>3. ptrs \in Seq(S) /\ Len(ptrs) \in Nat
  BY SeqMonotonic, LenProperties
<1>4. <<Null>> \in Seq(S) /\ Len(<<Null>>) = 1
  OBVIOUS
<1>5. w = (head \o ptrs) \o <<Null>>
  BY <1>1 DEF InsertBeforeLast
<1> HIDE DEF head, w, S
<1>6. /\ head \o ptrs \in Seq(S) /\ Len(head \o ptrs) = Len(head) + Len(ptrs)
      /\ \A i \in 1 .. Len(head) + Len(ptrs) :
           (head \o ptrs)[i] = IF i <= Len(head) THEN head[i] ELSE ptrs[i - Len(head)]
  BY <1>2, <1>3, ConcatProperties
<1> DEFINE both == head \o ptrs
<1>7. /\ both \in Seq(S) /\ Len(both) = Len(v) - 1 + Len(ptrs) /\ w = both \o <<Null>>
      /\ \A i \in 1 .. Len(v) - 1 + Len(ptrs) :
           both[i] = IF i <= Len(v) - 1 THEN head[i] ELSE ptrs[i - (Len(v) - 1)]
  BY <1>2, <1>5, <1>6
<1> HIDE DEF both
<1>8. /\ Len(both \o <<Null>>) = Len(both) + 1
      /\ \A i \in 1 .. Len(both) + 1 :
           (both \o <<Null>>)[i] = IF i <= Len(both) THEN both[i] ELSE <<Null>>[i - Len(both)]
  BY <1>4, <1>7, ConcatProperties
<1>9. /\ Len(w) = Len(both) + 1 /\ Len(both) \in Nat
      /\ \A i \in 1 .. Len(both) : w[i] = both[i]
  BY <1>1, <1>3, <1>7, <1>8
<1>10. Len(w) = Len(v) + Len(ptrs)
  BY <1>1, <1>3, <1>7, <1>9
<1>11. \A i \in 1 .. Len(v) - 1 : w[i] = v[i]
  BY <1>1, <1>2, <1>3, <1>7, <1>9
<1>12. \A i \in 1 .. Len(ptrs) : w[Len(v) - 1 + i] = ptrs[i]
  BY <1>1, <1>3, <1>7, <1>9
<1> QED BY <1>3, <1>10, <1>11, <1>12 DEF w

(* One pointer, to a string after those that were there, keeps the order. *)
LEMMA OneMorePair ==
  ASSUME NEW v \in Vectors, NEW s \in Seq(StoredString), Null \notin Pointer,
         NEW n \in Nat, Len(s) = n + 1, NEW t, NEW p,
         Len(t) = n, \A i \in 1 .. n : s[i] = t[i], Paired(v, t),
         p \in Seq(Pointer), Len(p) = 1, p[1] = s[n + 1]
  PROVE  Paired(InsertBeforeLast(v, p), s)
<1> DEFINE L == Len(v)
           w == InsertBeforeLast(v, p)
<1>1. L \in Nat /\ L >= 1
  BY VectorShape
<1>2. /\ Len(w) = L + 1 /\ \A i \in 1 .. L - 1 : w[i] = v[i]
      /\ w[L] = s[n + 1]
  <2>1. /\ Len(w) = L + 1 /\ \A i \in 1 .. L - 1 : w[i] = v[i]
        /\ \A i \in 1 .. 1 : w[L - 1 + i] = p[i]
    BY InsertedPointers
  <2> HIDE DEF w, L
  <2> QED BY <1>1, <2>1
<1>3. PICK f : Pairs(f, v, t)
  BY DEF Paired
<1>4. /\ f \in [1 .. L - 1 -> 0 .. n]
      /\ \A i \in 1 .. L - 1 : v[i] = IF f[i] = 0 THEN Literal(v[i].text) ELSE t[f[i]]
      /\ \A i, j \in 1 .. L - 1 : i < j => f[i] = 0 \/ f[i] < f[j]
  BY <1>3 DEF Pairs
<1> HIDE DEF L, w
<1> DEFINE g == [i \in 1 .. L |-> IF i = L THEN n + 1 ELSE f[i]]
<1>5. /\ g \in [1 .. L -> 0 .. n + 1] /\ g[L] = n + 1
      /\ \A i \in 1 .. L - 1 : g[i] = f[i] /\ f[i] \in 0 .. n
  BY <1>1, <1>4
<1> HIDE DEF g
<1>6. ASSUME NEW i \in 1 .. L PROVE w[i] = IF g[i] = 0 THEN Literal(w[i].text) ELSE s[g[i]]
  <2>1. CASE i = L
    BY <1>2, <1>5, <2>1
  <2>2. CASE i # L
    <3>1. i \in 1 .. L - 1
      BY <1>1, <2>2
    <3>2. w[i] = v[i] /\ g[i] = f[i] /\ f[i] \in 0 .. n
      BY <1>2, <1>5, <3>1
    <3>3. f[i] # 0 => s[f[i]] = t[f[i]]
      BY <3>2
    <3> QED BY <1>4, <3>1, <3>2, <3>3
  <2> QED BY <2>1, <2>2
<1>7. ASSUME NEW i \in 1 .. L, NEW j \in 1 .. L, i < j PROVE g[i] = 0 \/ g[i] < g[j]
  <2>1. i \in 1 .. L - 1 /\ (j = L \/ j \in 1 .. L - 1)
    BY <1>1, <1>7
  <2> QED BY <1>4, <1>5, <1>7, <2>1
<1>8. Pairs(g, w, s)
  <2>1. Len(w) - 1 = L
    BY <1>1, <1>2
  <2> QED BY <1>5, <1>6, <1>7, <2>1 DEF Pairs
<1> QED BY <1>8 DEF Paired, w

(* Nor does it matter to the others when strings come after theirs. *)
LEMMA MoreStrings ==
  ASSUME NEW v, NEW t, NEW s, NEW n \in Nat, NEW m \in Nat, Len(t) = n, Len(s) = m, n <= m,
         \A i \in 1 .. n : s[i] = t[i], Paired(v, t)
  PROVE  Paired(v, s)
<1>1. PICK f : Pairs(f, v, t)
  BY DEF Paired
<1>2. Pairs(f, v, s)
  BY <1>1 DEF Pairs
<1> QED BY <1>2 DEF Paired

(* Without the last string the last pointer goes, if it was to that; if not,  *)
(* no other was.                                                              *)
LEMMA OnePairLess ==
  ASSUME NEW v \in Vectors, NEW s \in Seq(StoredString), Null \notin Pointer, Paired(v, s),
         NEW n \in Nat, Len(s) = n + 1, NEW t, Len(t) = n, \A i \in 1 .. n : t[i] = s[i],
         NEW w, \/ w = v /\ (Len(v) >= 2 => v[Len(v) - 1] # s[n + 1])
                \/ Len(w) = Len(v) - 1 /\ \A i \in 1 .. Len(v) - 2 : w[i] = v[i]
  PROVE  Paired(w, t)
<1> DEFINE L == Len(v)
<1>1. L \in Nat /\ L >= 1
  BY VectorShape
<1>2. PICK f : Pairs(f, v, s)
  BY DEF Paired
<1>3. /\ f \in [1 .. L - 1 -> 0 .. n + 1]
      /\ \A i \in 1 .. L - 1 : v[i] = IF f[i] = 0 THEN Literal(v[i].text) ELSE s[f[i]]
      /\ \A i, j \in 1 .. L - 1 : i < j => f[i] = 0 \/ f[i] < f[j]
  BY <1>2 DEF Pairs
<1> HIDE DEF L
<1>4. \A i \in 1 .. L - 2 : i \in 1 .. L - 1 /\ L - 1 \in 1 .. L - 1 /\ f[i] \in 0 .. n
  BY <1>1, <1>3
<1>5. CASE w = v /\ (L >= 2 => v[L - 1] # s[n + 1])
  <2>1. ASSUME NEW i \in 1 .. L - 1 PROVE f[i] \in 0 .. n
    <3>1. CASE i = L - 1
      <4>1. f[i] # n + 1
        BY <1>1, <1>3, <1>5, <3>1
      <4> QED BY <4>1, <1>3
    <3>2. CASE i # L - 1
      BY <1>1, <1>4, <3>2
    <3> QED BY <3>1, <3>2
  <2>2. f \in [1 .. L - 1 -> 0 .. n]
    BY <1>3, <2>1
  <2>3. \A i \in 1 .. L - 1 : v[i] = IF f[i] = 0 THEN Literal(v[i].text) ELSE t[f[i]]
    BY <1>3, <2>1
  <2>4. Pairs(f, w, t)
    BY <1>3, <1>5, <2>2, <2>3 DEF Pairs, L
  <2> QED BY <2>4 DEF Paired
<1>6. CASE Len(w) = L - 1 /\ \A i \in 1 .. L - 2 : w[i] = v[i]
  <2> DEFINE g == [i \in 1 .. L - 2 |-> f[i]]
  <2>1. g \in [1 .. L - 2 -> 0 .. n] /\ \A i \in 1 .. L - 2 : g[i] = f[i]
    BY <1>4
  <2> HIDE DEF g
  <2>2. \A i \in 1 .. L - 2 : w[i] = IF g[i] = 0 THEN Literal(w[i].text) ELSE t[g[i]]
    BY <1>3, <1>4, <1>6, <2>1
  <2>3. \A i, j \in 1 .. L - 2 : i < j => g[i] = 0 \/ g[i] < g[j]
    BY <1>3, <1>4, <2>1
  <2>4. Len(w) - 1 = L - 2
    BY <1>1, <1>6
  <2>5. Pairs(g, w, t)
    BY <2>1, <2>2, <2>3, <2>4 DEF Pairs
  <2> QED BY <2>5 DEF Paired
<1> QED BY <1>5, <1>6 DEF L

(* eraseAppended of one string erases the last, and the last pointer when it *)
(* is to that string's characters.                                           *)
LEMMA EraseOne ==
  ASSUME NEW v \in Vectors, Null \notin Pointer, NEW s \in Seq(StoredString),
         NEW block, Len(block) = 1, NEW e, e = Erasure(v, s, block), e.result = "erased"
  PROVE  /\ 1 <= Len(s) /\ 2 <= Len(v) /\ e.strings = <<Len(s), Len(s) + 1>>
         /\ \/ e.vector = v /\ v[Len(v) - 1] # s[Len(s)]
            \/ e.vector = Cut(v, Len(v) - 1, Len(v))
<1> DEFINE n == Len(block)
           L == Len(v)
           firsts == {i \in Len(s) - n + 1 .. Len(s) : s[i].text = block[1].text}
           first == Least(firsts \cup {Len(s) + 1})
           sstops == {m \in 1 .. n - 1 :
                        /\ first + m <= Len(s) + 1
                        /\ first + m = Len(s) + 1 \/ s[first + m].text # block[m + 1].text}
           last == RunEnd(first, Len(s) + 1, n, sstops)
           from == L - (last - first)
           pfirsts == {i \in from .. L : v[i] # Null /\ v[i].addr = s[first].addr}
           pfirst == Least(pfirsts \cup {L + 1})
           pstops == {m \in 1 .. n - 1 :
                        /\ pfirst + m <= L + 1
                        /\ \/ pfirst + m = L + 1
                           \/ ~(v[pfirst + m] # Null /\ v[pfirst + m].addr = block[m + 1].addr)}
           plast == RunEnd(pfirst, L + 1, n, pstops)
           erased == [result  |-> "erased",
                      vector  |-> IF pfirst > L THEN v ELSE Cut(v, pfirst, plast),
                      strings |-> <<first, last>>]
<1>1. e = IF n > Len(s) THEN [result |-> "undefined"]
          ELSE IF first > Len(s) THEN [result |-> "nothing"]
          ELSE IF last > Len(s) + 1 \/ from < 1 THEN [result |-> "undefined"]
          ELSE erased
  BY DEF Erasure, FirstFrom, RangeEnd
<1>2. /\ ~(n > Len(s)) /\ ~(first > Len(s)) /\ ~(from < 1)
      /\ e.vector = IF pfirst > L THEN v ELSE Cut(v, pfirst, plast)
      /\ e.strings = <<first, last>>
  <2> DEFINE none == [result |-> "nothing"]
             undef == [result |-> "undefined"]
  <2>1. e # none /\ e # undef
    OBVIOUS
  <2>2. /\ erased.vector = IF pfirst > L THEN v ELSE Cut(v, pfirst, plast)
        /\ erased.strings = <<first, last>>
    OBVIOUS
  <2>3. e = IF n > Len(s) THEN undef
            ELSE IF first > Len(s) THEN none
            ELSE IF last > Len(s) + 1 \/ from < 1 THEN undef ELSE erased
    BY <1>1
  <2> HIDE DEF n, L, first, last, from, pfirst, plast, none, undef, erased
  <2>4. ~(n > Len(s)) /\ ~(first > Len(s)) /\ ~(from < 1)
    BY <2>1, <2>3
  <2>5. e = erased
    BY <2>1, <2>3
  <2> QED BY <2>2, <2>4, <2>5
<1>3. /\ L \in Nat /\ L >= 1 /\ v[L] = Null /\ n = 1 /\ Len(s) \in Nat
      /\ \A i \in 1 .. L - 1 : v[i] # Null
  BY VectorShape, LenProperties
<1>4. 1 .. n - 1 = {}
  BY <1>3
<1>5. sstops = {} /\ pstops = {}
  <2> HIDE DEF first, pfirst, n, L
  <2> QED BY <1>4
<1> HIDE DEF n, L, firsts, sstops, pstops
<1>6. last = first + 1 /\ plast = pfirst + 1
  <2> HIDE DEF first, pfirst
  <2> QED BY <1>3, <1>5 DEF RunEnd
<1> HIDE DEF last, plast
<1>7. first = Len(s) /\ 1 <= Len(s)
  <2>1. firsts \in SUBSET {Len(s)}
    BY <1>3 DEF firsts
  <2>2. firsts \cup {Len(s) + 1} \in SUBSET (0 .. Len(s) + 1) /\ Len(s) + 1 \in Nat
    BY <1>3, <2>1
  <2>3. first \in firsts \cup {Len(s) + 1}
    BY <2>2, LeastIsLeast
  <2> HIDE DEF first
  <2>4. first # Len(s) + 1
    BY <1>2, <1>3
  <2> QED BY <1>2, <1>3, <2>1, <2>3, <2>4
<1> HIDE DEF first
<1>8. from = L - 1 /\ 2 <= L
  <2>1. from = L - 1
    BY <1>3, <1>6, <1>7
  <2> HIDE DEF from
  <2> QED BY <1>2, <1>3, <2>1
<1> HIDE DEF from
<1>9. pfirsts \in SUBSET {L - 1}
  <2>1. \A i \in L - 1 .. L : i = L - 1 \/ i = L
    BY <1>3
  <2> QED BY <1>3, <1>8, <2>1
<1>10. /\ pfirst \in pfirsts \cup {L + 1}
       /\ \A i \in pfirsts \cup {L + 1} : pfirst <= i
  <2> HIDE DEF pfirsts
  <2>1. pfirsts \cup {L + 1} \in SUBSET (0 .. L + 1) /\ L + 1 \in Nat
    BY <1>3, <1>9
  <2> QED BY <2>1, LeastIsLeast
<1>11. CASE L - 1 \in pfirsts
  <2> HIDE DEF pfirst, pfirsts
  <2>1. pfirst = L - 1
    BY <1>3, <1>9, <1>10, <1>11
  <2>2. e.vector = Cut(v, L - 1, L)
    BY <1>2, <1>3, <1>6, <2>1
  <2> QED BY <1>2, <1>6, <1>7, <1>8, <2>2 DEF L
<1>12. CASE L - 1 \notin pfirsts
  <2>1. v[L - 1] # s[Len(s)]
    <3>1. L - 1 \in from .. L /\ v[L - 1] # Null
      BY <1>3, <1>8
    <3>2. v[L - 1].addr # s[first].addr
      BY <1>12, <3>1
    <3> QED BY <3>2, <1>7
  <2> HIDE DEF pfirst, pfirsts
  <2>2. pfirst = L + 1
    BY <1>9, <1>10, <1>12
  <2>3. e.vector = v
    BY <1>2, <1>3, <2>2
  <2> QED BY <1>2, <1>6, <1>7, <1>8, <2>1, <2>3 DEF L
<1> QED BY <1>11, <1>12

(* The strings before the last stay where they are. *)
LEMMA ShrunkOne ==
  ASSUME NEW x \in Arrays, NEW s \in Seq(StoredString), 1 <= Len(s),
         NEW left \in Shrunk(x, s, Len(s), Len(s) + 1)
  PROVE  Len(left) = Len(s) - 1 /\ \A i \in 1 .. Len(s) - 1 : left[i] = s[i]
<1> DEFINE first == Len(s)
           last == Len(s) + 1
           From(j) == IF j < first THEN j ELSE j + last - first
           n == Len(s) - (last - first)
           texts == [j \in 1 .. n |-> s[From(j)].text]
           keep == [j \in {i \in DOMAIN texts : i < first \/ Travels(texts[i])}
                      |-> s[From(j)].addr]
           held == Held(Arrays \ {x}) \cup {s[From(j)] : j \in DOMAIN keep}
<1>1. left \in Placed(texts, keep, held)
  BY DEF Shrunk
<1>2. Len(s) \in Nat /\ \A i \in 1 .. Len(s) : s[i] \in StoredString
  BY LenProperties, ElementOfSeq
<1>3. n = Len(s) - 1 /\ n \in Nat /\ \A j \in 1 .. n : From(j) = j /\ j < first /\ j \in 1 .. Len(s)
  BY <1>2
<1> HIDE DEF n, first, last
<1>4. /\ DOMAIN texts = 1 .. n /\ DOMAIN keep = 1 .. n
      /\ \A j \in 1 .. n : texts[j] = s[j].text /\ keep[j] = s[j].addr
  BY <1>3
<1>5. texts \in Seq(Text) /\ Len(texts) = n
  <2>1. \A j \in 1 .. n : s[j].text \in Text
    BY <1>2, <1>3 DEF StoredString
  <2>2. texts \in [1 .. n -> Text]
    BY <1>4, <2>1
  <2> HIDE DEF texts
  <2> QED BY <1>3, <2>2, FunctionIsSeq
<1> HIDE DEF texts, keep, held, From
<1>6. DOMAIN keep \subseteq DOMAIN texts /\ \A j \in DOMAIN keep : keep[j] \in Addr
  <2>1. \A j \in 1 .. n : s[j].addr \in Addr
    BY <1>2, <1>3 DEF StoredString
  <2> QED BY <1>4, <2>1
<1>7. /\ left \in Seq(StoredString) /\ Len(left) = n
      /\ \A j \in 1 .. n : left[j].text = s[j].text /\ left[j].addr = s[j].addr
  BY <1>1, <1>4, <1>5, <1>6, PlacedStrings
<1>8. ASSUME NEW j \in 1 .. n PROVE left[j] = s[j]
  <2>1. left[j] \in StoredString /\ s[j] \in StoredString
    BY <1>2, <1>3, <1>7, ElementOfSeq
  <2> QED BY <1>7, <2>1 DEF StoredString
<1> QED BY <1>3, <1>7, <1>8

(* What a vector is without its last pointer. *)
LEMMA CutOne ==
  ASSUME NEW v \in Vectors, Null \notin Pointer, 2 <= Len(v)
  PROVE  LET w == Cut(v, Len(v) - 1, Len(v))
         IN  Len(w) = Len(v) - 1 /\ \A i \in 1 .. Len(v) - 2 : w[i] = v[i]
<1> DEFINE S == Pointer \cup {Null}
           k == Len(v) - 2
           head == SubSeq(v, 1, k)
           tail == SubSeq(v, Len(v), Len(v))
<1>1. v \in Seq(S) /\ Len(v) \in Nat
  BY VectorShape
<1>2. k \in Nat /\ Len(v) = k + 2 /\ Len(v) - 1 - 1 = k /\ \A i \in 1 .. Len(v) : v[i] \in S
  <2>1. \A i \in 1 .. Len(v) : v[i] \in S
    BY <1>1, ElementOfSeq
  <2> HIDE DEF S
  <2> QED BY <1>1, <2>1
<1> HIDE DEF S, k
<1>3. head \in Seq(S) /\ Len(head) = k /\ \A i \in 1 .. k : head[i] = v[i]
  <2>1. 1 \in Int /\ k \in Int /\ \A i \in 1 .. k : v[i] \in S
    BY <1>2
  <2>2. /\ SubSeq(v, 1, k) \in Seq(S)
        /\ Len(SubSeq(v, 1, k)) = IF 1 <= k THEN k - 1 + 1 ELSE 0
        /\ \A i \in 1 .. k - 1 + 1 : SubSeq(v, 1, k)[i] = v[1 + i - 1]
    BY <2>1, SubSeqProperties
  <2> QED BY <1>2, <2>2
<1>4. tail \in Seq(S) /\ Len(tail) = 1
  <2>1. Len(v) \in Int /\ \A i \in Len(v) .. Len(v) : v[i] \in S
    BY <1>1, <1>2
  <2>2. /\ SubSeq(v, Len(v), Len(v)) \in Seq(S)
        /\ Len(SubSeq(v, Len(v), Len(v))) = IF Len(v) <= Len(v) THEN Len(v) - Len(v) + 1 ELSE 0
    BY <2>1, SubSeqProperties
  <2> QED BY <1>1, <2>2
<1>5. Cut(v, Len(v) - 1, Len(v)) = head \o tail
  BY <1>2 DEF Cut
<1> HIDE DEF head, tail
<1>6. /\ Len(head \o tail) = Len(head) + Len(tail)
      /\ \A i \in 1 .. Len(head) + Len(tail) :
           (head \o tail)[i] = IF i <= Len(head) THEN head[i] ELSE tail[i - Len(head)]
  BY <1>3, <1>4, ConcatProperties
<1>7. Len(head \o tail) = Len(v) - 1
  BY <1>2, <1>3, <1>4, <1>6
<1>8. \A i \in 1 .. Len(v) - 2 : (head \o tail)[i] = v[i]
  BY <1>2, <1>3, <1>4, <1>6
<1> QED BY <1>5, <1>7, <1>8

(* eraseAppended of one string leaves pointers and strings in pairs. *)
LEMMA ErasesAPair ==
  ASSUME NEW x \in Arrays, NEW v \in Vectors, Null \notin Pointer,
         NEW s \in Seq(StoredString), Paired(v, s),
         NEW block, Len(block) = 1, NEW e, e = Erasure(v, s, block), e.result = "erased",
         NEW left \in Shrunk(x, s, e.strings[1], e.strings[2])
  PROVE  Paired(e.vector, left)
<1>1. /\ 1 <= Len(s) /\ 2 <= Len(v) /\ e.strings = <<Len(s), Len(s) + 1>>
      /\ \/ e.vector = v /\ v[Len(v) - 1] # s[Len(s)]
         \/ e.vector = Cut(v, Len(v) - 1, Len(v))
  BY EraseOne
<1>2. left \in Shrunk(x, s, Len(s), Len(s) + 1)
  BY <1>1
<1>3. Len(left) = Len(s) - 1 /\ \A i \in 1 .. Len(s) - 1 : left[i] = s[i]
  BY <1>1, <1>2, ShrunkOne
<1> DEFINE n == Len(s) - 1
<1>4. n \in Nat /\ Len(s) = n + 1
  BY <1>1, LenProperties
<1>5. \/ e.vector = v /\ (Len(v) >= 2 => v[Len(v) - 1] # s[n + 1])
      \/ /\ Len(e.vector) = Len(v) - 1
         /\ \A i \in 1 .. Len(v) - 2 : e.vector[i] = v[i]
  <2>1. CASE e.vector = v /\ v[Len(v) - 1] # s[Len(s)]
    BY <1>4, <2>1
  <2>2. CASE e.vector = Cut(v, Len(v) - 1, Len(v))
    BY <1>1, <2>2, CutOne
  <2> QED BY <1>1, <2>1, <2>2
<1>6. Len(left) = n /\ \A i \in 1 .. n : left[i] = s[i]
  BY <1>3
<1> HIDE DEF n
<1> QED BY <1>4, <1>5, <1>6, OnePairLess

(* An array whose pointers and strings are in pairs after a call leaves all   *)
(* of them so, since no other array is touched.                               *)
LEMMA BecomesKeepsPairs ==
  ASSUME Inv, InPairs, NEW x \in Arrays, NEW state, NEW v, NEW s,
         Becomes(x, state, v, s), state = "live" => Paired(v, s)
  PROVE  InPairs'
<1>1. /\ life' = [life EXCEPT ![x] = state]
      /\ vector' = [vector EXCEPT ![x] = v]
      /\ stored' = [stored EXCEPT ![x] = s]
  BY DEF Becomes
<1>2. ASSUME NEW y \in Arrays, life'[y] = "live" PROVE Paired(vector'[y], stored'[y])
  <2>1. CASE y = x
    BY <2>1, <1>1, <1>2 DEF Inv, TypeOK
  <2>2. CASE y # x
    <3>1. life[y] = "live" /\ vector'[y] = vector[y] /\ stored'[y] = stored[y]
      BY <2>2, <1>1, <1>2 DEF Inv, TypeOK
    <3> QED BY <3>1 DEF InPairs
  <2> QED BY <2>1, <2>2
<1> QED BY <1>2 DEF InPairs

(* So does the end of eraseAppended, of one string. *)
LEMMA EraseKeepsPairs ==
  ASSUME Inv, InPairs, ConstantsAssumption, NEW x \in Arrays,
         NEW v \in Vectors, NEW s \in Seq(StoredString), Paired(v, s),
         NEW block, Len(block) = 1, Erase(x, v, s, block)
  PROVE  InPairs'
<1> DEFINE e == Erasure(v, s, block)
<1>1. CASE UndefinedBehaviour
  BY <1>1 DEF UndefinedBehaviour, InPairs
<1>2. CASE Becomes(x, "live", v, s)
  BY <1>2, BecomesKeepsPairs
<1>3. ASSUME e.result = "erased",
             NEW left \in Shrunk(x, s, e.strings[1], e.strings[2]),
             Becomes(x, "live", e.vector, left)
      PROVE  InPairs'
  <2>1. Paired(e.vector, left)
    BY <1>3, PointersInMemory, ErasesAPair
  <2> HIDE DEF e
  <2> QED BY <1>3, <2>1, BecomesKeepsPairs
<1> QED BY <1>1, <1>2, <1>3 DEF Erase

(* Positions of a sequence can be counted. *)
LEMMA PositionsCount ==
  ASSUME NEW l \in Nat, NEW kept \in SUBSET (1 .. l)
  PROVE  Cardinality(kept) \in Nat
<1>1. IsFiniteSet(1 .. l)
  BY FS_Interval
<1> QED BY <1>1, FS_Subset, FS_CardinalityType

(* What is filtered out of the pointers leaves the others in their order. *)
LEMMA FilterKeepsPairs ==
  ASSUME NEW v \in Vectors, Null \notin Pointer, NEW s, Paired(v, s),
         NEW w \in Vectors, NEW n \in Nat, Len(w) = n, NEW f \in [1 .. n -> 1 .. Len(v)],
         \A i, j \in 1 .. n : i < j => f[i] < f[j],
         \A i \in 1 .. n : w[i] = v[f[i]]
  PROVE  Paired(w, s)
<1> DEFINE L == Len(v)
<1>1. L \in Nat /\ L >= 1 /\ v[L] = Null
  BY VectorShape
<1>2. n >= 1 /\ \A i \in 1 .. n - 1 : w[i] # Null
  <2>1. Len(w) \in Nat \ {0} /\ \A i \in 1 .. Len(w) - 1 : w[i] \in Pointer
    BY VectorShape
  <2>2. n >= 1 /\ \A i \in 1 .. n - 1 : w[i] \in Pointer
    BY <2>1
  <2> QED BY <2>2
<1>3. \A i \in 1 .. n : f[i] \in 1 .. L
  OBVIOUS
<1> HIDE DEF L
<1>4. ASSUME NEW i \in 1 .. n - 1 PROVE i \in 1 .. n /\ f[i] \in 1 .. L - 1
  <2>1. i \in 1 .. n /\ f[i] # L
    BY <1>1, <1>2
  <2> QED BY <1>1, <1>3, <2>1
<1>5. PICK h : Pairs(h, v, s)
  BY DEF Paired
<1>6. /\ h \in [1 .. L - 1 -> 0 .. Len(s)]
      /\ \A i \in 1 .. L - 1 : v[i] = IF h[i] = 0 THEN Literal(v[i].text) ELSE s[h[i]]
      /\ \A i, j \in 1 .. L - 1 : i < j => h[i] = 0 \/ h[i] < h[j]
  BY <1>5 DEF Pairs, L
<1> DEFINE g == [i \in 1 .. n - 1 |-> h[f[i]]]
<1>7. /\ g \in [1 .. n - 1 -> 0 .. Len(s)]
      /\ \A i \in 1 .. n - 1 : g[i] = h[f[i]]
  BY <1>4, <1>6
<1> HIDE DEF g
<1>8. \A i \in 1 .. n - 1 : w[i] = IF g[i] = 0 THEN Literal(w[i].text) ELSE s[g[i]]
  BY <1>4, <1>6, <1>7
<1>9. ASSUME NEW i \in 1 .. n - 1, NEW j \in 1 .. n - 1, i < j PROVE g[i] = 0 \/ g[i] < g[j]
  <2>1. f[i] < f[j]
    BY <1>4, <1>9
  <2> QED BY <1>4, <1>6, <1>7, <2>1
<1>10. Pairs(g, w, s)
  BY <1>7, <1>8, <1>9 DEF Pairs
<1> QED BY <1>10 DEF Paired

(* append of one string leaves the others where they are. *)
LEMMA AppendOne ==
  ASSUME Inv, ConstantsAssumption, SingleProgram, NEW x \in Arrays,
         NEW texts \in Blocks, MayAppend(x, texts), NEW s \in Grown(x, texts)
  PROVE  LET new == SubSeq(s, Len(stored[x]) + 1, Len(s))
         IN  /\ Len(texts) = 1 /\ s \in Seq(StoredString)
             /\ Len(stored[x]) \in Nat /\ Len(s) = Len(stored[x]) + 1
             /\ \A j \in 1 .. Len(stored[x]) : s[j] = stored[x][j]
             /\ new \in Seq(StoredString) /\ Len(new) = 1 /\ new[1] = s[Len(stored[x]) + 1]
<1> DEFINE old == stored[x]
           k == Len(old) + 1
           new == SubSeq(s, k, Len(s))
<1>1. life[x] = "live" /\ (AppendsOnce => old = <<>>)
  BY DEF MayAppend
<1>2. old \in Seq(StoredString) /\ Len(old) \in Nat
  BY <1>1, LiveVectors, LenProperties
<1>3. texts \in Seq(Text) /\ Len(texts) = 1
  <2>1. PICK n \in 1 .. MaxBlock : texts \in [1 .. n -> Text]
    BY DEF Blocks
  <2>2. n = 1
    BY <2>1 DEF SingleProgram, ConstantsAssumption
  <2> QED BY <2>1, <2>2, FunctionIsSeq
<1>4. /\ s \in Seq(StoredString) /\ Len(s) = Len(old) + Len(texts)
      /\ \A j \in 1 .. Len(old) : Travels(old[j].text) => s[j] = old[j]
  BY <1>2, <1>3, GrownStrings
<1>5. \A j \in 1 .. Len(old) : s[j] = old[j]
  <2>1. CASE AppendsOnce
    <3>1. old = <<>> /\ Len(<<>>) = 0
      BY <1>1, <2>1
    <3>2. 1 .. Len(old) = {}
      BY <3>1
    <3> QED BY <3>2
  <2>2. CASE SharedStrings \/ Inline = {}
    BY <2>2, <1>4 DEF Travels
  <2> QED BY <2>1, <2>2 DEF SingleProgram
<1> HIDE DEF old
<1>6. Len(s) = k /\ k \in Nat /\ k >= 1
  BY <1>2, <1>3, <1>4
<1>7. new \in Seq(StoredString) /\ Len(new) = 1 /\ new[1] = s[k]
  <2> DEFINE l == Len(s)
  <2>1. l = k /\ k \in Int /\ l \in Int
    BY <1>6
  <2>2. \A i \in k .. l : s[i] \in StoredString
    BY <1>4, <1>6, ElementOfSeq
  <2> HIDE DEF k, l
  <2>3. /\ SubSeq(s, k, l) \in Seq(StoredString)
        /\ Len(SubSeq(s, k, l)) = IF k <= l THEN l - k + 1 ELSE 0
        /\ \A i \in 1 .. l - k + 1 : SubSeq(s, k, l)[i] = s[k + i - 1]
    BY <2>1, <2>2, SubSeqProperties
  <2>4. k <= l /\ l - k + 1 = 1 /\ 1 \in 1 .. 1 /\ k + 1 - 1 = k
    BY <2>1
  <2> QED BY <2>3, <2>4 DEF l
<1> QED BY <1>2, <1>3, <1>4, <1>5, <1>6, <1>7 DEF old

(* Each call of a program of single strings leaves every array's pointers and *)
(* strings in pairs, those that throw included.                               *)
LEMMA NextKeepsPairs ==
  ASSUME Inv, InPairs, ConstantsAssumption, SingleProgram, [Next]_vars
  PROVE  InPairs'
<1>1. Null \notin Pointer /\ StoredString \subseteq Pointer /\ MaxBlock \in Nat
  BY PointersInMemory
<1>2. ASSUME NEW x \in Arrays, life[x] = "live"
      PROVE  /\ vector[x] \in Vectors /\ stored[x] \in Seq(StoredString)
             /\ Paired(vector[x], stored[x])
  BY <1>2, LiveVectors DEF InPairs
<1>3. ASSUME NEW x \in Arrays, NEW texts \in Environs, Construct(x, texts)
      PROVE  InPairs'
  <2> DEFINE ptrs == [i \in DOMAIN texts |-> Literal(texts[i])]
             n == Len(texts)
             v == ptrs \o <<Null>>
             f == [i \in 1 .. n |-> 0]
  <2>1. texts \in Seq(Text) /\ DOMAIN texts = 1 .. n /\ n \in Nat
    BY LenProperties DEF ConstantsAssumption
  <2>2. \A i \in 1 .. n : texts[i] \in Text
    BY <2>1, ElementOfSeq
  <2>3. /\ ptrs \in [1 .. n -> Pointer]
        /\ \A i \in 1 .. n : ptrs[i] = Literal(ptrs[i].text)
    BY <2>1, <2>2, PointersInMemory DEF Literal
  <2>4. Becomes(x, "live", v, <<>>)
    BY <1>3 DEF Construct
  <2> HIDE DEF ptrs, n
  <2>5. ptrs \in Seq(Pointer) /\ Len(ptrs) = n /\ <<Null>> \in Seq(Pointer \cup {Null})
    BY <2>1, <2>3, FunctionIsSeq
  <2>6. ptrs \in Seq(Pointer \cup {Null})
    BY <2>5, SeqMonotonic
  <2>7. /\ Len(v) = Len(ptrs) + Len(<<Null>>)
        /\ \A i \in 1 .. Len(ptrs) + Len(<<Null>>) :
             v[i] = IF i <= Len(ptrs) THEN ptrs[i] ELSE <<Null>>[i - Len(ptrs)]
    BY <2>5, <2>6, ConcatProperties
  <2>8. Len(v) - 1 = n /\ \A i \in 1 .. n : v[i] = ptrs[i]
    BY <2>1, <2>5, <2>7
  <2>9. f \in [1 .. n -> 0 .. Len(<<>>)] /\ \A i \in 1 .. n : f[i] = 0
    OBVIOUS
  <2> HIDE DEF v, f
  <2>10. Pairs(f, v, <<>>)
    BY <2>3, <2>8, <2>9 DEF Pairs
  <2>11. Paired(v, <<>>)
    BY <2>10 DEF Paired
  <2> QED BY <2>4, <2>11, BecomesKeepsPairs
<1>4. ASSUME NEW x \in Arrays, NEW texts \in Blocks, AppendValues(x, texts)
      PROVE  InPairs'
  <2> DEFINE new(s) == SubSeq(s, Len(stored[x]) + 1, Len(s))
             n == Len(stored[x])
  <2>1. PICK s \in Grown(x, texts) :
          Becomes(x, "live", InsertBeforeLast(vector[x], new(s)), s)
    BY <1>4 DEF AppendValues
  <2>2. MayAppend(x, texts) /\ life[x] = "live"
    BY <1>4 DEF AppendValues, MayAppend
  <2>3. /\ s \in Seq(StoredString) /\ n \in Nat /\ Len(s) = n + 1
        /\ \A j \in 1 .. n : s[j] = stored[x][j]
        /\ new(s) \in Seq(StoredString) /\ Len(new(s)) = 1 /\ new(s)[1] = s[n + 1]
    BY <2>1, <2>2, AppendOne
  <2>4. /\ vector[x] \in Vectors /\ Len(stored[x]) = n
        /\ Paired(vector[x], stored[x])
    BY <1>2, <2>2
  <2> HIDE DEF new, n
  <2>5. new(s) \in Seq(Pointer)
    BY <1>1, <2>3, SeqMonotonic
  <2>6. Paired(InsertBeforeLast(vector[x], new(s)), s)
    BY <1>1, <2>3, <2>4, <2>5, OneMorePair
  <2> QED BY <2>1, <2>6, BecomesKeepsPairs
<1>5. ASSUME NEW x \in Arrays, NEW texts \in Blocks,
             AppendThrowsStoring(x, texts) \/ EraseAppended(x, texts)
      PROVE  InPairs'
  <2>1. Len(texts) = 1
    <3>1. PICK n \in 1 .. MaxBlock : texts \in [1 .. n -> Text]
      BY DEF Blocks
    <3>2. n = 1
      BY <1>1, <3>1 DEF SingleProgram
    <3> QED BY <3>1, <3>2, FunctionIsSeq
  <2>2. PICK block \in Callers(texts) : Erase(x, vector[x], stored[x], block)
    <3>1. 1 .. Len(texts) - 1 = {}
      BY <2>1
    <3> QED BY <1>5, <3>1 DEF AppendThrowsStoring, EraseAppended
  <2>3. life[x] = "live"
    BY <1>5 DEF AppendThrowsStoring, EraseAppended, MayAppend
  <2>4. Len(block) = 1
    BY <1>1, <2>1, CallersBlocks
  <2> QED BY <1>2, <2>2, <2>3, <2>4, EraseKeepsPairs
<1>6. ASSUME NEW x \in Arrays, NEW texts \in Blocks, AppendThrowsInserting(x, texts)
      PROVE  InPairs'
  <2> DEFINE new(s) == SubSeq(s, Len(stored[x]) + 1, Len(s))
             block(s) == CallersOf(texts, new(s))
             n == Len(stored[x])
  <2>1. PICK s \in Grown(x, texts), k \in 0 .. Len(texts) - 1 :
          Erase(x, InsertBeforeLast(vector[x], SubSeq(new(s), 1, k)), s, block(s))
    BY <1>6 DEF AppendThrowsInserting
  <2>2. MayAppend(x, texts) /\ life[x] = "live"
    BY <1>6 DEF AppendThrowsInserting, MayAppend
  <2>3. /\ Len(texts) = 1 /\ s \in Seq(StoredString) /\ n \in Nat /\ Len(s) = n + 1
        /\ \A j \in 1 .. n : s[j] = stored[x][j]
        /\ new(s) \in Seq(StoredString) /\ Len(new(s)) = 1
    BY <2>1, <2>2, AppendOne
  <2>4. DOMAIN texts = 1 .. Len(texts)
    BY <1>1, BlocksAreSeqs
  <2>5. Len(block(s)) = 1
    <3> HIDE DEF new
    <3> QED BY <2>3, <2>4, CallersLength
  <2>6. /\ vector[x] \in Vectors /\ Len(stored[x]) = n
        /\ Paired(vector[x], stored[x])
    BY <1>2, <2>2
  <2> HIDE DEF block, new, n
  <2>7. InsertBeforeLast(vector[x], SubSeq(new(s), 1, k)) = vector[x]
    <3>1. k = 0
      BY <2>1, <2>3
    <3>2. SubSeq(new(s), 1, k) = <<>>
      BY <3>1, SubSeqEmpty
    <3> DEFINE head == SubSeq(vector[x], 1, Len(vector[x]) - 1)
    <3>3. head \in Seq(Pointer) /\ vector[x] = head \o <<Null>>
      BY <1>1, <2>6, VectorSplits
    <3>4. vector[x][Len(vector[x])] = Null
      BY <1>1, <2>6, VectorShape
    <3> HIDE DEF head
    <3>5. head \o <<>> = head
      BY <3>3, ConcatEmptySeq
    <3> QED BY <3>2, <3>3, <3>4, <3>5 DEF InsertBeforeLast, head
  <2>8. n + 1 \in Nat /\ n <= n + 1
    BY <2>3
  <2>9. Paired(vector[x], s)
    BY <2>3, <2>6, <2>8, MoreStrings
  <2>10. Erase(x, vector[x], s, block(s))
    BY <2>1, <2>7
  <2> QED BY <2>3, <2>5, <2>6, <2>9, <2>10, EraseKeepsPairs
<1>7. ASSUME NEW x \in Arrays, NEW matching \in SUBSET Text, RemoveAnyMatching(x, matching)
      PROVE  InPairs'
  <2> DEFINE kept == {i \in DOMAIN vector[x] :
                        ~(vector[x][i] # Null /\ vector[x][i].text \in matching)}
             n == Cardinality(kept)
  <2>1. life[x] = "live"
    BY <1>7 DEF RemoveAnyMatching
  <2>2. vector[x] \in Vectors /\ Paired(vector[x], stored[x])
    BY <1>2, <2>1
  <2>3. CASE UndefinedBehaviour
    BY <2>3 DEF UndefinedBehaviour, InPairs
  <2>4. ASSUME NEW v \in Filterings(vector[x], LAMBDA p : p # Null /\ p.text \in matching),
               Becomes(x, "live", v, stored[x])
        PROVE  InPairs'
    <3>1. PICK f \in [1 .. n -> kept] :
            /\ \A i, j \in 1 .. n : i < j => f[i] < f[j]
            /\ v = [i \in 1 .. n |-> vector[x][f[i]]]
      BY <2>4 DEF Filterings
    <3>2. kept \in SUBSET (1 .. Len(vector[x])) /\ Len(vector[x]) \in kept
      BY <1>1, <2>2, VectorShape
    <3> HIDE DEF kept
    <3>3. [i \in 1 .. n |-> vector[x][f[i]]] \in Vectors
      BY <1>1, <2>2, <3>1, <3>2, FilterKeepsTerminator
    <3>4. v \in Vectors
      BY <3>1, <3>3
    <3>5. n \in Nat /\ f \in [1 .. n -> 1 .. Len(vector[x])]
      <4> DEFINE l == Len(vector[x])
      <4>1. l \in Nat /\ kept \in SUBSET (1 .. l)
        BY <1>1, <2>2, <3>2, VectorShape
      <4> HIDE DEF l
      <4>2. n \in Nat
        BY <4>1, PositionsCount
      <4> QED BY <3>1, <3>2, <4>2
    <3>6. Len(v) = n /\ \A i \in 1 .. n : v[i] = vector[x][f[i]]
      <4>1. DOMAIN v = 1 .. n /\ \A i \in 1 .. n : v[i] = vector[x][f[i]]
        BY <3>1
      <4>2. DOMAIN v = 1 .. Len(v) /\ Len(v) \in Nat
        BY <1>1, <3>4, VectorShape
      <4> QED BY <3>5, <4>1, <4>2
    <3> HIDE DEF n
    <3>7. Paired(v, stored[x])
      BY <1>1, <2>2, <3>1, <3>4, <3>5, <3>6, FilterKeepsPairs
    <3> QED BY <2>4, <3>7, BecomesKeepsPairs
  <2> QED BY <1>7, <2>3, <2>4 DEF RemoveAnyMatching
<1>8. ASSUME NEW x \in Arrays, NEW y \in Arrays, MoveConstruct(x, y) PROVE InPairs'
  <2>1. /\ x # y /\ life[y] = "live"
        /\ life' = [life EXCEPT ![x] = "live", ![y] = "moved"]
        /\ vector' = [vector EXCEPT ![x] = vector[y], ![y] = <<>>]
        /\ stored' = [stored EXCEPT ![x] = stored[y], ![y] = <<>>]
    BY <1>8 DEF MoveConstruct
  <2>2. ASSUME NEW z \in Arrays, life'[z] = "live" PROVE Paired(vector'[z], stored'[z])
    <3>1. PICK w \in Arrays : /\ life[w] = "live" /\ vector'[z] = vector[w]
                              /\ stored'[z] = stored[w]
      BY <2>1, <2>2 DEF Inv, TypeOK
    <3> QED BY <3>1 DEF InPairs
  <2> QED BY <2>2 DEF InPairs
<1>9. ASSUME NEW x \in Arrays, Destroy(x) PROVE InPairs'
  BY <1>9, BecomesKeepsPairs DEF Destroy
<1>10. CASE UNCHANGED vars
  BY <1>10 DEF vars, InPairs
<1>11. \A call \in {"copy", "assign", "moveAssign", "swap", "useMoved"} : ~Calling(call)
  BY DEF Calling, SingleProgram, SingleCalls, SafeCalls
<1> QED BY <1>3, <1>4, <1>5, <1>6, <1>7, <1>8, <1>9, <1>10, <1>11
        DEF Next, CopyConstruct, CopyAssign, MoveAssign, Swap, UseMoved

(* A pointer in a pair is to a live string. *)
LEMMA PairsAreSound ==
  ASSUME Inv, ConstantsAssumption, InPairs PROVE PointersSound
<1>1. ASSUME NEW x \in Arrays, life[x] = "live",
             NEW i \in DOMAIN vector[x], vector[x][i] # Null
      PROVE  Sound(vector[x][i])
  <2> DEFINE v == vector[x]
             s == stored[x]
  <2>1. v \in Vectors /\ s \in Seq(StoredString)
    BY <1>1, LiveVectors
  <2>2. /\ Len(v) \in Nat /\ DOMAIN v = 1 .. Len(v) /\ v[Len(v)] = Null
        /\ DOMAIN s = 1 .. Len(s)
    BY <2>1, PointersInMemory, VectorShape, LenProperties
  <2>3. i \in 1 .. Len(v) - 1
    BY <1>1, <2>2
  <2>4. PICK f : Pairs(f, v, s)
    BY <1>1 DEF InPairs, Paired
  <2>5. v[i] = Literal(v[i].text) \/ \E j \in DOMAIN s : v[i] = s[j]
    <3>1. /\ f \in [1 .. Len(v) - 1 -> 0 .. Len(s)]
          /\ v[i] = IF f[i] = 0 THEN Literal(v[i].text) ELSE s[f[i]]
      BY <2>3, <2>4 DEF Pairs
    <3>2. Len(s) \in Nat
      BY <2>1, LenProperties
    <3> HIDE DEF v, s
    <3>3. f[i] \in 0 .. Len(s)
      BY <2>3, <3>1
    <3>4. f[i] = 0 \/ f[i] \in DOMAIN s
      BY <2>2, <3>2, <3>3
    <3> QED BY <3>1, <3>4
  <2> QED BY <2>5 DEF Sound, Held, Items
<1> QED BY <1>1 DEF PointersSound

(* A program that passes one string at a time never has a dangling pointer in *)
(* an array either, though its appends fail halfway and it undoes others: what *)
(* eraseAppended erases of the strings it erases of the pointers.              *)
THEOREM SingleProgramsSound ==
  ASSUME SingleProgram
  PROVE  Spec => []PointersSound
<1>1. Init => Inv /\ InPairs
  <2>1. Init => InPairs
    BY DEF Init, InPairs
  <2> QED BY <2>1, InitInv
<1>2. Inv /\ InPairs /\ [Next]_vars => (Inv /\ InPairs)'
  BY ConstantsAssumption, SingleProgram, NextKeepsInv, NextKeepsPairs
<1>3. Inv /\ InPairs => PointersSound
  BY ConstantsAssumption, PairsAreSound
<1> QED BY <1>1, <1>2, <1>3, PTL DEF Spec

=============================================================================
