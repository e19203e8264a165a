---------------------------- MODULE NullTermArray ----------------------------
(***************************************************************************)
(* The class yiqi::commandline::NullTermArray (commandline.cpp): the array *)
(* of char const * that is handed to exec, always terminated by a NULL,    *)
(* which owns the strings appended to it.                                  *)
(*                                                                         *)
(* An array keeps two vectors: vector, the pointers, and stored (the       *)
(* source's storedNewStrings), the std::strings the appended pointers      *)
(* point into.  Nothing ties the two together but the code of append and   *)
(* of eraseAppended, so the model keeps ADDRESSES: a pointer is sound when *)
(* the memory it names still holds the text it was inserted for.           *)
(*                                                                         *)
(* What a std::string does with its characters is the library's:           *)
(*  - SharedStrings = TRUE: reference-counted strings, a copy shares the   *)
(*    characters of the original (the libstdc++ the project was built      *)
(*    with);                                                               *)
(*  - SharedStrings = FALSE: every copy has characters of its own, and a   *)
(*    text of Inline is kept inside the std::string object itself, so it   *)
(*    moves whenever the block that holds the objects does.                *)
(***************************************************************************)
EXTENDS Integers, Sequences, FiniteSets

CONSTANTS
  Arrays,         \* the NullTermArray objects a program has names for
  Text,           \* the contents of strings
  Inline,         \* the texts short enough to be kept inside a std::string
  SharedStrings,  \* whether a copy of a string shares its characters
  Addr,           \* the addresses characters can have in memory the strings own
  Null,           \* the NULL that terminates an array, and the address of nothing
  Environs,       \* the arrays of literals an object can be constructed from
  Calls,          \* the calls the program makes
  AppendsOnce,    \* whether the program appends to an array at most once
  MaxBlock,       \* bound: the strings of one call of append or eraseAppended
  MaxStored,      \* bound: the strings one array holds
  MaxVector       \* bound: the length of one array, terminator included

Pointer == [addr : Addr \cup Text, text : Text]

ASSUME ConstantsAssumption ==
  /\ Inline \subseteq Text
  /\ Addr \cap Text = {}
  /\ {SharedStrings, AppendsOnce} \subseteq BOOLEAN
  /\ Null \notin Pointer \cup Addr \cup Text
  /\ Environs \subseteq Seq(Text)
  /\ {MaxBlock, MaxStored, MaxVector} \subseteq Nat

VARIABLES
  life,       \* "none" (no object), "live", or "moved": priv was taken
  vector,     \* the pointers, NULL last
  stored,     \* the strings the array owns, each with its address
  undefined   \* the program has done something C++ gives no meaning to

vars == <<life, vector, stored, undefined>>

(***************************************************************************)
(* Memory.  A string is an address and the text found there, a pointer is  *)
(* an address and (a ghost) the text it was inserted for: a pointer into   *)
(* an array's own strings is therefore a copy of the string's record, and  *)
(* a literal is its own address.                                           *)
(***************************************************************************)
StoredString == [addr : Addr, text : Text]
Literal(t) == [addr |-> t, text |-> t]

Items(s) == {s[i] : i \in DOMAIN s}
Held(objects) == UNION {Items(stored[x]) : x \in objects}

Travels(t) == SharedStrings \/ t \notin Inline   \* a moved string keeps its address

Sound(p) == p = Literal(p.text) \/ p \in Held(Arrays)

(* The vectors of strings with these texts: the string at j stays at keep[j], *)
(* the others get addresses which no string of held has, or, when they share  *)
(* characters with a string of the caller, that of a string with their text.  *)
Placed(texts, keep, held) ==
  LET new == DOMAIN texts \ DOMAIN keep
      MayHave(i, a) == \A h \in held : h.addr = a => SharedStrings /\ h.text = texts[i]
      Apart(i, j) == IF SharedStrings THEN texts[i] # texts[j] ELSE i # j
  IN  {[j \in DOMAIN texts |-> [addr |-> IF j \in new THEN at[j] ELSE keep[j],
                                text |-> texts[j]]] :
         at \in {f \in [new -> Addr] :
                   \A i \in new : /\ MayHave(i, f[i])
                                  /\ \A j \in new : Apart(i, j) => f[i] # f[j]}}

TextsOf(s) == [i \in DOMAIN s |-> s[i].text]

(* Mutant: keeps the strings of the caller where they are, and copies none. *)
GrownByReference(x, texts) ==
  {stored[x] \o [i \in DOMAIN texts |-> [addr |-> Null, text |-> texts[i]]]}

(* storedNewStrings.insert (end (), ...): in place, or in a new block. *)
Grown(x, texts) ==
  LET old   == stored[x]
      all   == TextsOf(old) \o texts
      stay  == [j \in DOMAIN old |-> old[j].addr]
      moved == [j \in {i \in DOMAIN old : Travels(old[i].text)} |-> old[j].addr]
  IN  Placed(all, stay, Held(Arrays)) \cup Placed(all, moved, Held(Arrays))

(* storedNewStrings.erase: the strings of s from first up to last are gone and *)
(* those after them move down.                                                 *)
Shrunk(x, s, first, last) ==
  LET From(j) == IF j < first THEN j ELSE j + last - first
      texts == [j \in 1 .. Len(s) - (last - first) |-> s[From(j)].text]
      keep  == [j \in {i \in DOMAIN texts : i < first \/ Travels(texts[i])}
                  |-> s[From(j)].addr]
  IN  Placed(texts, keep, Held(Arrays \ {x}) \cup {s[From(j)] : j \in DOMAIN keep})

(***************************************************************************)
(* The vector of pointers.                                                 *)
(***************************************************************************)
(* Mutants: the pointers go to the wrong end, or after the terminator. *)
InsertFirst(v, ptrs) == ptrs \o v
InsertLast(v, ptrs) == v \o ptrs

InsertBeforeLast(v, ptrs) == SubSeq(v, 1, Len(v) - 1) \o ptrs \o <<v[Len(v)]>>

(* Mutant: spares the first pointer of the run. *)
CutAfterFirst(v, first, last) == SubSeq(v, 1, first) \o SubSeq(v, last, Len(v))

Cut(v, first, last) == SubSeq(v, 1, first - 1) \o SubSeq(v, last, Len(v))

(* What std::remove_if leaves: all but the removed, in their order. *)
Filterings(v, Goes(_)) ==
  LET kept == {i \in DOMAIN v : ~Goes(v[i])}
      n    == Cardinality(kept)
      InOrder == {f \in [1 .. n -> kept] : \A i, j \in 1 .. n : i < j => f[i] < f[j]}
  IN  {[i \in 1 .. n |-> v[f[i]]] : f \in InOrder}

Least(S) == CHOOSE i \in S : \A j \in S : i <= j

(* std::find from an index on: the past-the-end index when nothing is found. *)
FirstFrom(s, from, Is(_)) ==
  Least({i \in from .. Len(s) : Is(s[i])} \cup {Len(s) + 1})

(* rangeMatchingPredicate: one past the run which, from first on, matches a   *)
(* block of n values; Match(i, k) compares position i with the k-th value and *)
(* end is the past-the-end index.  A run that meets the end before the block  *)
(* is used up is given an end one beyond it.                                  *)
RunEnd(first, end, n, stops) ==
  IF stops = {} THEN first + n
  ELSE IF first + Least(stops) = end THEN end + 1
       ELSE first + Least(stops)

RangeEnd(first, end, n, Match(_, _)) ==
  RunEnd(first, end, n, {m \in 1 .. n - 1 :
                           /\ first + m <= end
                           /\ first + m = end \/ ~Match(first + m, m + 1)})

(***************************************************************************)
(* eraseAppended (block) on an array with pointers v and strings s.  It    *)
(* looks for the block among the last strings stored, and for the pointers *)
(* to it among the last pointers.  Two of its iterators can leave their    *)
(* vectors: when fewer strings are stored than the block has, and when the *)
(* run found is longer than the pointers there are; erasing a run that     *)
(* ends beyond the end is the third way to be undefined.                   *)
(***************************************************************************)
Erasure(v, s, block) ==
  LET n      == Len(block)
      first  == FirstFrom(s, Len(s) - n + 1, LAMBDA e : e.text = block[1].text)
      last   == RangeEnd(first, Len(s) + 1, n, LAMBDA i, k : s[i].text = block[k].text)
      from   == Len(v) - (last - first)
      pfirst == FirstFrom(v, from, LAMBDA p : p # Null /\ p.addr = s[first].addr)
      plast  == RangeEnd(pfirst, Len(v) + 1, n,
                         LAMBDA i, k : v[i] # Null /\ v[i].addr = block[k].addr)
  IN  IF n > Len(s) THEN [result |-> "undefined"]
      ELSE IF first > Len(s) THEN [result |-> "nothing"]
      ELSE IF last > Len(s) + 1 \/ from < 1 THEN [result |-> "undefined"]
      ELSE [result  |-> "erased",
            vector  |-> IF pfirst > Len(v) THEN v ELSE Cut(v, pfirst, plast),
            strings |-> <<first, last>>]

(* A vector of strings the caller passes: its strings have addresses of their *)
(* own, which stored strings can have too only when strings are shared.        *)
Callers(texts) ==
  IF SharedStrings THEN Placed(texts, <<>>, Held(Arrays))
  ELSE {[i \in DOMAIN texts |-> [addr |-> Null, text |-> texts[i]]]}

Blocks == UNION {[1 .. n -> Text] : n \in 1 .. MaxBlock}

(***************************************************************************)
(* Actions: one per call, with the outcomes the call can have.             *)
(***************************************************************************)
Init ==
  /\ life = [x \in Arrays |-> "none"]
  /\ vector = [x \in Arrays |-> <<>>]
  /\ stored = [x \in Arrays |-> <<>>]
  /\ undefined = FALSE

Calling(call) == call \in Calls /\ ~undefined

Becomes(x, state, v, s) ==
  /\ life' = [life EXCEPT ![x] = state]
  /\ vector' = [vector EXCEPT ![x] = v]
  /\ stored' = [stored EXCEPT ![x] = s]
  /\ UNCHANGED undefined

UndefinedBehaviour ==
  /\ undefined' = TRUE
  /\ UNCHANGED <<life, vector, stored>>

(* NullTermArray () and NullTermArray (array); the default is an empty environ. *)
Construct(x, texts) ==
  /\ Calling("construct")
  /\ life[x] = "none"
  /\ Becomes(x, "live", [i \in DOMAIN texts |-> Literal(texts[i])] \o <<Null>>, <<>>)

MayAppend(x, texts) ==
  /\ life[x] = "live"
  /\ AppendsOnce => stored[x] = <<>>
  /\ Len(stored[x]) + Len(texts) <= MaxStored
  /\ Len(vector[x]) + Len(texts) <= MaxVector

(* append (values): store the strings, then insert a pointer to each. *)
AppendValues(x, texts) ==
  /\ Calling("append")
  /\ MayAppend(x, texts)
  /\ \E s \in Grown(x, texts) :
       LET new == SubSeq(s, Len(stored[x]) + 1, Len(s))
       IN  Becomes(x, "live", InsertBeforeLast(vector[x], new), s)

(* The end of eraseAppended (block) on x, whose vectors are v and s by now. *)
Erase(x, v, s, block) ==
  LET e == Erasure(v, s, block)
  IN  \/ e.result = "undefined" /\ UndefinedBehaviour
      \/ e.result = "nothing" /\ Becomes(x, "live", v, s)
      \/ /\ e.result = "erased"
         /\ \E left \in Shrunk(x, s, e.strings[1], e.strings[2]) :
              Becomes(x, "live", e.vector, left)

(* The caller's vector, once new has been made of its strings. *)
CallersOf(texts, new) ==
  IF SharedStrings THEN new ELSE [i \in DOMAIN texts |-> [addr |-> Null, text |-> texts[i]]]

(* append throws when the strings cannot be stored: the guard then erases a  *)
(* block that never was there, or of which the first k strings are, since    *)
(* only the insertion of a single string is promised to have no effect...    *)
AppendThrowsStoring(x, texts) ==
  /\ Calling("throw")
  /\ MayAppend(x, texts)
  /\ \/ \E block \in Callers(texts) : Erase(x, vector[x], stored[x], block)
     \/ \E s \in Grown(x, texts), k \in 1 .. Len(texts) - 1 :
          LET n == Len(stored[x])
          IN  Erase(x, vector[x], SubSeq(s, 1, n + k), CallersOf(texts, SubSeq(s, n + 1, Len(s))))

(* ... or, the strings stored, when there is no room for one of the pointers, *)
(* of which the first k are inserted by then.                                 *)
AppendThrowsInserting(x, texts) ==
  /\ Calling("throw")
  /\ MayAppend(x, texts)
  /\ \E s \in Grown(x, texts), k \in 0 .. Len(texts) - 1 :
       LET new == SubSeq(s, Len(stored[x]) + 1, Len(s))
       IN  Erase(x, InsertBeforeLast(vector[x], SubSeq(new, 1, k)), s, CallersOf(texts, new))

EraseAppended(x, texts) ==
  /\ Calling("erase")
  /\ life[x] = "live"
  /\ \E block \in Callers(texts) : Erase(x, vector[x], stored[x], block)

(* removeAnyMatching (remover): the remover reads every string but the NULL, *)
(* and what it removes from the pointers stays among the strings.            *)
RemoveAnyMatching(x, matching) ==
  /\ Calling("remove")
  /\ life[x] = "live"
  /\ IF \E p \in Items(vector[x]) : p # Null /\ ~Sound(p)
     THEN UndefinedBehaviour
     ELSE \E v \in Filterings(vector[x], LAMBDA p : p # Null /\ p.text \in matching) :
            Becomes(x, "live", v, stored[x])

(* NullTermArray (NullTermArray const &): the pointers, not the strings. *)
CopyConstruct(x, y) ==
  /\ Calling("copy")
  /\ life[x] = "none" /\ life[y] = "live"
  /\ Becomes(x, "live", vector[y], <<>>)

(* Mutant: takes the pointers of y and leaves it the strings. *)
MoveConstructPointers(x, y) ==
  /\ Calling("move")
  /\ life[x] = "none" /\ life[y] = "live"
  /\ life' = [life EXCEPT ![x] = "live", ![y] = "moved"]
  /\ vector' = [vector EXCEPT ![x] = vector[y], ![y] = <<>>]
  /\ UNCHANGED <<stored, undefined>>

(* NullTermArray (NullTermArray &&): x takes y's priv. *)
MoveConstruct(x, y) ==
  /\ Calling("move")
  /\ life[x] = "none" /\ life[y] = "live"
  /\ life' = [life EXCEPT ![x] = "live", ![y] = "moved"]
  /\ vector' = [vector EXCEPT ![x] = vector[y], ![y] = <<>>]
  /\ stored' = [stored EXCEPT ![x] = stored[y], ![y] = <<>>]
  /\ UNCHANGED undefined

(* x = y: the argument is a copy of y, and only pointers are swapped with it. *)
CopyAssign(x, y) ==
  /\ Calling("assign")
  /\ life[x] = "live" /\ life[y] = "live"
  /\ Becomes(x, "live", vector[y], stored[x])

(* x = std::move (y): the argument is what y was, swaps pointers with x, and *)
(* is destroyed with the strings y owned.                                    *)
MoveAssign(x, y) ==
  /\ Calling("moveAssign")
  /\ x # y
  /\ life[x] = "live" /\ life[y] = "live"
  /\ life' = [life EXCEPT ![y] = "moved"]
  /\ vector' = [vector EXCEPT ![x] = vector[y], ![y] = <<>>]
  /\ stored' = [stored EXCEPT ![y] = <<>>]
  /\ UNCHANGED undefined

(* swap (x, y) swaps the pointers and leaves the strings where they are. *)
Swap(x, y) ==
  /\ Calling("swap")
  /\ life[x] = "live" /\ life[y] = "live"
  /\ vector' = [vector EXCEPT ![x] = vector[y], ![y] = vector[x]]
  /\ UNCHANGED <<life, stored, undefined>>

(* Every call on an array whose priv was taken, assignment to it included,  *)
(* uses a null pointer; so does comparing two such arrays.                  *)
UseMoved(x) ==
  /\ Calling("useMoved")
  /\ life[x] = "moved"
  /\ UndefinedBehaviour

Destroy(x) ==
  /\ Calling("destroy")
  /\ life[x] # "none"
  /\ Becomes(x, "none", <<>>, <<>>)

Next ==
  \E x \in Arrays :
    \/ \E texts \in Environs : Construct(x, texts)
    \/ \E texts \in Blocks : AppendValues(x, texts)
    \/ \E texts \in Blocks : AppendThrowsStoring(x, texts)
    \/ \E texts \in Blocks : AppendThrowsInserting(x, texts)
    \/ \E texts \in Blocks : EraseAppended(x, texts)
    \/ \E matching \in SUBSET Text : RemoveAnyMatching(x, matching)
    \/ \E y \in Arrays : CopyConstruct(x, y)
    \/ \E y \in Arrays : MoveConstruct(x, y)
    \/ \E y \in Arrays : CopyAssign(x, y)
    \/ \E y \in Arrays : MoveAssign(x, y)
    \/ \E y \in Arrays : Swap(x, y)
    \/ UseMoved(x)
    \/ Destroy(x)

Spec == Init /\ [][Next]_vars

(* What keeps a program clear of dangling pointers: it lets no append fail,   *)
(* undoes none, copies, assigns and swaps no array, and appends to each array *)
(* once, unless its strings stay where they are when the vector of them moves.*)
SafeCalls == {"construct", "append", "remove", "move", "destroy"}
SafeProgram ==
  /\ Calls \subseteq SafeCalls
  /\ AppendsOnce \/ SharedStrings \/ Inline = {}

(* Or, where appends may fail and be undone, it passes one string at a time.  *)
SingleCalls == SafeCalls \cup {"throw", "erase"}
SingleProgram ==
  /\ Calls \subseteq SingleCalls /\ MaxBlock <= 1
  /\ AppendsOnce \/ SharedStrings \/ Inline = {}

(***************************************************************************)
(* Properties.                                                             *)
(***************************************************************************)
TypeOK ==
  /\ life \in [Arrays -> {"none", "live", "moved"}]
  /\ vector \in [Arrays -> Seq(Pointer \cup {Null})]
  /\ stored \in [Arrays -> Seq(StoredString)]
  /\ undefined \in BOOLEAN

(* The array exec is given always ends with a NULL and has no other: whatever *)
(* the client does, a failed append included, no call overwrites, doubles or  *)
(* loses the terminator commandline.h promises.                               *)
NullTerminated ==
  \A x \in Arrays : life[x] = "live" =>
    /\ vector[x] # <<>>
    /\ \A i \in DOMAIN vector[x] : vector[x][i] = Null <=> i = Len(vector[x])

(* Every pointer of a live array still names the text it was inserted for: no *)
(* pointer is left behind by a string that moved or was destroyed.            *)
PointersSound ==
  \A x \in Arrays : life[x] = "live" =>
    \A i \in DOMAIN vector[x] : vector[x][i] # Null => Sound(vector[x][i])

(* What the client reads through the pointers of each array: a text for every *)
(* one that is sound, and Null, which is no text, for one that is not.        *)
Contents ==
  [x \in Arrays |->
     [i \in 1 .. Len(vector[x]) - 1 |->
        IF Sound(vector[x][i]) THEN vector[x][i].text ELSE Null]]

Promise == INSTANCE StringArrays WITH contents <- Contents

(* The arrays with their pointers implement arrays that own their strings. *)
ImplementsPromise == Promise!Spec

(* A call that leaves an array's pointers alone leaves what they read alone:  *)
(* a copy is "completely independent" of the array it was made from.          *)
ReadsStable ==
  [][\A x \in Arrays :
       life[x] = "live" /\ life'[x] = "live" /\ vector'[x] = vector[x]
         => Contents'[x] = Contents[x]]_vars

(* eraseAppended erases as many pointers as strings. *)
ErasesPointersWithStrings ==
  [][\A x \in Arrays :
       Len(stored'[x]) < Len(stored[x]) /\ life'[x] = "live"
         => Len(vector[x]) - Len(vector'[x]) = Len(stored[x]) - Len(stored'[x])]_vars

(* No call, and no exception from one, leaves what C++ defines. *)
NeverUndefined == ~undefined

=============================================================================
