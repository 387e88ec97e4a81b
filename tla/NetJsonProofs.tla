--------------------------- MODULE NetJsonProofs ---------------------------
(***************************************************************************)
(* Proofs about NetJson for every set of plugins, documents, iterators,    *)
(* handles, keys, scalars and files.                                       *)
(*                                                                         *)
(* The natives are many and their effects few.  Effect lists the ways a    *)
(* step may change documents, iterators and handles; NextEffect shows that *)
(* every step of Next is one of them, and the inductive invariant is then  *)
(* preserved effect by effect.                                             *)
(***************************************************************************)
EXTENDS NetJson, SequenceTheorems, TLAPS, WellFoundedInduction

----------------------------------------------------------------------------
(* What the operations of JsonValue do: each leaves a document a document, *)
(* and does to the keys of an object what its name says.                   *)

\* Every element can be a document of its own, as Get makes it one.
LEMMA ElementIsDoc == Element \subseteq Doc
<1> SUFFICES ASSUME NEW v \in Element PROVE v \in Doc
  OBVIOUS
<1>1. Leaf \subseteq Element
  BY DEF Element
<1>2. CASE v \in Leaf
  BY <1>2 DEF Doc
<1>3. CASE v \in ObjectOver(Leaf)
  BY <1>1, <1>3 DEF Doc, ObjectOver
<1>4. CASE v \in ArrayOver(Leaf)
  <2>1. v.arr \in Seq(Element)
    BY <1>1, <1>4, SeqMonotonic DEF ArrayOver
  <2> QED BY <1>4, <2>1 DEF Doc, ArrayOver
<1> QED BY <1>2, <1>3, <1>4 DEF Element

\* The types of documents, and the shape each has.
LEMMA DocShape ==
  ASSUME NEW v \in Doc
  PROVE  /\ v.t \in {"null", "boolean", "number", "string", "object", "array"}
         /\ v.t = "null" => v = Null
         /\ v.t = "object" => v = [t |-> "object", obj |-> v.obj] /\ v.obj \in [Key -> Element \cup {Absent}]
         /\ v.t = "array" => v = [t |-> "array", arr |-> v.arr] /\ v.arr \in Seq(Element)
         /\ v.t \notin {"null", "object", "array"} => v \in Scalar
  BY ScalarAssumption DEF Doc, Leaf, ObjectOver, ArrayOver, Null, AllScalar

\* A container of elements is a document.
LEMMA ObjectIsDoc ==
  ASSUME NEW f \in [Key -> Element \cup {Absent}]
  PROVE  [t |-> "object", obj |-> f] \in Doc
  BY DEF Doc, ObjectOver

LEMMA ArrayIsDoc ==
  ASSUME NEW s \in Seq(Element)
  PROVE  [t |-> "array", arr |-> s] \in Doc
  BY DEF Doc, ArrayOver

LEMMA EmptyIsDoc == Null \in Element /\ EmptyObject \in Doc /\ EmptyArray \in Doc
<1>1. Null \in Element
  BY DEF Element, Leaf
<1>2. EmptyObject \in Doc
  BY ObjectIsDoc DEF EmptyObject
<1>3. EmptyArray \in Doc
  BY ArrayIsDoc, EmptySeq DEF EmptyArray
<1> QED BY <1>1, <1>2, <1>3

\* operator[](key) gives an object that has the key and all the keys it had.
LEMMA AtKeyDoc ==
  ASSUME NEW v \in Doc, TakesKey(v), NEW k \in Key
  PROVE  /\ AtKey(v, k) \in Doc
         /\ AtKey(v, k).t = "object"
         /\ AtKey(v, k).obj \in [Key -> Element \cup {Absent}]
         /\ AtKey(v, k).obj[k] \in Element
         /\ KeysOf(AtKey(v, k)) = KeysOf(v) \cup {k}
<1>1. PICK f \in [Key -> Element \cup {Absent}] :
        AsObject(v) = [t |-> "object", obj |-> f] /\ KeysOf(v) = {j \in Key : f[j] # Absent}
  <2>1. CASE v.t = "null"
    BY <2>1, DocShape DEF AsObject, EmptyObject, KeysOf
  <2>2. CASE v.t = "object"
    BY <2>2, DocShape DEF AsObject, KeysOf
  <2> QED BY <2>1, <2>2 DEF TakesKey
<1>2. Null \in Element /\ Null # Absent
  BY DEF Element, Leaf, Null, Absent
<1>3. CASE k \in {j \in Key : f[j] # Absent}
  BY <1>1, <1>3, ObjectIsDoc DEF AtKey, Contains, KeysOf
<1>4. CASE f[k] = Absent
  BY <1>1, <1>2, <1>4, ObjectIsDoc DEF AtKey, Contains, KeysOf
<1> QED BY <1>3, <1>4

\* Storing under a key changes the value of that key only.
LEMMA PutKeyDoc ==
  ASSUME NEW v \in Doc, TakesKey(v), NEW k \in Key, NEW x \in Element
  PROVE  /\ PutKey(v, k, x) \in Doc
         /\ PutKey(v, k, x).t = "object"
         /\ KeysOf(PutKey(v, k, x)) = KeysOf(v) \cup {k}
<1>1. x # Absent
  BY ScalarAssumption DEF Element, Leaf, AllScalar, ObjectOver, ArrayOver, Null, Absent
<1> DEFINE f == AtKey(v, k).obj
<1>2. f \in [Key -> Element \cup {Absent}] /\ {j \in Key : f[j] # Absent} = KeysOf(v) \cup {k}
  BY AtKeyDoc DEF KeysOf
<1> DEFINE g == [f EXCEPT ![k] = x]
<1>3. g \in [Key -> Element \cup {Absent}] /\ {j \in Key : g[j] # Absent} = KeysOf(v) \cup {k}
  BY <1>1, <1>2
<1>4. PutKey(v, k, x) = [t |-> "object", obj |-> g]
  BY DEF PutKey
<1> HIDE DEF g
<1> QED BY <1>3, <1>4, ObjectIsDoc DEF KeysOf

\* Removing a key removes that key only.
LEMMA WithoutKeyDoc ==
  ASSUME NEW v \in Doc, v.t = "object", NEW k \in Key
  PROVE  /\ WithoutKey(v, k) \in Doc
         /\ WithoutKey(v, k).t = "object"
         /\ KeysOf(WithoutKey(v, k)) = KeysOf(v) \ {k}
<1> DEFINE g == [v.obj EXCEPT ![k] = Absent]
<1>1. v.obj \in [Key -> Element \cup {Absent}]
  BY DocShape
<1>2. g \in [Key -> Element \cup {Absent}] /\ {j \in Key : g[j] # Absent} = KeysOf(v) \ {k}
  BY <1>1 DEF KeysOf
<1>3. WithoutKey(v, k) = [t |-> "object", obj |-> g]
  BY DEF WithoutKey
<1> HIDE DEF g
<1> QED BY <1>2, <1>3, ObjectIsDoc DEF KeysOf

LEMMA AsArrayDoc ==
  ASSUME NEW v \in Doc, TakesIndex(v)
  PROVE  /\ AsArray(v) \in Doc
         /\ AsArray(v).t = "array"
         /\ AsArray(v).arr \in Seq(Element)
  BY DocShape, EmptyIsDoc, EmptySeq DEF AsArray, TakesIndex, EmptyArray

LEMMA PaddedSeq ==
  ASSUME NEW s \in Seq(Element), NEW n \in Nat
  PROVE  PaddedTo(s, n) \in Seq(Element) /\ Len(PaddedTo(s, n)) = n
<1>1. \A j \in 1..n : PaddedTo(s, n)[j] \in Element
  BY EmptyIsDoc, ElementOfSeq DEF PaddedTo
<1> QED BY <1>1, SeqDef DEF PaddedTo

\* operator[](index) gives an array that has the index.
LEMMA AtIndexDoc ==
  ASSUME NEW v \in Doc, TakesIndex(v), NEW i \in Nat
  PROVE  /\ AtIndex(v, i) \in Doc
         /\ AtIndex(v, i).t = "array"
         /\ AtIndex(v, i).arr \in Seq(Element)
         /\ i + 1 \in 1..Len(AtIndex(v, i).arr)
         /\ AtIndex(v, i).arr[i + 1] \in Element
<1>1. PICK s \in Seq(Element) : AsArray(v) = [t |-> "array", arr |-> s]
  BY AsArrayDoc, DocShape
<1>2. Len(s) \in Nat
  BY LenProperties
<1> DEFINE r == IF i < Len(s) THEN s ELSE PaddedTo(s, i + 1)
<1>3. AtIndex(v, i) = [t |-> "array", arr |-> r]
  BY <1>1 DEF AtIndex
<1>4. r \in Seq(Element) /\ i < Len(r)
  <2>1. i + 1 \in Nat /\ i < i + 1
    OBVIOUS
  <2>2. PaddedTo(s, i + 1) \in Seq(Element) /\ Len(PaddedTo(s, i + 1)) = i + 1
    BY <2>1, PaddedSeq
  <2> QED BY <2>1, <2>2
<1> HIDE DEF r
<1>5. Len(r) \in Nat /\ i + 1 \in 1..Len(r)
  BY <1>4, LenProperties
<1> QED BY <1>3, <1>4, <1>5, ElementOfSeq, ArrayIsDoc

LEMMA PutIndexDoc ==
  ASSUME NEW v \in Doc, TakesIndex(v), NEW i \in Nat, NEW x \in Element
  PROVE  PutIndex(v, i, x) \in Doc /\ PutIndex(v, i, x).t = "array"
<1>1. [AtIndex(v, i).arr EXCEPT ![i + 1] = x] \in Seq(Element)
  BY AtIndexDoc, ExceptSeq
<1> QED BY <1>1, ArrayIsDoc DEF PutIndex

LEMMA PushedDoc ==
  ASSUME NEW v \in Doc, TakesIndex(v), NEW x \in Element
  PROVE  Pushed(v, x) \in Doc /\ Pushed(v, x).t = "array"
  BY AsArrayDoc, ArrayIsDoc, AppendProperties DEF Pushed

LEMMA ErasedAtDoc ==
  ASSUME NEW v \in Doc, NEW i \in Int, HasIndex(v, i)
  PROVE  ErasedAt(v, i) \in Doc /\ ErasedAt(v, i).t = "array"
<1>1. v.arr \in Seq(Element) /\ Len(v.arr) \in Nat /\ Len(v.arr) > 0
  BY DocShape, LenProperties DEF HasIndex
<1>2. \A j \in 1..(Len(v.arr) - 1) : WithoutIndex(v.arr, i + 1)[j] \in Element
  BY <1>1, ElementOfSeq DEF WithoutIndex
<1>3. WithoutIndex(v.arr, i + 1) \in Seq(Element)
  BY <1>1, <1>2, SeqDef DEF WithoutIndex
<1> QED BY <1>3, ArrayIsDoc DEF ErasedAt

\* clear() keeps the type.
LEMMA ClearedDoc ==
  ASSUME NEW v \in Doc
  PROVE  /\ Cleared(v) \in Doc
         /\ Cleared(v).t = v.t
         /\ KeysOf(Cleared(v)) = {}
<1>1. CASE v.t \in {"null", "object", "array"}
  BY <1>1, DocShape, EmptyIsDoc DEF Cleared, EmptyObject, EmptyArray, KeysOf
<1>2. CASE v.t \notin {"null", "object", "array"}
  BY <1>2, DocShape, ScalarAssumption DEF Cleared, KeysOf, Doc, Leaf
<1> QED BY <1>1, <1>2

----------------------------------------------------------------------------
(* What dump prints is a value of the same depth again. *)

LEMMA PrintedLeafIsLeaf ==
  ASSUME NEW v \in Leaf
  PROVE  PrintedLeaf(v) \in Leaf
  BY DEF PrintedLeaf, Leaf

LEMMA LeafShape ==
  ASSUME NEW v \in Leaf
  PROVE  v.t \notin {"object", "array", "absent"}
  BY ScalarAssumption DEF Leaf, AllScalar, Null

\* An absent key stays absent.
LEMMA PrintedAbsent == PrintedLeaf(Absent) = Absent /\ PrintedElement(Absent) = Absent
<1>1. PrintedLeaf(Absent) = Absent
  BY DEF PrintedLeaf, Absent
<1>2. PrintedElement(Absent) = PrintedLeaf(Absent)
  BY DEF PrintedElement, Absent
<1> QED BY <1>1, <1>2

LEMMA PrintedElementIsElement ==
  ASSUME NEW v \in Element
  PROVE  PrintedElement(v) \in Element
<1>1. CASE v \in Leaf
  <2>1. v.t # "object" /\ v.t # "array"
    BY <1>1, LeafShape
  <2>2. PrintedElement(v) = PrintedLeaf(v)
    BY <2>1 DEF PrintedElement
  <2> QED BY <1>1, <2>2, PrintedLeafIsLeaf DEF Element
<1>2. CASE v \in ObjectOver(Leaf)
  <2> DEFINE g == [k \in Key |-> PrintedLeaf(v.obj[k])]
  <2>1. v.t = "object" /\ v.obj \in [Key -> Leaf \cup {Absent}]
    BY <1>2 DEF ObjectOver
  <2>2. PrintedElement(v) = [t |-> "object", obj |-> g]
    BY <2>1 DEF PrintedElement
  <2>3. g \in [Key -> Leaf \cup {Absent}]
    BY <2>1, PrintedLeafIsLeaf, PrintedAbsent
  <2> HIDE DEF g
  <2> QED BY <2>2, <2>3 DEF Element, ObjectOver
<1>3. CASE v \in ArrayOver(Leaf)
  <2> DEFINE g == [i \in DOMAIN v.arr |-> PrintedLeaf(v.arr[i])]
  <2>1. v.t = "array" /\ v.arr \in Seq(Leaf)
    BY <1>3 DEF ArrayOver
  <2>2. PrintedElement(v) = [t |-> "array", arr |-> g]
    BY <2>1 DEF PrintedElement
  <2>3. DOMAIN v.arr = 1..Len(v.arr) /\ Len(v.arr) \in Nat
    BY <2>1, LenProperties
  <2>4. \A i \in 1..Len(v.arr) : g[i] \in Leaf
    BY <2>1, <2>3, ElementOfSeq, PrintedLeafIsLeaf
  <2>5. g \in [1..Len(v.arr) -> Leaf]
    BY <2>3, <2>4
  <2> HIDE DEF g
  <2>6. g \in Seq(Leaf)
    BY <2>3, <2>5, SeqDef
  <2> QED BY <2>2, <2>6 DEF Element, ArrayOver
<1> QED BY <1>1, <1>2, <1>3 DEF Element

LEMMA PrintedIsDoc ==
  ASSUME NEW v \in Doc
  PROVE  Printed(v) \in Doc
<1>1. CASE v \in Leaf
  <2>1. v.t # "object" /\ v.t # "array"
    BY <1>1, LeafShape
  <2>2. Printed(v) = PrintedLeaf(v)
    BY <2>1 DEF Printed
  <2> QED BY <1>1, <2>2, PrintedLeafIsLeaf DEF Doc
<1>2. CASE v \in ObjectOver(Element)
  <2> DEFINE g == [k \in Key |-> PrintedElement(v.obj[k])]
  <2>1. v.t = "object" /\ v.obj \in [Key -> Element \cup {Absent}]
    BY <1>2 DEF ObjectOver
  <2>2. Printed(v) = [t |-> "object", obj |-> g]
    BY <2>1 DEF Printed
  <2>3. g \in [Key -> Element \cup {Absent}]
    BY <2>1, PrintedElementIsElement, PrintedAbsent
  <2> HIDE DEF g
  <2> QED BY <2>2, <2>3, ObjectIsDoc
<1>3. CASE v \in ArrayOver(Element)
  <2> DEFINE g == [i \in DOMAIN v.arr |-> PrintedElement(v.arr[i])]
  <2>1. v.t = "array" /\ v.arr \in Seq(Element)
    BY <1>3 DEF ArrayOver
  <2>2. Printed(v) = [t |-> "array", arr |-> g]
    BY <2>1 DEF Printed
  <2>3. DOMAIN v.arr = 1..Len(v.arr) /\ Len(v.arr) \in Nat
    BY <2>1, LenProperties
  <2>4. \A i \in 1..Len(v.arr) : g[i] \in Element
    BY <2>1, <2>3, ElementOfSeq, PrintedElementIsElement
  <2>5. g \in [1..Len(v.arr) -> Element]
    BY <2>3, <2>4
  <2> HIDE DEF g
  <2>6. g \in Seq(Element)
    BY <2>3, <2>5, SeqDef
  <2> QED BY <2>2, <2>6, ArrayIsDoc
<1> QED BY <1>1, <1>2, <1>3 DEF Doc

----------------------------------------------------------------------------
(* The inductive invariant. *)

SideOK ==
    /\ file \in [Path -> Doc \cup {Missing, Torn}]
    /\ report \in {"ok", "error"}
    /\ ub \in {"none", "iterator", "index", "parameter"}
    /\ faulted \subseteq Failing

\* An iterator on a key has stood on no greater one, and on every smaller key
\* it must reach; at the end it has stood on all of them.
VisitOK ==
    \A i \in IterId : Live(i) /\ proxy[i].doc # NoDoc =>
        /\ proxy[i].pos.at = "key" =>
            /\ \A s \in visit[i].seen : s <= proxy[i].pos.key
            /\ proxy[i].pos.key \in visit[i].seen
            /\ visit[i].kept \subseteq KeysOf(heap[proxy[i].doc])
            /\ \A k \in visit[i].kept : k \in visit[i].seen \/ proxy[i].pos.key < k
        /\ proxy[i].pos.at = "end" => visit[i].kept \subseteq visit[i].seen

IInv == TypeOK /\ HandlesResolve /\ IteratorsStand /\ VisitOK

----------------------------------------------------------------------------
(* The effects. *)

\* A document that takes the place of v: an object keeps its keys.
Grows(v, w) ==
    /\ v \in Doc /\ w \in Doc
    /\ v.t = "object" => w.t = "object" /\ KeysOf(v) \subseteq KeysOf(w)

\* A careful plugin makes no object of a document that an iterator reads.
KindKept(d, w) == Careful /\ heap[d].t # "object" /\ w.t = "object" => \A i \in IterId : ~Reads(i, d)

Writes(d, w, hp) == Grows(heap[d], w) /\ KindKept(d, w) /\ hp = [heap EXCEPT ![d] = w]

\* Documents may be changed; iterators and handles stay.
Change ==
    /\ \/ heap' = heap
       \/ \E d \in DocId, w \in Doc : Writes(d, w, heap')
    /\ UNCHANGED <<proxy, handle, visit>>

\* The natives that leave a document behind when a step of theirs fails.
Leaky == {"Get", "GetResponseBodyAsJSON", "LoadFromFile"}

\* A document is allocated, and a handle to it is created or a fault is on
\* record; another document may be changed by the same native.
Allocate ==
    \E d \in DocId, v \in Doc, hp \in [DocId -> Doc \cup {Free}] :
        /\ heap[d] = Free
        /\ hp = heap \/ \E e \in DocId, w \in Doc : Writes(e, w, hp)
        /\ heap' = [hp EXCEPT ![d] = v]
        /\ \/ handle' = handle /\ faulted' \cap Leaky # {}
           \/ \E p \in Plugin : NewHandle(p, "json", d)
        /\ UNCHANGED <<proxy, visit>>

\* An object loses keys.
Erase ==
    \E d \in DocId, ks \in SUBSET Key, w \in Doc :
        /\ heap[d] \in Doc
        /\ w.t = heap[d].t
        /\ KeysOf(w) = KeysOf(heap[d]) \ ks
        /\ heap' = [heap EXCEPT ![d] = w]
        /\ CareOver(d, ks)
        /\ Detach(d, ks)
        /\ UNCHANGED handle

OpenIterator ==
    \E p \in Plugin, d \in DocId, i \in IterId :
        /\ heap[d] \in Doc
        /\ ~Live(i)
        /\ proxy' = [proxy EXCEPT ![i] = [doc |-> d, pos |-> Begin(heap[d])]]
        /\ visit' = [visit EXCEPT ![i] = [seen |-> Standing(Begin(heap[d])), kept |-> KeysOf(heap[d])]]
        /\ NewHandle(p, "iterator", i)
        /\ UNCHANGED heap

Advance ==
    \E i \in IterId :
        /\ Live(i)
        /\ proxy[i].doc # NoDoc
        /\ heap[proxy[i].doc].t = "object"
        /\ proxy[i].pos.at = "key"
        /\ LET next == After(heap[proxy[i].doc], proxy[i].pos.key)
           IN  /\ proxy' = [proxy EXCEPT ![i] = MovedTo(i, next)]
               /\ visit' = [visit EXCEPT ![i] = [seen |-> @.seen \cup Standing(next), kept |-> @.kept]]
        /\ UNCHANGED <<heap, handle>>

Clone ==
    /\ \E p \in Plugin, h \in HandleId :
        /\ handle[h] # NoHandle
        /\ NewHandle(p, handle[h].kind, handle[h].obj)
    /\ UNCHANGED <<heap, proxy, visit>>

Freeing == \E hs \in SUBSET HandleId : Release(hs)

\* An iterator that a careful plugin never has.
Stranded(i) ==
    \/ proxy[i].doc = NoDoc
    \/ heap[proxy[i].doc].t = "object" /\ proxy[i].pos.at \notin {"key", "end"}

\* A file is written as ToFile writes it.
FileWritten(d, f) ==
    IF Unprintable(heap[d]) THEN report' = "error" /\ file' = [file EXCEPT ![f] = Torn]
    ELSE file' = [file EXCEPT ![f] = Printed(heap[d])]

\* No document has changed but for nulls at its end.
Padded == \A d \in DocId : heap[d] # Free => OnlyPadded(heap[d], heap'[d])

\* What a step records, and what it reports.
Told ==
    /\ faulted \subseteq faulted'
    /\ ub' = ub \/ ~Careful \/ \E i \in IterId : Live(i) /\ Stranded(i)
    /\ file' = file \/ \E d \in DocId, f \in Path : heap[d] \in Doc /\ FileWritten(d, f)
    /\ report' = "error" /\ ub' = "none" => Padded

Effect ==
    /\ SideOK' /\ Told
    /\ Change \/ Allocate \/ Erase \/ OpenIterator \/ Advance \/ Clone \/ Freeing

\* The effect of a native that is meant to read.
Gentle == Effect /\ (ub' = "none" => Padded)

----------------------------------------------------------------------------
(* Documents behind handles. *)

LEMMA FreeIsNoDoc == Free \notin Doc /\ Free # Null
  BY ScalarAssumption DEF Doc, Leaf, ObjectOver, ArrayOver, Null, AllScalar, Free

LEMMA JsonDoc ==
  ASSUME IInv, NEW h \in HandleId, IsJson(h)
  PROVE  handle[h].obj \in DocId /\ DocOf(h) \in Doc
<1>1. handle[h] \in JsonHandle
  BY DEF IInv, TypeOK, IsJson, IterHandle, NoHandle
<1> QED BY <1>1 DEF IInv, TypeOK, HandlesResolve, JsonHandle, DocOf

LEMMA IterProxy ==
  ASSUME IInv, NEW h \in HandleId, IsIter(h)
  PROVE  /\ handle[h].obj \in IterId
         /\ Live(handle[h].obj)
         /\ proxy[handle[h].obj] \in Proxy
<1>1. handle[h] \in IterHandle
  BY DEF IInv, TypeOK, IsIter, JsonHandle, NoHandle
<1>2. handle[h].obj \in HeldBy("iterator", HandleId)
  BY DEF HeldBy, IsIter
<1>3. handle[h].obj \in IterId
  BY <1>1 DEF IterHandle
<1>4. Live(handle[h].obj)
  BY <1>2, <1>3 DEF IInv, HandlesResolve
<1> QED BY <1>3, <1>4 DEF Live, IInv, TypeOK

LEMMA StoredIsElement == Stored \subseteq Element /\ Leaf \subseteq Element /\ Scalar \subseteq Element /\ Text \subseteq Doc
  BY NetJsonAssumption DEF Element, Leaf

----------------------------------------------------------------------------
(* Nulls at the end. *)

LEMMA SameIsPadded == \A v : OnlyPadded(v, v)
  BY DEF OnlyPadded

\* The document an array index has been applied to.
LEMMA AsArrayPads ==
  ASSUME NEW v \in Doc, TakesIndex(v)
  PROVE  OnlyPadded(v, AsArray(v))
<1>1. CASE v.t = "array"
  BY <1>1, SameIsPadded DEF AsArray
<1>2. CASE v.t = "null"
  <2>1. AsArray(v) = EmptyArray /\ EmptyArray.arr = <<>> /\ EmptyArray.t = "array" /\ Len(<<>>) = 0
    BY <1>2, EmptySeq DEF AsArray, EmptyArray
  <2>2. PaddedTo(<<>>, 0) = <<>>
    BY DEF PaddedTo
  <2> QED BY <2>1, <2>2 DEF OnlyPadded
<1> QED BY <1>1, <1>2 DEF TakesIndex

LEMMA AtIndexPads ==
  ASSUME NEW v \in Doc, TakesIndex(v), NEW i \in Nat
  PROVE  OnlyPadded(v, AtIndex(v, i))
<1> DEFINE s == AsArray(v).arr
<1>1. s \in Seq(Element) /\ Len(s) \in Nat
  BY AsArrayDoc, LenProperties
<1>2. CASE i < Len(s)
  BY <1>2, AsArrayPads DEF AtIndex
<1>3. CASE ~(i < Len(s))
  <2>1. AtIndex(v, i) = [t |-> "array", arr |-> PaddedTo(s, i + 1)]
    BY <1>3 DEF AtIndex
  <2> HIDE DEF s
  <2>2. i + 1 \in Nat /\ i + 1 >= Len(s)
    BY <1>1, <1>3
  <2>3. Len(PaddedTo(s, i + 1)) = i + 1
    BY <1>1, <2>2, PaddedSeq
  <2>4. AtIndex(v, i).t = "array" /\ AtIndex(v, i).arr = PaddedTo(s, i + 1)
    BY <2>1
  <2> QED BY <2>2, <2>3, <2>4 DEF OnlyPadded, s
<1> QED BY <1>2, <1>3

\* An object that has the key is not changed by operator[].
LEMMA AtKeyPads ==
  ASSUME NEW v \in Doc, NEW k \in Key, Contains(v, k)
  PROVE  AtKey(v, k) = v
  BY DEF AtKey, AsObject, Contains, KeysOf

----------------------------------------------------------------------------
(* What the parts of the natives do. *)

LEMMA UntouchedTold ==
  ASSUME IInv, UNCHANGED <<heap, file, ub, faulted>>
  PROVE  Told /\ Padded
  BY SameIsPadded DEF Told, Padded

LEMMA RejectEffect ==
  ASSUME IInv, Reject
  PROVE  Gentle
<1>1. Change /\ SideOK'
  BY DEF Reject, Report, Change, SideOK, IInv, TypeOK
<1> QED BY <1>1, UntouchedTold DEF Reject, Gentle, Effect

LEMMA AnswerEffect ==
  ASSUME IInv, NEW ok, Answer(ok)
  PROVE  Gentle
<1>1. Change /\ SideOK'
  BY DEF Answer, Report, Change, SideOK, IInv, TypeOK
<1> QED BY <1>1, UntouchedTold DEF Answer, Gentle, Effect

LEMMA UndefinedEffect ==
  ASSUME IInv, NEW cause \in {"iterator", "parameter"}, Undefined(cause),
         ~Careful \/ \E i \in IterId : Live(i) /\ Stranded(i)
  PROVE  Effect
<1>1. Change /\ SideOK'
  BY DEF Undefined, Change, SideOK, IInv, TypeOK
<1>2. Told
  BY DEF Undefined, Told
<1> QED BY <1>1, <1>2 DEF Effect

LEMMA WroteEffect ==
  ASSUME IInv, NEW d \in DocId, NEW w, NEW ok, Grows(heap[d], w), KindKept(d, w), Wrote(d, w, ok),
         ok \/ OnlyPadded(heap[d], w)
  PROVE  Effect /\ (OnlyPadded(heap[d], w) => Gentle)
<1>1. w \in Doc /\ Writes(d, w, heap')
  BY DEF Wrote, Writes, Grows
<1>2. Change
  BY <1>1 DEF Wrote, Change
<1>3. SideOK'
  BY DEF Wrote, Report, SideOK, IInv, TypeOK
<1>4. OnlyPadded(heap[d], w) => Padded
  BY SameIsPadded DEF Wrote, Padded, IInv, TypeOK
<1>5. Told
  BY <1>4 DEF Wrote, Report, Told
<1> QED BY <1>2, <1>3, <1>4, <1>5 DEF Gentle, Effect

\* The heap a creating native starts from.
Base(hp) ==
    /\ hp \in [DocId -> Doc \cup {Free}]
    /\ \/ hp = heap
       \/ \E e \in DocId, w \in Doc : Writes(e, w, hp) /\ OnlyPadded(heap[e], w)

LEMMA BasePads ==
  ASSUME IInv, NEW hp, Base(hp), NEW d \in DocId, heap[d] = Free, NEW v, heap' = [hp EXCEPT ![d] = v]
  PROVE  Padded
  BY SameIsPadded DEF Base, Writes, Padded, IInv, TypeOK

LEMMA OpenedEffect ==
  ASSUME IInv, NEW p \in Plugin, NEW hp, Base(hp), NEW d \in DocId, heap[d] = Free, NEW v \in Doc,
         Opened(p, hp, d, v)
  PROVE  Gentle
<1>1. Allocate
  BY DEF Opened, Allocate, Base
<1>2. SideOK'
  BY DEF Opened, Report, SideOK, IInv, TypeOK
<1>3. Padded
  BY BasePads DEF Opened
<1>4. Told
  BY <1>3 DEF Opened, Told
<1> QED BY <1>1, <1>2, <1>3, <1>4 DEF Gentle, Effect

LEMMA AbandonedEffect ==
  ASSUME IInv, NEW n \in Leaky, NEW hp, Base(hp), NEW d \in DocId, heap[d] = Free, NEW v \in Doc,
         Abandoned(n, hp, d, v)
  PROVE  Gentle
<1>1. Allocate
  <2>1. handle' = handle /\ faulted' \cap Leaky # {}
    BY DEF Abandoned, Fault
  <2> QED BY <2>1 DEF Abandoned, Allocate, Base
<1>2. SideOK'
  BY DEF Abandoned, Fault, Report, SideOK, IInv, TypeOK
<1>3. Padded
  BY BasePads DEF Abandoned
<1>4. Told
  BY <1>3 DEF Abandoned, Fault, Told
<1> QED BY <1>1, <1>2, <1>3, <1>4 DEF Gentle, Effect

LEMMA DeletedEffect ==
  ASSUME IInv, NEW n, Deleted(n)
  PROVE  Gentle
<1>1. Change /\ SideOK'
  BY DEF Deleted, Fault, Report, Change, SideOK, IInv, TypeOK
<1>2. Told /\ Padded
  BY SameIsPadded DEF Deleted, Fault, Told, Padded
<1> QED BY <1>1, <1>2 DEF Gentle, Effect

LEMMA HeapIsBase == ASSUME IInv PROVE Base(heap)
  BY DEF Base, IInv, TypeOK

----------------------------------------------------------------------------
(* The natives that write only let documents grow, but for those of Erase. *)

LEMMA KeyGrows ==
  ASSUME NEW v \in Doc, TakesKey(v), NEW k \in Key
  PROVE  /\ Grows(v, AtKey(v, k))
         /\ \A x \in Element : Grows(v, PutKey(v, k, x))
  BY AtKeyDoc, PutKeyDoc DEF Grows

LEMMA IndexGrows ==
  ASSUME NEW v \in Doc, TakesIndex(v), NEW w \in Doc
  PROVE  Grows(v, w)
  BY DEF Grows, TakesIndex

LEMMA SameGrows ==
  ASSUME NEW d \in DocId, heap[d] \in Doc
  PROVE  Grows(heap[d], heap[d]) /\ KindKept(d, heap[d])
  BY DEF Grows, KindKept

\* No native of arrays makes an object.
LEMMA ArrayKeepsKind ==
  ASSUME NEW d \in DocId, NEW w, w.t = "array"
  PROVE  KindKept(d, w)
  BY DEF KindKept

LEMMA BadIndexEffect ==
  ASSUME IInv, NEW d \in DocId, heap[d] \in Doc, NEW i, BadIndex(d, i)
  PROVE  Gentle
<1>1. CASE Reject
  BY <1>1, RejectEffect
<1>2. CASE TakesIndex(heap[d]) /\ Wrote(d, AsArray(heap[d]), FALSE)
  <2>1. /\ Grows(heap[d], AsArray(heap[d]))
        /\ KindKept(d, AsArray(heap[d]))
        /\ OnlyPadded(heap[d], AsArray(heap[d]))
    BY <1>2, AsArrayDoc, IndexGrows, ArrayKeepsKind, AsArrayPads
  <2> QED BY <1>2, <2>1, WroteEffect
<1>3. CASE /\ TakesIndex(heap[d])
           /\ ~Careful
           /\ heap' = [heap EXCEPT ![d] = EmptyArray]
           /\ ub' = "index"
           /\ UNCHANGED <<proxy, handle, file, report, visit, faulted>>
  <2>1. Grows(heap[d], EmptyArray) /\ KindKept(d, EmptyArray)
    BY <1>3, EmptyIsDoc, IndexGrows, ArrayKeepsKind DEF EmptyArray
  <2>2. Change
    BY <1>3, <2>1, EmptyIsDoc DEF Change, Writes
  <2>3. SideOK' /\ Told
    BY <1>3 DEF SideOK, Told, IInv, TypeOK
  <2> QED BY <1>3, <2>2, <2>3 DEF Gentle, Effect
<1> QED BY <1>1, <1>2, <1>3 DEF BadIndex, CareOverIndex

----------------------------------------------------------------------------
(* Every step is one of the effects. *)

LEMMA CreatingEffect ==
  ASSUME IInv, NEW p \in Plugin, Creating(p)
  PROVE  Gentle
<1>1. CASE ObjectCreate(p)
  BY <1>1, OpenedEffect, DeletedEffect, HeapIsBase, EmptyIsDoc DEF ObjectCreate
<1>2. CASE ArrayCreate(p)
  BY <1>2, OpenedEffect, DeletedEffect, HeapIsBase, EmptyIsDoc DEF ArrayCreate
<1>3. CASE LoadFromString(p)
  BY <1>3, OpenedEffect, DeletedEffect, RejectEffect, HeapIsBase, StoredIsElement DEF LoadFromString
<1>4. ASSUME NEW f \in Path, LoadFromFile(p, f) PROVE Gentle
  <2>1. Null \in Doc
    BY EmptyIsDoc, ElementIsDoc
  <2>2. file[f] \notin {Missing, Torn} => file[f] \in Doc
    BY DEF IInv, TypeOK
  <2>3. "LoadFromFile" \in Leaky
    BY DEF Leaky
  <2> QED BY <1>4, <2>1, <2>2, <2>3, OpenedEffect, DeletedEffect, AbandonedEffect, HeapIsBase DEF LoadFromFile
<1>5. ASSUME NEW h \in HandleId, NEW k \in Key, ObjectGetValueJSON(p, h, k) PROVE Gentle
  <2>1. CASE Reject
    BY <2>1, RejectEffect
  <2>2. CASE IsJson(h) /\ Contains(DocOf(h), k)
    <3>1. DocOf(h) \in Doc /\ TakesKey(DocOf(h))
      BY <2>2, JsonDoc DEF Contains, KeysOf, TakesKey
    <3>2. AtKey(DocOf(h), k).obj[k] \in Doc
      BY <3>1, AtKeyDoc, ElementIsDoc
    <3>3. "Get" \in Leaky
      BY DEF Leaky
    <3> QED BY <1>5, <2>2, <3>2, <3>3, OpenedEffect, AbandonedEffect, RejectEffect, HeapIsBase DEF ObjectGetValueJSON
  <2> QED BY <1>5, <2>1, <2>2 DEF ObjectGetValueJSON
<1>6. ASSUME NEW h \in HandleId, ObjectCreateIterator(p, h) PROVE Gentle
  <2>1. CASE Reject
    BY <2>1, RejectEffect
  <2>2. CASE IsJson(h) /\ ~Reject
    <3>1. PICK i \in IterId :
            /\ ~Live(i)
            /\ \/ /\ proxy' = [proxy EXCEPT ![i] = [doc |-> handle[h].obj, pos |-> Begin(DocOf(h))]]
                  /\ visit' = [visit EXCEPT ![i] = [seen |-> Standing(Begin(DocOf(h))),
                                                    kept |-> KeysOf(DocOf(h))]]
                  /\ NewHandle(p, "iterator", i)
                  /\ Report("ok")
                  /\ UNCHANGED <<heap, file, ub, faulted>>
               \/ Deleted("CreateIterator")
      BY <1>6, <2>2 DEF ObjectCreateIterator
    <3>2. CASE Deleted("CreateIterator")
      BY <3>2, DeletedEffect
    <3>3. CASE ~Deleted("CreateIterator")
      <4>1. OpenIterator
        BY <2>2, <3>1, <3>3, JsonDoc DEF OpenIterator, DocOf
      <4>2. SideOK'
        BY <3>1, <3>3 DEF Report, SideOK, IInv, TypeOK
      <4> QED BY <3>1, <3>3, <4>1, <4>2, UntouchedTold DEF Gentle, Effect
    <3> QED BY <3>2, <3>3
  <2> QED BY <1>6, <2>1, <2>2 DEF ObjectCreateIterator
<1>7. ASSUME NEW h \in HandleId, NEW i \in Index, ArrayGetValueJSON(p, h, i) PROVE Gentle
  <2>1. CASE Reject
    BY <2>1, RejectEffect
  <2>2. CASE IsJson(h) /\ BadIndex(handle[h].obj, i)
    BY <2>2, JsonDoc, BadIndexEffect DEF DocOf
  <2>3. CASE IsJson(h) /\ GoodIndex(handle[h].obj, i) /\ ~Reject /\ ~BadIndex(handle[h].obj, i)
    <3> DEFINE e  == handle[h].obj
               w  == AtIndex(DocOf(h), i)
               hp == [heap EXCEPT ![e] = w]
    <3>1. e \in DocId /\ heap[e] \in Doc /\ DocOf(h) = heap[e] /\ TakesIndex(heap[e]) /\ i \in Nat
      BY <2>3, JsonDoc, NetJsonAssumption DEF DocOf, GoodIndex
    <3>2. w \in Doc /\ w.t = "array" /\ w.arr[i + 1] \in Doc
      BY <3>1, AtIndexDoc, ElementIsDoc
    <3>3. Grows(heap[e], w) /\ KindKept(e, w) /\ OnlyPadded(heap[e], w)
      BY <3>1, <3>2, IndexGrows, ArrayKeepsKind, AtIndexPads
    <3>4. Base(hp)
      BY <3>1, <3>2, <3>3 DEF Base, Writes, IInv, TypeOK
    <3>5. PICK d \in DocId :
            /\ heap[d] = Free
            /\ \/ Opened(p, hp, d, w.arr[i + 1])
               \/ Abandoned("Get", hp, d, w.arr[i + 1])
      BY <1>7, <2>3 DEF ArrayGetValueJSON
    <3>6. "Get" \in Leaky
      BY DEF Leaky
    <3> HIDE DEF w, hp, e
    <3> QED BY <3>1, <3>2, <3>4, <3>5, <3>6, OpenedEffect, AbandonedEffect
  <2> QED BY <1>7, <2>1, <2>2, <2>3 DEF ArrayGetValueJSON
<1>8. CASE GetResponseBodyAsJSON(p)
  <2>1. "GetResponseBodyAsJSON" \in Leaky
    BY DEF Leaky
  <2> QED BY <1>8, <2>1, NetJsonAssumption, OpenedEffect, AbandonedEffect, RejectEffect, HeapIsBase
      DEF GetResponseBodyAsJSON
<1> QED BY <1>1, <1>2, <1>3, <1>4, <1>5, <1>6, <1>7, <1>8 DEF Creating

\* A look at an element that is there, or at one of an array.
LEMMA LookEffect ==
  ASSUME IInv, NEW h \in HandleId, IsJson(h), NEW ok
  PROVE  /\ \A k \in Key : Contains(DocOf(h), k) /\ Wrote(handle[h].obj, AtKey(DocOf(h), k), ok) => Gentle
         /\ \A i \in Index : GoodIndex(handle[h].obj, i) /\ Wrote(handle[h].obj, AtIndex(DocOf(h), i), ok) => Gentle
<1> DEFINE d == handle[h].obj
<1>1. d \in DocId /\ heap[d] \in Doc /\ DocOf(h) = heap[d]
  BY JsonDoc DEF DocOf
<1>2. ASSUME NEW k \in Key, Contains(DocOf(h), k), Wrote(d, AtKey(DocOf(h), k), ok) PROVE Gentle
  <2>1. AtKey(DocOf(h), k) = heap[d]
    BY <1>1, <1>2, AtKeyPads
  <2>2. Wrote(d, heap[d], ok)
    BY <1>2, <2>1
  <2> HIDE DEF d
  <2> QED BY <1>1, <2>2, SameGrows, SameIsPadded, WroteEffect
<1>3. ASSUME NEW i \in Index, GoodIndex(d, i), Wrote(d, AtIndex(DocOf(h), i), ok) PROVE Gentle
  <2> DEFINE w == AtIndex(heap[d], i)
  <2>1. TakesIndex(heap[d]) /\ i \in Nat
    BY <1>3, NetJsonAssumption DEF GoodIndex
  <2>2. Grows(heap[d], w) /\ KindKept(d, w) /\ OnlyPadded(heap[d], w)
    BY <1>1, <2>1, AtIndexDoc, IndexGrows, ArrayKeepsKind, AtIndexPads
  <2>3. Wrote(d, w, ok)
    BY <1>1, <1>3
  <2> HIDE DEF w, d
  <2> QED BY <1>1, <2>2, <2>3, WroteEffect
<1> QED BY <1>2, <1>3

LEMMA ReadingEffect ==
  ASSUME IInv, Reading
  PROVE  Gentle
<1>1. ASSUME NEW h \in HandleId, Dump(h) \/ GetSize(h) PROVE Gentle
  BY <1>1, RejectEffect, AnswerEffect DEF Dump, GetSize
<1>2. ASSUME NEW h \in HandleId, NEW k \in Key, ObjectIsValueNull(h, k) PROVE Gentle
  BY <1>2, RejectEffect, LookEffect DEF ObjectIsValueNull
<1>3. ASSUME NEW h \in HandleId, NEW k \in Key, ObjectHasKey(h, k) PROVE Gentle
  BY <1>3, AnswerEffect DEF ObjectHasKey
<1>4. ASSUME NEW h \in HandleId, NEW k \in Key, NEW T \in GetType, ObjectGetValue(h, k, T) PROVE Gentle
  BY <1>4, RejectEffect, LookEffect DEF ObjectGetValue
<1>5. ASSUME NEW h \in HandleId, NEW i \in Index, ArrayIsValueNull(h, i) PROVE Gentle
  <2>1. IsJson(h) => handle[h].obj \in DocId /\ heap[handle[h].obj] \in Doc
    BY JsonDoc DEF DocOf
  <2> QED BY <1>5, <2>1, RejectEffect, BadIndexEffect, LookEffect DEF ArrayIsValueNull
<1>6. ASSUME NEW h \in HandleId, NEW i \in Index, NEW T \in GetType, ArrayGetValue(h, i, T) PROVE Gentle
  <2>1. IsJson(h) => handle[h].obj \in DocId /\ heap[handle[h].obj] \in Doc
    BY JsonDoc DEF DocOf
  <2> QED BY <1>6, <2>1, RejectEffect, BadIndexEffect, LookEffect DEF ArrayGetValue
<1> QED BY <1>1, <1>2, <1>3, <1>4, <1>5, <1>6 DEF Reading

LEMMA AssignEffect ==
  ASSUME IInv, NEW h \in HandleId, IsJson(h), NEW k \in Key, NEW x, Assign(h, k, x)
  PROVE  Effect
<1> DEFINE d == handle[h].obj
<1>1. d \in DocId /\ heap[d] \in Doc
  BY JsonDoc DEF DocOf
<1>2. CASE Reject
  BY <1>2, RejectEffect DEF Gentle
<1>3. CASE /\ TakesKey(heap[d])
           /\ x \in Stored
           /\ CareOverKind(d)
           /\ Wrote(d, PutKey(heap[d], k, x), TRUE)
  <2>1. Grows(heap[d], PutKey(heap[d], k, x))
    BY <1>1, <1>3, StoredIsElement, KeyGrows
  <2>2. KindKept(d, PutKey(heap[d], k, x))
    BY <1>1, <1>3, DocShape DEF CareOverKind, KindKept, TakesKey
  <2> HIDE DEF d
  <2> QED BY <1>1, <1>3, <2>1, <2>2, WroteEffect
<1> QED BY <1>2, <1>3 DEF Assign

\* A native of arrays that succeeds.
LEMMA StoredEffect ==
  ASSUME IInv, NEW d \in DocId, heap[d] \in Doc, TakesIndex(heap[d]), NEW w \in Doc, w.t = "array",
         Wrote(d, w, TRUE)
  PROVE  Effect
  BY IndexGrows, ArrayKeepsKind, WroteEffect

LEMMA AssignAtEffect ==
  ASSUME IInv, NEW h \in HandleId, IsJson(h), NEW i \in Index, NEW x, AssignAt(h, i, x)
  PROVE  Effect
<1>1. handle[h].obj \in DocId /\ DocOf(h) \in Doc /\ DocOf(h) = heap[handle[h].obj]
  BY JsonDoc DEF DocOf
<1>2. CASE BadIndex(handle[h].obj, i)
  BY <1>1, <1>2, BadIndexEffect DEF Gentle
<1>3. CASE /\ GoodIndex(handle[h].obj, i)
           /\ x \in Stored
           /\ Wrote(handle[h].obj, PutIndex(DocOf(h), i, x), TRUE)
  <2>1. TakesIndex(DocOf(h)) /\ i \in Nat
    BY <1>1, <1>3, NetJsonAssumption DEF GoodIndex
  <2> QED BY <1>1, <1>3, <2>1, StoredIsElement, PutIndexDoc, StoredEffect
<1> QED BY <1>2, <1>3 DEF AssignAt

LEMMA EmplaceBackEffect ==
  ASSUME IInv, NEW h \in HandleId, IsJson(h), NEW x, EmplaceBack(h, x)
  PROVE  Effect
<1>1. handle[h].obj \in DocId /\ DocOf(h) \in Doc /\ DocOf(h) = heap[handle[h].obj]
  BY JsonDoc DEF DocOf
<1>2. CASE Reject
  BY <1>2, RejectEffect DEF Gentle
<1>3. CASE /\ TakesIndex(DocOf(h))
           /\ x \in Stored
           /\ Wrote(handle[h].obj, Pushed(DocOf(h), x), TRUE)
  BY <1>1, <1>3, StoredIsElement, PushedDoc, StoredEffect
<1> QED BY <1>2, <1>3 DEF EmplaceBack

\* Erase reports no error.
LEMMA OkTold ==
  ASSUME IInv, report' = "ok", UNCHANGED <<file, ub, faulted>>
  PROVE  SideOK' /\ Told
  BY DEF SideOK, Told, IInv, TypeOK

LEMMA ClearEffect ==
  ASSUME IInv, NEW h \in HandleId, Clear(h)
  PROVE  Effect
<1>1. CASE Reject
  BY <1>1, RejectEffect DEF Gentle
<1>3. ASSUME NEW readable \in BOOLEAN, ReadsParameter(readable) PROVE Effect
  BY <1>3, UndefinedEffect DEF ReadsParameter, CareOverParameter
<1>2. CASE IsJson(h) /\ ~Reject /\ ~\E readable \in BOOLEAN : ReadsParameter(readable)
  <2> DEFINE d == handle[h].obj
  <2>1. d \in DocId /\ heap[d] \in Doc
    BY <1>2, JsonDoc DEF DocOf
  <2>2. /\ heap' = [heap EXCEPT ![d] = Cleared(heap[d])]
        /\ CareOver(d, Key)
        /\ Detach(d, Key)
        /\ UNCHANGED handle
        /\ SideOK' /\ Told
    BY <1>2, OkTold DEF Clear, Report
  <2>3. /\ Cleared(heap[d]) \in Doc
        /\ Cleared(heap[d]).t = heap[d].t
        /\ KeysOf(Cleared(heap[d])) = KeysOf(heap[d]) \ Key
    BY <2>1, ClearedDoc DEF KeysOf
  <2>4. Erase
    BY <2>1, <2>2, <2>3 DEF Erase
  <2> QED BY <2>2, <2>4 DEF Effect
<1> QED BY <1>1, <1>2, <1>3 DEF Clear

LEMMA RemoveKeyEffect ==
  ASSUME IInv, NEW h \in HandleId, NEW k \in Key, ObjectRemoveKey(h, k)
  PROVE  Effect
<1>1. CASE Reject
  BY <1>1, RejectEffect DEF Gentle
<1>2. CASE IsJson(h) /\ ~Reject
  <2> DEFINE d == handle[h].obj
  <2>1. d \in DocId /\ heap[d] \in Doc
    BY <1>2, JsonDoc DEF DocOf
  <2>2. /\ heap[d].t = "object"
        /\ heap' = [heap EXCEPT ![d] = WithoutKey(heap[d], k)]
        /\ CareOver(d, {k})
        /\ Detach(d, {k})
        /\ UNCHANGED handle
        /\ SideOK' /\ Told
    BY <1>2, OkTold DEF ObjectRemoveKey, Report
  <2>3. /\ WithoutKey(heap[d], k) \in Doc
        /\ WithoutKey(heap[d], k).t = heap[d].t
        /\ KeysOf(WithoutKey(heap[d], k)) = KeysOf(heap[d]) \ {k}
    BY <2>1, <2>2, WithoutKeyDoc
  <2>4. Erase
    BY <2>1, <2>2, <2>3 DEF Erase
  <2> QED BY <2>2, <2>4 DEF Effect
<1> QED BY <1>1, <1>2 DEF ObjectRemoveKey

LEMMA ToFileEffect ==
  ASSUME IInv, NEW h \in HandleId, NEW f \in Path, ToFile(h, f)
  PROVE  Effect
<1>1. CASE Reject
  BY <1>1, RejectEffect DEF Gentle
<1>2. CASE IsJson(h) /\ ~Reject
  <2> DEFINE d == handle[h].obj
  <2>1. d \in DocId /\ heap[d] \in Doc /\ DocOf(h) = heap[d] /\ Printed(heap[d]) \in Doc
    BY <1>2, JsonDoc, PrintedIsDoc DEF DocOf
  <2>2. file' = file \/ FileWritten(d, f)
    BY <1>2, <2>1 DEF ToFile, FileWritten, Report
  <2>3. file' \in [Path -> Doc \cup {Missing, Torn}]
    BY <2>1, <2>2 DEF FileWritten, IInv, TypeOK
  <2>4. report' \in {"ok", "error"} /\ UNCHANGED <<heap, proxy, handle, ub, visit, faulted>>
    BY <1>2 DEF ToFile, Report
  <2>5. SideOK' /\ Change
    BY <2>3, <2>4 DEF SideOK, Change, IInv, TypeOK
  <2>6. Told
    BY <2>1, <2>2, <2>4, SameIsPadded DEF Told, Padded
  <2> QED BY <2>5, <2>6 DEF Effect
<1> QED BY <1>1, <1>2 DEF ToFile

LEMMA WritingEffect ==
  ASSUME IInv, Writing
  PROVE  Effect
<1> USE RejectEffect DEF Gentle
<1>1. ASSUME NEW h \in HandleId, NEW g \in HandleId, NEW k \in Key, ObjectSetValueJSON(h, k, g) PROVE Effect
  BY <1>1, AssignEffect DEF ObjectSetValueJSON
<1>2. ASSUME NEW h \in HandleId, NEW k \in Key, NEW x \in Leaf, ObjectSetValue(h, k, x) PROVE Effect
  BY <1>2, AssignEffect DEF ObjectSetValue
<1>3. ASSUME NEW h \in HandleId, NEW g \in HandleId, NEW i \in Index, ArraySetValueJSON(h, i, g) PROVE Effect
  BY <1>3, AssignAtEffect DEF ArraySetValueJSON
<1>4. ASSUME NEW h \in HandleId, NEW i \in Index, NEW x \in Scalar, ArraySetValue(h, i, x) PROVE Effect
  BY <1>4, AssignAtEffect DEF ArraySetValue
<1>5. ASSUME NEW h \in HandleId, NEW g \in HandleId, ArrayPushValueJSON(h, g) PROVE Effect
  BY <1>5, EmplaceBackEffect DEF ArrayPushValueJSON
<1>6. ASSUME NEW h \in HandleId, NEW x \in Leaf, ArrayPushValue(h, x) PROVE Effect
  BY <1>6, EmplaceBackEffect DEF ArrayPushValue
<1>7. ASSUME NEW h \in HandleId, NEW i \in Index, ArrayRemoveIndex(h, i) PROVE Effect
  <2>1. CASE Reject
    BY <2>1
  <2>2. CASE IsJson(h) /\ HasIndex(DocOf(h), i) /\ Wrote(handle[h].obj, ErasedAt(DocOf(h), i), TRUE)
    <3>1. handle[h].obj \in DocId /\ DocOf(h) \in Doc /\ DocOf(h) = heap[handle[h].obj] /\ i \in Int
      BY <2>2, JsonDoc, NetJsonAssumption DEF DocOf
    <3>2. TakesIndex(DocOf(h))
      BY <2>2 DEF HasIndex, TakesIndex
    <3> QED BY <2>2, <3>1, <3>2, ErasedAtDoc, StoredEffect
  <2> QED BY <1>7, <2>1, <2>2 DEF ArrayRemoveIndex
<1> QED BY <1>1, <1>2, <1>3, <1>4, <1>5, <1>6, <1>7, ClearEffect, RemoveKeyEffect, ToFileEffect DEF Writing

\* An iterator that is read where nothing is has been stranded, or the plugin
\* is not careful.
LEMMA ReadIsStranded ==
  ASSUME IInv, NEW h \in HandleId, IsIter(h), CareOverEnd(handle[h].obj),
         \/ proxy[handle[h].obj].doc = NoDoc
         \/ heap[proxy[handle[h].obj].doc].t = "object" /\ proxy[handle[h].obj].pos.at # "key"
  PROVE  ~Careful \/ \E i \in IterId : Live(i) /\ Stranded(i)
  BY IterProxy DEF CareOverEnd, Stranded

\* So has one that cannot be compared or stepped, if not the plugin walks an
\* array with it.
LEMMA FailureIsStranded ==
  ASSUME IInv, NEW h \in HandleId, IsIter(h), CareOverArray(handle[h].obj), MayFail(handle[h].obj)
  PROVE  ~Careful \/ \E i \in IterId : Live(i) /\ Stranded(i)
  BY IterProxy DEF CareOverArray, MayFail, Walks, Stranded

LEMMA IteratingEffect ==
  ASSUME IInv, Iterating
  PROVE  Effect
<1> USE RejectEffect DEF Gentle
<1>1. ASSUME NEW h \in HandleId, ObjectIteratorKey(h) PROVE Effect
  BY <1>1, AnswerEffect, UndefinedEffect, ReadIsStranded DEF ObjectIteratorKey
<1>2. ASSUME NEW h \in HandleId, ObjectIteratorMore(h) PROVE Effect
  <2>1. CASE Reject \/ Answer(TRUE)
    BY <2>1, AnswerEffect
  <2>2. CASE IsIter(h) /\ CareOverArray(handle[h].obj) /\ MayFail(handle[h].obj) /\ Undefined("iterator")
    BY <2>2, UndefinedEffect, FailureIsStranded
  <2> QED BY <1>2, <2>1, <2>2 DEF ObjectIteratorMore
<1>3. ASSUME NEW h \in HandleId, ObjectIteratorNext(h) PROVE Effect
  <2> DEFINE i == handle[h].obj
  <2>1. CASE Reject \/ Answer(TRUE)
    BY <2>1, AnswerEffect
  <2>2. CASE IsIter(h) /\ CareOverArray(i) /\ MayFail(i) /\ Undefined("iterator")
    BY <2>2, UndefinedEffect, FailureIsStranded
  <2>3. CASE /\ IsIter(h) /\ CareOverEnd(i)
             /\ Walks(i, "object") /\ proxy[i].pos.at = "end"
             /\ Undefined("iterator")
    BY <2>3, UndefinedEffect DEF CareOverEnd
  <2>4. CASE IsIter(h) /\ StepOver(i)
    <3>1. i \in IterId /\ Live(i)
      BY <2>4, IterProxy
    <3>2. Advance
      BY <2>4, <3>1 DEF Advance, StepOver, Walks
    <3> QED BY <2>4, <3>2, OkTold DEF StepOver, Report, Effect
  <2> QED BY <1>3, <2>1, <2>2, <2>3, <2>4 DEF ObjectIteratorNext
<1> QED BY <1>1, <1>2, <1>3 DEF Iterating

LEMMA HandleSystemEffect ==
  ASSUME IInv, HandleSystem
  PROVE  Effect
<1>1. ASSUME NEW p \in Plugin, NEW h \in HandleId, CloneHandle(p, h) PROVE Effect
  <2>1. Clone
    BY <1>1 DEF CloneHandle, Clone
  <2> QED BY <1>1, <2>1, OkTold DEF CloneHandle, Report, Effect
<1>2. ASSUME NEW hs \in SUBSET HandleId, Release(hs) PROVE Effect
  <2>1. SideOK' /\ Told
    BY <1>2, OkTold DEF Release, Report
  <2> QED BY <1>2, <2>1 DEF Effect, Freeing
<1>3. \A p \in Plugin : OwnedBy(p) \in SUBSET HandleId
  BY DEF OwnedBy
<1> QED BY <1>1, <1>2, <1>3 DEF HandleSystem, CloseHandle, PluginUnload

LEMMA NextEffect ==
  ASSUME IInv, [Next]_vars
  PROVE  Effect
<1>1. CASE UNCHANGED vars
  <2>1. Change /\ SideOK'
    BY <1>1 DEF vars, Change, SideOK, IInv, TypeOK
  <2> QED BY <1>1, <2>1, UntouchedTold DEF vars, Effect
<1> QED BY <1>1, CreatingEffect, ReadingEffect, IteratingEffect, WritingEffect, HandleSystemEffect DEF Next, Gentle

----------------------------------------------------------------------------
(* Where iterators go. *)

LEMMA LeastKey ==
  ASSUME NEW ks \in SUBSET Key, ks # {}
  PROVE  \E k \in ks : \A j \in ks : k <= j
<1>1. ks \subseteq Nat
  BY KeyAssumption
<1>2. PICK k \in ks : \A j \in ks : ~(<<j, k>> \in OpToRel(<, Nat))
  BY <1>1, WFMin, NatLessThanWellFounded
<1>3. \A j \in ks : ~(j < k)
  BY <1>1, <1>2 DEF OpToRel
<1> QED BY <1>1, <1>3

\* FirstOf is the end exactly when there is no key, and the least key otherwise.
LEMMA FirstOfKeys ==
  ASSUME NEW ks \in SUBSET Key
  PROVE  /\ FirstOf(ks) \in Position
         /\ FirstOf(ks).at = "end" => ks = {}
         /\ FirstOf(ks).at = "key" => FirstOf(ks).key \in ks /\ \A j \in ks : FirstOf(ks).key <= j
         /\ FirstOf(ks).at \in {"key", "end"}
<1>1. CASE ks = {}
  BY <1>1 DEF FirstOf, Position
<1>2. CASE ks # {}
  <2> DEFINE m == CHOOSE k \in ks : \A j \in ks : k <= j
  <2>1. m \in ks /\ \A j \in ks : m <= j
    BY <1>2, LeastKey
  <2>2. FirstOf(ks) = [at |-> "key", key |-> m]
    BY <1>2 DEF FirstOf
  <2> HIDE DEF m
  <2> QED BY <2>1, <2>2 DEF Position
<1> QED BY <1>1, <1>2

LEMMA KeysOfAreKeys == \A v : KeysOf(v) \in SUBSET Key
  BY DEF KeysOf

----------------------------------------------------------------------------
(* The invariant, effect by effect. *)

\* The heap after some document has grown: the same documents exist, and an
\* object that exists has kept its keys.
LEMMA GrownHeap ==
  ASSUME IInv, NEW hp, hp = heap \/ \E e \in DocId, w \in Doc : Writes(e, w, hp)
  PROVE  /\ hp \in [DocId -> Doc \cup {Free}]
         /\ \A d \in DocId : hp[d] # Free <=> heap[d] # Free
         /\ \A d \in DocId : heap[d].t = "object" =>
                hp[d].t = "object" /\ KeysOf(heap[d]) \subseteq KeysOf(hp[d])
<1>1. heap \in [DocId -> Doc \cup {Free}]
  BY DEF IInv, TypeOK
<1>2. CASE hp = heap
  BY <1>1, <1>2
<1>3. ASSUME NEW e \in DocId, NEW w \in Doc, Writes(e, w, hp)
      PROVE  /\ hp \in [DocId -> Doc \cup {Free}]
             /\ \A d \in DocId : hp[d] # Free <=> heap[d] # Free
             /\ \A d \in DocId : heap[d].t = "object" =>
                    hp[d].t = "object" /\ KeysOf(heap[d]) \subseteq KeysOf(hp[d])
  BY <1>1, <1>3, FreeIsNoDoc DEF Writes, Grows
<1> QED BY <1>2, <1>3

LEMMA ProxyType ==
  ASSUME IInv, NEW i \in IterId, Live(i)
  PROVE  /\ proxy[i].doc \in DocId \cup {NoDoc}
         /\ proxy[i].pos \in Position
         /\ proxy[i].pos.at \in {"key", "end", "lost", "array", "other"}
         /\ proxy[i].pos.at = "key" => proxy[i].pos.key \in Key
         /\ proxy[i] = [doc |-> proxy[i].doc, pos |-> proxy[i].pos]
  BY DEF IInv, TypeOK, Live, Proxy, Position

\* An iterator keeps its place while its document keeps its keys.
LEMMA StandsOnGrown ==
  ASSUME IInv, UNCHANGED <<proxy, visit>>,
         \A d \in DocId : heap[d] # Free => heap'[d] # Free,
         \A d \in DocId : heap[d].t = "object" =>
             heap'[d].t = "object" /\ KeysOf(heap[d]) \subseteq KeysOf(heap'[d])
  PROVE  IteratorsStand' /\ VisitOK'
<1> SUFFICES ASSUME NEW i \in IterId, Live(i), proxy[i].doc # NoDoc
             PROVE  /\ heap'[proxy[i].doc] # Free
                    /\ proxy[i].pos.at = "key" => Contains(heap'[proxy[i].doc], proxy[i].pos.key)
                    /\ proxy[i].pos.at = "end" => heap'[proxy[i].doc].t = "object"
                    /\ proxy[i].pos.at = "key" =>
                        /\ \A s \in visit[i].seen : s <= proxy[i].pos.key
                        /\ proxy[i].pos.key \in visit[i].seen
                        /\ visit[i].kept \subseteq KeysOf(heap'[proxy[i].doc])
                        /\ \A k \in visit[i].kept : k \in visit[i].seen \/ proxy[i].pos.key < k
                    /\ proxy[i].pos.at = "end" => visit[i].kept \subseteq visit[i].seen
  BY DEF IteratorsStand, VisitOK, Live
<1> DEFINE d == proxy[i].doc
<1>1. d \in DocId /\ heap[d] # Free
  BY ProxyType DEF IInv, IteratorsStand
<1>2. proxy[i].pos.at = "key" => heap[d].t = "object" /\ proxy[i].pos.key \in KeysOf(heap[d])
  BY DEF IInv, IteratorsStand, Contains, KeysOf
<1>3. proxy[i].pos.at = "end" => heap[d].t = "object"
  BY DEF IInv, IteratorsStand
<1> QED BY <1>1, <1>2, <1>3 DEF IInv, VisitOK, Contains

LEMMA ChangeInv ==
  ASSUME IInv, SideOK', Change
  PROVE  IInv'
<1>1. /\ heap' \in [DocId -> Doc \cup {Free}]
      /\ \A d \in DocId : heap'[d] # Free <=> heap[d] # Free
      /\ \A d \in DocId : heap[d].t = "object" =>
            heap'[d].t = "object" /\ KeysOf(heap[d]) \subseteq KeysOf(heap'[d])
  BY GrownHeap DEF Change
<1>2. TypeOK'
  BY <1>1 DEF Change, SideOK, IInv, TypeOK
<1>3. HandlesResolve'
  <2>1. \A h \in HandleId : IsJson(h) => handle[h].obj \in DocId
    BY JsonDoc
  <2> QED BY <1>1, <2>1 DEF Change, IInv, HandlesResolve, IsJson, DocOf, Live, HeldBy
<1>4. IteratorsStand' /\ VisitOK'
  BY <1>1, StandsOnGrown DEF Change
<1> QED BY <1>2, <1>3, <1>4 DEF IInv

LEMMA AllocateInv ==
  ASSUME IInv, SideOK', Allocate
  PROVE  IInv'
<1>1. PICK d \in DocId, v \in Doc, hp \in [DocId -> Doc \cup {Free}] :
        /\ heap[d] = Free
        /\ hp = heap \/ \E e \in DocId, w \in Doc : Writes(e, w, hp)
        /\ heap' = [hp EXCEPT ![d] = v]
        /\ handle' = handle \/ \E p \in Plugin : NewHandle(p, "json", d)
        /\ UNCHANGED <<proxy, visit>>
  BY DEF Allocate
<1>2. /\ \A e \in DocId : hp[e] # Free <=> heap[e] # Free
      /\ \A e \in DocId : heap[e].t = "object" =>
            hp[e].t = "object" /\ KeysOf(heap[e]) \subseteq KeysOf(hp[e])
  BY <1>1, GrownHeap
<1>3. heap' \in [DocId -> Doc \cup {Free}] /\ heap'[d] # Free
  BY <1>1, FreeIsNoDoc
<1>4. heap[d].t # "object"
  BY <1>1 DEF Free
<1>5. /\ \A e \in DocId : heap[e] # Free => heap'[e] # Free
      /\ \A e \in DocId : heap[e].t = "object" =>
            heap'[e].t = "object" /\ KeysOf(heap[e]) \subseteq KeysOf(heap'[e])
  BY <1>1, <1>2, <1>3, <1>4
<1>6. IteratorsStand' /\ VisitOK'
  BY <1>1, <1>5, StandsOnGrown
<1>7. \A h \in HandleId : IsJson(h) => handle[h].obj \in DocId /\ heap[handle[h].obj] # Free
  BY JsonDoc DEF IInv, HandlesResolve, DocOf
<1>8. CASE handle' = handle
  <2>1. HandlesResolve'
    BY <1>1, <1>5, <1>7, <1>8 DEF IInv, HandlesResolve, IsJson, DocOf, Live, HeldBy
  <2>2. TypeOK'
    BY <1>1, <1>3, <1>8 DEF SideOK, IInv, TypeOK
  <2> QED BY <1>6, <2>1, <2>2 DEF IInv
<1>9. CASE handle' # handle
  <2>1. PICK p \in Plugin, h \in HandleId :
          /\ handle[h] = NoHandle
          /\ handle' = [handle EXCEPT ![h] = [kind |-> "json", obj |-> d, owner |-> p]]
    BY <1>1, <1>9 DEF NewHandle
  <2>2. TypeOK'
    BY <1>1, <1>3, <2>1 DEF SideOK, IInv, TypeOK, JsonHandle
  <2>3. \A g \in HandleId : IsJson(g)' => DocOf(g)' # Free
    BY <1>3, <1>5, <1>7, <2>1 DEF IInv, TypeOK, IsJson, DocOf
  <2>4. HeldBy("iterator", HandleId)' = HeldBy("iterator", HandleId)
    BY <2>1 DEF HeldBy, IInv, TypeOK, NoHandle
  <2>5. HandlesResolve'
    BY <1>1, <2>3, <2>4 DEF IInv, HandlesResolve, Live
  <2> QED BY <1>6, <2>2, <2>5 DEF IInv
<1> QED BY <1>8, <1>9

LEMMA EraseInv ==
  ASSUME IInv, SideOK', Erase
  PROVE  IInv'
<1>1. PICK d \in DocId, ks \in SUBSET Key, w \in Doc :
        /\ heap[d] \in Doc
        /\ w.t = heap[d].t
        /\ KeysOf(w) = KeysOf(heap[d]) \ ks
        /\ heap' = [heap EXCEPT ![d] = w]
        /\ Detach(d, ks)
        /\ UNCHANGED handle
  BY DEF Erase
<1>2. heap' \in [DocId -> Doc \cup {Free}] /\ \A e \in DocId : heap'[e] # Free <=> heap[e] # Free
  BY <1>1, FreeIsNoDoc DEF IInv, TypeOK
<1>3. \A i \in IterId :
        /\ ~Live(i) => proxy'[i] = proxy[i]
        /\ Live(i) => /\ Live(i)'
                      /\ proxy'[i] \in Proxy
                      /\ proxy'[i].doc = proxy[i].doc
                      /\ proxy'[i].pos = proxy[i].pos \/ proxy'[i].pos.at = "lost"
                      /\ proxy[i].doc # d => proxy'[i].pos = proxy[i].pos
                      /\ proxy'[i].pos.at = "key" => proxy[i].doc # d \/ proxy'[i].pos.key \notin ks
  <2> SUFFICES ASSUME NEW i \in IterId
               PROVE  /\ ~Live(i) => proxy'[i] = proxy[i]
                      /\ Live(i) => /\ Live(i)'
                                    /\ proxy'[i] \in Proxy
                                    /\ proxy'[i].doc = proxy[i].doc
                                    /\ proxy'[i].pos = proxy[i].pos \/ proxy'[i].pos.at = "lost"
                                    /\ proxy[i].doc # d => proxy'[i].pos = proxy[i].pos
                                    /\ proxy'[i].pos.at = "key" => proxy[i].doc # d \/ proxy'[i].pos.key \notin ks
    OBVIOUS
  <2>1. CASE Reads(i, d) /\ proxy[i].pos.at = "key" /\ proxy[i].pos.key \in ks
    <3>1. proxy'[i] = [doc |-> proxy[i].doc, pos |-> [at |-> "lost"]]
      BY <1>1, <2>1 DEF Detach, MovedTo
    <3> QED BY <2>1, <3>1, ProxyType DEF Reads, Live, NoProxy, Proxy, Position
  <2>2. CASE ~(Reads(i, d) /\ proxy[i].pos.at = "key" /\ proxy[i].pos.key \in ks)
    <3>1. proxy'[i] = proxy[i]
      BY <1>1, <2>2 DEF Detach
    <3> QED BY <2>2, <3>1 DEF Reads, Live, IInv, TypeOK
  <2> QED BY <2>1, <2>2
<1>4. \A i \in IterId :
        /\ visit'[i].seen = visit[i].seen
        /\ visit'[i].kept = IF Reads(i, d) THEN visit[i].kept \ ks ELSE visit[i].kept
  BY <1>1 DEF Detach
<1>5. TypeOK'
  <2>1. proxy' \in [IterId -> Proxy \cup {NoProxy}]
    <3>1. \A i \in IterId : proxy'[i] \in Proxy \cup {NoProxy}
      BY <1>3 DEF Live
    <3> QED BY <1>1, <3>1 DEF Detach
  <2>2. visit' \in [IterId -> [seen : SUBSET Key, kept : SUBSET Key]]
    BY <1>1 DEF Detach, IInv, TypeOK
  <2> QED BY <1>1, <1>2, <2>1, <2>2 DEF SideOK, IInv, TypeOK
<1>6. HandlesResolve'
  <2>1. \A h \in HandleId : IsJson(h) => handle[h].obj \in DocId
    BY JsonDoc
  <2>2. \A i \in IterId : Live(i)' <=> Live(i)
    BY <1>3 DEF Live
  <2> QED BY <1>1, <1>2, <2>1, <2>2 DEF IInv, HandlesResolve, IsJson, DocOf, HeldBy
<1>7. ASSUME NEW i \in IterId, Live(i)', proxy'[i].doc # NoDoc
      PROVE  /\ heap'[proxy'[i].doc] # Free
             /\ proxy'[i].pos.at = "key" =>
                  /\ Contains(heap'[proxy'[i].doc], proxy'[i].pos.key)
                  /\ \A s \in visit'[i].seen : s <= proxy'[i].pos.key
                  /\ proxy'[i].pos.key \in visit'[i].seen
                  /\ visit'[i].kept \subseteq KeysOf(heap'[proxy'[i].doc])
                  /\ \A k \in visit'[i].kept : k \in visit'[i].seen \/ proxy'[i].pos.key < k
             /\ proxy'[i].pos.at = "end" =>
                  /\ heap'[proxy'[i].doc].t = "object"
                  /\ visit'[i].kept \subseteq visit'[i].seen
  <2>1. Live(i) /\ proxy'[i].doc = proxy[i].doc /\ proxy[i].doc \in DocId
    BY <1>3, <1>7, ProxyType DEF Live
  <2>2. heap'[proxy[i].doc] # Free
    BY <1>2, <1>7, <2>1 DEF IInv, IteratorsStand
  <2>3. CASE proxy'[i].pos.at = "lost"
    BY <2>1, <2>2, <2>3
  <2>4. CASE proxy'[i].pos = proxy[i].pos /\ proxy[i].doc # d
    <3>1. heap'[proxy[i].doc] = heap[proxy[i].doc] /\ visit'[i].kept = visit[i].kept
      <4>1. heap'[proxy[i].doc] = heap[proxy[i].doc]
        BY <1>1, <2>1, <2>4 DEF IInv, TypeOK
      <4> QED BY <1>4, <2>4, <4>1 DEF Reads
    <3> QED BY <1>4, <1>7, <2>1, <2>2, <2>4, <3>1 DEF IInv, IteratorsStand, VisitOK
  <2>5. CASE proxy'[i].pos = proxy[i].pos /\ proxy[i].doc = d
    <3>1. heap'[d] = w /\ visit'[i].kept = visit[i].kept \ ks
      BY <1>1, <1>4, <2>1, <2>5 DEF Reads, IInv, TypeOK
    <3>2. proxy[i].pos.at = "key" => proxy[i].pos.key \notin ks
      BY <1>3, <2>1, <2>5
    <3> QED BY <1>1, <1>4, <1>7, <2>1, <2>2, <2>5, <3>1, <3>2 DEF IInv, IteratorsStand, VisitOK, Contains
  <2> QED BY <1>3, <2>1, <2>3, <2>4, <2>5
<1> QED BY <1>5, <1>6, <1>7 DEF IInv, IteratorsStand, VisitOK

LEMMA CloneInv ==
  ASSUME IInv, SideOK', Clone
  PROVE  IInv'
<1>1. PICK p \in Plugin, g \in HandleId, h \in HandleId :
        /\ handle[g] # NoHandle
        /\ handle[h] = NoHandle
        /\ handle' = [handle EXCEPT ![h] = [kind |-> handle[g].kind, obj |-> handle[g].obj, owner |-> p]]
        /\ UNCHANGED <<heap, proxy, visit>>
  BY DEF Clone, NewHandle
<1>2. handle[g] \in JsonHandle \cup IterHandle
  BY <1>1 DEF IInv, TypeOK
<1>3. TypeOK'
  BY <1>1, <1>2 DEF SideOK, IInv, TypeOK, JsonHandle, IterHandle
<1>4. \A e \in HandleId : handle'[e] = IF e = h THEN [kind |-> handle[g].kind, obj |-> handle[g].obj, owner |-> p] ELSE handle[e]
  BY <1>1 DEF IInv, TypeOK
<1>5. HeldBy("iterator", HandleId)' = HeldBy("iterator", HandleId)
  <2>1. HeldBy("iterator", HandleId)' \subseteq HeldBy("iterator", HandleId)
    BY <1>4 DEF HeldBy
  <2>2. HeldBy("iterator", HandleId) \subseteq HeldBy("iterator", HandleId)'
    BY <1>1, <1>4 DEF HeldBy, NoHandle
  <2> QED BY <2>1, <2>2
<1>6. HandlesResolve'
  <2>1. \A e \in HandleId : IsJson(e)' => DocOf(e)' # Free
    BY <1>1, <1>4 DEF IInv, HandlesResolve, IsJson, DocOf
  <2> QED BY <1>1, <1>5, <2>1 DEF IInv, HandlesResolve, Live
<1>7. IteratorsStand' /\ VisitOK'
  BY <1>1, StandsOnGrown
<1> QED BY <1>3, <1>6, <1>7 DEF IInv

LEMMA OpenIteratorInv ==
  ASSUME IInv, SideOK', OpenIterator
  PROVE  IInv'
<1>1. PICK p \in Plugin, d \in DocId, i \in IterId, h \in HandleId :
        /\ heap[d] \in Doc
        /\ ~Live(i)
        /\ proxy' = [proxy EXCEPT ![i] = [doc |-> d, pos |-> Begin(heap[d])]]
        /\ visit' = [visit EXCEPT ![i] = [seen |-> Standing(Begin(heap[d])), kept |-> KeysOf(heap[d])]]
        /\ handle[h] = NoHandle
        /\ handle' = [handle EXCEPT ![h] = [kind |-> "iterator", obj |-> i, owner |-> p]]
        /\ UNCHANGED heap
  BY DEF OpenIterator, NewHandle
<1>2. /\ Begin(heap[d]) \in Position
      /\ Begin(heap[d]).at = "key" =>
           /\ heap[d].t = "object"
           /\ Begin(heap[d]).key \in KeysOf(heap[d])
           /\ \A j \in KeysOf(heap[d]) : Begin(heap[d]).key <= j
      /\ Begin(heap[d]).at = "end" => heap[d].t = "object" /\ KeysOf(heap[d]) = {}
  BY FirstOfKeys, KeysOfAreKeys DEF Begin, Position
<1>3. /\ Standing(Begin(heap[d])) \in SUBSET Key
      /\ Begin(heap[d]).at = "key" => Standing(Begin(heap[d])) = {Begin(heap[d]).key}
  BY <1>2 DEF Standing, Position
<1>4. TypeOK'
  BY <1>1, <1>2, <1>3, KeysOfAreKeys DEF SideOK, IInv, TypeOK, Proxy, IterHandle
<1>5. \A e \in HandleId : handle'[e] = IF e = h THEN [kind |-> "iterator", obj |-> i, owner |-> p] ELSE handle[e]
  BY <1>1 DEF IInv, TypeOK
<1>6. HeldBy("iterator", HandleId)' = HeldBy("iterator", HandleId) \cup {i}
  <2>1. HeldBy("iterator", HandleId)' \subseteq HeldBy("iterator", HandleId) \cup {i}
    BY <1>5 DEF HeldBy
  <2>2. HeldBy("iterator", HandleId) \cup {i} \subseteq HeldBy("iterator", HandleId)'
    BY <1>1, <1>5 DEF HeldBy, NoHandle
  <2> QED BY <2>1, <2>2
<1>7. \A j \in IterId : j # i => proxy'[j] = proxy[j] /\ visit'[j] = visit[j]
  BY <1>1
<1>8. proxy'[i] = [doc |-> d, pos |-> Begin(heap[d])] /\ visit'[i] = [seen |-> Standing(Begin(heap[d])), kept |-> KeysOf(heap[d])]
  BY <1>1 DEF IInv, TypeOK
<1>9. HandlesResolve'
  <2>1. \A e \in HandleId : IsJson(e)' => DocOf(e)' # Free
    BY <1>1, <1>5 DEF IInv, HandlesResolve, IsJson, DocOf
  <2>2. Live(i)'
    BY <1>8 DEF Live, NoProxy
  <2> QED BY <1>6, <1>7, <2>1, <2>2 DEF IInv, HandlesResolve, Live
<1>10. IteratorsStand'
  BY <1>1, <1>2, <1>7, <1>8, FreeIsNoDoc DEF IInv, IteratorsStand, Live, Contains
<1>11. VisitOK'
  <2> SUFFICES ASSUME NEW j \in IterId, Live(j)', proxy'[j].doc # NoDoc
               PROVE  /\ proxy'[j].pos.at = "key" =>
                           /\ \A s \in visit'[j].seen : s <= proxy'[j].pos.key
                           /\ proxy'[j].pos.key \in visit'[j].seen
                           /\ visit'[j].kept \subseteq KeysOf(heap'[proxy'[j].doc])
                           /\ \A k \in visit'[j].kept : k \in visit'[j].seen \/ proxy'[j].pos.key < k
                      /\ proxy'[j].pos.at = "end" => visit'[j].kept \subseteq visit'[j].seen
    BY DEF VisitOK
  <2>1. CASE j # i
    BY <1>1, <1>7, <2>1 DEF IInv, VisitOK, Live
  <2>2. CASE j = i
    <3>1. proxy'[j].pos.at = "key" => proxy'[j].pos.key \in Key
      BY <1>2, <1>8, <2>2 DEF Position
    <3> DEFINE b == Begin(heap[d])
               ks == KeysOf(heap[d])
    <3>2. /\ proxy'[j].pos = b
          /\ proxy'[j].doc = d
          /\ visit'[j].kept = ks
          /\ visit'[j].seen = Standing(b)
          /\ heap' = heap
      BY <1>1, <1>8, <2>2
    <3>3. CASE b.at = "key"
      <4>1. b.key \in Nat /\ ks \subseteq Nat /\ Standing(b) = {b.key} /\ \A k \in ks : b.key <= k
        BY <1>2, <1>3, <3>1, <3>2, <3>3, KeyAssumption, KeysOfAreKeys
      <4>2. \A k \in ks : k \in {b.key} \/ b.key < k
        BY <4>1
      <4> HIDE DEF b, ks
      <4>3. KeysOf(heap'[proxy'[j].doc]) = ks
        BY <3>2 DEF ks
      <4> QED BY <3>2, <3>3, <4>1, <4>2, <4>3
    <3>4. CASE b.at = "end"
      BY <1>2, <3>2, <3>4
    <3> QED BY <3>2, <3>3, <3>4
  <2> QED BY <2>1, <2>2
<1> QED BY <1>4, <1>9, <1>10, <1>11 DEF IInv

\* ++ leads to the least greater key, so no key that must be reached is passed
\* over.
LEMMA AdvanceInv ==
  ASSUME IInv, SideOK', Advance
  PROVE  IInv'
<1>1. PICK i \in IterId :
        /\ Live(i)
        /\ proxy[i].doc # NoDoc
        /\ heap[proxy[i].doc].t = "object"
        /\ proxy[i].pos.at = "key"
        /\ LET next == After(heap[proxy[i].doc], proxy[i].pos.key)
           IN  /\ proxy' = [proxy EXCEPT ![i] = MovedTo(i, next)]
               /\ visit' = [visit EXCEPT ![i] = [seen |-> @.seen \cup Standing(next), kept |-> @.kept]]
        /\ UNCHANGED <<heap, handle>>
  BY DEF Advance
<1> DEFINE d    == proxy[i].doc
           old  == proxy[i].pos.key
           ks   == KeysOf(heap[d])
           next == After(heap[d], old)
           rest == {j \in ks : old < j}
<1>2. old \in Nat /\ ks \subseteq Nat /\ d \in DocId /\ ks \in SUBSET Key /\ old \in Key
  BY <1>1, ProxyType, KeysOfAreKeys, KeyAssumption
<1>3. /\ next \in Position
      /\ next.at = "key" => next.key \in rest /\ \A j \in rest : next.key <= j
      /\ next.at = "end" => rest = {}
      /\ next.at \in {"key", "end"}
  <2>1. rest \in SUBSET Key
    BY <1>2
  <2> QED BY <2>1, FirstOfKeys DEF After
<1>4. /\ Standing(next) \in SUBSET Key
      /\ next.at = "key" => Standing(next) = {next.key} /\ next.key \in Nat
      /\ next.at = "end" => Standing(next) = {}
  BY <1>2, <1>3 DEF Standing
<1>5. /\ proxy'[i] = [doc |-> d, pos |-> next]
      /\ visit'[i] = [seen |-> visit[i].seen \cup Standing(next), kept |-> visit[i].kept]
      /\ \A j \in IterId : j # i => proxy'[j] = proxy[j] /\ visit'[j] = visit[j]
  BY <1>1 DEF MovedTo, IInv, TypeOK
<1>6. visit[i].seen \in SUBSET Key /\ visit[i].kept \in SUBSET Key
  BY DEF IInv, TypeOK
<1>7. TypeOK'
  <2>1. [doc |-> d, pos |-> next] \in Proxy
    BY <1>2, <1>3 DEF Proxy
  <2>2. [seen |-> visit[i].seen \cup Standing(next), kept |-> visit[i].kept] \in [seen : SUBSET Key, kept : SUBSET Key]
    BY <1>4, <1>6
  <2>3. proxy' \in [IterId -> Proxy \cup {NoProxy}]
    BY <1>1, <2>1 DEF IInv, TypeOK, MovedTo
  <2>4. visit' \in [IterId -> [seen : SUBSET Key, kept : SUBSET Key]]
    BY <1>1, <2>2 DEF IInv, TypeOK
  <2> QED BY <1>1, <2>3, <2>4 DEF SideOK, IInv, TypeOK
<1>8. HandlesResolve'
  <2>1. \A j \in IterId : Live(j)' <=> Live(j)
    BY <1>1, <1>5 DEF Live, NoProxy
  <2> QED BY <1>1, <2>1 DEF IInv, HandlesResolve, IsJson, DocOf, HeldBy
<1>9. /\ \A s \in visit[i].seen : s <= old
      /\ old \in visit[i].seen
      /\ visit[i].kept \subseteq ks
      /\ \A k \in visit[i].kept : k \in visit[i].seen \/ old < k
      /\ heap[d] # Free
  BY <1>1 DEF IInv, VisitOK, IteratorsStand
<1>10. /\ next.at = "key" =>
            /\ \A s \in visit'[i].seen : s <= next.key
            /\ next.key \in visit'[i].seen
            /\ visit'[i].kept \subseteq ks
            /\ \A k \in visit'[i].kept : k \in visit'[i].seen \/ next.key < k
       /\ next.at = "end" => visit'[i].kept \subseteq visit'[i].seen
  <2>1. CASE next.at = "key"
    <3>1. next.key \in rest /\ next.key \in Nat /\ \A j \in rest : next.key <= j
      BY <1>3, <1>4, <2>1
    <3>2. visit'[i].seen = visit[i].seen \cup {next.key} /\ visit'[i].kept = visit[i].kept
      BY <1>4, <1>5, <2>1
    <3>3. \A s \in visit[i].seen : s <= next.key
      <4>1. old < next.key
        BY <3>1
      <4>2. visit[i].seen \subseteq Nat
        BY <1>6, KeyAssumption
      <4> HIDE DEF next, old
      <4> QED BY <1>2, <1>9, <3>1, <4>1, <4>2
    <3>4. \A k \in visit[i].kept : k \in visit[i].seen \/ k = next.key \/ next.key < k
      BY <1>2, <1>9, <3>1
    <3> HIDE DEF next
    <3> QED BY <1>9, <2>1, <3>1, <3>2, <3>3, <3>4
  <2>2. CASE next.at = "end"
    BY <1>3, <1>4, <1>5, <1>9, <2>2
  <2> QED BY <1>3, <2>1, <2>2
<1>11. IteratorsStand'
  <2> SUFFICES ASSUME NEW j \in IterId, Live(j)', proxy'[j].doc # NoDoc
               PROVE  /\ heap'[proxy'[j].doc] # Free
                      /\ proxy'[j].pos.at = "key" => Contains(heap'[proxy'[j].doc], proxy'[j].pos.key)
                      /\ proxy'[j].pos.at = "end" => heap'[proxy'[j].doc].t = "object"
    BY DEF IteratorsStand
  <2>1. CASE j # i
    BY <1>1, <1>5, <2>1 DEF IInv, IteratorsStand, Live
  <2>2. CASE j = i
    <3>1. proxy'[j].doc = d /\ proxy'[j].pos = next /\ heap' = heap
      BY <1>1, <1>5, <2>2
    <3> HIDE DEF next
    <3> QED BY <1>1, <1>3, <1>9, <3>1 DEF Contains
  <2> QED BY <2>1, <2>2
<1>12. VisitOK'
  <2> SUFFICES ASSUME NEW j \in IterId, Live(j)', proxy'[j].doc # NoDoc
               PROVE  /\ proxy'[j].pos.at = "key" =>
                           /\ \A s \in visit'[j].seen : s <= proxy'[j].pos.key
                           /\ proxy'[j].pos.key \in visit'[j].seen
                           /\ visit'[j].kept \subseteq KeysOf(heap'[proxy'[j].doc])
                           /\ \A k \in visit'[j].kept : k \in visit'[j].seen \/ proxy'[j].pos.key < k
                      /\ proxy'[j].pos.at = "end" => visit'[j].kept \subseteq visit'[j].seen
    BY DEF VisitOK
  <2>1. CASE j # i
    BY <1>1, <1>5, <2>1 DEF IInv, VisitOK, Live
  <2>2. CASE j = i
    <3>1. proxy'[j].doc = d /\ proxy'[j].pos = next /\ KeysOf(heap'[proxy'[j].doc]) = ks
      BY <1>1, <1>5, <2>2
    <3> HIDE DEF next
    <3> QED BY <1>10, <2>2, <3>1
  <2> QED BY <2>1, <2>2
<1> QED BY <1>7, <1>8, <1>11, <1>12 DEF IInv

\* The objects that go with their last handle take nothing with them that
\* another handle refers to.
LEMMA FreeingInv ==
  ASSUME IInv, SideOK', Freeing
  PROVE  IInv'
<1>1. PICK hs \in SUBSET HandleId : Release(hs)
  BY DEF Freeing
<1> DEFINE ds == LastHeldBy("json", hs)
           is == LastHeldBy("iterator", hs)
<1>2. /\ \A h \in HandleId : handle'[h] = IF h \in hs THEN NoHandle ELSE handle[h]
      /\ \A d \in DocId : heap'[d] = IF d \in ds THEN Free ELSE heap[d]
      /\ \A i \in IterId : proxy'[i] = IF i \in is THEN NoProxy
                                       ELSE IF Live(i) /\ proxy[i].doc \in ds THEN [doc |-> NoDoc, pos |-> proxy[i].pos]
                                       ELSE proxy[i]
      /\ \A i \in IterId : visit'[i] = IF i \in is \/ (Live(i) /\ proxy[i].doc \in ds) THEN NoVisit ELSE visit[i]
  BY <1>1 DEF Release
<1>3. TypeOK'
  <2>1. heap' \in [DocId -> Doc \cup {Free}]
    BY <1>1 DEF Release, IInv, TypeOK
  <2>2. handle' \in [HandleId -> JsonHandle \cup IterHandle \cup {NoHandle}]
    BY <1>1 DEF Release, IInv, TypeOK
  <2>3. proxy' \in [IterId -> Proxy \cup {NoProxy}]
    <3>1. ASSUME NEW i \in IterId PROVE proxy'[i] \in Proxy \cup {NoProxy}
      <4>1. CASE i \in is
        BY <1>2, <4>1
      <4>2. CASE i \notin is /\ Live(i) /\ proxy[i].doc \in ds
        <5>1. proxy'[i] = [doc |-> NoDoc, pos |-> proxy[i].pos]
          BY <1>2, <4>2
        <5>2. proxy[i].pos \in Position
          BY <4>2, ProxyType
        <5> QED BY <5>1, <5>2 DEF Proxy
      <4>3. CASE i \notin is /\ ~(Live(i) /\ proxy[i].doc \in ds)
        <5>1. proxy'[i] = proxy[i]
          BY <1>2, <4>3
        <5> QED BY <5>1 DEF IInv, TypeOK
      <4> QED BY <4>1, <4>2, <4>3
    <3> QED BY <1>1, <3>1 DEF Release
  <2>4. visit' \in [IterId -> [seen : SUBSET Key, kept : SUBSET Key]]
    BY <1>1 DEF Release, NoVisit, IInv, TypeOK
  <2> QED BY <2>1, <2>2, <2>3, <2>4 DEF SideOK, TypeOK
<1>4. \A h \in HandleId : h \notin hs => handle'[h] = handle[h]
  BY <1>2
<1>5. \A h \in HandleId : handle'[h].kind \in {"json", "iterator"} => h \notin hs
  BY <1>2 DEF NoHandle
<1>6. \A h \in HandleId : IsJson(h)' => DocOf(h)' # Free
  <2> SUFFICES ASSUME NEW h \in HandleId, IsJson(h)' PROVE DocOf(h)' # Free
    OBVIOUS
  <2>1. h \notin hs /\ handle'[h] = handle[h] /\ IsJson(h)
    BY <1>4, <1>5 DEF IsJson
  <2>2. handle[h].obj \in DocId /\ heap[handle[h].obj] # Free
    BY <2>1, JsonDoc DEF IInv, HandlesResolve, DocOf
  <2>3. handle[h].obj \in HeldBy("json", HandleId \ hs)
    BY <2>1 DEF HeldBy, IsJson
  <2>4. handle[h].obj \notin ds
    BY <2>3 DEF LastHeldBy
  <2> QED BY <1>2, <2>1, <2>2, <2>4 DEF DocOf
<1>7. HeldBy("iterator", HandleId)' = HeldBy("iterator", HandleId) \ is
  <2>1. HeldBy("iterator", HandleId)' = HeldBy("iterator", HandleId \ hs)
    BY <1>4, <1>5 DEF HeldBy
  <2>2. HeldBy("iterator", HandleId) = HeldBy("iterator", hs) \cup HeldBy("iterator", HandleId \ hs)
    BY DEF HeldBy
  <2> QED BY <2>1, <2>2 DEF LastHeldBy
<1>8. ASSUME NEW i \in IterId PROVE Live(i)' <=> Live(i) /\ i \notin is
  <2>1. CASE i \in is
    BY <1>2, <2>1 DEF Live
  <2>2. CASE i \notin is /\ Live(i) /\ proxy[i].doc \in ds
    <3>1. proxy'[i] = [doc |-> NoDoc, pos |-> proxy[i].pos]
      BY <1>2, <2>2
    <3>2. proxy'[i] # NoProxy
      BY <3>1 DEF NoProxy
    <3> QED BY <2>2, <3>2 DEF Live
  <2>3. CASE i \notin is /\ ~(Live(i) /\ proxy[i].doc \in ds)
    <3>1. proxy'[i] = proxy[i]
      BY <1>2, <2>3
    <3> QED BY <2>3, <3>1 DEF Live
  <2> QED BY <2>1, <2>2, <2>3
<1>9. HandlesResolve'
  BY <1>6, <1>7, <1>8 DEF IInv, HandlesResolve
<1>10. ASSUME NEW i \in IterId, Live(i)', proxy'[i].doc # NoDoc
       PROVE  /\ Live(i) /\ proxy'[i] = proxy[i] /\ visit'[i] = visit[i]
              /\ heap'[proxy[i].doc] = heap[proxy[i].doc]
  <2>1. Live(i) /\ i \notin is
    BY <1>8, <1>10
  <2>2. proxy[i].doc \notin ds
    <3>1. SUFFICES ASSUME proxy[i].doc \in ds PROVE FALSE
      OBVIOUS
    <3>2. proxy'[i] = [doc |-> NoDoc, pos |-> proxy[i].pos]
      BY <1>2, <2>1, <3>1
    <3> QED BY <1>10, <3>2
  <2>3. proxy'[i] = proxy[i] /\ visit'[i] = visit[i]
    BY <1>2, <2>1, <2>2
  <2>4. proxy[i].doc \in DocId
    BY <1>10, <2>1, <2>3, ProxyType
  <2> QED BY <1>2, <2>1, <2>2, <2>3, <2>4
<1>11. IteratorsStand'
  BY <1>10 DEF IInv, IteratorsStand
<1>12. VisitOK'
  BY <1>10 DEF IInv, VisitOK
<1> QED BY <1>3, <1>9, <1>11, <1>12 DEF IInv

----------------------------------------------------------------------------
(* The invariant, and what follows from it. *)

LEMMA InitInv == Init => IInv
<1> SUFFICES ASSUME Init PROVE IInv
  OBVIOUS
<1>1. TypeOK
  BY DEF Init, TypeOK, NoVisit
<1>2. HandlesResolve
  BY DEF Init, HandlesResolve, IsJson, HeldBy, NoHandle, Live
<1>3. IteratorsStand /\ VisitOK
  BY DEF Init, IteratorsStand, VisitOK, Live
<1> QED BY <1>1, <1>2, <1>3 DEF IInv

LEMMA NextInv == IInv /\ [Next]_vars => IInv'
<1> SUFFICES ASSUME IInv, [Next]_vars PROVE IInv'
  OBVIOUS
<1>1. Effect
  BY NextEffect
<1> QED BY <1>1, ChangeInv, AllocateInv, EraseInv, OpenIteratorInv, AdvanceInv, CloneInv, FreeingInv DEF Effect

LEMMA Inductive == Spec => []IInv
  BY InitInv, NextInv, PTL DEF Spec

(***************************************************************************)
(* The variables keep their types: documents stay documents of the sizes   *)
(* and kinds the natives can build, whatever plugins call.                 *)
(***************************************************************************)
THEOREM TypeCorrect == Spec => []TypeOK
<1>1. IInv => TypeOK
  BY DEF IInv
<1> QED BY <1>1, Inductive, PTL

(***************************************************************************)
(* Every handle refers to an object that is still allocated, and iterator  *)
(* proxies live as long as their handles.                                  *)
(***************************************************************************)
THEOREM HandlesAlwaysResolve == Spec => []HandlesResolve
<1>1. IInv => HandlesResolve
  BY DEF IInv
<1> QED BY <1>1, Inductive, PTL

(***************************************************************************)
(* An iterator of a document that exists stands on an element the document *)
(* has, unless that very element was removed.                              *)
(***************************************************************************)
THEOREM IteratorsAlwaysStand == Spec => []IteratorsStand
<1>1. IInv => IteratorsStand
  BY DEF IInv
<1> QED BY <1>1, Inductive, PTL

(***************************************************************************)
(* An iteration that reaches the end has stood on every key that was there *)
(* when it began and was never removed.                                    *)
(***************************************************************************)
THEOREM IterationAlwaysComplete == Spec => []IterationComplete
<1>1. IInv => IterationComplete
  BY DEF IInv, VisitOK, IterationComplete
<1> QED BY <1>1, Inductive, PTL
----------------------------------------------------------------------------
(* No iterator stands on a key twice. *)

LEMMA AdvanceIsFresh ==
  ASSUME IInv, Advance, NEW i \in IterId, NEW k \in Key, MovesOnto(i, k)
  PROVE  k \notin visit[i].seen
<1>1. PICK a \in IterId :
        /\ Live(a)
        /\ proxy[a].doc # NoDoc
        /\ proxy[a].pos.at = "key"
        /\ proxy' = [proxy EXCEPT ![a] = MovedTo(a, After(heap[proxy[a].doc], proxy[a].pos.key))]
  BY DEF Advance
<1> DEFINE old  == proxy[a].pos.key
           next == After(heap[proxy[a].doc], old)
           rest == {j \in KeysOf(heap[proxy[a].doc]) : old < j}
<1>2. i = a
  BY <1>1 DEF MovesOnto, IInv, TypeOK
<1>3. proxy'[a].pos = next
  BY <1>1 DEF MovedTo, IInv, TypeOK
<1>4. next = [at |-> "key", key |-> k]
  BY <1>2, <1>3 DEF MovesOnto
<1>5. proxy[a].doc \in DocId /\ old \in Key
  BY <1>1, ProxyType
<1>6. k \in rest
  <2>1. rest \in SUBSET Key
    BY <1>5, KeysOfAreKeys
  <2>2. next.at = "key" /\ next.key = k
    BY <1>4
  <2> QED BY <2>1, <2>2, FirstOfKeys DEF After
<1>7. old < k
  BY <1>6
<1>8. \A s \in visit[a].seen : s <= old
  BY <1>1 DEF IInv, VisitOK
<1> HIDE DEF old
<1>9. old \in Nat /\ k \in Nat
  BY <1>5, KeyAssumption
<1> QED BY <1>2, <1>7, <1>8, <1>9

LEMMA OthersDoNotMove ==
  ASSUME IInv, Change \/ Allocate \/ Erase \/ OpenIterator \/ Clone \/ Freeing,
         NEW i \in IterId, NEW k \in Key
  PROVE  ~MovesOnto(i, k)
<1>1. CASE Change \/ Allocate \/ Clone
  BY <1>1 DEF Change, Allocate, Clone, MovesOnto
<1>2. CASE Erase
  <2>1. PICK d \in DocId, ks \in SUBSET Key : Detach(d, ks)
    BY <1>2 DEF Erase
  <2>2. proxy'[i] = proxy[i] \/ proxy'[i] = [doc |-> proxy[i].doc, pos |-> [at |-> "lost"]]
    BY <2>1 DEF Detach, MovedTo
  <2> QED BY <2>2 DEF MovesOnto
<1>3. CASE OpenIterator
  <2>1. PICK j \in IterId : ~Live(j) /\ \E x : proxy' = [proxy EXCEPT ![j] = x]
    BY <1>3 DEF OpenIterator
  <2> QED BY <2>1 DEF MovesOnto, IInv, TypeOK
<1>4. CASE Freeing
  <2>1. PICK ds, is :
          proxy'[i] = IF i \in is THEN NoProxy
                      ELSE IF Live(i) /\ proxy[i].doc \in ds THEN [doc |-> NoDoc, pos |-> proxy[i].pos]
                      ELSE proxy[i]
    BY <1>4 DEF Freeing, Release
  <2>2. CASE proxy'[i] = NoProxy
    BY <2>2 DEF MovesOnto, Live
  <2>3. CASE proxy'[i] = [doc |-> NoDoc, pos |-> proxy[i].pos]
    BY <2>3 DEF MovesOnto
  <2>4. CASE proxy'[i] = proxy[i]
    BY <2>4 DEF MovesOnto
  <2> QED BY <2>1, <2>2, <2>3, <2>4
<1> QED BY <1>1, <1>2, <1>3, <1>4

(***************************************************************************)
(* No iterator stands on the same key twice, even when the key is removed  *)
(* behind it and inserted again.                                           *)
(***************************************************************************)
THEOREM NeverRevisits == Spec => NoRevisit
<1>1. ASSUME IInv, [Next]_vars, NEW i \in IterId, NEW k \in Key, MovesOnto(i, k)
      PROVE  k \notin visit[i].seen
  <2>1. Effect
    BY <1>1, NextEffect
  <2> QED BY <1>1, <2>1, AdvanceIsFresh, OthersDoNotMove DEF Effect
<1>2. IInv /\ [Next]_vars => [\A i \in IterId, k \in Key : MovesOnto(i, k) => k \notin visit[i].seen]_vars
  BY <1>1
<1> QED BY <1>2, Inductive, PTL DEF Spec, NoRevisit

----------------------------------------------------------------------------
(* Errors and reads. *)

(***************************************************************************)
(* A native that reports an error has changed no document, but for nulls   *)
(* at the end of an array.                                                 *)
(***************************************************************************)
THEOREM ErrorsNeverTear == Spec => ErrorsOnlyPad
<1>1. IInv /\ [Next]_vars => [report' = "error" /\ ub' = "none" => Padded]_vars
  BY NextEffect DEF Effect, Told
<1>2. IInv /\ [Next]_vars =>
        [report' = "error" /\ ub' = "none" =>
            \A d \in DocId : heap[d] # Free => OnlyPadded(heap[d], heap'[d])]_vars
  BY <1>1 DEF Padded
<1> QED BY <1>2, Inductive, PTL DEF Spec, ErrorsOnlyPad

(***************************************************************************)
(* The natives that read or create leave every other document as it was,   *)
(* but for nulls at the end of an array.                                   *)
(***************************************************************************)
THEOREM ReadsNeverWrite == Spec => ReadsOnlyPad
<1>1. ASSUME IInv, Reading \/ \E p \in Plugin : Creating(p), ub' = "none" PROVE Padded
  BY <1>1, CreatingEffect, ReadingEffect DEF Gentle
<1>2. IInv /\ [Next]_vars =>
        [(Reading \/ \E p \in Plugin : Creating(p)) /\ ub' = "none" =>
            \A d \in DocId : heap[d] # Free => OnlyPadded(heap[d], heap'[d])]_vars
  BY <1>1 DEF Padded
<1> QED BY <1>2, Inductive, PTL DEF Spec, ReadsOnlyPad

----------------------------------------------------------------------------
(* Files. *)

\* A scalar that a file can hold.
ReadsBack(w) == w.t \in {"number", "string"} => w.x \notin {"nan", "invalid"}

LEMMA LeafReadsBack ==
  ASSUME NEW v \in Leaf \cup {Absent}, ~(v.t = "string" /\ v.x = "invalid")
  PROVE  ReadsBack(PrintedLeaf(v))
  BY ScalarAssumption DEF Leaf, AllScalar, Null, Absent, PrintedLeaf, ReadsBack

\* The items of what is printed are printed items.
LEMMA PrintedItems ==
  ASSUME NEW v \in Doc, NEW w \in Items(Printed(v))
  PROVE  \E e \in Items(v) : e \in Element /\ w = PrintedElement(e)
<1>1. CASE v.t = "object"
  <2>1. v.obj \in [Key -> Element \cup {Absent}]
    BY <1>1, DocShape
  <2>2. PICK k \in Key : w = PrintedElement(v.obj[k]) /\ PrintedElement(v.obj[k]) # Absent
    BY <1>1 DEF Printed, Items, KeysOf
  <2>3. v.obj[k] # Absent /\ v.obj[k] \in Element
    BY <2>1, <2>2, PrintedAbsent
  <2>4. v.obj[k] \in Items(v)
    BY <1>1, <2>3 DEF Items, KeysOf
  <2> QED BY <2>2, <2>3, <2>4
<1>2. CASE v.t = "array"
  <2>1. v.arr \in Seq(Element) /\ DOMAIN v.arr = 1..Len(v.arr)
    BY <1>2, DocShape, LenProperties
  <2>2. PICK i \in DOMAIN v.arr : w = PrintedElement(v.arr[i])
    BY <1>2 DEF Printed, Items
  <2>3. v.arr[i] \in Element
    BY <2>1, ElementOfSeq
  <2>4. v.arr[i] \in Items(v)
    BY <1>2 DEF Items
  <2> QED BY <2>2, <2>3, <2>4
<1>3. CASE v.t \notin {"object", "array"}
  <2>1. Printed(v).t \notin {"object", "array"}
    BY <1>3 DEF Printed, PrintedLeaf, Null
  <2>2. Items(Printed(v)) = {}
    BY <2>1 DEF Items
  <2> QED BY <2>2
<1> QED BY <1>1, <1>2, <1>3

LEMMA PrintedLeaves ==
  ASSUME NEW e \in Element, NEW w \in Items(PrintedElement(e))
  PROVE  \E l \in Items(e) : l \in Leaf /\ w = PrintedLeaf(l)
<1>1. CASE e \in ObjectOver(Leaf)
  <2>1. e.t = "object" /\ e.obj \in [Key -> Leaf \cup {Absent}]
    BY <1>1 DEF ObjectOver
  <2>2. PICK k \in Key : w = PrintedLeaf(e.obj[k]) /\ PrintedLeaf(e.obj[k]) # Absent
    BY <2>1 DEF PrintedElement, Items, KeysOf
  <2>3. e.obj[k] # Absent /\ e.obj[k] \in Leaf
    BY <2>1, <2>2, PrintedAbsent
  <2>4. e.obj[k] \in Items(e)
    BY <2>1, <2>3 DEF Items, KeysOf
  <2> QED BY <2>2, <2>3, <2>4
<1>2. CASE e \in ArrayOver(Leaf)
  <2>1. e.t = "array" /\ e.arr \in Seq(Leaf) /\ DOMAIN e.arr = 1..Len(e.arr)
    BY <1>2, LenProperties DEF ArrayOver
  <2>2. PICK i \in DOMAIN e.arr : w = PrintedLeaf(e.arr[i])
    BY <2>1 DEF PrintedElement, Items
  <2>3. e.arr[i] \in Leaf
    BY <2>1, ElementOfSeq
  <2>4. e.arr[i] \in Items(e)
    BY <2>1 DEF Items
  <2> QED BY <2>2, <2>3, <2>4
<1>3. CASE e \in Leaf
  <2>1. e.t \notin {"object", "array"}
    BY <1>3, LeafShape
  <2>2. PrintedElement(e) = PrintedLeaf(e)
    BY <2>1 DEF PrintedElement
  <2>3. PrintedElement(e).t \notin {"object", "array"}
    BY <1>3, <2>2, PrintedLeafIsLeaf, LeafShape
  <2>4. Items(PrintedElement(e)) = {}
    BY <2>3 DEF Items
  <2> QED BY <2>4
<1> QED BY <1>1, <1>2, <1>3 DEF Element

\* The top of a printed value.
LEMMA ElementReadsBack ==
  ASSUME NEW e \in Element, ~(e.t = "string" /\ e.x = "invalid")
  PROVE  ReadsBack(PrintedElement(e))
<1>1. CASE e.t \in {"object", "array"}
  BY <1>1 DEF PrintedElement, ReadsBack
<1>2. CASE e.t \notin {"object", "array"}
  <2>1. e \in Leaf
    BY <1>2 DEF Element, ObjectOver, ArrayOver
  <2> QED BY <1>2, <2>1, LeafReadsBack DEF PrintedElement
<1> QED BY <1>1, <1>2

LEMMA DocReadsBack ==
  ASSUME NEW v \in Doc, ~(v.t = "string" /\ v.x = "invalid")
  PROVE  ReadsBack(Printed(v))
<1>1. CASE v.t \in {"object", "array"}
  BY <1>1 DEF Printed, ReadsBack
<1>2. CASE v.t \notin {"object", "array"}
  <2>1. v \in Leaf
    BY <1>2 DEF Doc, ObjectOver, ArrayOver
  <2> QED BY <1>2, <2>1, LeafReadsBack DEF Printed
<1> QED BY <1>1, <1>2

LEMMA PrintedReadsBack ==
  ASSUME NEW v \in Doc, ~Unprintable(v), NEW w \in Parts(Printed(v))
  PROVE  ReadsBack(w)
<1>1. \A e \in Parts(v) : ~(e.t = "string" /\ e.x = "invalid")
  BY DEF Unprintable
<1>2. v \in Parts(v) /\ Items(v) \subseteq Parts(v) /\ \A e \in Items(v) : Items(e) \subseteq Parts(v)
  BY DEF Parts
<1>3. CASE w = Printed(v)
  BY <1>1, <1>2, <1>3, DocReadsBack
<1>4. CASE w \in Items(Printed(v))
  BY <1>1, <1>2, <1>4, PrintedItems, ElementReadsBack
<1>5. ASSUME NEW p \in Items(Printed(v)), w \in Items(p) PROVE ReadsBack(w)
  <2>1. PICK e \in Items(v) : e \in Element /\ p = PrintedElement(e)
    BY PrintedItems
  <2>2. PICK l \in Items(e) : l \in Leaf /\ w = PrintedLeaf(l)
    BY <1>5, <2>1, PrintedLeaves
  <2> QED BY <1>1, <1>2, <2>1, <2>2, LeafReadsBack
<1> QED BY <1>3, <1>4, <1>5 DEF Parts

(***************************************************************************)
(* What a file holds that ToFile has written contains nothing, however     *)
(* deep, that was not printed as it was: no NaN, no string that is not     *)
(* UTF-8.                                                                  *)
(***************************************************************************)
THEOREM FilesAlwaysReadBack == Spec => []FilesReadBack
<1>1. Init => FilesReadBack
  <2>1. Missing \notin Doc
    BY ScalarAssumption DEF Missing, Doc, Leaf, ObjectOver, ArrayOver, Null, AllScalar
  <2> QED BY <2>1 DEF Init, FilesReadBack
<1>2. IInv /\ FilesReadBack /\ [Next]_vars => FilesReadBack'
  <2> SUFFICES ASSUME IInv, FilesReadBack, [Next]_vars, NEW f \in Path, file'[f] \in Doc
               PROVE  \A w \in Parts(file'[f]) : ReadsBack(w)
    BY DEF FilesReadBack, ReadsBack
  <2>1. CASE file'[f] = file[f]
    BY <2>1 DEF FilesReadBack, ReadsBack
  <2>2. CASE file'[f] # file[f]
    <3>1. PICK d \in DocId, g \in Path : heap[d] \in Doc /\ FileWritten(d, g)
      BY <2>2, NextEffect DEF Effect, Told
    <3>2. Torn \notin Doc
      BY ScalarAssumption DEF Torn, Doc, Leaf, ObjectOver, ArrayOver, Null, AllScalar
    <3>3. ~Unprintable(heap[d]) /\ file'[f] = Printed(heap[d])
      BY <2>2, <3>1, <3>2 DEF FileWritten, IInv, TypeOK
    <3> QED BY <3>1, <3>3, PrintedReadsBack
  <2> QED BY <2>1, <2>2
<1> QED BY <1>1, <1>2, Inductive, PTL DEF Spec

(***************************************************************************)
(* A ToFile that reports no error leaves no torn file.                     *)
(***************************************************************************)
THEOREM NoSilentTear == Spec => TornOnlyOnError
<1>1. ASSUME IInv, [Next]_vars, NEW f \in Path, file'[f] = Torn, file[f] # Torn
      PROVE  report' = "error"
  <2>1. PICK d \in DocId, g \in Path : heap[d] \in Doc /\ FileWritten(d, g)
    BY <1>1, NextEffect DEF Effect, Told
  <2>2. ASSUME ~Unprintable(heap[d]) PROVE FALSE
    <3>1. Printed(heap[d]) \in Doc
      BY <2>1, PrintedIsDoc
    <3>2. Printed(heap[d]) # Torn
      BY <3>1, ScalarAssumption DEF Torn, Doc, Leaf, ObjectOver, ArrayOver, Null, AllScalar
    <3> QED BY <1>1, <2>1, <2>2, <3>2 DEF FileWritten, IInv, TypeOK
  <2> QED BY <2>1, <2>2 DEF FileWritten
<1>2. IInv /\ [Next]_vars => [\A f \in Path : file'[f] = Torn /\ file[f] # Torn => report' = "error"]_vars
  BY <1>1
<1> QED BY <1>2, Inductive, PTL DEF Spec, TornOnlyOnError

----------------------------------------------------------------------------
(* Leaks. *)

\* No document has lost its last handle and stayed, unless a fault is on record.
HeldOn == Orphans' \subseteq Orphans \/ faulted' \cap Leaky # {}

LEMMA HandlesStayHeld ==
  ASSUME \A h \in HandleId : handle[h].kind = "json" => handle'[h] = handle[h],
         \A d \in DocId : heap[d] = Free => heap'[d] = Free \/ d \in HeldBy("json", HandleId)'
  PROVE  Orphans' \subseteq Orphans
<1>1. HeldBy("json", HandleId) \subseteq HeldBy("json", HandleId)'
  BY DEF HeldBy
<1> QED BY <1>1 DEF Orphans

LEMMA AllocateHolds ==
  ASSUME IInv, Allocate
  PROVE  HeldOn
<1>1. CASE faulted' \cap Leaky # {}
  BY <1>1 DEF HeldOn
<1>2. CASE ~(faulted' \cap Leaky # {})
  <2>1. PICK d \in DocId, v \in Doc, hp \in [DocId -> Doc \cup {Free}], p \in Plugin :
          /\ hp = heap \/ \E e \in DocId, w \in Doc : Writes(e, w, hp)
          /\ heap' = [hp EXCEPT ![d] = v]
          /\ NewHandle(p, "json", d)
    BY <1>2 DEF Allocate
  <2>2. PICK h \in HandleId : handle[h] = NoHandle /\ handle' = [handle EXCEPT ![h] = [kind |-> "json", obj |-> d, owner |-> p]]
    BY <2>1 DEF NewHandle
  <2>3. handle'[h].kind = "json" /\ handle'[h].obj = d /\ \A g \in HandleId \ {h} : handle'[g] = handle[g]
    BY <2>2 DEF IInv, TypeOK
  <2>4. d \in HeldBy("json", HandleId)'
    BY <2>3 DEF HeldBy
  <2>5. \A e \in DocId : heap[e] = Free => heap'[e] = Free \/ e = d
    <3>1. \A e \in DocId : hp[e] # Free <=> heap[e] # Free
      BY <2>1, GrownHeap
    <3>2. hp \in [DocId -> Doc \cup {Free}]
      BY <2>1, GrownHeap
    <3> QED BY <2>1, <3>1, <3>2
  <2>6. \A g \in HandleId : handle[g].kind = "json" => handle'[g] = handle[g]
    BY <2>2, <2>3 DEF NoHandle
  <2>7. Orphans' \subseteq Orphans
    BY <2>4, <2>5, <2>6, HandlesStayHeld
  <2> QED BY <2>7 DEF HeldOn
<1> QED BY <1>1, <1>2

LEMMA FreeingHolds ==
  ASSUME IInv, Freeing
  PROVE  HeldOn
<1>1. PICK hs \in SUBSET HandleId : Release(hs)
  BY DEF Freeing
<1>2. /\ handle' = [h \in HandleId |-> IF h \in hs THEN NoHandle ELSE handle[h]]
      /\ heap' = [d \in DocId |-> IF d \in LastHeldBy("json", hs) THEN Free ELSE heap[d]]
  BY <1>1 DEF Release
<1>3. HeldBy("json", HandleId \ hs) \subseteq HeldBy("json", HandleId)'
  BY <1>2 DEF HeldBy
<1>4. HeldBy("json", HandleId) = HeldBy("json", hs) \cup HeldBy("json", HandleId \ hs)
  BY DEF HeldBy
<1>5. \A d \in DocId : heap'[d] # Free => heap[d] # Free /\ d \notin LastHeldBy("json", hs)
  BY <1>2
<1>6. Orphans' \subseteq Orphans
  BY <1>3, <1>4, <1>5 DEF Orphans, LastHeldBy
<1> QED BY <1>6 DEF HeldOn

LEMMA OthersHold ==
  ASSUME IInv, Change \/ Erase \/ OpenIterator \/ Advance \/ Clone
  PROVE  HeldOn
<1>1. \A d \in DocId : heap[d] = Free => heap'[d] = Free
  <2>1. CASE Change
    <3>1. \A d \in DocId : heap'[d] # Free <=> heap[d] # Free
      BY <2>1, GrownHeap DEF Change
    <3> QED BY <3>1
  <2>2. CASE Erase
    <3>1. PICK d \in DocId, w \in Doc : heap[d] \in Doc /\ heap' = [heap EXCEPT ![d] = w]
      BY <2>2 DEF Erase
    <3> QED BY <3>1, FreeIsNoDoc DEF IInv, TypeOK
  <2>3. CASE OpenIterator \/ Advance \/ Clone
    BY <2>3 DEF OpenIterator, Advance, Clone
  <2> QED BY <2>1, <2>2, <2>3
<1>2. \A h \in HandleId : handle[h].kind = "json" => handle'[h] = handle[h]
  <2>1. CASE Change \/ Erase \/ Advance
    BY <2>1 DEF Change, Erase, Advance
  <2>2. CASE OpenIterator \/ Clone
    <3>1. PICK h \in HandleId : handle[h] = NoHandle /\ \E x : handle' = [handle EXCEPT ![h] = x]
      BY <2>2 DEF OpenIterator, Clone, NewHandle
    <3> QED BY <3>1 DEF NoHandle, IInv, TypeOK
  <2> QED BY <2>1, <2>2
<1>3. Orphans' \subseteq Orphans
  BY <1>1, <1>2, HandlesStayHeld
<1> QED BY <1>3 DEF HeldOn

(***************************************************************************)
(* A document that no handle can reach is there only after a Get, a        *)
(* GetResponseBodyAsJSON or a LoadFromFile has failed.                     *)
(***************************************************************************)
THEOREM LeaksOnlyOnFault == Spec => []LeakOnlyOnFault
<1>1. Init => LeakOnlyOnFault
  BY DEF Init, LeakOnlyOnFault, Orphans
<1>2. IInv /\ LeakOnlyOnFault /\ [Next]_vars => LeakOnlyOnFault'
  <2> SUFFICES ASSUME IInv, LeakOnlyOnFault, [Next]_vars PROVE LeakOnlyOnFault'
    OBVIOUS
  <2>1. Effect /\ faulted \subseteq faulted'
    BY NextEffect DEF Effect, Told
  <2>2. HeldOn
    BY <2>1, AllocateHolds, FreeingHolds, OthersHold DEF Effect
  <2> QED BY <2>1, <2>2 DEF HeldOn, LeakOnlyOnFault, Leaky
<1> QED BY <1>1, <1>2, Inductive, PTL DEF Spec

----------------------------------------------------------------------------
(* Careful plugins. *)

NoneStranded == \A i \in IterId : Live(i) => ~Stranded(i)

CareInv == Careful => ub = "none" /\ NoneStranded

\* An iterator is as well off as before when its document has not become an
\* object.
LEMMA SameKindStands ==
  ASSUME NoneStranded, UNCHANGED proxy,
         \A i \in IterId : Live(i) /\ heap'[proxy[i].doc].t = "object" => heap[proxy[i].doc].t = "object"
  PROVE  NoneStranded'
  BY DEF NoneStranded, Stranded, Live

LEMMA WritesStand ==
  ASSUME IInv, Careful, NoneStranded, NEW hp, hp = heap \/ \E e \in DocId, w \in Doc : Writes(e, w, hp),
         NEW i \in IterId, Live(i), hp[proxy[i].doc].t = "object"
  PROVE  heap[proxy[i].doc].t = "object"
<1>1. CASE hp = heap
  BY <1>1
<1>2. ASSUME NEW e \in DocId, NEW w \in Doc, Writes(e, w, hp)
      PROVE  heap[proxy[i].doc].t = "object"
  <2>1. proxy[i].doc \in DocId
    BY ProxyType DEF NoneStranded, Stranded
  <2>2. CASE proxy[i].doc = e
    <3>1. hp[e] = w
      BY <1>2 DEF Writes, IInv, TypeOK
    <3> QED BY <1>2, <2>2, <3>1 DEF Writes, KindKept, Reads
  <2>3. CASE proxy[i].doc # e
    BY <1>2, <2>1, <2>3 DEF Writes, IInv, TypeOK
  <2> QED BY <2>2, <2>3
<1> QED BY <1>1, <1>2

LEMMA ChangeStands ==
  ASSUME IInv, Careful, NoneStranded, Change
  PROVE  NoneStranded'
<1>1. heap' = heap \/ \E e \in DocId, w \in Doc : Writes(e, w, heap')
  BY DEF Change
<1> QED BY <1>1, WritesStand, SameKindStands DEF Change

LEMMA AllocateStands ==
  ASSUME IInv, Careful, NoneStranded, Allocate
  PROVE  NoneStranded'
<1>1. PICK d \in DocId, v \in Doc, hp \in [DocId -> Doc \cup {Free}] :
        /\ heap[d] = Free
        /\ hp = heap \/ \E e \in DocId, w \in Doc : Writes(e, w, hp)
        /\ heap' = [hp EXCEPT ![d] = v]
        /\ UNCHANGED proxy
  BY DEF Allocate
<1>2. ASSUME NEW i \in IterId, Live(i), heap'[proxy[i].doc].t = "object"
      PROVE  heap[proxy[i].doc].t = "object"
  <2>1. proxy[i].doc \in DocId /\ proxy[i].doc # NoDoc
    BY <1>2, ProxyType DEF NoneStranded, Stranded
  <2>2. proxy[i].doc # d
    BY <1>1, <1>2, <2>1 DEF IInv, IteratorsStand
  <2>3. heap'[proxy[i].doc] = hp[proxy[i].doc]
    BY <1>1, <2>1, <2>2
  <2> QED BY <1>1, <1>2, <2>3, WritesStand
<1> QED BY <1>1, <1>2, SameKindStands

\* What a careful plugin erases is under no iterator.
LEMMA EraseStands ==
  ASSUME IInv, Careful, NoneStranded, Erase
  PROVE  NoneStranded'
<1>1. PICK d \in DocId, ks \in SUBSET Key, w \in Doc :
        /\ w.t = heap[d].t
        /\ heap' = [heap EXCEPT ![d] = w]
        /\ CareOver(d, ks)
        /\ Detach(d, ks)
  BY DEF Erase
<1>2. ASSUME NEW i \in IterId PROVE proxy'[i] = proxy[i]
  <2>1. CASE Reads(i, d) /\ proxy[i].pos.at = "key" /\ proxy[i].pos.key \in ks
    <3>1. proxy[i].pos \in [at : {"key"}, key : Key]
      BY <2>1, ProxyType DEF Reads, Position
    <3>2. proxy[i].pos \in [at : {"key"}, key : ks]
      BY <2>1, <3>1
    <3> QED BY <1>1, <2>1, <3>2 DEF CareOver
  <2>2. CASE ~(Reads(i, d) /\ proxy[i].pos.at = "key" /\ proxy[i].pos.key \in ks)
    BY <1>1, <2>2 DEF Detach
  <2> QED BY <2>1, <2>2
<1>3. ASSUME NEW i \in IterId, Live(i)' PROVE ~Stranded(i)'
  <2>1. Live(i) /\ ~Stranded(i) /\ proxy'[i] = proxy[i]
    BY <1>2, <1>3 DEF Live, NoneStranded
  <2>2. proxy[i].doc \in DocId
    BY <2>1, ProxyType DEF Stranded
  <2>3. heap'[proxy[i].doc].t = heap[proxy[i].doc].t
    BY <1>1, <2>2 DEF IInv, TypeOK
  <2> QED BY <2>1, <2>3 DEF Stranded
<1> QED BY <1>3 DEF NoneStranded

LEMMA OpenIteratorStands ==
  ASSUME IInv, Careful, NoneStranded, OpenIterator
  PROVE  NoneStranded'
<1>1. PICK d \in DocId, i \in IterId :
        /\ proxy' = [proxy EXCEPT ![i] = [doc |-> d, pos |-> Begin(heap[d])]]
        /\ heap' = heap
  BY DEF OpenIterator
<1>2. proxy'[i] = [doc |-> d, pos |-> Begin(heap[d])]
  BY <1>1 DEF IInv, TypeOK
<1>3. heap[d].t = "object" => Begin(heap[d]).at \in {"key", "end"}
  BY KeysOfAreKeys, FirstOfKeys DEF Begin
<1>4. ~Stranded(i)'
  BY <1>1, <1>2, <1>3, NetJsonAssumption DEF Stranded
<1>5. ASSUME NEW j \in IterId, j # i, Live(j)' PROVE ~Stranded(j)'
  <2>1. proxy'[j] = proxy[j]
    BY <1>1, <1>5 DEF IInv, TypeOK
  <2> QED BY <1>1, <1>5, <2>1 DEF Live, NoneStranded, Stranded
<1> QED BY <1>4, <1>5 DEF NoneStranded

LEMMA AdvanceStands ==
  ASSUME IInv, Careful, NoneStranded, Advance
  PROVE  NoneStranded'
<1>1. PICK i \in IterId :
        /\ Live(i)
        /\ proxy[i].doc # NoDoc
        /\ proxy' = [proxy EXCEPT ![i] = MovedTo(i, After(heap[proxy[i].doc], proxy[i].pos.key))]
        /\ heap' = heap
  BY DEF Advance
<1> DEFINE next == After(heap[proxy[i].doc], proxy[i].pos.key)
<1>2. proxy'[i].doc = proxy[i].doc /\ proxy'[i].pos = next
  BY <1>1 DEF MovedTo, IInv, TypeOK
<1>3. next.at \in {"key", "end"}
  <2>1. {j \in KeysOf(heap[proxy[i].doc]) : proxy[i].pos.key < j} \in SUBSET Key
    BY KeysOfAreKeys
  <2> QED BY <2>1, FirstOfKeys DEF After
<1> HIDE DEF next
<1>4. ~Stranded(i)'
  BY <1>1, <1>2, <1>3 DEF Stranded
<1>5. ASSUME NEW j \in IterId, j # i, Live(j)' PROVE ~Stranded(j)'
  <2>1. proxy'[j] = proxy[j]
    BY <1>1, <1>5 DEF IInv, TypeOK
  <2> QED BY <1>1, <1>5, <2>1 DEF Live, NoneStranded, Stranded
<1> QED BY <1>4, <1>5 DEF NoneStranded

\* No document that a careful plugin frees is read by an iterator that stays.
LEMMA FreeingStands ==
  ASSUME IInv, Careful, NoneStranded, Freeing
  PROVE  NoneStranded'
<1>1. PICK hs \in SUBSET HandleId : Release(hs)
  BY DEF Freeing
<1> DEFINE ds == LastHeldBy("json", hs)
           is == LastHeldBy("iterator", hs)
<1> HIDE DEF ds, is
<1>2. /\ \A d \in DocId : heap'[d] = IF d \in ds THEN Free ELSE heap[d]
      /\ \A i \in IterId : proxy'[i] = IF i \in is THEN NoProxy
                                       ELSE IF Live(i) /\ proxy[i].doc \in ds THEN [doc |-> NoDoc, pos |-> proxy[i].pos]
                                       ELSE proxy[i]
      /\ CareOverFree(ds, is)
  BY <1>1 DEF Release, ds, is
<1>3. ASSUME NEW i \in IterId, Live(i)' PROVE ~Stranded(i)'
  <2>1. i \notin is
    BY <1>2, <1>3 DEF Live
  <2>2. Live(i) => proxy[i].doc \notin ds
    BY <1>2, <2>1 DEF CareOverFree
  <2>3. proxy'[i] = proxy[i]
    BY <1>2, <2>1, <2>2
  <2>4. Live(i) /\ ~Stranded(i)
    BY <1>3, <2>3 DEF Live, NoneStranded
  <2>5. proxy[i].doc \in DocId
    BY <2>4, ProxyType DEF Stranded
  <2>6. heap'[proxy[i].doc] = heap[proxy[i].doc]
    BY <1>2, <2>2, <2>4, <2>5
  <2> QED BY <2>3, <2>4, <2>6 DEF Stranded
<1> QED BY <1>3 DEF NoneStranded

LEMMA CloneStands ==
  ASSUME NoneStranded, Clone
  PROVE  NoneStranded'
  BY DEF Clone, NoneStranded, Live, Stranded

(***************************************************************************)
(* Plugins that keep to the discipline of the CareOver guards reach no     *)
(* undefined behaviour: no iterator is left on an element that is gone, in *)
(* a freed document, or in one that has become an object under it, none    *)
(* walks an array, and no array is indexed with -1.                        *)
(***************************************************************************)
THEOREM CarefulAlwaysDefined == Spec => []CarefulIsDefined
<1>1. Init => CareInv
  BY DEF Init, CareInv, NoneStranded, Live
<1>2. IInv /\ CareInv /\ [Next]_vars => CareInv'
  <2> SUFFICES ASSUME IInv, CareInv, [Next]_vars, Careful PROVE ub' = "none" /\ NoneStranded'
    BY DEF CareInv
  <2>1. ub = "none" /\ NoneStranded
    BY DEF CareInv
  <2>2. Effect
    BY NextEffect
  <2>3. ub' = ub
    BY <2>1, <2>2 DEF Effect, Told, NoneStranded
  <2>4. NoneStranded'
    BY <2>1, <2>2, ChangeStands, AllocateStands, EraseStands, OpenIteratorStands, AdvanceStands,
       CloneStands, FreeingStands DEF Effect
  <2> QED BY <2>1, <2>3, <2>4
<1>3. CareInv => CarefulIsDefined
  BY DEF CareInv, CarefulIsDefined
<1> QED BY <1>1, <1>2, <1>3, Inductive, PTL DEF Spec
============================================================================
