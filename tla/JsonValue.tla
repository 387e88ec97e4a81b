----------------------------- MODULE JsonValue -----------------------------
(***************************************************************************)
(* The values the JSON natives work on, and the operations of              *)
(* nlohmann::json they apply to the top level of a document.               *)
(*                                                                         *)
(* A value is a record tagged with its type.  An object is a function from *)
(* the keys, Absent where it has none (std::map orders its keys; they are  *)
(* numbers here, in the order of the strings they stand for); an array is  *)
(* a sequence.  A scalar keeps only what the natives and dump tell apart:  *)
(* the value clear() resets it to ("zero"), any other value ("some"), and  *)
(* the two that dump does not print back: a NaN (printed as null) and a    *)
(* string that is not UTF-8 (dump throws).                                 *)
(*                                                                         *)
(* The natives never look below the elements of a document, so documents   *)
(* nest two containers deep at most: Leaf, Element and Doc are the values  *)
(* that nest none, one and two.                                            *)
(***************************************************************************)
EXTENDS Integers, Sequences, FiniteSets

CONSTANTS
    Key,        \* the keys a plugin uses, ordered as std::map orders them
    Scalar,     \* the scalars a plugin stores
    MaxSize     \* bound: the most elements a document may grow to

Null   == [t |-> "null"]
Absent == [t |-> "absent"]

AllScalar ==
    [t : {"boolean"}, x : {"zero", "some"}]
        \cup [t : {"number"}, x : {"zero", "some", "nan"}]
        \cup [t : {"string"}, x : {"zero", "some", "invalid"}]

ASSUME KeyAssumption == Key \subseteq Nat
ASSUME ScalarAssumption ==
    /\ Scalar \subseteq AllScalar
    /\ \A s \in Scalar : [t |-> s.t, x |-> "zero"] \in Scalar
ASSUME MaxSizeAssumption == MaxSize \in Nat

ObjectOver(S) == [t : {"object"}, obj : [Key -> S \cup {Absent}]]
ArrayOver(S)  == [t : {"array"}, arr : Seq(S)]

Leaf    == {Null} \cup Scalar
Element == Leaf \cup ObjectOver(Leaf) \cup ArrayOver(Leaf)
Doc     == Leaf \cup ObjectOver(Element) \cup ArrayOver(Element)

EmptyObject == [t |-> "object", obj |-> [k \in Key |-> Absent]]
EmptyArray  == [t |-> "array", arr |-> <<>>]

----------------------------------------------------------------------------
(* Observers. *)

KeysOf(v) == IF v.t = "object" THEN {k \in Key : v.obj[k] # Absent} ELSE {}

\* contains(): true only of an object that has the key.
Contains(v, k) == k \in KeysOf(v)

\* size(): null is empty, a scalar counts as one.
SizeOf(v) ==
    CASE v.t = "null"   -> 0
      [] v.t = "object" -> Cardinality(KeysOf(v))
      [] v.t = "array"  -> Len(v.arr)
      [] OTHER          -> 1

\* get<T>(): the types each conversion accepts.  Every other type throws.
GetAccepts(T, v) ==
    CASE T = "bool"   -> v.t = "boolean"
      [] T = "int"    -> v.t \in {"number", "boolean"}
      [] T = "int64"  -> v.t = "number"
      [] T = "float"  -> v.t \in {"number", "boolean"}
      [] T = "string" -> v.t = "string"

----------------------------------------------------------------------------
(* A sequence made longer, and one that loses an element. *)

PaddedTo(s, n) == [j \in 1..n |-> IF j <= Len(s) THEN s[j] ELSE Null]

WithoutIndex(s, i) ==
    [j \in 1..(Len(s) - 1) |-> IF j < i THEN s[j] ELSE s[j + 1]]

----------------------------------------------------------------------------
(* operator[] on a non-const document, the way it leaves the document      *)
(* before anything is stored through the reference it returns.             *)

\* A null document is turned into a container of the kind it is used as.
AsObject(v) == IF v.t = "null" THEN EmptyObject ELSE v
AsArray(v)  == IF v.t = "null" THEN EmptyArray ELSE v

\* operator[](key) throws type_error 305 on everything else.
TakesKey(v)   == v.t \in {"null", "object"}
\* operator[](index) and emplace_back throw on everything else.
TakesIndex(v) == v.t \in {"null", "array"}

\* operator[](key): a key that is absent is inserted with null.
AtKey(v, k) ==
    LET o == AsObject(v)
    IN  IF Contains(o, k) THEN o ELSE [t |-> "object", obj |-> [o.obj EXCEPT ![k] = Null]]

PutKey(v, k, x) == [t |-> "object", obj |-> [AtKey(v, k).obj EXCEPT ![k] = x]]

\* operator[](index), index >= 0: an array that is too short grows to
\* index + 1 elements, the new ones null.  The index is the code's, from 0.
AtIndex(v, i) ==
    LET a == AsArray(v)
    IN  IF i < Len(a.arr) THEN a ELSE [t |-> "array", arr |-> PaddedTo(a.arr, i + 1)]

PutIndex(v, i, x) ==
    [t |-> "array", arr |-> [AtIndex(v, i).arr EXCEPT ![i + 1] = x]]

Pushed(v, x) == [t |-> "array", arr |-> Append(AsArray(v).arr, x)]

\* erase(key) throws unless the document is an object; an absent key is fine.
WithoutKey(v, k) ==
    [t |-> "object", obj |-> [v.obj EXCEPT ![k] = Absent]]

\* erase(index) throws unless the document is an array with that element.
HasIndex(v, i)  == v.t = "array" /\ 0 <= i /\ i < Len(v.arr)
ErasedAt(v, i)  == [t |-> "array", arr |-> WithoutIndex(v.arr, i + 1)]

\* clear(): the type stays, the contents go.
Cleared(v) ==
    CASE v.t = "null"   -> v
      [] v.t = "object" -> EmptyObject
      [] v.t = "array"  -> EmptyArray
      [] OTHER          -> [t |-> v.t, x |-> "zero"]

----------------------------------------------------------------------------
(* dump(): what a parser reads back from the text of a value. *)

\* Mutant: a NaN is printed as it is.
PrintedRaw(v) == v

PrintedLeaf(v) == IF v.t = "number" /\ v.x = "nan" THEN Null ELSE v

PrintedElement(v) ==
    CASE v.t = "object" -> [t |-> "object", obj |-> [k \in Key |-> PrintedLeaf(v.obj[k])]]
      [] v.t = "array"  -> [t |-> "array", arr |-> [i \in DOMAIN v.arr |-> PrintedLeaf(v.arr[i])]]
      [] OTHER          -> PrintedLeaf(v)

Printed(v) ==
    CASE v.t = "object" -> [t |-> "object", obj |-> [k \in Key |-> PrintedElement(v.obj[k])]]
      [] v.t = "array"  -> [t |-> "array", arr |-> [i \in DOMAIN v.arr |-> PrintedElement(v.arr[i])]]
      [] OTHER          -> PrintedLeaf(v)

\* The elements of a value.
Items(v) ==
    CASE v.t = "object" -> {v.obj[k] : k \in KeysOf(v)}
      [] v.t = "array"  -> {v.arr[i] : i \in DOMAIN v.arr}
      [] OTHER          -> {}

\* A document and everything in it.
Parts(v) == {v} \cup Items(v) \cup UNION {Items(e) : e \in Items(v)}

\* dump() throws type_error 316 on a string that is not UTF-8, however deep.
Unprintable(v) == \E w \in Parts(v) : w.t = "string" /\ w.x = "invalid"
============================================================================
