----------------------------- MODULE MCNetJson -----------------------------
(***************************************************************************)
(* Instances of NetJson for TLC.  Each configuration opens one part of the *)
(* state wide and keeps the others small.                                  *)
(***************************************************************************)
EXTENDS NetJson, TLC

\* Scalars.
Zero    == [t |-> "number", x |-> "zero"]
NotANum == [t |-> "number", x |-> "nan"]
Empty   == [t |-> "string", x |-> "zero"]
Broken  == [t |-> "string", x |-> "invalid"]

NoScalar    == {}
ValueScalar == {Zero, NotANum, Empty, Broken}

\* Texts for LoadFromString, over the keys of the configuration.
ObjectWith(ks) == [t |-> "object", obj |-> [k \in Key |-> IF k \in ks THEN Null ELSE Absent]]
ArrayWith(s)   == [t |-> "array", arr |-> s]
IterText   == {Null, ObjectWith({1, 3})}
ValueText  == {Null, ObjectWith({1})}
HandleText == {ObjectWith({1})}

\* Elements to store.
ValueStored == {Null, NotANum, Broken, ObjectWith({1})}

ValueIndex  == {-2, -1, 0, 1}
HandleIndex == {-2, -1, 0}

Symmetry == Permutations(DocId) \cup Permutations(IterId) \cup Permutations(HandleId)
                \cup Permutations(Plugin)
============================================================================
