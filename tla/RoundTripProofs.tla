-------------------------- MODULE RoundTripProofs --------------------------
(***************************************************************************)
(* Proofs about UrlRoundTrip for every set of texts: an IPv6 address comes *)
(* back in the spelling RFC 5952 recommends, and a URL that is read back   *)
(* means what was written.                                                 *)
(*                                                                         *)
(* In this order:                                                          *)
(*                                                                         *)
(*   a function that goes along a sequence is known by its steps           *)
(*   normalize_path leaves what it has normalised (NormalizePathIs)        *)
(*   an address and its spellings are X, zeros, Y and perhaps an IPv4      *)
(*     address; normalize_IPv6 puts the zeros back (NormalForm)            *)
(*   it takes out the run that the recommended spelling takes out          *)
(*     (NormalizeSpelling), and the second time the same (RecommendedStays) *)
(*   is_valid_ipv6 accepts the short spellings (SpelledValid), nothing else *)
(*     (ValidSpelled)                                                      *)
(*   what is built of normal parts is taken apart to them (BuildAgain)     *)
(*   the inductive invariant and the theorems                              *)
(***************************************************************************)
EXTENDS UrlRoundTrip, SequenceTheorems, FiniteSetTheorems, WellFoundedInduction, TLAPS

----------------------------------------------------------------------------
(* Going along a sequence. *)

\* Induction over the natural numbers.
LEMMA SetInduction ==
  ASSUME NEW T, T \subseteq Nat, 0 \in T, \A n \in T : n + 1 \in T
  PROVE  T = Nat
<1> DEFINE R == OpToRel(<, Nat)
           U == Nat \ T
<1>1. IsWellFoundedOn(R, Nat)
  BY NatLessThanWellFounded
<1>2. SUFFICES ASSUME U # {} PROVE FALSE
  OBVIOUS
<1>3. PICK x \in U : \A y \in U : ~(<<y, x>> \in R)
  <2> HIDE DEF R, U
  <2>1. U \subseteq Nat BY DEF U
  <2> QED BY <1>1, <1>2, <2>1, WFMin
<1>4. x - 1 \in Nat /\ x - 1 \notin T
  <2>1. x # 0 /\ x \in Nat OBVIOUS
  <2> QED BY <2>1
<1>5. <<x - 1, x>> \in R
  BY <1>4 DEF OpToRel
<1> QED BY <1>3, <1>4, <1>5

\* The function that Groups and Walked build along s: f[i] is what F makes of
\* the first i elements, one after the other.
FoldAt(f, F, s, i) == IF i = 0 THEN <<>> ELSE F[<<f[i-1], s[i]>>]
Folds(f, F, s, n) == f = [i \in 0..n |-> FoldAt(f, F, s, i)]

LEMMA FoldExists == ASSUME NEW F, NEW s, NEW n \in Nat PROVE \E f : Folds(f, F, s, n)
<1> DEFINE T == {k \in Nat : \E f : Folds(f, F, s, k)}
<1>1. 0 \in T
  <2> DEFINE e == [i \in 0..0 |-> <<>>]
  <2>1. e = [i \in 0..0 |-> FoldAt(e, F, s, i)]
    BY DEF FoldAt
  <2> HIDE DEF e
  <2>2. Folds(e, F, s, 0)
    BY <2>1 DEF Folds
  <2> QED BY <2>2
<1>2. ASSUME NEW k \in T PROVE k + 1 \in T
  <2>1. PICK f : Folds(f, F, s, k)
    OBVIOUS
  <2> DEFINE g == [i \in 0..k + 1 |-> IF i <= k THEN f[i] ELSE FoldAt(f, F, s, i)]
  <2>2. \A i \in 0..k + 1 : g[i] = FoldAt(g, F, s, i)
    <3>1. ASSUME NEW i \in 0..k + 1, i <= k PROVE g[i] = FoldAt(g, F, s, i)
      <4>1. i \in 0..k /\ g[i] = f[i] /\ (i # 0 => i - 1 \in 0..k /\ g[i-1] = f[i-1])
        BY <3>1
      <4>2. f[i] = FoldAt(f, F, s, i)
        BY <2>1, <4>1 DEF Folds
      <4> QED BY <4>1, <4>2 DEF FoldAt
    <3>2. g[k + 1] = FoldAt(g, F, s, k + 1)
      <4>1. k + 1 \in 0..k + 1 /\ ~(k + 1 <= k) /\ g[k] = f[k] /\ (k + 1) - 1 = k
        OBVIOUS
      <4>2. g[k + 1] = FoldAt(f, F, s, k + 1)
        BY <4>1
      <4> QED BY <4>1, <4>2 DEF FoldAt
    <3> QED BY <3>1, <3>2
  <2>3. g = [i \in 0..k + 1 |-> FoldAt(g, F, s, i)]
    BY <2>2
  <2> HIDE DEF g
  <2>4. Folds(g, F, s, k + 1)
    BY <2>3 DEF Folds
  <2> QED BY <2>4
<1>3. T = Nat
  <2> HIDE DEF T
  <2>1. T \subseteq Nat BY DEF T
  <2> QED BY <1>1, <1>2, <2>1, SetInduction
<1> QED BY <1>3

\* It grows with the sequence, and it is the only one.
LEMMA FoldGrows ==
  ASSUME NEW F, NEW s, NEW t, NEW n \in Nat, NEW m \in Nat, NEW f, NEW g, n <= m,
         Folds(f, F, s, n), Folds(g, F, t, m), \A i \in 1..n : s[i] = t[i]
  PROVE  f[n] = g[n]
<1> DEFINE T == {j \in Nat : j <= n => f[j] = g[j]}
<1>1. \A i \in 0..n : f[i] = FoldAt(f, F, s, i)
  BY DEF Folds
<1>2. \A i \in 0..m : g[i] = FoldAt(g, F, t, i)
  BY DEF Folds
<1>3. 0 \in T
  <2>1. f[0] = FoldAt(f, F, s, 0) /\ g[0] = FoldAt(g, F, t, 0)
    BY <1>1, <1>2
  <2> QED BY <2>1 DEF FoldAt
<1>4. ASSUME NEW j \in T, j + 1 <= n PROVE f[j + 1] = g[j + 1]
  <2>1. f[j] = g[j] /\ (j + 1) - 1 = j /\ j + 1 # 0
    BY <1>4
  <2>2. j + 1 \in 0..n /\ j + 1 \in 0..m /\ s[j + 1] = t[j + 1]
    BY <1>4
  <2>3. f[j + 1] = FoldAt(f, F, s, j + 1) /\ g[j + 1] = FoldAt(g, F, t, j + 1)
    BY <1>1, <1>2, <2>2
  <2> QED BY <2>1, <2>2, <2>3 DEF FoldAt
<1>5. T = Nat
  <2>1. \A j \in T : j + 1 \in T
    BY <1>4
  <2>2. T \subseteq Nat
    OBVIOUS
  <2> HIDE DEF T
  <2> QED BY <1>3, <2>1, <2>2, SetInduction
<1>6. n \in T
  BY <1>5
<1> QED BY <1>6

\* Its values are of the type that F keeps.
LEMMA FoldType ==
  ASSUME NEW A, NEW B, NEW F \in [A \X B -> A], <<>> \in A, NEW s \in Seq(B), NEW f,
         Folds(f, F, s, Len(s))
  PROVE  \A i \in 0..Len(s) : f[i] \in A
<1> DEFINE n == Len(s)
           T == {j \in Nat : j <= n => f[j] \in A}
<1>1. n \in Nat /\ \A i \in 1..n : s[i] \in B
  OBVIOUS
<1>2. \A i \in 0..n : f[i] = FoldAt(f, F, s, i)
  BY DEF Folds
<1> HIDE DEF n
<1>3. 0 \in T
  <2>1. 0 \in 0..n
    BY <1>1
  <2>2. f[0] = <<>>
    BY <1>2, <2>1 DEF FoldAt
  <2> QED BY <2>2
<1>4. ASSUME NEW j \in T, j + 1 <= n PROVE f[j + 1] \in A
  <2>1. f[j] \in A /\ (j + 1) - 1 = j /\ j + 1 # 0 /\ j + 1 \in 0..n /\ j + 1 \in 1..n
    BY <1>1, <1>4
  <2>2. f[j + 1] = F[<<f[j], s[j + 1]>>]
    BY <1>2, <2>1 DEF FoldAt
  <2>3. <<f[j], s[j + 1]>> \in A \X B
    BY <1>1, <2>1
  <2> QED BY <2>2, <2>3
<1>5. T = Nat
  <2>1. \A j \in T : j + 1 \in T
    BY <1>4
  <2>2. T \subseteq Nat
    OBVIOUS
  <2> HIDE DEF T
  <2> QED BY <1>3, <2>1, <2>2, SetInduction
<1> QED BY <1>1, <1>5 DEF n

LEMMA FoldAppend ==
  ASSUME NEW A, NEW B, NEW F \in [A \X B -> A], <<>> \in A, NEW s \in Seq(B), NEW x \in B, NEW f, NEW g,
         Folds(f, F, s, Len(s)), Folds(g, F, Append(s, x), Len(Append(s, x)))
  PROVE  g[Len(Append(s, x))] = F[<<f[Len(s)], x>>] /\ f[Len(s)] \in A
<1> DEFINE n == Len(s)
           t == Append(s, x)
<1>1. n \in Nat /\ n + 1 \in Nat /\ n <= n + 1 /\ Len(t) = n + 1 /\ t[n + 1] = x /\ \A i \in 1..n : s[i] = t[i]
  OBVIOUS
<1>2. f[n] \in A
  <2>1. \A i \in 0..Len(s) : f[i] \in A
    <3> HIDE DEF n, t
    <3> QED BY FoldType
  <2>2. Len(s) \in 0..Len(s)
    OBVIOUS
  <2> QED BY <2>1, <2>2
<1> HIDE DEF n, t
<1>3. Folds(f, F, s, n) /\ Folds(g, F, t, n + 1)
  BY <1>1 DEF n, t
<1>4. f[n] = g[n]
  BY <1>1, <1>3, FoldGrows
<1>5. g[n + 1] = FoldAt(g, F, t, n + 1)
  <2>1. \A i \in 0..n + 1 : g[i] = FoldAt(g, F, t, i)
    BY <1>3 DEF Folds
  <2>2. n + 1 \in 0..n + 1
    BY <1>1
  <2> QED BY <2>1, <2>2
<1>6. n + 1 # 0 /\ (n + 1) - 1 = n
  BY <1>1
<1> QED BY <1>1, <1>2, <1>4, <1>5, <1>6 DEF FoldAt, t, n

\* A sequence is empty or something was appended to a shorter one.
LEMMA Shorter ==
  ASSUME NEW S, NEW s \in Seq(S), NEW k \in Nat, Len(s) = k + 1
  PROVE  \E v \in Seq(S), x \in S : Len(v) = k /\ s = Append(v, x)
<1> DEFINE v == SubSeq(s, 1, k)
<1>1. v \in Seq(S) /\ Len(v) = k /\ s[k + 1] \in S /\ s = Append(v, s[k + 1])
  OBVIOUS
<1> HIDE DEF v
<1> QED BY <1>1

\* Walked and Groups step by step.
Segment == STRING \cup {""}   \* the provers do not know that "" is a string
Whole == Segment \ {"", ".", ".."}
StepOf == [c \in Seq(Whole) \X Segment |-> Step(c[1], c[2])]

LEMMA UpType == ASSUME NEW S, NEW e \in Seq(S) PROVE Up(e) \in Seq(S)
<1>1. CASE e = <<>>
  BY <1>1 DEF Up
<1>2. CASE e # <<>>
  <2>1. Len(e) \in Nat \ {0}
    BY <1>2
  <2>2. SubSeq(e, 1, Len(e) - 1) \in Seq(S)
    BY <2>1
  <2> QED BY <1>2, <2>2 DEF Up, Front
<1> QED BY <1>1, <1>2

LEMMA StepType == ASSUME NEW e \in Seq(Whole), NEW x \in Segment PROVE Step(e, x) \in Seq(Whole)
<1>1. CASE x \in {"", "."}
  BY <1>1 DEF Step
<1>2. CASE x = ".."
  BY <1>2, UpType DEF Step
<1>3. CASE x \in Whole
  <2>1. x # "" /\ x # "." /\ x # ".."
    BY <1>3 DEF Whole
  <2>2. Step(e, x) = Append(e, x)
    BY <2>1 DEF Step
  <2>3. Append(e, x) \in Seq(Whole)
    BY <1>3, AppendProperties
  <2> QED BY <2>2, <2>3
<1> QED BY <1>1, <1>2, <1>3 DEF Whole

LEMMA StepOfType == StepOf \in [Seq(Whole) \X Segment -> Seq(Whole)]
<1>1. \A c \in Seq(Whole) \X Segment : Step(c[1], c[2]) \in Seq(Whole)
  BY StepType
<1> QED BY <1>1 DEF StepOf

LEMMA WalkedIs ==
  ASSUME NEW s \in Seq(Segment), NEW f, Folds(f, StepOf, s, Len(s))
  PROVE  Walked(s) = f[Len(s)]
<1> DEFINE n == Len(s)
           Body(u) == [i \in 0..n |-> IF i = 0 THEN <<>> ELSE Step(u[i - 1], s[i])]
           w == CHOOSE u : u = Body(u)
           T == {j \in Nat : j <= n => w[j] = f[j]}
<1>1. Walked(s) = w[n]
  BY DEF Walked
<1>2. n \in Nat /\ \A i \in 1..n : s[i] \in Segment
  OBVIOUS
<1>3. \A i \in 0..n : f[i] \in Seq(Whole)
  <2> HIDE DEF w, T
  <2> <<>> \in Seq(Whole)
    OBVIOUS
  <2> QED BY FoldType, StepOfType
<1>4. \A i \in 0..n : f[i] = FoldAt(f, StepOf, s, i)
  BY DEF Folds
<1>5. ASSUME NEW i \in 1..n PROVE f[i] = Step(f[i - 1], s[i])
  <2>1. i \in 0..n /\ i # 0 /\ i - 1 \in 0..n
    BY <1>2
  <2>2. f[i] = StepOf[<<f[i - 1], s[i]>>]
    BY <1>4, <2>1 DEF FoldAt
  <2>3. <<f[i - 1], s[i]>> \in Seq(Whole) \X Segment
    BY <1>2, <1>3, <2>1
  <2> QED BY <2>2, <2>3 DEF StepOf
<1>6. f[0] = <<>>
  <2>1. 0 \in 0..n
    BY <1>2
  <2> QED BY <1>4, <2>1 DEF FoldAt
<1>7. f = Body(f)
  <2>1. f = [i \in 0..n |-> FoldAt(f, StepOf, s, i)]
    BY DEF Folds
  <2>2. \A i \in 0..n : FoldAt(f, StepOf, s, i) = IF i = 0 THEN <<>> ELSE Step(f[i - 1], s[i])
    <3>1. \A i \in 0..n : i = 0 \/ i \in 1..n
      BY <1>2
    <3> QED BY <1>4, <1>5, <1>6, <3>1
  <2> HIDE DEF n
  <2>3. Body(f) = [i \in 0..n |-> FoldAt(f, StepOf, s, i)]
    BY <2>2
  <2> QED BY <2>1, <2>3 DEF n
<1>8. w = Body(w)
  <2> HIDE DEF Body
  <2> QED BY <1>7
<1>9. \A i \in 0..n : w[i] = IF i = 0 THEN <<>> ELSE Step(w[i - 1], s[i])
  <2> HIDE DEF w, n
  <2> QED BY <1>8
<1> HIDE DEF w, n
<1>10. 0 \in T
  <2>1. 0 \in 0..n
    BY <1>2
  <2> QED BY <1>6, <1>9, <2>1
<1>11. ASSUME NEW j \in T, j + 1 <= n PROVE w[j + 1] = f[j + 1]
  <2>1. j + 1 \in 0..n /\ j + 1 \in 1..n /\ j + 1 # 0 /\ (j + 1) - 1 = j /\ w[j] = f[j]
    BY <1>2, <1>11
  <2>2. w[j + 1] = Step(w[j], s[j + 1])
    BY <1>9, <2>1
  <2>3. f[j + 1] = Step(f[j], s[j + 1])
    BY <1>5, <2>1
  <2> QED BY <2>1, <2>2, <2>3
<1>12. T = Nat
  <2>1. \A j \in T : j + 1 \in T
    BY <1>11
  <2>2. T \subseteq Nat
    OBVIOUS
  <2> HIDE DEF T
  <2> QED BY <1>10, <2>1, <2>2, SetInduction
<1> QED BY <1>1, <1>2, <1>12 DEF n

LEMMA WalkedEmpty == Walked(<<>>) = <<>>
<1>1. <<>> \in Seq(Segment) /\ Len(<<>>) = 0 /\ 0 \in Nat /\ 0 \in 0..0
  OBVIOUS
<1>2. PICK f : Folds(f, StepOf, <<>>, 0)
  BY <1>1, FoldExists
<1>3. Walked(<<>>) = f[0]
  BY <1>1, <1>2, WalkedIs
<1>4. \A i \in 0..0 : f[i] = FoldAt(f, StepOf, <<>>, i)
  BY <1>2 DEF Folds
<1> QED BY <1>1, <1>3, <1>4 DEF FoldAt

\* A segment more is a step more, and what is left are whole segments.
LEMMA WalkedAppend ==
  ASSUME NEW s \in Seq(Segment), NEW x \in Segment
  PROVE  Walked(s) \in Seq(Whole) /\ Walked(Append(s, x)) = Step(Walked(s), x)
<1> DEFINE t == Append(s, x)
<1>1. t \in Seq(Segment) /\ Len(s) \in Nat /\ Len(t) \in Nat
  BY AppendProperties
<1>2. PICK f : Folds(f, StepOf, s, Len(s))
  BY <1>1, FoldExists
<1>3. PICK g : Folds(g, StepOf, t, Len(t))
  <2> HIDE DEF t
  <2> QED BY <1>1, FoldExists
<1>4. g[Len(t)] = StepOf[<<f[Len(s)], x>>] /\ f[Len(s)] \in Seq(Whole)
  <2> <<>> \in Seq(Whole)
    OBVIOUS
  <2> QED BY <1>2, <1>3, StepOfType, FoldAppend
<1>5. Walked(s) = f[Len(s)]
  BY <1>2, WalkedIs
<1>6. Walked(t) = g[Len(t)]
  <2> HIDE DEF t
  <2> QED BY <1>1, <1>3, WalkedIs
<1> QED BY <1>4, <1>5, <1>6 DEF StepOf

\* One token of a text.
Grow(e, x) == IF x \in {Blank, Dotted} THEN e ELSE Append(e, x)
GroupOf == [c \in Seq(Int) \X Int |-> Grow(c[1], c[2])]

LEMMA GroupOfType == GroupOf \in [Seq(Int) \X Int -> Seq(Int)]
<1>1. \A c \in Seq(Int) \X Int : Grow(c[1], c[2]) \in Seq(Int)
  BY DEF Grow
<1> QED BY <1>1 DEF GroupOf

LEMMA GroupsIs ==
  ASSUME NEW s \in Seq(Int), NEW f, Folds(f, GroupOf, s, Len(s))
  PROVE  Groups(s) = f[Len(s)]
<1> DEFINE n == Len(s)
           Body(u) == [i \in 0..n |-> IF i = 0 THEN <<>> ELSE Grow(u[i - 1], s[i])]
           w == CHOOSE u : u = Body(u)
           T == {j \in Nat : j <= n => w[j] = f[j]}
<1>1. Groups(s) = w[n]
  BY DEF Groups, Grow
<1>2. n \in Nat /\ \A i \in 1..n : s[i] \in Int
  OBVIOUS
<1>3. \A i \in 0..n : f[i] \in Seq(Int)
  <2> HIDE DEF w, T
  <2> <<>> \in Seq(Int)
    OBVIOUS
  <2> QED BY FoldType, GroupOfType
<1>4. \A i \in 0..n : f[i] = FoldAt(f, GroupOf, s, i)
  BY DEF Folds
<1>5. ASSUME NEW i \in 1..n PROVE f[i] = Grow(f[i - 1], s[i])
  <2>1. i \in 0..n /\ i # 0 /\ i - 1 \in 0..n
    BY <1>2
  <2>2. f[i] = GroupOf[<<f[i - 1], s[i]>>]
    BY <1>4, <2>1 DEF FoldAt
  <2>3. <<f[i - 1], s[i]>> \in Seq(Int) \X Int
    BY <1>2, <1>3, <2>1
  <2> QED BY <2>2, <2>3 DEF GroupOf
<1>6. f[0] = <<>>
  <2>1. 0 \in 0..n
    BY <1>2
  <2> QED BY <1>4, <2>1 DEF FoldAt
<1>7. f = Body(f)
  <2>1. f = [i \in 0..n |-> FoldAt(f, GroupOf, s, i)]
    BY DEF Folds
  <2>2. \A i \in 0..n : FoldAt(f, GroupOf, s, i) = IF i = 0 THEN <<>> ELSE Grow(f[i - 1], s[i])
    <3>1. \A i \in 0..n : i = 0 \/ i \in 1..n
      BY <1>2
    <3> QED BY <1>4, <1>5, <1>6, <3>1
  <2> HIDE DEF n
  <2>3. Body(f) = [i \in 0..n |-> FoldAt(f, GroupOf, s, i)]
    BY <2>2
  <2> QED BY <2>1, <2>3 DEF n
<1>8. w = Body(w)
  <2> HIDE DEF Body
  <2> QED BY <1>7
<1>9. \A i \in 0..n : w[i] = IF i = 0 THEN <<>> ELSE Grow(w[i - 1], s[i])
  <2> HIDE DEF w, n
  <2> QED BY <1>8
<1> HIDE DEF w, n
<1>10. 0 \in T
  <2>1. 0 \in 0..n
    BY <1>2
  <2> QED BY <1>6, <1>9, <2>1
<1>11. ASSUME NEW j \in T, j + 1 <= n PROVE w[j + 1] = f[j + 1]
  <2>1. j + 1 \in 0..n /\ j + 1 \in 1..n /\ j + 1 # 0 /\ (j + 1) - 1 = j /\ w[j] = f[j]
    BY <1>2, <1>11
  <2>2. w[j + 1] = Grow(w[j], s[j + 1])
    BY <1>9, <2>1
  <2>3. f[j + 1] = Grow(f[j], s[j + 1])
    BY <1>5, <2>1
  <2> QED BY <2>1, <2>2, <2>3
<1>12. T = Nat
  <2>1. \A j \in T : j + 1 \in T
    BY <1>11
  <2>2. T \subseteq Nat
    OBVIOUS
  <2> HIDE DEF T
  <2> QED BY <1>10, <2>1, <2>2, SetInduction
<1> QED BY <1>1, <1>2, <1>12 DEF n

LEMMA GroupsEmpty == Groups(<<>>) = <<>>
<1>1. <<>> \in Seq(Int) /\ Len(<<>>) = 0 /\ 0 \in Nat /\ 0 \in 0..0
  OBVIOUS
<1>2. PICK f : Folds(f, GroupOf, <<>>, 0)
  BY <1>1, FoldExists
<1>3. Groups(<<>>) = f[0]
  BY <1>1, <1>2, GroupsIs
<1>4. \A i \in 0..0 : f[i] = FoldAt(f, GroupOf, <<>>, i)
  BY <1>2 DEF Folds
<1> QED BY <1>1, <1>3, <1>4 DEF FoldAt

\* A segment more is a step more, and what is left are whole segments.
LEMMA GroupsAppend ==
  ASSUME NEW s \in Seq(Int), NEW x \in Int
  PROVE  Groups(s) \in Seq(Int) /\ Groups(Append(s, x)) = Grow(Groups(s), x)
<1> DEFINE t == Append(s, x)
<1>1. t \in Seq(Int) /\ Len(s) \in Nat /\ Len(t) \in Nat
  OBVIOUS
<1>2. PICK f : Folds(f, GroupOf, s, Len(s))
  BY <1>1, FoldExists
<1>3. PICK g : Folds(g, GroupOf, t, Len(t))
  <2> HIDE DEF t
  <2> QED BY <1>1, FoldExists
<1>4. g[Len(t)] = GroupOf[<<f[Len(s)], x>>] /\ f[Len(s)] \in Seq(Int)
  <2> <<>> \in Seq(Int)
    OBVIOUS
  <2> QED BY <1>2, <1>3, GroupOfType, FoldAppend
<1>5. Groups(s) = f[Len(s)]
  BY <1>2, GroupsIs
<1>6. Groups(t) = g[Len(t)]
  <2> HIDE DEF t
  <2> QED BY <1>1, <1>3, GroupsIs
<1> QED BY <1>4, <1>5, <1>6 DEF GroupOf

LEMMA ConcatAppend ==
  ASSUME NEW S, NEW s \in Seq(S), NEW t \in Seq(S), NEW x \in S
  PROVE  s \o Append(t, x) = Append(s \o t, x)
OBVIOUS

LEMMA GroupsConcat ==
  ASSUME NEW s \in Seq(Int), NEW t \in Seq(Int)
  PROVE  Groups(s) \in Seq(Int) /\ Groups(s \o t) = Groups(s) \o Groups(t)
<1> DEFINE T == {k \in Nat : \A v \in Seq(Int) : Len(v) = k => Groups(s \o v) = Groups(s) \o Groups(v)}
<1>0. Groups(s) \in Seq(Int)
  <2> 0 \in Int
    OBVIOUS
  <2> QED BY GroupsAppend
<1>1. 0 \in T
  <2> SUFFICES ASSUME NEW v \in Seq(Int), Len(v) = 0 PROVE Groups(s \o v) = Groups(s) \o Groups(v)
    OBVIOUS
  <2>1. v = <<>> /\ s \o v = s
    OBVIOUS
  <2>2. Groups(s) \o <<>> = Groups(s)
    BY <1>0
  <2> QED BY <2>1, <2>2, GroupsEmpty
<1>2. ASSUME NEW k \in T PROVE k + 1 \in T
  <2> SUFFICES ASSUME NEW v \in Seq(Int), Len(v) = k + 1 PROVE Groups(s \o v) = Groups(s) \o Groups(v)
    OBVIOUS
  <2>0. k \in Nat
    OBVIOUS
  <2>1. PICK u \in Seq(Int), x \in Int : Len(u) = k /\ v = Append(u, x)
    <3> HIDE DEF T
    <3> DEFINE w == SubSeq(v, 1, k)
    <3>1. w \in Seq(Int) /\ Len(w) = k /\ v[k + 1] \in Int /\ v = Append(w, v[k + 1])
      BY <2>0
    <3> HIDE DEF w
    <3> QED BY <3>1
  <2>2. Groups(s \o u) = Groups(s) \o Groups(u)
    BY <2>1
  <2>3. s \o v = Append(s \o u, x) /\ s \o u \in Seq(Int)
    BY <2>1
  <2>4. Groups(s \o v) = Grow(Groups(s) \o Groups(u), x)
    <3> DEFINE su == s \o u
    <3> HIDE DEF su
    <3>1. Groups(Append(su, x)) = Grow(Groups(su), x)
      BY <2>3, GroupsAppend DEF su
    <3> QED BY <2>2, <2>3, <3>1 DEF su
  <2>5. Groups(v) = Grow(Groups(u), x) /\ Groups(u) \in Seq(Int)
    BY <2>1, GroupsAppend
  <2>6. Groups(s) \o Append(Groups(u), x) = Append(Groups(s) \o Groups(u), x)
    <3> DEFINE gs == Groups(s)
               gu == Groups(u)
    <3> HIDE DEF gs, gu
    <3>1. gs \in Seq(Int) /\ gu \in Seq(Int)
      BY <1>0, <2>5 DEF gs, gu
    <3>2. gs \o Append(gu, x) = Append(gs \o gu, x)
      BY <3>1, ConcatAppend, SMTT(20)
    <3> QED BY <3>2 DEF gs, gu
  <2> QED BY <2>4, <2>5, <2>6 DEF Grow
<1>3. T = Nat
  <2>1. \A k \in T : k + 1 \in T
    BY <1>2
  <2>2. T \subseteq Nat
    OBVIOUS
  <2> HIDE DEF T
  <2> QED BY <1>1, <2>1, <2>2, SetInduction
<1>4. Len(t) \in T
  BY <1>3
<1> QED BY <1>0, <1>4

\* A single token: a number is a group, nothing else is.
LEMMA GroupsOne ==
  ASSUME NEW x \in Int
  PROVE  Groups(<<x>>) = IF x \in {Blank, Dotted} THEN <<>> ELSE <<x>>
<1>1. <<x>> = Append(<<>>, x) /\ <<>> \in Seq(Int)
  OBVIOUS
<1>2. Groups(Append(<<>>, x)) = Grow(Groups(<<>>), x)
  BY <1>1, GroupsAppend
<1> QED BY <1>1, <1>2, GroupsEmpty DEF Grow

\* Numbers only are their own groups.
LEMMA GroupsClean == ASSUME NEW s \in Seq(Nat) PROVE Groups(s) = s
<1> DEFINE T == {k \in Nat : \A v \in Seq(Nat) : Len(v) = k => Groups(v) = v}
<1>1. 0 \in T
  <2> SUFFICES ASSUME NEW v \in Seq(Nat), Len(v) = 0 PROVE Groups(v) = v
    OBVIOUS
  <2>1. v = <<>>
    OBVIOUS
  <2> QED BY <2>1, GroupsEmpty
<1>2. ASSUME NEW k \in T PROVE k + 1 \in T
  <2> SUFFICES ASSUME NEW v \in Seq(Nat), Len(v) = k + 1 PROVE Groups(v) = v
    OBVIOUS
  <2>0. k \in Nat
    OBVIOUS
  <2>1. PICK u \in Seq(Nat), x \in Nat : Len(u) = k /\ v = Append(u, x)
    <3> HIDE DEF T
    <3> DEFINE w == SubSeq(v, 1, k)
    <3>1. w \in Seq(Nat) /\ Len(w) = k /\ v[k + 1] \in Nat /\ v = Append(w, v[k + 1])
      BY <2>0
    <3> HIDE DEF w
    <3> QED BY <3>1
  <2>2. Groups(u) = u /\ u \in Seq(Int) /\ x \in Int /\ x \notin {Blank, Dotted}
    BY <2>1 DEF Blank, Dotted
  <2>3. Groups(Append(u, x)) = Grow(Groups(u), x)
    BY <2>2, GroupsAppend
  <2> QED BY <2>1, <2>2, <2>3 DEF Grow
<1>3. T = Nat
  <2>1. \A k \in T : k + 1 \in T
    BY <1>2
  <2>2. T \subseteq Nat
    OBVIOUS
  <2> HIDE DEF T
  <2> QED BY <1>1, <2>1, <2>2, SetInduction
<1>4. Len(s) \in T
  BY <1>3
<1> QED BY <1>4

\* Whole segments stay.
LEMMA WalkedWhole == ASSUME NEW s \in Seq(Whole) PROVE Walked(s) = s
<1> DEFINE T == {k \in Nat : \A v \in Seq(Whole) : Len(v) = k => Walked(v) = v}
<1>1. 0 \in T
  <2> SUFFICES ASSUME NEW v \in Seq(Whole), Len(v) = 0 PROVE Walked(v) = v
    OBVIOUS
  <2>1. v = <<>>
    OBVIOUS
  <2> QED BY <2>1, WalkedEmpty
<1>2. ASSUME NEW k \in T PROVE k + 1 \in T
  <2> SUFFICES ASSUME NEW v \in Seq(Whole), Len(v) = k + 1 PROVE Walked(v) = v
    OBVIOUS
  <2>0. k \in Nat
    OBVIOUS
  <2>1. PICK u \in Seq(Whole), x \in Whole : Len(u) = k /\ v = Append(u, x)
    <3> HIDE DEF T
    <3> QED BY <2>0, Shorter
  <2>2. Whole \subseteq Segment /\ x \notin {"", ".", ".."}
    BY DEF Whole
  <2>3. Walked(u) = u /\ u \in Seq(Segment) /\ x \in Segment
    BY <2>1, <2>2, SeqMonotonic
  <2>4. Walked(Append(u, x)) = Step(Walked(u), x)
    BY <2>3, WalkedAppend
  <2>5. Step(u, x) = Append(u, x)
    BY <2>2 DEF Step
  <2> QED BY <2>1, <2>3, <2>4, <2>5
<1>3. T = Nat
  <2>1. \A k \in T : k + 1 \in T
    BY <1>2
  <2>2. T \subseteq Nat
    OBVIOUS
  <2> HIDE DEF T
  <2> QED BY <1>1, <2>1, <2>2, SetInduction
<1>4. Len(s) \in T
  BY <1>3
<1> QED BY <1>4

----------------------------------------------------------------------------
(* Paths. *)

\* What normalize_path leaves: whole segments, the last of which may be empty.
Straight(s) == s \in Seq(Whole) \/ \E w \in Seq(Whole) : s = Append(w, "")
Paths == [abs : BOOLEAN, segs : Seq(Segment)]

LEMMA WholeSegments == Whole \subseteq Segment /\ "" \in Segment /\ Seq(Whole) \subseteq Seq(Segment)
<1>1. Whole \subseteq Segment
  BY DEF Whole
<1>2. "" \in Segment
  BY DEF Segment
<1> QED BY <1>1, <1>2, SeqMonotonic

LEMMA StraightType == ASSUME NEW s, Straight(s) PROVE s \in Seq(Segment)
<1>1. CASE s \in Seq(Whole)
  BY <1>1, WholeSegments
<1>2. CASE \E w \in Seq(Whole) : s = Append(w, "")
  <2>1. PICK w \in Seq(Whole) : s = Append(w, "")
    BY <1>2
  <2>2. w \in Seq(Segment) /\ "" \in Segment
    BY WholeSegments
  <2>3. Append(w, "") \in Seq(Segment)
    BY <2>2, AppendProperties
  <2> QED BY <2>1, <2>3
<1> QED BY <1>1, <1>2 DEF Straight

\* The front and the last of what something was appended to.
LEMMA FrontAppend ==
  ASSUME NEW S, NEW w \in Seq(S), NEW x \in S
  PROVE  /\ Append(w, x) # <<>> /\ Front(Append(w, x)) = w /\ Last(Append(w, x)) = x
<1>1. Len(Append(w, x)) = Len(w) + 1 /\ Append(w, x)[Len(w) + 1] = x /\ Append(w, x) # <<>>
  OBVIOUS
<1>2. SubSeq(Append(w, x), 1, Len(w)) = w
  OBVIOUS
<1>3. (Len(w) + 1) - 1 = Len(w)
  OBVIOUS
<1> QED BY <1>1, <1>2, <1>3 DEF Front, Last

LEMMA FrontLast ==
  ASSUME NEW S, NEW s \in Seq(S), s # <<>>
  PROVE  Front(s) \in Seq(S) /\ Last(s) \in S /\ s = Append(Front(s), Last(s))
<1> DEFINE n == Len(s) - 1
<1>1. n \in Nat /\ Len(s) = n + 1
  OBVIOUS
<1>2. SubSeq(s, 1, n) \in Seq(S) /\ s[n + 1] \in S /\ s = Append(SubSeq(s, 1, n), s[n + 1])
  BY <1>1
<1> QED BY <1>1, <1>2 DEF Front, Last

LEMMA NormalizeStraight ==
  ASSUME NEW p \in Paths, Straight(p.segs), p.segs \notin {<<>>, <<"">>}
  PROVE  NormalizePath(p) = p
<1> DEFINE s == p.segs
<1>1. p = Path(p.abs, s)
  BY DEF Paths, Path
<1>2. \E w \in Seq(Whole), x \in Segment : s = Append(w, x) /\ x \notin {".", ".."}
  <2>1. CASE s \in Seq(Whole)
    <3>1. Front(s) \in Seq(Whole) /\ Last(s) \in Whole /\ s = Append(Front(s), Last(s))
      BY <2>1, FrontLast
    <3> QED BY <3>1, WholeSegments DEF Whole
  <2>2. CASE \E w \in Seq(Whole) : s = Append(w, "")
    BY <2>2, WholeSegments
  <2> QED BY <2>1, <2>2 DEF Straight
<1>3. PICK w \in Seq(Whole), x \in Segment : s = Append(w, x) /\ x \notin {".", ".."}
  BY <1>2
<1>4. Front(s) = w /\ Last(s) = x
  BY <1>3, WholeSegments, FrontAppend
<1>5. Walked(w) = w
  BY WalkedWhole
<1> HIDE DEF s
<1> QED BY <1>1, <1>3, <1>4, <1>5 DEF NormalizePath, s

\* normalize_path leaves nothing that it would change again.
LEMMA NormalizePathIs ==
  ASSUME NEW p \in Paths
  PROVE  LET q == NormalizePath(p) IN
         /\ q \in Paths /\ NormalizePath(q) = q
         /\ \/ p.segs = <<>> /\ q = p
            \/ q \in {RootPath, NoPath} /\ (q = RootPath <=> p.abs)
            \/ Straight(q.segs) /\ q.segs \notin {<<>>, <<"">>} /\ q.abs = p.abs
<1> DEFINE s == p.segs
           inner == Walked(Front(s))
           elems == CASE Last(s) = "." -> Append(inner, "")
                      [] Last(s) = ".." -> Up(inner)
                      [] OTHER -> Append(inner, Last(s))
           q == NormalizePath(p)
<1>0. s \in Seq(Segment) /\ p.abs \in BOOLEAN
  BY DEF Paths
<1>1. CASE s = <<>>
  BY <1>1 DEF NormalizePath
<1>2. CASE s # <<>>
  <2>1. Front(s) \in Seq(Segment) /\ Last(s) \in Segment
    BY <1>0, <1>2, FrontLast
  <2>2. inner \in Seq(Whole)
    BY <2>1, WholeSegments, WalkedAppend
  <2>3. Straight(elems)
    <3> HIDE DEF inner, s
    <3>1. CASE Last(s) = "."
      BY <2>2, <3>1 DEF Straight
    <3>2. CASE Last(s) = ".."
      BY <2>2, <3>2, UpType DEF Straight
    <3>3. CASE Last(s) \in Whole
      <4>1. elems = Append(inner, Last(s))
        BY <3>3 DEF Whole
      <4>2. Append(inner, Last(s)) \in Seq(Whole)
        BY <2>2, <3>3, AppendProperties
      <4> QED BY <4>1, <4>2 DEF Straight
    <3>4. CASE Last(s) = ""
      <4>1. elems = Append(inner, "")
        BY <3>4
      <4> QED BY <2>2, <4>1 DEF Straight
    <3> QED BY <2>1, <3>1, <3>2, <3>3, <3>4 DEF Whole
  <2>4. q = IF elems \in {<<>>, <<"">>} THEN (IF p.abs THEN RootPath ELSE NoPath) ELSE Path(p.abs, elems)
    BY <1>2 DEF NormalizePath
  <2>5. CASE elems \in {<<>>, <<"">>}
    <3>1. q = IF p.abs THEN RootPath ELSE NoPath
      BY <2>4, <2>5
    <3>2. RootPath \in Paths /\ NoPath \in Paths /\ RootPath # NoPath
      <4>1. <<"">> \in Seq(Segment) /\ <<>> \in Seq(Segment)
        <5>1. \A S : \A x \in S : <<x>> \in Seq(S) /\ <<>> \in Seq(S)
          OBVIOUS
        <5> QED BY <5>1, WholeSegments
      <4> QED BY <4>1 DEF RootPath, NoPath, Path, Paths
    <3>3. NormalizePath(NoPath) = NoPath
      BY DEF NormalizePath, NoPath, Path
    <3>4. NormalizePath(RootPath) = RootPath
      <4>1. <<"">> = Append(<<>>, "") /\ <<>> \in Seq(Segment)
        OBVIOUS
      <4>2. <<"">> # <<>> /\ Front(<<"">>) = <<>> /\ Last(<<"">>) = ""
        BY <4>1, WholeSegments, FrontAppend
      <4>3. RootPath.segs = <<"">> /\ RootPath.abs
        BY DEF RootPath, Path
      <4> QED BY <4>1, <4>2, <4>3, WalkedEmpty DEF NormalizePath
    <3> HIDE DEF q, elems
    <3> QED BY <1>0, <3>1, <3>2, <3>3, <3>4 DEF q
  <2>6. CASE elems \notin {<<>>, <<"">>}
    <3>1. q = Path(p.abs, elems)
      BY <2>4, <2>6
    <3> HIDE DEF elems, q
    <3>2. q \in Paths /\ q.segs = elems /\ q.abs = p.abs
      BY <1>0, <2>3, <3>1, StraightType DEF Path, Paths
    <3>3. NormalizePath(q) = q
      BY <2>3, <2>6, <3>2, NormalizeStraight
    <3> QED BY <2>3, <2>6, <3>2, <3>3 DEF q
  <2> QED BY <2>5, <2>6
<1> QED BY <1>1, <1>2

----------------------------------------------------------------------------
(* An IPv6 address is its fields f and, after six of them, an IPv4 address;  *)
(* a spelling that is not all of it leaves out zeros between X and Y.        *)

Tails == {<<>>, <<Dotted>>}
Full(t) == IF t = <<>> THEN 8 ELSE 6
Form(X, Y, t) ==
    (IF X = <<>> THEN <<Blank>> ELSE X) \o <<Blank>> \o (IF Y \o t = <<>> THEN <<Blank>> ELSE Y \o t)
Unbroken(s) == s \in Seq(Int) /\ \A i \in 1..Len(s) : s[i] # Blank

LEMMA FieldFact ==
  /\ Field \subseteq Nat /\ 0 \in Field /\ FieldWord \in Nat /\ Blank \in Int /\ Dotted \in Int
  /\ Blank \notin Nat /\ Dotted \notin Nat /\ Blank # Dotted
  /\ \A x \in Field : x < FieldWord /\ x % FieldWord = x /\ x \in Int
<1>1. Field \subseteq 0..FieldWord - 1 /\ 0 \in Field /\ FieldWord \in Nat
  <2>1. FieldWord \in Nat
    BY FieldAssumption
  <2> QED BY <2>1, RoundTripAssumption
<1>2. ASSUME NEW x \in Field PROVE x < FieldWord /\ x % FieldWord = x /\ x \in Int /\ x \in Nat
  <2>1. x \in 0..FieldWord - 1
    BY <1>1
  <2>2. \A n \in Nat : \A y \in 0..n - 1 : y % n = y /\ y < n /\ y \in Nat
    OBVIOUS
  <2> QED BY <1>1, <2>1, <2>2
<1> QED BY <1>1, <1>2 DEF Blank, Dotted

LEMMA TailFact ==
  ASSUME NEW t \in Tails
  PROVE  /\ t \in Seq(Int) /\ Unbroken(t) /\ Full(t) \in {6, 8}
         /\ \/ t = <<>> /\ Len(t) = 0 /\ Full(t) = 8
            \/ t = <<Dotted>> /\ Len(t) = 1 /\ Full(t) = 6 /\ t[1] = Dotted /\ t # <<>>
<1> DEFINE d == Dotted
<1>0. d \in Int /\ d # Blank
  BY FieldFact
<1>1. CASE t = <<>>
  <2>1. <<>> \in Seq(Int) /\ Len(<<>>) = 0 /\ Unbroken(<<>>) /\ Full(<<>>) = 8
    BY DEF Unbroken, Full
  <2> QED BY <1>1, <2>1
<1>2. CASE t = <<d>>
  <2> HIDE DEF d
  <2>1. <<d>> \in Seq(Int) /\ Len(<<d>>) = 1 /\ <<d>>[1] = d /\ <<d>> # <<>>
    BY <1>0
  <2>2. Unbroken(<<d>>)
    BY <1>0, <2>1 DEF Unbroken
  <2>3. Full(<<d>>) = 6
    BY <2>1 DEF Full
  <2> QED BY <1>2, <2>1, <2>2, <2>3 DEF d
<1> QED BY <1>1, <1>2 DEF Tails

LEMMA FieldsUnbroken ==
  ASSUME NEW f \in Seq(Field)
  PROVE  /\ Unbroken(f) /\ f \in Seq(Nat) /\ f \in Seq(Int) /\ Groups(f) = f
         /\ \A i \in 1..Len(f) : f[i] \in Field
<1>1. f \in Seq(Nat) /\ f \in Seq(Int)
  <2>1. Field \subseteq Nat /\ Field \subseteq Int
    BY FieldFact
  <2> QED BY <2>1, SeqMonotonic
<1>2. \A i \in 1..Len(f) : f[i] \in Field /\ f[i] # Blank
  BY FieldFact
<1> QED BY <1>1, <1>2, GroupsClean DEF Unbroken

LEMMA UnbrokenConcat ==
  ASSUME NEW s, NEW t, Unbroken(s), Unbroken(t)
  PROVE  Unbroken(s \o t)
<1>1. s \o t \in Seq(Int) /\ Len(s \o t) = Len(s) + Len(t) /\ Len(s) \in Nat /\ Len(t) \in Nat
  BY DEF Unbroken
<1>2. \A i \in 1..Len(s) + Len(t) : (s \o t)[i] = IF i <= Len(s) THEN s[i] ELSE t[i - Len(s)]
  BY DEF Unbroken
<1> QED BY <1>1, <1>2 DEF Unbroken

\* Trimmed takes one of two colons at an end.
LEMMA TrimmedForm ==
  ASSUME NEW X, NEW R, Unbroken(X), Unbroken(R), X # <<>> \/ R # <<>>
  PROVE  Trimmed((IF X = <<>> THEN <<Blank>> ELSE X) \o <<Blank>> \o (IF R = <<>> THEN <<Blank>> ELSE R))
           = X \o <<Blank>> \o R
<1> DEFINE b == Blank
<1>0. /\ b \in Int /\ X \in Seq(Int) /\ R \in Seq(Int) /\ Len(X) \in Nat /\ Len(R) \in Nat
      /\ \A i \in 1..Len(X) : X[i] # b
      /\ \A i \in 1..Len(R) : R[i] # b
  BY FieldFact DEF Unbroken
<1> HIDE DEF b
<1>1. CASE X = <<>> /\ R # <<>>
  <2> DEFINE u == <<b>> \o R
             v == <<b>> \o <<b>> \o R
  <2>1. Len(u) = Len(R) + 1 /\ u[Len(R) + 1] = R[Len(R)] /\ Len(R) \in 1..Len(R) /\ u = X \o <<b>> \o R
    BY <1>0, <1>1
  <2>2. Head(v) = b /\ Tail(v) = u
    BY <1>0
  <2>3. Last(u) # b
    <3>1. R[Len(R)] # b
      BY <1>0, <2>1
    <3>2. u[Len(u)] = R[Len(R)]
      <4> HIDE DEF u
      <4> QED BY <2>1
    <3> HIDE DEF u
    <3> QED BY <3>1, <3>2 DEF Last
  <2> HIDE DEF u, v
  <2>4. Trimmed(v) = u
    BY <2>2, <2>3 DEF Trimmed, b
  <2> QED BY <1>1, <2>1, <2>4 DEF v, b
<1>2. CASE X # <<>> /\ R # <<>>
  <2> DEFINE u == X \o <<b>> \o R
  <2>1. Len(u) = Len(X) + 1 + Len(R) /\ u[Len(X) + 1 + Len(R)] = R[Len(R)] /\ Len(R) \in 1..Len(R)
    BY <1>0, <1>2
  <2>2. Head(u) = X[1] /\ 1 \in 1..Len(X)
    BY <1>0, <1>2
  <2>3. Last(u) # b /\ Head(u) # b
    BY <1>0, <2>1, <2>2 DEF Last
  <2> HIDE DEF u
  <2>4. Trimmed(u) = u
    BY <2>3 DEF Trimmed, b
  <2> QED BY <1>2, <2>4 DEF u, b
<1>3. CASE X # <<>> /\ R = <<>>
  <2> DEFINE u == X \o <<b>>
             v == X \o <<b>> \o <<b>>
  <2>1. v = Append(u, b) /\ u \in Seq(Int) /\ u = X \o <<b>> \o R
    BY <1>0, <1>3
  <2>2. Head(v) = X[1] /\ 1 \in 1..Len(X)
    BY <1>0, <1>3
  <2>3. Front(v) = u /\ Last(v) = b
    <3> HIDE DEF u, v
    <3>1. b \in Int
      BY <1>0
    <3>2. Front(Append(u, b)) = u /\ Last(Append(u, b)) = b
      BY <2>1, <3>1, FrontAppend
    <3> QED BY <2>1, <3>2
  <2>4. Head(v) # b
    BY <1>0, <2>2
  <2> HIDE DEF u, v
  <2>5. Trimmed(v) = u
    BY <2>3, <2>4 DEF Trimmed, b
  <2> QED BY <1>3, <2>1, <2>5 DEF v, b
<1> QED BY <1>1, <1>2, <1>3

\* The tokens and the IPv4 address behind them, while there are at most eight.
LEMMA TokensOf ==
  ASSUME NEW k \in Seq(Int), NEW t \in Tails, Len(k) + Len(t) \in 1..8, k # <<>> => Last(k) # Dotted
  PROVE  /\ HasTail(k \o t) <=> t # <<>>
         /\ Tokens(k \o t) = k /\ TailOf(k \o t) = t
<1> DEFINE u == k \o t
<1>1. CASE t = <<>>
  <2>1. u = k /\ k # <<>> /\ Len(k) \in 1..8
    <3>1. k \o <<>> = k /\ Len(<<>>) = 0 /\ Len(<<>>) \in Nat /\ Len(k) \in Nat
      OBVIOUS
    <3>2. Len(k) \in 1..8
      BY <1>1, <3>1
    <3> QED BY <1>1, <3>1, <3>2
  <2>2. ~HasTail(u)
    BY <2>1 DEF HasTail
  <2>3. Kept(u) = Len(k)
    <3> HIDE DEF u
    <3>1. ~(Len(u) > 8)
      BY <2>1
    <3> QED BY <2>1, <3>1 DEF Kept
  <2>4. SubSeq(k, 1, Len(k)) = k
    OBVIOUS
  <2> HIDE DEF u
  <2> QED BY <1>1, <2>1, <2>2, <2>3, <2>4 DEF u, Tokens, TailOf
<1>2. CASE t = <<Dotted>>
  <2>0. Dotted \in Int /\ t # <<>>
    BY <1>2, FieldFact
  <2>1. u = Append(k, Dotted) /\ Len(u) = Len(k) + 1 /\ Len(u) \in 1..8
    BY <1>2, <2>0
  <2>2. HasTail(u)
    BY <2>0, <2>1, FrontAppend DEF HasTail
  <2>3. Kept(u) = Len(k) + 1
    <3> HIDE DEF u
    <3>1. ~(Len(u) > 8)
      BY <2>1
    <3> QED BY <2>1, <3>1 DEF Kept
  <2>4. SubSeq(u, 1, (Len(k) + 1) - 1) = k /\ SubSeq(u, Len(k) + 1, Len(k) + 1) = <<Dotted>>
    <3> DEFINE d == Dotted
    <3>1. d \in Int
      BY <2>0
    <3> HIDE DEF d
    <3> DEFINE v == Append(k, d)
               r == SubSeq(v, Len(k) + 1, Len(k) + 1)
    <3>2. SubSeq(v, 1, (Len(k) + 1) - 1) = k
      BY <3>1
    <3>3. r \in Seq(Int) /\ Len(r) = 1 /\ r[1] = d
      BY <3>1
    <3>4. r = <<d>>
      <4> HIDE DEF r
      <4> QED BY <3>3
    <3>5. SubSeq(Append(k, d), 1, (Len(k) + 1) - 1) = k /\ SubSeq(Append(k, d), Len(k) + 1, Len(k) + 1) = <<d>>
      BY <3>2, <3>4
    <3> QED BY <2>1, <3>5 DEF d
  <2> HIDE DEF u
  <2> QED BY <1>2, <2>0, <2>1, <2>2, <2>3, <2>4 DEF u, Tokens, TailOf
<1> QED BY <1>1, <1>2 DEF Tails

\* Numbers around a double colon, as tokens.
LEMMA CoreFact ==
  ASSUME NEW X \in Seq(Field), NEW Y \in Seq(Field)
  PROVE  LET c == X \o <<Blank>> \o Y IN
         /\ c \in Seq(Int) /\ Len(c) = Len(X) + 1 + Len(Y) /\ c # <<>> /\ Last(c) # Dotted
         /\ \A i \in 1..Len(c) : /\ c[i] = Blank <=> i = Len(X) + 1
                                 /\ i # Len(X) + 1 => c[i] \in Field
         /\ c[Len(X) + 1] = Blank
<1> DEFINE b == Blank
           c == X \o <<b>> \o Y
<1>1. /\ X \in Seq(Int) /\ Y \in Seq(Int) /\ Len(X) \in Nat /\ Len(Y) \in Nat
      /\ \A i \in 1..Len(X) : X[i] \in Field
      /\ \A i \in 1..Len(Y) : Y[i] \in Field
  BY FieldsUnbroken
<1>2. b \in Int /\ b \notin Field /\ b # Dotted /\ Dotted \notin Field
  BY FieldFact
<1> HIDE DEF b
<1>3. c \in Seq(Int) /\ Len(c) = Len(X) + 1 + Len(Y) /\ c # <<>>
  BY <1>1, <1>2
<1>4. ASSUME NEW i \in 1..Len(X) + 1 + Len(Y)
      PROVE  /\ c[i] = b <=> i = Len(X) + 1
             /\ i # Len(X) + 1 => c[i] \in Field
  <2>1. CASE i <= Len(X)
    <3>1. c[i] = X[i] /\ i \in 1..Len(X) /\ i # Len(X) + 1
      BY <1>1, <1>2, <2>1
    <3>2. X[i] \in Field
      BY <1>1, <3>1
    <3> HIDE DEF c
    <3> QED BY <1>2, <3>1, <3>2
  <2>2. CASE i = Len(X) + 1
    <3>1. c[i] = b
      BY <1>1, <1>2, <2>2
    <3> QED BY <2>2, <3>1
  <2>3. CASE i > Len(X) + 1
    <3>1. c[i] = Y[i - Len(X) - 1] /\ i - Len(X) - 1 \in 1..Len(Y) /\ i # Len(X) + 1
      BY <1>1, <1>2, <2>3
    <3>2. Y[i - Len(X) - 1] \in Field
      BY <1>1, <3>1
    <3> HIDE DEF c
    <3> QED BY <1>2, <3>1, <3>2
  <2> QED BY <1>1, <2>1, <2>2, <2>3
<1> HIDE DEF c
<1>5. Len(c) \in 1..Len(c) /\ Len(X) + 1 \in 1..Len(c)
  BY <1>1, <1>3
<1>6. Last(c) # Dotted
  <2>1. c[Len(c)] # Dotted
    BY <1>2, <1>3, <1>4, <1>5
  <2> QED BY <2>1 DEF Last
<1> QED BY <1>3, <1>4, <1>5, <1>6 DEF c, b

LEMMA CoreGroups ==
  ASSUME NEW X \in Seq(Field), NEW Y \in Seq(Field)
  PROVE  Groups(X \o <<Blank>> \o Y) = X \o Y
<1> DEFINE b == <<Blank>>
<1>1. X \in Seq(Int) /\ Y \in Seq(Int) /\ Groups(X) = X /\ Groups(Y) = Y
  BY FieldsUnbroken
<1>2. b \in Seq(Int) /\ Groups(b) = <<>>
  BY FieldFact, GroupsOne
<1> HIDE DEF b
<1>3. X \o b \in Seq(Int)
  BY <1>1, <1>2
<1>4. Groups(X \o b) = Groups(X) \o Groups(b)
  BY <1>1, <1>2, GroupsConcat
<1>5. Groups((X \o b) \o Y) = Groups(X \o b) \o Groups(Y)
  BY <1>1, <1>3, GroupsConcat
<1>6. X \o <<>> = X
  BY <1>1
<1> QED BY <1>1, <1>2, <1>4, <1>5, <1>6 DEF b

LEMMA CoreNullPos ==
  ASSUME NEW X \in Seq(Field), NEW Y \in Seq(Field)
  PROVE  NullPos(X \o <<Blank>> \o Y) = Len(X)
<1> DEFINE c == X \o <<Blank>> \o Y
           m == Len(X) + 1
<1>0. Len(X) \in Nat /\ Len(Y) \in Nat
  OBVIOUS
<1>1. /\ c \in Seq(Int) /\ Len(c) = Len(X) + 1 + Len(Y)
      /\ \A i \in 1..Len(c) : c[i] = Blank <=> i = m
  BY CoreFact
<1> HIDE DEF c
<1>2. DOMAIN c = 1..Len(c) /\ m \in 1..Len(c)
  BY <1>0, <1>1
<1>3. {i \in DOMAIN c : c[i] = Blank} = {m}
  BY <1>1, <1>2
<1>4. Blank \in ToSet(c)
  <2>1. c[m] = Blank
    BY <1>1, <1>2
  <2> QED BY <1>2, <2>1 DEF ToSet
<1>5. Max({m}) = m
  BY <1>0 DEF Max
<1>6. m - 1 = Len(X)
  BY <1>0
<1> HIDE DEF m
<1> QED BY <1>3, <1>4, <1>5, <1>6 DEF NullPos, c

\* Without a double colon.
LEMMA CleanTokens ==
  ASSUME NEW f \in Seq(Field)
  PROVE  NullPos(f) = 8 /\ Decoded(f) = f
<1>1. Groups(f) = f /\ \A i \in 1..Len(f) : f[i] \in Field
  BY FieldsUnbroken
<1>2. DOMAIN f = 1..Len(f)
  OBVIOUS
<1>3. Blank \notin ToSet(f)
  BY <1>1, <1>2, FieldFact DEF ToSet
<1>4. [i \in DOMAIN f |-> f[i] % FieldWord] = f
  <2>1. \A i \in DOMAIN f : f[i] % FieldWord = f[i]
    BY <1>1, <1>2, FieldFact
  <2>2. f = [i \in DOMAIN f |-> f[i]]
    BY <1>2
  <2> QED BY <2>1, <2>2
<1> QED BY <1>1, <1>3, <1>4 DEF NullPos, Decoded

LEMMA CoreDecoded ==
  ASSUME NEW X \in Seq(Field), NEW Y \in Seq(Field)
  PROVE  Decoded(X \o <<Blank>> \o Y) = X \o Y
<1>1. X \o Y \in Seq(Field)
  OBVIOUS
<1>2. Groups(X \o <<Blank>> \o Y) = Groups(X \o Y)
  BY <1>1, CoreGroups, FieldsUnbroken
<1>3. Decoded(X \o Y) = X \o Y
  <2> DEFINE g == X \o Y
  <2> HIDE DEF g
  <2>1. Decoded(g) = g
    BY <1>1, CleanTokens DEF g
  <2> QED BY <2>1 DEF g
<1> QED BY <1>2, <1>3 DEF Decoded

\* The zeros that were left out come back.
LEMMA ExpandedIs ==
  ASSUME NEW X \in Seq(Field), NEW Y \in Seq(Field), NEW n \in Nat \ {0}
  PROVE  /\ Expanded(X \o Y, Len(X), Len(X) + n + Len(Y)) = X \o Zeros(n) \o Y
         /\ X \o Zeros(n) \o Y \in Seq(Field)
         /\ Len(X \o Zeros(n) \o Y) = Len(X) + n + Len(Y)
<1> DEFINE z == Zeros(n)
           L == Len(X) + n + Len(Y)
<1>0. z \in Seq(Field) /\ Len(z) = n
  BY FieldFact DEF Zeros
<1>1. Len(X \o Y) = Len(X) + Len(Y) /\ Len(X) \in Nat /\ Len(Y) \in Nat /\ L - Len(X \o Y) = n
        /\ ~(Len(X \o Y) >= L)
  OBVIOUS
<1>2. SubSeq(X \o Y, 1, Len(X)) = X /\ SubSeq(X \o Y, Len(X) + 1, Len(X \o Y)) = Y
  OBVIOUS
<1>3. Expanded(X \o Y, Len(X), L) = X \o z \o Y
  <2> DEFINE g == X \o Y
  <2> HIDE DEF g, L
  <2> QED BY <1>1, <1>2 DEF Expanded, g
<1> HIDE DEF z
<1>4. X \o z \o Y \in Seq(Field) /\ Len(X \o z \o Y) = Len(X) + n + Len(Y)
  BY <1>0
<1> QED BY <1>3, <1>4 DEF z

LEMMA ColonLens ==
  ASSUME NEW S, NEW x \in S
  PROVE  /\ Len(<<x>>) = 1 /\ Len(<<x, x>>) = 2 /\ Len(<<x, x, x>>) = 3
         /\ <<x>> \o <<x>> \o <<x>> = <<x, x, x>>
<1> DEFINE s == <<x>> \o <<x>> \o <<x>>
<1>1. s[1] = x /\ s[2] = x /\ s[3] = x /\ Len(s) = 3 /\ s \in Seq(S)
  OBVIOUS
<1> HIDE DEF s
<1>2. s = <<x, x, x>>
  BY <1>1
<1> QED BY <1>2 DEF s

LEMMA ConcatTokens ==
  ASSUME NEW r \in Seq(Int), NEW x \in Int, NEW t \in Seq(Int), NEW u \in Seq(Int)
  PROVE  r \o <<x>> \o (t \o u) = (r \o <<x>> \o t) \o u
<1>1. PICK S : S = Int
  OBVIOUS
<1>2. PICK s : s = <<x>>
  OBVIOUS
<1>3. r \in Seq(S) /\ s \in Seq(S) /\ t \in Seq(S) /\ u \in Seq(S)
  BY <1>1, <1>2
<1>4. r \o s \o (t \o u) = (r \o s \o t) \o u
  BY <1>3, SMTT(20)
<1> QED BY <1>2, <1>4

LEMMA OneEach ==
  ASSUME NEW S, NEW x \in S, NEW P \in Seq(S), NEW Q \in Seq(S), P # <<>>, Q # <<>>,
         P \o <<x>> \o Q = <<x, x, x>>
  PROVE  Len(P) = 1 /\ Len(Q) = 1 /\ P[1] = x /\ Q[1] = x
<1>1. Len(P) \in Nat \ {0} /\ Len(Q) \in Nat \ {0}
  OBVIOUS
<1>2. Len(P \o <<x>> \o Q) = Len(P) + 1 + Len(Q)
  OBVIOUS
<1>3. Len(P) + 1 + Len(Q) = 3
  BY <1>2, ColonLens
<1>4. Len(P) = 1 /\ Len(Q) = 1
  BY <1>1, <1>3
<1>5. (P \o <<x>> \o Q)[1] = P[1] /\ (P \o <<x>> \o Q)[3] = Q[1]
  BY <1>4
<1>6. <<x, x, x>>[1] = x /\ <<x, x, x>>[3] = x
  OBVIOUS
<1> QED BY <1>4, <1>5, <1>6

LEMMA NotTwo == ASSUME NEW v \in Seq(Int), ~(Len(v) < 3), NEW S, NEW x \in S PROVE v # <<x, x>> /\ ~(Len(v) < 2)
<1>1. Len(<<x, x>>) = 2
  BY ColonLens
<1>2. \A n \in Nat : ~(n < 3) => n # 2 /\ ~(n < 2)
  OBVIOUS
<1>3. Len(v) \in Nat
  OBVIOUS
<1> QED BY <1>1, <1>2, <1>3

LEMMA FullLen ==
  ASSUME NEW t \in Tails
  PROVE  Len(t) \in {0, 1} /\ Full(t) \in {6, 8} /\ Full(t) + Len(t) \in {7, 8}
<1>1. CASE t = <<>> /\ Len(t) = 0 /\ Full(t) = 8
  BY <1>1
<1>2. CASE Len(t) = 1 /\ Full(t) = 6
  BY <1>2
<1> QED BY <1>1, <1>2, TailFact

\* normalize_IPv6 on what is neither too short nor too long.
LEMMA NormalizeIs ==
  ASSUME NEW tok, NEW k \in Seq(Int), NEW t \in Tails, NEW g,
         tok # <<Blank, Blank, Blank>>, tok # <<Blank, Blank>>, ~(Len(tok) < 2),
         Trimmed(tok) = k \o t, Len(k) + Len(t) \in 1..8, k # <<>> => Last(k) # Dotted,
         Decoded(k) = g, ~(Len(g) > 8), ~(Len(g) < Full(t) /\ Len(g) < NullPos(k))
  PROVE  NormalizeIpv6(tok) = Encoded(Expanded(g, NullPos(k), Full(t))) \o t
<1> DEFINE u == k \o t
<1>1. Trimmed(tok) = u /\ ~(Len(u) > 10)
  <2>1. Len(u) = Len(k) + Len(t)
    BY TailFact
  <2> QED BY <2>1
<1>2. (HasTail(u) <=> t # <<>>) /\ Tokens(u) = k /\ TailOf(u) = t
  BY TokensOf
<1>3. (IF HasTail(u) THEN 6 ELSE 8) = Full(t)
  BY <1>2 DEF Full
<1> HIDE DEF u
<1> QED BY <1>1, <1>2, <1>3 DEF NormalizeIpv6

LEMMA LongFact ==
  ASSUME NEW a, Unbroken(a), Len(a) \in 7..8
  PROVE  /\ Trimmed(a) = a /\ ~(Len(a) < 2)
         /\ a # <<Blank, Blank, Blank>> /\ a # <<Blank, Blank>>
<1>1. 1 \in 1..Len(a) /\ Len(a) \in 1..Len(a)
  OBVIOUS
<1>2. Head(a) # Blank /\ Last(a) # Blank
  BY <1>1 DEF Unbroken, Last
<1>3. Trimmed(a) = a
  BY <1>2 DEF Trimmed
<1>4. Len(<<Blank, Blank>>) = 2 /\ Len(<<Blank, Blank, Blank>>) = 3
  BY ColonLens, FieldFact
<1>5. Len(a) # 2 /\ Len(a) # 3 /\ ~(Len(a) < 2)
  <2>1. \A n \in 7..8 : n # 2 /\ n # 3 /\ ~(n < 2)
    OBVIOUS
  <2> QED BY <2>1
<1> QED BY <1>3, <1>4, <1>5

\* An address that is written out.
LEMMA NormalFull ==
  ASSUME NEW f \in Seq(Field), NEW t \in Tails, Len(f) = Full(t)
  PROVE  NormalizeIpv6(f \o t) = Encoded(f) \o t
<1> DEFINE a == f \o t
<1>1. f \in Seq(Int) /\ Unbroken(f) /\ f # <<>> /\ Len(f) \in {6, 8} /\ Len(f) + Len(t) \in 7..8
        /\ t \in Seq(Int) /\ Len(t) \in Nat
  <2>1. f \in Seq(Int) /\ Unbroken(f) /\ t \in Seq(Int)
    BY TailFact, FieldsUnbroken
  <2>2. Len(f) \in {6, 8} /\ Len(f) + Len(t) \in 7..8 /\ Len(t) \in Nat
    BY FullLen
  <2>3. Len(<<>>) = 0
    OBVIOUS
  <2> QED BY <2>1, <2>2, <2>3
<1>2. Last(f) # Dotted
  <2>1. Len(f) \in 1..Len(f)
    BY <1>1
  <2>2. f[Len(f)] \in Field
    BY <2>1, FieldsUnbroken
  <2> QED BY <2>2, FieldFact DEF Last
<1>3. Unbroken(a) /\ Len(a) \in 7..8 /\ a \in Seq(Int)
  <2>1. Len(a) = Len(f) + Len(t)
    BY <1>1
  <2> QED BY <1>1, <2>1, TailFact, UnbrokenConcat DEF Unbroken
<1>4. /\ Trimmed(a) = a /\ ~(Len(a) < 2)
      /\ a # <<Blank, Blank, Blank>> /\ a # <<Blank, Blank>>
  <2> HIDE DEF a
  <2> QED BY <1>3, LongFact
<1>6. Decoded(f) = f /\ NullPos(f) = 8
  BY CleanTokens
<1>7. Expanded(f, 8, Full(t)) = f
  <2>1. SubSeq(f, 1, Len(f)) = f
    OBVIOUS
  <2> QED BY <1>1, <2>1 DEF Expanded
<1>8. ~(Len(f) > 8) /\ ~(Len(f) < Full(t)) /\ Len(f) + Len(t) \in 1..8
  BY <1>1
<1>9. NormalizeIpv6(a) = Encoded(Expanded(f, NullPos(f), Full(t))) \o t
  BY <1>1, <1>2, <1>4, <1>6, <1>8, NormalizeIs
<1> QED BY <1>6, <1>7, <1>9

\* What is in a spelling with a double colon.
LEMMA FormFact ==
  ASSUME NEW X \in Seq(Field), NEW Y \in Seq(Field), NEW t \in Tails
  PROVE  LET tok == Form(X, Y, t) IN
         /\ tok \in Seq(Int) /\ ~(Len(tok) < 3)
         /\ tok = <<Blank, Blank, Blank>> <=> X = <<>> /\ Y \o t = <<>>
         /\ ~(X = <<>> /\ Y \o t = <<>>) => Trimmed(tok) = X \o <<Blank>> \o (Y \o t)
<1> DEFINE b == Blank
           R == Y \o t
           P == IF X = <<>> THEN <<b>> ELSE X
           Q == IF R = <<>> THEN <<b>> ELSE R
           tok == P \o <<b>> \o Q
<1>1. Unbroken(X) /\ Unbroken(Y) /\ Unbroken(t) /\ Unbroken(R)
  BY FieldsUnbroken, TailFact, UnbrokenConcat
<1>2. b \in Int /\ X \in Seq(Int) /\ R \in Seq(Int)
  BY <1>1, FieldFact DEF Unbroken
<1>3. tok = Form(X, Y, t)
  BY DEF Form
<1> HIDE DEF R
<1>4. ~(X = <<>> /\ R = <<>>) => Trimmed(tok) = X \o <<Blank>> \o R
  BY <1>1, TrimmedForm
<1>5. P \in Seq(Int) /\ Len(P) \in Nat \ {0} /\ Q \in Seq(Int) /\ Len(Q) \in Nat \ {0}
  <2>1. X # <<>> => Len(X) \in Nat \ {0}
    BY <1>2
  <2>2. R # <<>> => Len(R) \in Nat \ {0}
    BY <1>2
  <2> QED BY <1>2, <2>1, <2>2
<1>6. tok \in Seq(Int) /\ ~(Len(tok) < 3)
  <2> HIDE DEF P, Q, b
  <2> QED BY <1>2, <1>5
<1>7. X = <<>> /\ R = <<>> => tok = <<b, b, b>>
  <2> HIDE DEF b
  <2>1. <<b>> \o <<b>> \o <<b>> = <<b, b, b>>
    BY ColonLens
  <2> QED BY <2>1
<1>8. tok = <<b, b, b>> => X = <<>> /\ R = <<>>
  <2> SUFFICES ASSUME tok = <<b, b, b>> PROVE X = <<>> /\ R = <<>>
    OBVIOUS
  <2>0. Len(P) = 1 /\ Len(Q) = 1 /\ P[1] = b /\ Q[1] = b
    <3> HIDE DEF P, Q, b
    <3>1. P # <<>> /\ Q # <<>> /\ Len(<<>>) = 0
      BY <1>5
    <3>2. P \o <<b>> \o Q = <<b, b, b>> /\ P \in Seq(Int) /\ Q \in Seq(Int) /\ b \in Int
      BY <1>2, <1>5
    <3> HIDE DEF tok
    <3> QED BY <3>1, <3>2, OneEach, Zenon
  <2>1. CASE X # <<>>
    <3>1. Len(X) = 1 /\ X[1] = b
      BY <2>0, <2>1
    <3>2. 1 \in 1..Len(X)
      BY <3>1
    <3> QED BY <1>1, <3>1, <3>2 DEF Unbroken
  <2>2. CASE R # <<>>
    <3>1. Len(R) = 1 /\ R[1] = b
      BY <2>0, <2>2
    <3>2. 1 \in 1..Len(R)
      BY <3>1
    <3> QED BY <1>1, <3>1, <3>2 DEF Unbroken
  <2> QED BY <2>1, <2>2
<1> HIDE DEF tok
<1> QED BY <1>3, <1>4, <1>6, <1>7, <1>8 DEF b, R

LEMMA CutTokens ==
  ASSUME NEW X \in Seq(Field), NEW Y \in Seq(Field), NEW t \in Tails
  PROVE  X \o <<Blank>> \o (Y \o t) = (X \o <<Blank>> \o Y) \o t
<1>1. X \in Seq(Int) /\ Y \in Seq(Int) /\ t \in Seq(Int) /\ Blank \in Int
  BY FieldsUnbroken, TailFact, FieldFact
<1> QED BY <1>1, ConcatTokens, SMTT(20)

\* An address with zeros left out.
LEMMA NormalForm ==
  ASSUME NEW X \in Seq(Field), NEW Y \in Seq(Field), NEW t \in Tails, NEW n \in Nat \ {0},
         Len(X) + n + Len(Y) = Full(t), ~(X = <<>> /\ Y \o t = <<>>)
  PROVE  NormalizeIpv6(Form(X, Y, t)) = Encoded(X \o Zeros(n) \o Y) \o t
<1> DEFINE c == X \o <<Blank>> \o Y
           tok == Form(X, Y, t)
           g == X \o Y
<1>1. c \in Seq(Int) /\ Len(c) = Len(X) + 1 + Len(Y) /\ Last(c) # Dotted
  BY CoreFact
<1>2. Decoded(c) = g /\ NullPos(c) = Len(X)
  BY CoreDecoded, CoreNullPos
<1>3. X \o <<Blank>> \o (Y \o t) = c \o t
  <2>1. X \o <<Blank>> \o (Y \o t) = (X \o <<Blank>> \o Y) \o t
    BY CutTokens
  <2> QED BY <2>1
<1>4. Trimmed(tok) = c \o t /\ tok # <<Blank, Blank, Blank>> /\ ~(Len(tok) < 3) /\ tok \in Seq(Int)
  BY <1>3, FormFact
<1>5. Len(X) \in Nat /\ Len(Y) \in Nat /\ Full(t) + Len(t) \in 7..8 /\ Len(t) \in Nat /\ Full(t) \in {6, 8}
  BY FullLen
<1>6. Len(g) = Len(X) + Len(Y)
  OBVIOUS
<1>7. Len(c) + Len(t) \in 1..8
  <2>1. Len(c) <= Full(t) /\ Len(c) \in Nat /\ Len(c) >= 1
    BY <1>1, <1>5
  <2> HIDE DEF c
  <2> QED BY <1>5, <2>1, SMTT(20)
<1>8. ~(Len(g) > 8) /\ ~(Len(g) < NullPos(c))
  <2> HIDE DEF c, g
  <2> QED BY <1>2, <1>5, <1>6
<1>9. tok # <<Blank, Blank>> /\ ~(Len(tok) < 2)
  <2> HIDE DEF tok
  <2> QED BY <1>4, NotTwo, FieldFact
<1>10. NormalizeIpv6(tok) = Encoded(Expanded(g, NullPos(c), Full(t))) \o t
  <2> HIDE DEF tok, c, g
  <2> QED BY <1>1, <1>2, <1>4, <1>7, <1>8, <1>9, NormalizeIs
<1>11. Expanded(g, Len(X), Full(t)) = X \o Zeros(n) \o Y
  <2>1. Expanded(X \o Y, Len(X), Len(X) + n + Len(Y)) = X \o Zeros(n) \o Y
    BY ExpandedIs
  <2> QED BY <2>1
<1> QED BY <1>2, <1>10, <1>11

----------------------------------------------------------------------------
(* The spellings of an address. *)

LEMMA AddressForm ==
  ASSUME NEW a
  PROVE  a \in Address(Field) <=> \E f \in Seq(Field), t \in Tails : Len(f) = Full(t) /\ a = f \o t
<1>1. ASSUME NEW n \in Nat, NEW f \in [1..n -> Field] PROVE f \in Seq(Field) /\ Len(f) = n
  OBVIOUS
<1>2. ASSUME NEW n \in Nat, NEW f \in Seq(Field), Len(f) = n PROVE f \in [1..n -> Field]
  BY <1>2
<1>3. ASSUME NEW f \in Seq(Field) PROVE f \o <<>> = f
  OBVIOUS
<1>4. <<>> \in Tails /\ <<Dotted>> \in Tails /\ Full(<<>>) = 8 /\ Full(<<Dotted>>) = 6
  <2>1. <<Dotted>> # <<>>
    OBVIOUS
  <2> QED BY <2>1 DEF Tails, Full
<1>5. ASSUME a \in Address(Field)
      PROVE  \E f \in Seq(Field), t \in Tails : Len(f) = Full(t) /\ a = f \o t
  <2>1. CASE a \in [1..8 -> Field]
    BY <1>1, <1>3, <1>4, <2>1
  <2>2. CASE \E f \in [1..6 -> Field] : a = f \o <<Dotted>>
    BY <1>1, <1>4, <2>2
  <2> QED BY <1>5, <2>1, <2>2 DEF Address
<1>6. ASSUME NEW f \in Seq(Field), NEW t \in Tails, Len(f) = Full(t), a = f \o t
      PROVE  a \in Address(Field)
  <2>1. CASE t = <<>>
    BY <1>2, <1>3, <1>4, <1>6, <2>1 DEF Address
  <2>2. CASE t = <<Dotted>>
    BY <1>2, <1>4, <1>6, <2>2 DEF Address
  <2> QED BY <2>1, <2>2 DEF Tails
<1> QED BY <1>5, <1>6

LEMMA ConcatThree ==
  ASSUME NEW S, NEW r \in Seq(S), NEW s \in Seq(S), NEW t \in Seq(S)
  PROVE  r \o s \o t \in Seq(S) /\ Len(r \o s \o t) = Len(r) + Len(s) + Len(t)
  OBVIOUS

\* A run of zeros is a run of fields, and what stands around it is left.
LEMMA RunAround ==
  ASSUME NEW f \in Seq(Field), NEW t \in Tails, NEW p \in Nat, NEW n \in Nat \ {0}
  PROVE  /\ ZeroRun(f \o t, p, n) <=> ZeroRun(f, p, n)
         /\ f \o t \in Seq(Int) /\ Len(f \o t) = Len(f) + Len(t)
<1> DEFINE a == f \o t
<1>1. f \in Seq(Int) /\ t \in Seq(Int) /\ Len(f) \in Nat /\ Len(t) \in {0, 1}
        /\ (Len(t) = 1 => t[1] = Dotted) /\ Dotted # 0
  BY FieldsUnbroken, TailFact, FieldFact
<1>2. a \in Seq(Int) /\ Len(a) = Len(f) + Len(t) /\ \A i \in 1..Len(f) : a[i] = f[i]
  BY <1>1
<1>3. Len(t) = 1 => a[Len(f) + 1] = Dotted
  <2> SUFFICES ASSUME Len(t) = 1 PROVE a[Len(f) + 1] = t[1]
    BY <1>1
  <2>1. 1 \in 1..Len(t)
    OBVIOUS
  <2>2. PICK S : S = Int
    OBVIOUS
  <2>3. f \in Seq(S) /\ t \in Seq(S)
    BY <1>1, <2>2
  <2>4. \A i \in 1..Len(t) : (f \o t)[Len(f) + i] = t[i]
    BY <2>3
  <2> QED BY <2>1, <2>4
<1> HIDE DEF a
<1>4. ASSUME ZeroRun(a, p, n) PROVE ZeroRun(f, p, n)
  <2>1. p + n <= Len(f) + Len(t) /\ \A i \in p+1..p+n : a[i] = 0
    BY <1>2, <1>4 DEF ZeroRun
  <2>2. p + n <= Len(f)
    <3> SUFFICES ASSUME ~(p + n <= Len(f)) PROVE FALSE
      OBVIOUS
    <3>1. Len(t) = 1 /\ p + n = Len(f) + 1
      <4>1. \A m \in {0, 1} : p + n <= Len(f) + m => m = 1 /\ p + n = Len(f) + 1
        BY <1>1
      <4> QED BY <1>1, <2>1, <4>1
    <3>2. Len(f) + 1 \in p+1..p+n
      BY <1>1, <3>1
    <3> QED BY <1>1, <1>3, <2>1, <3>1, <3>2
  <2>3. \A i \in p+1..p+n : i \in 1..Len(f)
    BY <1>1, <2>2
  <2> QED BY <1>2, <2>1, <2>2, <2>3 DEF ZeroRun
<1>5. ASSUME ZeroRun(f, p, n) PROVE ZeroRun(a, p, n)
  <2>1. p + n <= Len(f) /\ \A i \in p+1..p+n : f[i] = 0
    BY <1>5 DEF ZeroRun
  <2>2. \A i \in p+1..p+n : i \in 1..Len(f)
    BY <1>1, <2>1
  <2>3. p + n <= Len(f) + Len(t)
    BY <1>1, <2>1
  <2> QED BY <1>2, <2>1, <2>2, <2>3 DEF ZeroRun
<1> QED BY <1>2, <1>4, <1>5 DEF a

\* The parts of a sequence, put together again.
LEMMA ThreeParts ==
  ASSUME NEW S, NEW f \in Seq(S), NEW p \in Nat, NEW q \in Nat, p <= q, q <= Len(f)
  PROVE  f = SubSeq(f, 1, p) \o SubSeq(f, p + 1, q) \o SubSeq(f, q + 1, Len(f))
<1> DEFINE X == SubSeq(f, 1, p)
           Z == SubSeq(f, p + 1, q)
           Y == SubSeq(f, q + 1, Len(f))
<1>1. X \in Seq(S) /\ Len(X) = p /\ \A i \in 1..p : X[i] = f[i]
  OBVIOUS
<1>2. Z \in Seq(S) /\ Len(Z) = q - p /\ \A i \in 1..q - p : Z[i] = f[p + i]
  OBVIOUS
<1>3. Y \in Seq(S) /\ Len(Y) = Len(f) - q /\ \A i \in 1..Len(f) - q : Y[i] = f[q + i]
  OBVIOUS
<1>4. Len(f) \in Nat
  OBVIOUS
<1> HIDE DEF X, Y, Z
<1> DEFINE g == X \o Z \o Y
<1>5. g \in Seq(S) /\ Len(g) = Len(f)
  <2>1. g \in Seq(S) /\ Len(g) = Len(X) + Len(Z) + Len(Y)
    BY <1>1, <1>2, <1>3, ConcatThree
  <2>2. p + (q - p) + (Len(f) - q) = Len(f)
    BY <1>4
  <2> HIDE DEF g
  <2> QED BY <1>1, <1>2, <1>3, <2>1, <2>2
<1>6. ASSUME NEW i \in 1..Len(f) PROVE g[i] = f[i]
  <2>1. CASE i <= p
    <3>1. g[i] = X[i] /\ i \in 1..p
      BY <1>1, <1>2, <1>3, <1>4, <2>1
    <3> HIDE DEF g
    <3> QED BY <1>1, <3>1
  <2>2. CASE p < i /\ i <= q
    <3>1. g[i] = Z[i - p] /\ i - p \in 1..q - p /\ p + (i - p) = i
      BY <1>1, <1>2, <1>3, <1>4, <2>2
    <3> HIDE DEF g
    <3> QED BY <1>2, <3>1
  <2>3. CASE q < i
    <3>1. g[i] = Y[i - q] /\ i - q \in 1..Len(f) - q /\ q + (i - q) = i
      BY <1>1, <1>2, <1>3, <1>4, <2>3
    <3> HIDE DEF g
    <3> QED BY <1>3, <3>1
  <2>4. i <= p \/ (p < i /\ i <= q) \/ q < i
    BY <1>4
  <2> QED BY <2>1, <2>2, <2>3, <2>4
<1>7. g = f
  <2> HIDE DEF g
  <2> QED BY <1>5, <1>6, SeqEqual
<1> QED BY <1>7 DEF X, Y, Z

LEMMA RunParts ==
  ASSUME NEW f \in Seq(Field), NEW p \in Nat, NEW n \in Nat \ {0}, ZeroRun(f, p, n)
  PROVE  LET X == SubSeq(f, 1, p)
             Y == SubSeq(f, p + n + 1, Len(f))
         IN /\ X \in Seq(Field) /\ Y \in Seq(Field) /\ f = X \o Zeros(n) \o Y
            /\ Len(X) = p /\ Len(Y) = Len(f) - p - n /\ p + n <= Len(f)
<1> DEFINE X == SubSeq(f, 1, p)
           Z == SubSeq(f, p + 1, p + n)
           Y == SubSeq(f, p + n + 1, Len(f))
<1>1. p + n <= Len(f) /\ p + n \in Nat /\ p <= p + n /\ \A i \in p+1..p+n : f[i] = 0
  BY DEF ZeroRun
<1>2. f = X \o Z \o Y
  BY <1>1, ThreeParts
<1>3. Z = Zeros(n)
  <2>1. Z \in Seq(Field) /\ Len(Z) = n /\ \A i \in 1..n : Z[i] = f[p + i]
    BY <1>1
  <2>2. \A i \in 1..n : p + i \in p+1..p+n
    OBVIOUS
  <2> HIDE DEF Z
  <2>3. \A i \in 1..n : Z[i] = 0
    BY <1>1, <2>1, <2>2
  <2>4. Z = [i \in 1..n |-> Z[i]]
    BY <2>1
  <2> QED BY <2>3, <2>4 DEF Zeros
<1>4. X \in Seq(Field) /\ Y \in Seq(Field) /\ Len(X) = p /\ Len(Y) = Len(f) - p - n
  BY <1>1
<1> HIDE DEF X, Y, Z
<1> QED BY <1>1, <1>2, <1>3, <1>4 DEF X, Y

LEMMA SubSeqConcat ==
  ASSUME NEW S, NEW f \in Seq(S), NEW t \in Seq(S), NEW q \in Nat, q <= Len(f)
  PROVE  /\ SubSeq(f \o t, 1, q) = SubSeq(f, 1, q)
         /\ SubSeq(f \o t, q + 1, Len(f) + Len(t)) = SubSeq(f, q + 1, Len(f)) \o t
<1> DEFINE a == f \o t
           Y == SubSeq(f, q + 1, Len(f))
           g == SubSeq(a, q + 1, Len(f) + Len(t))
           h == Y \o t
<1>1. Len(f) \in Nat /\ Len(t) \in Nat
  OBVIOUS
<1>2. a \in Seq(S) /\ Len(a) = Len(f) + Len(t) /\ \A i \in 1..Len(f) : a[i] = f[i]
  OBVIOUS
<1>3. \A i \in Len(f) + 1..Len(f) + Len(t) : a[i] = t[i - Len(f)]
  OBVIOUS
<1>4. SubSeq(a, 1, q) = SubSeq(f, 1, q)
  <2> DEFINE b == SubSeq(a, 1, q)
             c == SubSeq(f, 1, q)
  <2>1. c \in Seq(S) /\ Len(c) = q /\ \A i \in 1..q : c[i] = f[i]
    OBVIOUS
  <2> HIDE DEF a, c
  <2>2. b \in Seq(S) /\ Len(b) = q /\ \A i \in 1..q : b[i] = a[i]
    BY <1>1, <1>2
  <2> HIDE DEF b
  <2>3. \A i \in 1..q : b[i] = c[i]
    BY <1>1, <1>2, <2>1, <2>2
  <2>4. b = c
    BY <2>1, <2>2, <2>3, SeqEqual
  <2> QED BY <2>4 DEF b, c
<1>5. Y \in Seq(S) /\ Len(Y) = Len(f) - q /\ \A i \in 1..Len(f) - q : Y[i] = f[q + i]
  OBVIOUS
<1> HIDE DEF a, Y
<1>6. g \in Seq(S) /\ Len(g) = Len(f) + Len(t) - q /\ \A i \in 1..Len(f) + Len(t) - q : g[i] = a[q + i]
  BY <1>1, <1>2
<1>7. h \in Seq(S) /\ Len(h) = Len(f) - q + Len(t)
  <2>1. Y \in Seq(S)
    BY <1>5
  <2>2. h \in Seq(S) /\ Len(h) = Len(Y) + Len(t)
    BY <2>1
  <2> HIDE DEF h
  <2> QED BY <1>5, <2>2
<1>8. ASSUME NEW i \in 1..Len(f) + Len(t) - q PROVE g[i] = h[i]
  <2>0. g[i] = a[q + i]
    BY <1>6
  <2>1. CASE i <= Len(f) - q
    <3>1. h[i] = Y[i] /\ i \in 1..Len(f) - q /\ q + i \in 1..Len(f)
      BY <1>1, <1>5, <2>1
    <3> HIDE DEF g, h
    <3> QED BY <1>2, <1>5, <2>0, <3>1
  <2>2. CASE ~(i <= Len(f) - q)
    <3>1. h[i] = t[i - (Len(f) - q)]
      BY <1>1, <1>5, <2>2
    <3>2. q + i \in Len(f) + 1..Len(f) + Len(t) /\ (q + i) - Len(f) = i - (Len(f) - q)
      BY <1>1, <2>2
    <3> HIDE DEF g, h
    <3> QED BY <1>3, <2>0, <3>1, <3>2
  <2> QED BY <2>1, <2>2
<1>9. g = h
  <2> HIDE DEF g, h
  <2>1. Len(f) - q + Len(t) = Len(f) + Len(t) - q
    BY <1>1
  <2>2. Len(g) = Len(h) /\ \A i \in 1..Len(g) : g[i] = h[i]
    BY <1>6, <1>7, <1>8, <2>1
  <2> QED BY <1>6, <1>7, <2>2, SeqEqual
<1> QED BY <1>4, <1>9 DEF a, Y

LEMMA ShortenedForm ==
  ASSUME NEW f \in Seq(Field), NEW t \in Tails, NEW p \in Nat, NEW n \in Nat \ {0}, p + n <= Len(f)
  PROVE  Shortened(f \o t, p, n) = Form(SubSeq(f, 1, p), SubSeq(f, p + n + 1, Len(f)), t)
<1> DEFINE a == f \o t
           X == SubSeq(f, 1, p)
           Y == SubSeq(f, p + n + 1, Len(f))
           R == Y \o t
<1>1. PICK S : S = Int
  OBVIOUS
<1>2. f \in Seq(S) /\ t \in Seq(S) /\ Len(f) \in Nat /\ Len(t) \in Nat
  BY <1>1, FieldsUnbroken, TailFact
<1>3. p <= Len(f) /\ p + n \in Nat
  BY <1>2
<1>4. Len(a) = Len(f) + Len(t) /\ a \in Seq(S)
  BY <1>2
<1>5. SubSeq(a, 1, p) = X
  BY <1>2, <1>3, SubSeqConcat
<1>6. SubSeq(a, p + n + 1, Len(a)) = R
  <2>1. SubSeq(f \o t, p + n + 1, Len(f) + Len(t)) = SubSeq(f, p + n + 1, Len(f)) \o t
    BY <1>2, <1>3, SubSeqConcat
  <2> QED BY <1>4, <2>1
<1>7. X \in Seq(S) /\ Len(X) = p
  BY <1>2, <1>3
<1>8. Y \in Seq(S) /\ Len(Y) = Len(f) - (p + n)
  BY <1>2, <1>3
<1>9. R \in Seq(S) /\ Len(R) = Len(f) - (p + n) + Len(t)
  <2> HIDE DEF Y
  <2> QED BY <1>2, <1>8, SMTT(20)
<1> HIDE DEF a, X, Y, R
<1>10. p = 0 <=> X = <<>>
  BY <1>7
<1>11. p + n = Len(a) <=> R = <<>>
  <2>1. R = <<>> <=> Len(R) = 0
    BY <1>9
  <2>2. p + n = Len(f) + Len(t) <=> Len(f) - (p + n) + Len(t) = 0
    BY <1>2
  <2> QED BY <1>4, <1>9, <2>1, <2>2
<1>12. Shortened(a, p, n) = (IF X = <<>> THEN <<Blank>> ELSE X) \o <<Blank>> \o (IF R = <<>> THEN <<Blank>> ELSE R)
  BY <1>5, <1>6, <1>10, <1>11 DEF Shortened
<1> QED BY <1>12 DEF Form, a, X, Y, R

\* Every spelling is written out, or leaves out zeros in one place.
Cut(f, t, tok) ==
    \E X \in Seq(Field), Y \in Seq(Field), n \in Nat \ {0} :
        f = X \o Zeros(n) \o Y /\ Len(X) + n + Len(Y) = Full(t) /\ tok = Form(X, Y, t)

LEMMA SpellingIs ==
  ASSUME NEW f \in Seq(Field), NEW t \in Tails, Len(f) = Full(t), NEW tok \in Spellings(f \o t)
  PROVE  tok = f \o t \/ Cut(f, t, tok)
<1> DEFINE a == f \o t
<1>1. SUFFICES ASSUME tok # a
               PROVE  Cut(f, t, tok)
  OBVIOUS
<1>2. PICK r \in (0..7) \X (1..8) : ZeroRun(a, r[1], r[2]) /\ tok = Shortened(a, r[1], r[2])
  <2> HIDE DEF a
  <2>1. tok \in Spellings(a)
    BY DEF a
  <2> QED BY <1>1, <2>1 DEF Spellings
<1> DEFINE p == r[1]
           n == r[2]
           X == SubSeq(f, 1, p)
           Y == SubSeq(f, p + n + 1, Len(f))
<1>3. p \in Nat /\ n \in Nat \ {0}
  OBVIOUS
<1> HIDE DEF p, n
<1>4. ZeroRun(f, p, n)
  BY <1>2, <1>3, RunAround DEF p, n
<1>5. /\ X \in Seq(Field) /\ Y \in Seq(Field) /\ f = X \o Zeros(n) \o Y
      /\ Len(X) = p /\ Len(Y) = Len(f) - p - n /\ p + n <= Len(f)
  BY <1>3, <1>4, RunParts
<1>6. tok = Form(X, Y, t)
  BY <1>2, <1>3, <1>5, ShortenedForm DEF p, n
<1>7. Len(X) + n + Len(Y) = Full(t)
  <2>1. Len(f) \in Nat
    OBVIOUS
  <2> QED BY <1>3, <1>5, <2>1
<1> HIDE DEF X, Y
<1> QED BY <1>3, <1>5, <1>6, <1>7 DEF Cut

\* And leaving out zeros gives a spelling.
LEMMA FormIsSpelling ==
  ASSUME NEW X \in Seq(Field), NEW Y \in Seq(Field), NEW t \in Tails, NEW n \in Nat \ {0},
         Len(X) + n + Len(Y) = Full(t)
  PROVE  Form(X, Y, t) \in Spellings(X \o Zeros(n) \o Y \o t)
<1> DEFINE z == Zeros(n)
           f == X \o z \o Y
           a == f \o t
           p == Len(X)
<1>1. z \in Seq(Field) /\ Len(z) = n /\ \A i \in 1..n : z[i] = 0
  BY FieldFact DEF Zeros
<1>2. p \in Nat /\ Len(Y) \in Nat
  OBVIOUS
<1> HIDE DEF z
<1>3. f \in Seq(Field) /\ Len(f) = p + n + Len(Y)
  BY <1>1, <1>2
<1>4. SubSeq(f, 1, p) = X
  BY <1>1, <1>2
<1>5. SubSeq(f, p + n + 1, Len(f)) = Y
  BY <1>1, <1>2
<1>6. \A i \in p+1..p+n : f[i] = 0
  <2> TAKE i \in p+1..p+n
  <2>1. f[i] = z[i - p]
    BY <1>1, <1>2
  <2>2. i - p \in 1..n
    BY <1>2
  <2> HIDE DEF f
  <2> QED BY <1>1, <2>1, <2>2
<1> HIDE DEF f
<1>7. ZeroRun(f, p, n)
  <2>1. p + n <= Len(f)
    BY <1>2, <1>3
  <2> QED BY <1>6, <2>1 DEF ZeroRun
<1>8. ZeroRun(a, p, n)
  BY <1>2, <1>3, <1>7, RunAround
<1>9. Shortened(a, p, n) = Form(X, Y, t)
  <2>1. p + n <= Len(f)
    BY <1>2, <1>3
  <2>2. Shortened(f \o t, p, n) = Form(SubSeq(f, 1, p), SubSeq(f, p + n + 1, Len(f)), t)
    <3> HIDE DEF p
    <3> QED BY <1>2, <1>3, <2>1, ShortenedForm
  <2> QED BY <1>4, <1>5, <2>2
<1>10. <<p, n>> \in (0..7) \X (1..8)
  <2>1. Full(t) <= 8 /\ Full(t) \in Nat
    BY FullLen
  <2>2. p + n <= 8
    BY <1>2, <2>1
  <2> QED BY <1>2, <2>2
<1> HIDE DEF a, p
<1>11. Form(X, Y, t) \in Spellings(a)
  <2>1. <<p, n>>[1] = p /\ <<p, n>>[2] = n
    OBVIOUS
  <2> QED BY <1>8, <1>9, <1>10, <2>1 DEF Spellings
<1> QED BY <1>11 DEF a, f, z

----------------------------------------------------------------------------
(* The longest run of zeros. *)

LEMMA LeastNumber ==
  ASSUME NEW T, T \subseteq Nat, T # {}
  PROVE  \E x \in T : \A y \in T : x <= y
<1> DEFINE R == OpToRel(<, Nat)
<1>1. IsWellFoundedOn(R, Nat)
  BY NatLessThanWellFounded
<1>2. PICK x \in T : \A y \in T : ~(<<y, x>> \in R)
  <2> HIDE DEF R
  <2> QED BY <1>1, WFMin
<1>3. \A y \in T : y < x => <<y, x>> \in R
  BY DEF OpToRel
<1>4. \A y \in T : x <= y
  <2> TAKE y \in T
  <2>1. x \in Nat /\ y \in Nat /\ ~(y < x)
    BY <1>2, <1>3
  <2> QED BY <2>1
<1> QED BY <1>4

LEMMA MinIs ==
  ASSUME NEW T, T \subseteq Nat, T # {}
  PROVE  Min(T) \in T /\ \A y \in T : Min(T) <= y
<1>1. \E x \in T : \A y \in T : x <= y
  BY LeastNumber
<1> QED BY <1>1 DEF Min

LEMMA MaxIs ==
  ASSUME NEW T, T \subseteq Nat, T # {}, NEW b \in Nat, \A y \in T : y <= b
  PROVE  Max(T) \in T /\ \A y \in T : y <= Max(T)
<1> DEFINE U == {u \in Nat : \A y \in T : y <= u}
<1>1. b \in U
  OBVIOUS
<1>2. PICK x \in U : \A u \in U : x <= u
  <2> HIDE DEF U
  <2>1. U \subseteq Nat
    BY DEF U
  <2> QED BY <1>1, <2>1, LeastNumber
<1>3. x \in T
  <2> SUFFICES ASSUME x \notin T PROVE FALSE
    OBVIOUS
  <2>1. \A y \in T : y <= x /\ y # x /\ y \in Nat
    OBVIOUS
  <2>0. x \in Nat
    OBVIOUS
  <2>2. \A y \in T : y <= x - 1
    BY <2>0, <2>1
  <2>3. x # 0
    <3>1. PICK y \in T : TRUE
      OBVIOUS
    <3>2. y \in Nat /\ y <= x /\ y # x
      BY <2>1
    <3> QED BY <2>0, <3>2
  <2>4. x - 1 \in U
    BY <2>0, <2>2, <2>3
  <2> QED BY <1>2, <2>0, <2>4
<1>4. \A y \in T : x >= y
  OBVIOUS
<1>5. Max(T) \in T /\ \A y \in T : Max(T) >= y
  BY <1>3, <1>4 DEF Max
<1> QED BY <1>5

LEMMA LongestIs ==
  ASSUME NEW f \in Seq(Field)
  PROVE  LET p == Longest(f)[1]
             n == Longest(f)[2]
         IN /\ n \in Nat /\ p \in Nat
            /\ \/ n < 2 /\ p = Len(f) /\ \A q, m \in Nat : m >= 2 => ~ZeroRun(f, q, m)
               \/ /\ n >= 2 /\ ZeroRun(f, p, n)
                  /\ \A q \in Nat, m \in Nat \ {0} : ZeroRun(f, q, m) => m <= n /\ (m = n => p <= q)
<1> DEFINE L == Len(f)
           S == {m \in 1..L : \E p \in 0..L : ZeroRun(f, p, m)}
           T == {0} \cup S
           n == Max(T)
           Q == {p \in 0..L : ZeroRun(f, p, n)}
<1>1. L \in Nat
  OBVIOUS
<1>2. ASSUME NEW q \in Nat, NEW m \in Nat \ {0}, ZeroRun(f, q, m) PROVE q \in 0..L /\ m \in S
  <2>1. q + m <= L
    BY <1>2 DEF ZeroRun
  <2> HIDE DEF L
  <2>2. q \in 0..L /\ m \in 1..L
    BY <1>1, <2>1
  <2> QED BY <1>2, <2>2
<1> HIDE DEF L
<1>3. n \in T /\ \A y \in T : y <= n
  <2>1. T \subseteq Nat /\ T # {} /\ \A y \in T : y <= L
    BY <1>1
  <2> HIDE DEF T
  <2> QED BY <1>1, <2>1, MaxIs
<1>4. n \in Nat /\ (n = 0 \/ n \in S)
  <2> HIDE DEF n
  <2> QED BY <1>1, <1>3
<1>5. \A q \in Nat, m \in Nat \ {0} : ZeroRun(f, q, m) => m <= n
  <2> HIDE DEF n
  <2> QED BY <1>2, <1>3
<1>6. Longest(f) = IF n < 2 THEN <<L, n>> ELSE <<Min(Q), n>>
  BY DEF Longest, L
<1> HIDE DEF n
<1>7. CASE n < 2
  <2>1. Longest(f)[1] = L /\ Longest(f)[2] = n
    BY <1>6, <1>7
  <2>2. \A q, m \in Nat : m >= 2 => ~ZeroRun(f, q, m)
    <3> SUFFICES ASSUME NEW q \in Nat, NEW m \in Nat, m >= 2, ZeroRun(f, q, m) PROVE FALSE
      OBVIOUS
    <3>1. m \in Nat \ {0}
      OBVIOUS
    <3>2. m <= n
      BY <1>5, <3>1
    <3> QED BY <1>4, <1>7, <3>2
  <2> QED BY <1>1, <1>4, <1>7, <2>1, <2>2 DEF L
<1>8. CASE ~(n < 2)
  <2>0. n >= 2
    BY <1>4, <1>8
  <2>1. Q # {} /\ Q \subseteq Nat
    <3>1. n \in S
      BY <1>4, <2>0
    <3> QED BY <1>1, <3>1
  <2>2. Min(Q) \in Q /\ \A y \in Q : Min(Q) <= y
    <3> HIDE DEF Q
    <3> QED BY <2>1, MinIs
  <2> DEFINE p == Min(Q)
  <2>3. Longest(f)[1] = p /\ Longest(f)[2] = n
    BY <1>6, <1>8
  <2> HIDE DEF p
  <2>4. p \in Nat /\ ZeroRun(f, p, n)
    BY <2>1, <2>2 DEF p
  <2>5. \A q \in Nat : ZeroRun(f, q, n) => p <= q
    <3> TAKE q \in Nat
    <3> HAVE ZeroRun(f, q, n)
    <3>1. n \in Nat \ {0}
      BY <1>4, <2>0
    <3>2. q \in Q
      BY <1>2, <3>1
    <3> QED BY <2>2, <3>2 DEF p
  <2>6. \A q \in Nat, m \in Nat \ {0} : ZeroRun(f, q, m) => m <= n /\ (m = n => p <= q)
    BY <1>5, <2>5
  <2> QED BY <1>4, <2>0, <2>3, <2>4, <2>6
<1> QED BY <1>7, <1>8

\* The recommended spelling leaves out what Longest finds.
LEMMA RecommendedIs ==
  ASSUME NEW f \in Seq(Field), NEW t \in Tails, Len(f) = Full(t)
  PROVE  LET a == f \o t
             p == Longest(f)[1]
             n == Longest(f)[2]
         IN Recommended(a) = IF n < 2 THEN a ELSE Shortened(a, p, n)
<1> DEFINE a == f \o t
           p == Longest(f)[1]
           n == Longest(f)[2]
           runs == {s \in (0..7) \X (2..8) : ZeroRun(a, s[1], s[2])}
           longest == {r \in runs : \A s \in runs : s[2] <= r[2]}
           first == CHOOSE s \in longest : \A q \in longest : s[1] <= q[1]
<1>1. /\ n \in Nat /\ p \in Nat
      /\ \/ n < 2 /\ p = Len(f) /\ \A q, m \in Nat : m >= 2 => ~ZeroRun(f, q, m)
         \/ /\ n >= 2 /\ ZeroRun(f, p, n)
            /\ \A q \in Nat, m \in Nat \ {0} : ZeroRun(f, q, m) => m <= n /\ (m = n => p <= q)
  BY LongestIs
<1>2. Recommended(a) = IF runs = {} THEN a ELSE Shortened(a, first[1], first[2])
  BY DEF Recommended
<1> HIDE DEF p, n
<1>3. \A q \in Nat, m \in Nat \ {0} : ZeroRun(a, q, m) <=> ZeroRun(f, q, m)
  BY RunAround
<1> HIDE DEF a
<1>4. \A s \in runs : /\ s[1] \in Nat /\ s[2] \in Nat \ {0} /\ s[2] >= 2 /\ s = <<s[1], s[2]>>
                      /\ ZeroRun(f, s[1], s[2])
  BY <1>3
<1>5. CASE n < 2
  <2>1. runs = {}
    <3> HIDE DEF runs
    <3> QED BY <1>1, <1>4, <1>5
  <2> QED BY <1>2, <1>5, <2>1 DEF a, p, n
<1>6. CASE n >= 2
  <2>0. ~(n < 2)
    BY <1>1, <1>6
  <2>1. ZeroRun(f, p, n) /\ \A q \in Nat, m \in Nat \ {0} : ZeroRun(f, q, m) => m <= n /\ (m = n => p <= q)
    BY <1>1, <2>0
  <2>2. <<p, n>> \in runs
    <3>1. p + n <= 8
      <4>1. p + n <= Len(f)
        BY <2>1 DEF ZeroRun
      <4>2. Full(t) \in {6, 8}
        BY FullLen
      <4>3. \A x \in {6, 8} : p + n <= x => p + n <= 8
        BY <1>1
      <4> QED BY <4>1, <4>2, <4>3
    <3>2. p \in 0..7 /\ n \in 2..8
      BY <1>1, <1>6, <3>1
    <3>3. ZeroRun(a, p, n)
      <4>1. n \in Nat \ {0}
        BY <1>1, <1>6
      <4> QED BY <1>1, <1>3, <2>1, <4>1
    <3>4. <<p, n>>[1] = p /\ <<p, n>>[2] = n
      OBVIOUS
    <3> QED BY <3>2, <3>3, <3>4
  <2> HIDE DEF runs
  <2>3. \A s \in runs : s[2] <= n /\ (s[2] = n => p <= s[1])
    BY <1>4, <2>1
  <2>4. <<p, n>> \in longest /\ \A q \in longest : q[2] = n
    <3>1. <<p, n>>[1] = p /\ <<p, n>>[2] = n
      OBVIOUS
    <3>2. <<p, n>> \in longest
      BY <2>2, <2>3, <3>1
    <3>3. ASSUME NEW q \in longest PROVE q[2] = n
      <4>1. q \in runs /\ n <= q[2]
        BY <2>2, <3>1
      <4>2. q[2] <= n /\ q[2] \in Nat
        BY <1>4, <2>3, <4>1
      <4> QED BY <1>1, <4>1, <4>2
    <3> QED BY <3>2, <3>3
  <2>5. \A q \in longest : q \in runs
    OBVIOUS
  <2> HIDE DEF longest
  <2>6. \A q \in longest : p <= q[1]
    BY <2>3, <2>4, <2>5
  <2>7. first \in longest /\ \A q \in longest : first[1] <= q[1]
    <3>1. <<p, n>>[1] = p
      OBVIOUS
    <3> QED BY <2>4, <2>6, <3>1
  <2> HIDE DEF first
  <2>8. first[1] = p /\ first[2] = n
    <3>1. <<p, n>>[1] = p
      OBVIOUS
    <3>2. first[1] <= p /\ p <= first[1] /\ first[1] \in Nat /\ first[2] = n
      BY <1>4, <2>4, <2>5, <2>6, <2>7, <3>1
    <3> QED BY <1>1, <3>2
  <2> QED BY <1>2, <2>0, <2>2, <2>8 DEF a, p, n
<1>7. n < 2 \/ n >= 2
  BY <1>1
<1> QED BY <1>5, <1>6, <1>7

\* And encode_IPv6 writes it, but for one colon when everything is zero.
LEMMA EncodedIs ==
  ASSUME NEW f \in Seq(Field), NEW t \in Tails, Len(f) = Full(t)
  PROVE  LET p == Longest(f)[1]
             n == Longest(f)[2]
             X == SubSeq(f, 1, p)
             Y == SubSeq(f, p + n + 1, Len(f))
         IN IF n < 2 THEN Encoded(f) = f
            ELSE Encoded(f) \o t = IF X = <<>> /\ Y \o t = <<>> THEN <<Blank, Blank>> ELSE Form(X, Y, t)
<1> DEFINE p == Longest(f)[1]
           n == Longest(f)[2]
           X == SubSeq(f, 1, p)
           Y == SubSeq(f, p + n + 1, Len(f))
<1>0. Encoded(f) = (IF p = 0 THEN <<Blank, Blank>>
                    ELSE X \o (IF p < Len(f) THEN <<Blank>> ELSE <<>>)
                           \o (IF p + n = 8 /\ n # 0 THEN <<Blank>> ELSE <<>>)) \o Y
  BY DEF Encoded
<1>1. /\ n \in Nat /\ p \in Nat
      /\ \/ n < 2 /\ p = Len(f)
         \/ n >= 2 /\ ZeroRun(f, p, n)
  BY LongestIs
<1> HIDE DEF p, n
<1>2. Len(f) \in {6, 8} /\ Len(f) \in Nat /\ Blank \in Int /\ f \in Seq(Int) /\ t \in Seq(Int)
  BY FullLen, FieldFact, FieldsUnbroken, TailFact
<1>3. CASE n < 2
  <2>1. p = Len(f) /\ p # 0 /\ ~(p < Len(f)) /\ ~(p + n = 8 /\ n # 0)
    BY <1>1, <1>2, <1>3
  <2>2. X = f /\ Y = <<>>
    <3>1. SubSeq(f, 1, Len(f)) = f
      OBVIOUS
    <3>2. SubSeq(f, Len(f) + n + 1, Len(f)) = <<>>
      BY <1>1, <1>2
    <3> QED BY <2>1, <3>1, <3>2
  <2>3. Encoded(f) = X \o <<>> \o <<>> \o Y
    BY <1>0, <2>1
  <2>4. f \o <<>> \o <<>> \o <<>> = f
    OBVIOUS
  <2> QED BY <1>3, <2>2, <2>3, <2>4 DEF p, n
<1>4. CASE n >= 2
  <2>0. ~(n < 2) /\ n # 0 /\ n \in Nat \ {0} /\ ZeroRun(f, p, n)
    BY <1>1, <1>4
  <2>1. p + n <= Len(f) /\ X \in Seq(Field) /\ Y \in Seq(Field) /\ Len(X) = p /\ Len(Y) = Len(f) - p - n
    BY <1>1, <2>0, RunParts
  <2>2. X = <<>> <=> p = 0
    <3> HIDE DEF X
    <3> QED BY <2>1
  <2>3. p < Len(f)
    BY <1>1, <1>2, <1>4, <2>1
  <2>4. p + n = 8 <=> Y \o t = <<>>
    <3>1. (t = <<>> /\ Len(t) = 0 /\ Full(t) = 8) \/ (Len(t) = 1 /\ Full(t) = 6 /\ t # <<>>)
      BY TailFact
    <3>2. Y \in Seq(Int)
      BY <2>1, FieldsUnbroken
    <3> HIDE DEF Y
    <3>3. Y \o t = <<>> <=> Y = <<>> /\ t = <<>>
      BY <1>2, <3>2, ConcatEqualIffEmpty
    <3>4. Y = <<>> <=> Len(Y) = 0
      BY <3>2
    <3>5. CASE t = <<>> /\ Len(t) = 0 /\ Full(t) = 8
      BY <1>1, <2>1, <3>3, <3>4, <3>5
    <3>6. CASE Len(t) = 1 /\ Full(t) = 6 /\ t # <<>>
      BY <1>1, <2>1, <3>3, <3>6
    <3> QED BY <3>1, <3>5, <3>6
  <2> DEFINE R == Y \o t
  <2>5. X \in Seq(Int) /\ Y \in Seq(Int) /\ R \in Seq(Int)
    <3>1. X \in Seq(Int) /\ Y \in Seq(Int)
      <4> HIDE DEF X, Y
      <4> QED BY <2>1, FieldsUnbroken
    <3> HIDE DEF X, Y
    <3>2. Y \o t \in Seq(Int)
      BY <1>2, <3>1
    <3> QED BY <3>1, <3>2
  <2>6. Form(X, Y, t) = (IF X = <<>> THEN <<Blank>> ELSE X) \o <<Blank>> \o (IF R = <<>> THEN <<Blank>> ELSE R)
    BY DEF Form
  <2> HIDE DEF X, Y
  <2>7. CASE p = 0
    <3>1. Encoded(f) \o t = <<Blank, Blank>> \o Y \o t
      BY <1>0, <2>7
    <3>0. PICK c : c = <<Blank, Blank>>
      OBVIOUS
    <3>5. c = <<Blank>> \o <<Blank>> /\ c \in Seq(Int)
      <4> DEFINE d == <<Blank>> \o <<Blank>>
      <4>1. d \in Seq(Int) /\ Len(d) = 2 /\ d[1] = Blank /\ d[2] = Blank
        BY <1>2
      <4> HIDE DEF d
      <4>2. d = <<Blank, Blank>>
        BY <4>1
      <4> QED BY <3>0, <4>1, <4>2 DEF d
    <3>6. Y \in Seq(Int) /\ t \in Seq(Int)
      BY <1>2, <2>5
    <3>7. c \o Y \o t = c \o R
      <4>1. PICK S : S = Int
        OBVIOUS
      <4>2. c \in Seq(S) /\ Y \in Seq(S) /\ t \in Seq(S)
        BY <3>5, <3>6, <4>1
      <4> QED BY <4>2
    <3>2. <<Blank, Blank>> \o Y \o t = <<Blank>> \o <<Blank>> \o R
      BY <3>0, <3>5, <3>7
    <3>3. <<Blank, Blank>> \o Y \o t = <<Blank, Blank>> \o R
      BY <3>0, <3>7
    <3>4. <<Blank, Blank>> \o <<>> = <<Blank, Blank>>
      BY <3>0, <3>5
    <3> HIDE DEF R
    <3> QED BY <2>0, <2>2, <2>6, <2>7, <3>1, <3>2, <3>3, <3>4 DEF R, X, Y, p, n
  <2>8. CASE p # 0
    <3>1. Encoded(f) = X \o <<Blank>> \o (IF R = <<>> THEN <<Blank>> ELSE <<>>) \o Y
      BY <1>0, <2>0, <2>3, <2>4, <2>8
    <3>2. Encoded(f) \o t = X \o <<Blank>> \o (IF R = <<>> THEN <<Blank>> ELSE R)
      <4>1. CASE R = <<>>
        <5>1. Y = <<>> /\ t = <<>>
          BY <1>2, <2>5, <4>1, ConcatEqualIffEmpty
        <5>2. X \o <<Blank>> \o <<Blank>> \o <<>> \o <<>> = X \o <<Blank>> \o <<Blank>>
          BY <1>2, <2>5
        <5> QED BY <3>1, <4>1, <5>1, <5>2
      <4>2. CASE R # <<>>
        <5>1. X \o <<Blank>> \o <<>> \o Y \o t = X \o <<Blank>> \o R
          <6>1. X \o <<Blank>> \o <<>> = X \o <<Blank>>
            BY <1>2, <2>5
          <6>0. X \in Seq(Int) /\ Y \in Seq(Int) /\ t \in Seq(Int) /\ Blank \in Int
            BY <1>2, <2>5
          <6>2. X \o <<Blank>> \o (Y \o t) = (X \o <<Blank>> \o Y) \o t
            <7> HIDE DEF R
            <7> QED BY CutTokens
          <6> QED BY <6>1, <6>2
        <5> QED BY <3>1, <4>2, <5>1
      <4> QED BY <4>1, <4>2
    <3> HIDE DEF R
    <3> QED BY <2>0, <2>2, <2>6, <2>8, <3>2 DEF R, X, Y, p, n
  <2> QED BY <2>7, <2>8
<1>5. n < 2 \/ n >= 2
  BY <1>1
<1> QED BY <1>3, <1>4, <1>5

----------------------------------------------------------------------------
(* What normalize_IPv6 makes of a spelling. *)

Colons == <<Blank, Blank, Blank>>

LEMMA ColonsForm ==
  ASSUME NEW X \in Seq(Field), NEW Y \in Seq(Field), NEW t \in Tails, X = <<>>, Y \o t = <<>>
  PROVE  Form(X, Y, t) = Colons /\ NormalizeIpv6(Colons) = Colons /\ Y = <<>> /\ t = <<>>
<1>1. Form(X, Y, t) = Colons
  <2>1. Form(X, Y, t) = <<Blank, Blank, Blank>> <=> X = <<>> /\ Y \o t = <<>>
    BY FormFact
  <2> QED BY <2>1 DEF Colons
<1>2. NormalizeIpv6(Colons) = Colons
  BY DEF NormalizeIpv6, Colons
<1>3. Y = <<>> /\ t = <<>>
  <2>1. Y \in Seq(Int) /\ t \in Seq(Int)
    BY FieldsUnbroken, TailFact
  <2> QED BY <2>1, ConcatEqualIffEmpty
<1> QED BY <1>1, <1>2, <1>3

\* The longest run of an address is recommended, and all of it is encoded.
LEMMA LongestForm ==
  ASSUME NEW f \in Seq(Field), NEW t \in Tails, Len(f) = Full(t)
  PROVE  \/ Encoded(f) = f /\ Recommended(f \o t) = f \o t
         \/ \E X \in Seq(Field), Y \in Seq(Field), n \in Nat \ {0} :
              /\ f = X \o Zeros(n) \o Y /\ Len(X) + n + Len(Y) = Full(t)
              /\ Recommended(f \o t) = Form(X, Y, t)
              /\ Encoded(f) \o t = IF X = <<>> /\ Y \o t = <<>> THEN <<Blank, Blank>> ELSE Form(X, Y, t)
<1> DEFINE p == Longest(f)[1]
           n == Longest(f)[2]
           X == SubSeq(f, 1, p)
           Y == SubSeq(f, p + n + 1, Len(f))
<1>1. n \in Nat /\ p \in Nat /\ (n < 2 \/ (n >= 2 /\ ZeroRun(f, p, n)))
  BY LongestIs
<1>2. Recommended(f \o t) = IF n < 2 THEN f \o t ELSE Shortened(f \o t, p, n)
  BY RecommendedIs
<1>3. IF n < 2 THEN Encoded(f) = f
      ELSE Encoded(f) \o t = IF X = <<>> /\ Y \o t = <<>> THEN <<Blank, Blank>> ELSE Form(X, Y, t)
  BY EncodedIs
<1> HIDE DEF p, n
<1>4. CASE n < 2
  BY <1>2, <1>3, <1>4
<1>5. CASE n >= 2 /\ ZeroRun(f, p, n)
  <2>1. ~(n < 2) /\ n \in Nat \ {0}
    BY <1>1, <1>5
  <2>2. /\ X \in Seq(Field) /\ Y \in Seq(Field) /\ f = X \o Zeros(n) \o Y
        /\ Len(X) = p /\ Len(Y) = Len(f) - p - n /\ p + n <= Len(f)
    BY <1>1, <1>5, <2>1, RunParts
  <2>3. Shortened(f \o t, p, n) = Form(X, Y, t)
    BY <1>1, <2>1, <2>2, ShortenedForm
  <2>4. Len(X) + n + Len(Y) = Full(t)
    <3>1. Len(f) \in Nat
      OBVIOUS
    <3> QED BY <1>1, <2>2, <3>1
  <2> HIDE DEF X, Y
  <2> QED BY <1>2, <1>3, <2>1, <2>2, <2>3, <2>4
<1> QED BY <1>1, <1>4, <1>5

LEMMA AllZero ==
  ASSUME NEW f \in Seq(Field), Len(f) = 8, \A i \in 1..8 : f[i] = 0
  PROVE  Recommended(f \o <<>>) = Colons
<1> DEFINE p == Longest(f)[1]
           n == Longest(f)[2]
           X == SubSeq(f, 1, p)
           Y == SubSeq(f, p + n + 1, Len(f))
<1>0. <<>> \in Tails /\ Full(<<>>) = 8
  BY DEF Tails, Full
<1>1. /\ n \in Nat /\ p \in Nat
      /\ \/ n < 2 /\ p = Len(f) /\ \A q, m \in Nat : m >= 2 => ~ZeroRun(f, q, m)
         \/ /\ n >= 2 /\ ZeroRun(f, p, n)
            /\ \A q \in Nat, m \in Nat \ {0} : ZeroRun(f, q, m) => m <= n /\ (m = n => p <= q)
  BY LongestIs
<1>2. Recommended(f \o <<>>) = IF n < 2 THEN f \o <<>> ELSE Shortened(f \o <<>>, p, n)
  BY <1>0, RecommendedIs
<1> HIDE DEF p, n
<1>3. ZeroRun(f, 0, 8)
  BY DEF ZeroRun
<1>4. ~(n < 2) /\ ZeroRun(f, p, n) /\ 8 <= n /\ (8 = n => p <= 0)
  BY <1>1, <1>3
<1>5. p = 0 /\ n = 8
  <2>1. p + n <= 8
    BY <1>4 DEF ZeroRun
  <2> QED BY <1>1, <1>4, <2>1
<1>6. X = <<>> /\ Y = <<>>
  BY <1>5
<1>7. Shortened(f \o <<>>, p, n) = Form(X, Y, <<>>)
  <2>1. n \in Nat \ {0} /\ p + n <= Len(f)
    BY <1>5
  <2> QED BY <1>0, <1>1, <2>1, ShortenedForm
<1>8. Form(<<>>, <<>>, <<>>) = Colons
  <2>1. <<>> \in Seq(Field) /\ <<>> \o <<>> = <<>>
    OBVIOUS
  <2> QED BY <1>0, <2>1, ColonsForm
<1> HIDE DEF X, Y
<1> QED BY <1>2, <1>4, <1>6, <1>7, <1>8

\* However an address is spelled, it is rewritten to the recommended spelling,
\* unless nothing is left of it but one colon.
LEMMA NormalizeSpelling ==
  ASSUME NEW a \in Address(Field), NEW tok \in Spellings(a), ~SpoiltZero(tok)
  PROVE  NormalizeIpv6(tok) = Recommended(a)
<1>1. PICK f \in Seq(Field), t \in Tails : Len(f) = Full(t) /\ a = f \o t
  BY AddressForm
<1>2. ASSUME NormalizeIpv6(tok) = Encoded(f) \o t PROVE NormalizeIpv6(tok) = Recommended(a)
  <2>1. Encoded(f) \o t # <<Blank, Blank>>
    BY <1>2 DEF SpoiltZero
  <2>2. \/ Encoded(f) = f /\ Recommended(f \o t) = f \o t
        \/ \E X \in Seq(Field), Y \in Seq(Field), n \in Nat \ {0} :
             /\ f = X \o Zeros(n) \o Y /\ Len(X) + n + Len(Y) = Full(t)
             /\ Recommended(f \o t) = Form(X, Y, t)
             /\ Encoded(f) \o t = IF X = <<>> /\ Y \o t = <<>> THEN <<Blank, Blank>> ELSE Form(X, Y, t)
    BY <1>1, LongestForm
  <2>3. Recommended(f \o t) = Encoded(f) \o t
    <3>1. CASE Encoded(f) = f /\ Recommended(f \o t) = f \o t
      BY <3>1
    <3>2. ASSUME NEW X, NEW Y, Recommended(f \o t) = Form(X, Y, t),
                 Encoded(f) \o t = IF X = <<>> /\ Y \o t = <<>> THEN <<Blank, Blank>> ELSE Form(X, Y, t)
          PROVE  Recommended(f \o t) = Encoded(f) \o t
      BY <2>1, <3>2
    <3> QED BY <2>2, <3>1, <3>2
  <2> QED BY <1>1, <1>2, <2>3
<1>3. CASE tok = f \o t
  BY <1>1, <1>2, <1>3, NormalFull
<1>4. ASSUME NEW X \in Seq(Field), NEW Y \in Seq(Field), NEW n \in Nat \ {0},
             f = X \o Zeros(n) \o Y, Len(X) + n + Len(Y) = Full(t), tok = Form(X, Y, t)
      PROVE  NormalizeIpv6(tok) = Recommended(a)
  <2>1. CASE ~(X = <<>> /\ Y \o t = <<>>)
    <3>1. NormalizeIpv6(Form(X, Y, t)) = Encoded(X \o Zeros(n) \o Y) \o t
      BY <1>4, <2>1, NormalForm
    <3> QED BY <1>2, <1>4, <3>1
  <2>2. CASE X = <<>> /\ Y \o t = <<>>
    <3>1. tok = Colons /\ NormalizeIpv6(tok) = Colons /\ Y = <<>> /\ t = <<>>
      BY <1>4, <2>2, ColonsForm
    <3>2. n = 8 /\ f = Zeros(n)
      <4>1. Full(t) = 8 /\ Len(X) = 0 /\ Len(Y) = 0
        BY <2>2, <3>1 DEF Full
      <4>2. Zeros(n) \in Seq(Field)
        BY FieldFact DEF Zeros
      <4>3. <<>> \o Zeros(n) \o <<>> = Zeros(n)
        BY <4>2
      <4> QED BY <1>4, <2>2, <3>1, <4>1, <4>3
    <3>3. Len(f) = 8 /\ \A i \in 1..8 : f[i] = 0
      BY <3>2 DEF Zeros
    <3>4. Recommended(f \o <<>>) = Colons
      BY <3>3, AllZero
    <3> QED BY <1>1, <3>1, <3>4
  <2> QED BY <2>1, <2>2
<1>5. tok = f \o t \/ Cut(f, t, tok)
  <2>1. tok \in Spellings(f \o t) /\ Len(f) = Full(t)
    BY <1>1
  <2> QED BY <2>1, SpellingIs
<1>6. CASE Cut(f, t, tok)
  <2>1. PICK X \in Seq(Field), Y \in Seq(Field), n \in Nat \ {0} :
             f = X \o Zeros(n) \o Y /\ Len(X) + n + Len(Y) = Full(t) /\ tok = Form(X, Y, t)
    BY <1>6 DEF Cut
  <2> QED BY <2>1, <1>4
<1> QED BY <1>3, <1>5, <1>6

\* The recommended spelling is one, and it stays as it is.
LEMMA RecommendedStays ==
  ASSUME NEW a \in Address(Field)
  PROVE  Recommended(a) \in Spellings(a) /\ NormalizeIpv6(Recommended(a)) = Recommended(a)
<1>1. PICK f \in Seq(Field), t \in Tails : Len(f) = Full(t) /\ a = f \o t
  BY AddressForm
<1>2. CASE Encoded(f) = f /\ Recommended(f \o t) = f \o t
  <2>1. a \in Spellings(a)
    BY DEF Spellings
  <2> QED BY <1>1, <1>2, <2>1, NormalFull
<1>3. ASSUME NEW X \in Seq(Field), NEW Y \in Seq(Field), NEW n \in Nat \ {0},
             f = X \o Zeros(n) \o Y, Len(X) + n + Len(Y) = Full(t), Recommended(f \o t) = Form(X, Y, t),
             Encoded(f) \o t = IF X = <<>> /\ Y \o t = <<>> THEN <<Blank, Blank>> ELSE Form(X, Y, t)
      PROVE  Recommended(a) \in Spellings(a) /\ NormalizeIpv6(Recommended(a)) = Recommended(a)
  <2>1. Form(X, Y, t) \in Spellings(X \o Zeros(n) \o Y \o t)
    BY <1>3, FormIsSpelling
  <2>2. CASE ~(X = <<>> /\ Y \o t = <<>>)
    <3>1. NormalizeIpv6(Form(X, Y, t)) = Encoded(X \o Zeros(n) \o Y) \o t
      <4>1. Len(X) + n + Len(Y) = Full(t)
        BY <1>3
      <4>2. ~(X = <<>> /\ Y \o t = <<>>)
        BY <2>2
      <4> HIDE <1>3
      <4> QED BY <4>1, <4>2, NormalForm, Zenon
    <3> QED BY <1>1, <1>3, <2>1, <2>2, <3>1
  <2>3. CASE X = <<>> /\ Y \o t = <<>>
    <3>1. Form(X, Y, t) = Colons /\ NormalizeIpv6(Colons) = Colons
      BY <2>3, ColonsForm
    <3> QED BY <1>1, <1>3, <2>1, <3>1
  <2> QED BY <2>2, <2>3
<1>4. \/ Encoded(f) = f /\ Recommended(f \o t) = f \o t
      \/ \E X \in Seq(Field), Y \in Seq(Field), n \in Nat \ {0} :
           /\ f = X \o Zeros(n) \o Y /\ Len(X) + n + Len(Y) = Full(t)
           /\ Recommended(f \o t) = Form(X, Y, t)
           /\ Encoded(f) \o t = IF X = <<>> /\ Y \o t = <<>> THEN <<Blank, Blank>> ELSE Form(X, Y, t)
  BY <1>1, LongestForm
<1> QED BY <1>2, <1>3, <1>4

----------------------------------------------------------------------------
(* What is_valid_ipv6 accepts. *)

LEMMA SpelledIs == ASSUME NEW tok PROVE tok \in Spelled <=> \E a \in Address(Field) : tok \in Spellings(a)
<1>1. DOMAIN SpellingsOf = Address(Field) /\ \A a \in Address(Field) : SpellingsOf[a] = Spellings(a)
  BY DEF SpellingsOf
<1> QED BY <1>1 DEF Spelled, Range

\* Element by element.
LEMMA Around ==
  ASSUME NEW S, NEW P \in Seq(S), NEW x \in S, NEW Q \in Seq(S)
  PROVE  LET c == P \o <<x>> \o Q IN
         /\ c \in Seq(S) /\ Len(c) = Len(P) + 1 + Len(Q)
         /\ \A i \in 1..Len(P) : c[i] = P[i]
         /\ c[Len(P) + 1] = x
         /\ \A i \in 1..Len(Q) : c[Len(P) + 1 + i] = Q[i]
         /\ \A i \in 1..Len(c) :
              \/ i \in 1..Len(P) /\ c[i] = P[i]
              \/ i = Len(P) + 1 /\ c[i] = x
              \/ i - Len(P) - 1 \in 1..Len(Q) /\ c[i] = Q[i - Len(P) - 1]
<1> DEFINE c == P \o <<x>> \o Q
<1>0. Len(P) \in Nat /\ Len(Q) \in Nat
  OBVIOUS
<1>1. c \in Seq(S) /\ Len(c) = Len(P) + 1 + Len(Q)
  OBVIOUS
<1>2. \A i \in 1..Len(P) : c[i] = P[i]
  OBVIOUS
<1>3. c[Len(P) + 1] = x
  OBVIOUS
<1>4. \A i \in 1..Len(Q) : c[Len(P) + 1 + i] = Q[i]
  OBVIOUS
<1> HIDE DEF c
<1>5. ASSUME NEW i \in 1..Len(c)
      PROVE  \/ i \in 1..Len(P) /\ c[i] = P[i]
             \/ i = Len(P) + 1 /\ c[i] = x
             \/ i - Len(P) - 1 \in 1..Len(Q) /\ c[i] = Q[i - Len(P) - 1]
  <2>1. i \in 1..Len(P) + 1 + Len(Q)
    BY <1>1
  <2>2. CASE i <= Len(P)
    <3>1. i \in 1..Len(P)
      BY <1>0, <2>1, <2>2
    <3> QED BY <1>2, <3>1
  <2>3. CASE i = Len(P) + 1
    BY <1>3, <2>3
  <2>4. CASE i > Len(P) + 1
    <3>1. i - Len(P) - 1 \in 1..Len(Q) /\ Len(P) + 1 + (i - Len(P) - 1) = i
      BY <1>0, <2>1, <2>4
    <3>2. c[Len(P) + 1 + (i - Len(P) - 1)] = Q[i - Len(P) - 1]
      BY <1>4, <3>1
    <3> QED BY <3>1, <3>2
  <2> QED BY <1>0, <2>1, <2>2, <2>3, <2>4
<1> QED BY <1>1, <1>2, <1>3, <1>4, <1>5 DEF c

LEMMA TailGroups == ASSUME NEW t \in Tails PROVE Groups(t) = <<>>
<1>1. Groups(<<Dotted>>) = <<>>
  BY GroupsOne, FieldFact
<1> QED BY <1>1, GroupsEmpty DEF Tails

\* The groups of a text with a double colon, and its IPv4 address.
LEMMA FormGroups ==
  ASSUME NEW X \in Seq(Field), NEW Y \in Seq(Field), NEW t \in Tails
  PROVE  Groups(Form(X, Y, t)) = X \o Y /\ (HasTail(Form(X, Y, t)) <=> t # <<>>)
<1> DEFINE b == Blank
           R == Y \o t
           P == IF X = <<>> THEN <<b>> ELSE X
           Q == IF R = <<>> THEN <<b>> ELSE R
           c == P \o <<b>> \o Q
<1>0. PICK S : S = Int
  OBVIOUS
<1>1. c = Form(X, Y, t)
  BY DEF Form
<1>2. /\ X \in Seq(Int) /\ Y \in Seq(Int) /\ t \in Seq(Int) /\ b \in Int /\ b # Dotted
      /\ Groups(X) = X /\ Groups(Y) = Y /\ Groups(t) = <<>> /\ Groups(<<b>>) = <<>>
  <2>1. Groups(<<b>>) = <<>>
    BY GroupsOne, FieldFact
  <2> QED BY <2>1, FieldsUnbroken, TailFact, FieldFact, TailGroups
<1> HIDE DEF b
<1>3. R \in Seq(Int) /\ Groups(R) = Y /\ (R = <<>> => Y = <<>>)
  <2>1. Groups(R) = Groups(Y) \o Groups(t)
    BY <1>2, GroupsConcat
  <2>2. Y \o <<>> = Y
    BY <1>2
  <2>3. R = <<>> => Y = <<>>
    BY <1>2, ConcatEqualIffEmpty
  <2>4. R \in Seq(Int)
    BY <1>2
  <2> QED BY <1>2, <2>1, <2>2, <2>3, <2>4
<1> HIDE DEF R
<1>4. P \in Seq(Int) /\ Groups(P) = X /\ <<b>> \in Seq(Int) /\ Q \in Seq(Int) /\ Groups(Q) = Y /\ Q # <<>>
  <2>1. <<b>> \in Seq(Int) /\ <<b>> # <<>>
    BY <1>2
  <2> QED BY <1>2, <1>3, <2>1
<1> HIDE DEF P, Q
<1>5. Groups(c) = X \o Y
  <2>1. PICK v : v = P \o <<b>>
    OBVIOUS
  <2>2. v \in Seq(Int)
    BY <1>4, <2>1
  <2>3. Groups(v) = X \o <<>>
    <3>1. Groups(P \o <<b>>) = Groups(P) \o Groups(<<b>>)
      BY <1>4, GroupsConcat
    <3> QED BY <1>2, <1>4, <2>1, <3>1
  <2>4. Groups(v \o Q) = Groups(v) \o Y
    BY <1>4, <2>2, GroupsConcat
  <2>5. X \o <<>> = X
    BY <1>2
  <2> QED BY <2>1, <2>3, <2>4, <2>5
<1>6. c # <<>> /\ Last(c) = Q[Len(Q)] /\ Len(Q) \in 1..Len(Q)
  <2>0. P \in Seq(S) /\ b \in S /\ Q \in Seq(S)
    BY <1>0, <1>2, <1>4
  <2>1. /\ Len(c) = Len(P) + 1 + Len(Q)
        /\ \A i \in 1..Len(Q) : c[Len(P) + 1 + i] = Q[i]
    BY <2>0, Around
  <2>2. Len(Q) \in Nat \ {0} /\ Len(P) \in Nat
    BY <1>4
  <2> HIDE DEF c
  <2>3. Len(Q) \in 1..Len(Q) /\ Len(c) # 0
    BY <2>1, <2>2
  <2>4. c[Len(P) + 1 + Len(Q)] = Q[Len(Q)]
    BY <2>1, <2>3
  <2>5. c # <<>>
    BY <2>3
  <2> QED BY <2>1, <2>3, <2>4, <2>5 DEF Last
<1>7. Q[Len(Q)] = Dotted <=> t # <<>>
  <2>1. CASE R = <<>>
    <3>1. Q = <<b>> /\ <<b>>[1] = b /\ Len(<<b>>) = 1
      BY <2>1 DEF Q
    <3>2. t = <<>>
      BY <1>2, <2>1, ConcatEqualIffEmpty DEF R
    <3> QED BY <1>2, <3>1, <3>2
  <2>2. CASE R # <<>> /\ t = <<>>
    <3>1. Q = Y
      <4>1. Y \o <<>> = Y
        BY <1>2
      <4> QED BY <2>2, <4>1 DEF Q, R
    <3>2. Q[Len(Q)] \in Field
      BY <1>6, <3>1, FieldsUnbroken
    <3> QED BY <2>2, <3>2, FieldFact
  <2>3. CASE R # <<>> /\ t # <<>>
    <3>0. PICK d : d = Dotted
      OBVIOUS
    <3>1. Q = Append(Y, d)
      <4>1. Q = Y \o <<d>>
        BY <2>3, <3>0 DEF Q, R, Tails
      <4>2. d \in Int
        BY <3>0, FieldFact
      <4> QED BY <1>2, <4>1, <4>2
    <3>2. Append(Y, d)[Len(Append(Y, d))] = d
      BY <1>2
    <3> QED BY <2>3, <3>0, <3>1, <3>2
  <2> QED BY <2>1, <2>2, <2>3
<1> QED BY <1>1, <1>5, <1>6, <1>7 DEF HasTail

\* A text whose numbers stand at lo..hi has a group of at most four digits at each.
LEMMA LengthBound ==
  ASSUME NEW s \in Seq(Int), ~HasTail(s), NEW lo \in Nat, NEW hi \in Nat, lo <= hi,
         \A i \in 1..Len(s) : s[i] < FieldWord /\ (s[i] >= 0 => i \in lo..hi)
  PROVE  TextLength(s) \in Int /\ TextLength(s) <= Len(s) - 1 + 4 * (hi - lo + 1)
<1> DEFINE AtLeast(n) == {i \in DOMAIN s : s[i] >= n}
<1>0. PICK h \in Nat : h = hi - lo + 1
  OBVIOUS
<1>1. IsFiniteSet(lo..hi) /\ Cardinality(lo..hi) = h
  <2>1. lo \in Int /\ hi \in Int /\ ~(lo > hi)
    OBVIOUS
  <2> QED BY <1>0, <2>1, FS_Interval
<1>2. ASSUME NEW n \in Nat PROVE Cardinality(AtLeast(n)) \in Nat /\ Cardinality(AtLeast(n)) <= h
  <2>1. AtLeast(n) \subseteq lo..hi
    OBVIOUS
  <2> HIDE DEF AtLeast
  <2>2. IsFiniteSet(AtLeast(n)) /\ Cardinality(AtLeast(n)) <= Cardinality(lo..hi)
    BY <1>1, <2>1, FS_Subset
  <2> QED BY <1>1, <2>2, FS_CardinalityType
<1>3. Cardinality(AtLeast(65536)) = 0
  <2>1. \A i \in DOMAIN s : ~(s[i] >= 65536)
    BY FieldAssumption
  <2>2. AtLeast(65536) = {}
    BY <2>1
  <2>3. \A e : e = {} => Cardinality(e) = 0
    BY FS_EmptySet
  <2> HIDE DEF AtLeast
  <2> QED BY <2>2, <2>3
<1>4. TextLength(s) = Len(s) - 1 + Cardinality(AtLeast(0)) + Cardinality(AtLeast(16))
                        + Cardinality(AtLeast(256)) + Cardinality(AtLeast(4096))
                        + Cardinality(AtLeast(65536)) + 0
  BY DEF TextLength
<1> HIDE DEF AtLeast
<1>5. /\ Cardinality(AtLeast(0)) \in Nat /\ Cardinality(AtLeast(0)) <= h
      /\ Cardinality(AtLeast(16)) \in Nat /\ Cardinality(AtLeast(16)) <= h
      /\ Cardinality(AtLeast(256)) \in Nat /\ Cardinality(AtLeast(256)) <= h
      /\ Cardinality(AtLeast(4096)) \in Nat /\ Cardinality(AtLeast(4096)) <= h
  BY <1>2
<1>6. Len(s) \in Nat
  OBVIOUS
<1> QED BY <1>0, <1>3, <1>4, <1>5, <1>6

LEMMA FullLength ==
  ASSUME NEW f \in Seq(Field), Len(f) = 8
  PROVE  TextLength(f \o <<>>) <= 39
<1>1. f \in Seq(Int) /\ \A i \in 1..Len(f) : f[i] \in Field
  BY FieldsUnbroken
<1>0. f \o <<>> = f
  OBVIOUS
<1>2. ~HasTail(f)
  <2>1. f # <<>> => Last(f) \in Field
    BY FrontLast
  <2> QED BY <2>1, FieldFact DEF HasTail
<1>4. PICK lo \in Nat, hi \in Nat : lo = 1 /\ hi = 8 /\ lo <= hi
  OBVIOUS
<1>3. \A i \in 1..Len(f) : f[i] < FieldWord /\ (f[i] >= 0 => i \in lo..hi)
  <2> TAKE i \in 1..Len(f)
  <2>1. f[i] \in Field
    BY <1>1
  <2>2. f[i] < FieldWord
    BY <2>1, FieldFact
  <2> QED BY <1>4, <2>2
<1>5. TextLength(f) <= Len(f) - 1 + 4 * (hi - lo + 1)
  BY <1>1, <1>2, <1>3, <1>4, LengthBound
<1>6. 4 * (hi - lo + 1) = 32 /\ Len(f) - 1 = 7
  BY <1>4
<1> QED BY <1>0, <1>5, <1>6

LEMMA FormLength ==
  ASSUME NEW X \in Seq(Field), NEW Y \in Seq(Field), NEW n \in Nat \ {0}, Len(X) + n + Len(Y) = 8
  PROVE  TextLength(Form(X, Y, <<>>)) <= 39
<1> DEFINE b == Blank
           P == IF X = <<>> THEN <<b>> ELSE X
           Q == IF Y = <<>> THEN <<b>> ELSE Y
           c == P \o <<b>> \o Q
<1>0. PICK S : S = Int
  OBVIOUS
<1>1. c = Form(X, Y, <<>>)
  <2>1. Y \o <<>> = Y
    OBVIOUS
  <2> QED BY <2>1 DEF Form
<1>2. ~HasTail(c)
  <2> HIDE DEF c
  <2> QED BY <1>1, FormGroups DEF Tails
<1>3. PICK x \in Nat, y \in Nat : /\ x = Len(X) /\ y = Len(Y) /\ x + y <= 7
                                /\ (X = <<>> <=> x = 0) /\ (Y = <<>> <=> y = 0)
  <2>1. Len(X) \in Nat /\ Len(Y) \in Nat /\ (X = <<>> <=> Len(X) = 0) /\ (Y = <<>> <=> Len(Y) = 0)
    OBVIOUS
  <2> QED BY <2>1
<1>4. X \in Seq(Int) /\ Y \in Seq(Int) /\ b \in Int /\ b < 0 /\ b < FieldWord
      /\ (\A i \in 1..Len(X) : X[i] < FieldWord) /\ (\A i \in 1..Len(Y) : Y[i] < FieldWord)
  <2>1. (\A i \in 1..Len(X) : X[i] \in Field) /\ (\A i \in 1..Len(Y) : Y[i] \in Field)
    OBVIOUS
  <2>2. \A z \in Field : z < FieldWord
    BY FieldFact
  <2>3. Blank < 0 /\ Blank < FieldWord
    BY FieldFact DEF Blank
  <2> QED BY <2>1, <2>2, <2>3, FieldsUnbroken, FieldFact
<1> HIDE DEF b
<1>5. /\ P \in Seq(S) /\ Q \in Seq(S) /\ b \in S
      /\ Len(P) = (IF x = 0 THEN 1 ELSE x) /\ Len(Q) = (IF y = 0 THEN 1 ELSE y)
  <2>1. <<b>> \in Seq(Int) /\ Len(<<b>>) = 1
    BY <1>4
  <2> QED BY <1>0, <1>3, <1>4, <2>1
<1>6. /\ \A i \in 1..Len(P) : P[i] < FieldWord /\ (x = 0 => P[i] = b)
      /\ \A i \in 1..Len(Q) : Q[i] < FieldWord /\ (y = 0 => Q[i] = b)
  <2>1. Len(<<b>>) = 1 /\ <<b>>[1] = b
    OBVIOUS
  <2>2. ASSUME x = 0 PROVE \A i \in 1..Len(P) : P[i] < FieldWord /\ P[i] = b
    BY <1>3, <1>4, <2>1, <2>2
  <2>3. ASSUME x # 0 PROVE \A i \in 1..Len(P) : P[i] < FieldWord
    BY <1>3, <1>4, <2>3
  <2>4. ASSUME y = 0 PROVE \A i \in 1..Len(Q) : Q[i] < FieldWord /\ Q[i] = b
    BY <1>3, <1>4, <2>1, <2>4
  <2>5. ASSUME y # 0 PROVE \A i \in 1..Len(Q) : Q[i] < FieldWord
    BY <1>3, <1>4, <2>5
  <2> HIDE DEF P, Q
  <2> QED BY <2>2, <2>3, <2>4, <2>5
<1>7. /\ c \in Seq(S) /\ Len(c) = Len(P) + 1 + Len(Q)
      /\ \A i \in 1..Len(c) :
           \/ i \in 1..Len(P) /\ c[i] = P[i]
           \/ i = Len(P) + 1 /\ c[i] = b
           \/ i - Len(P) - 1 \in 1..Len(Q) /\ c[i] = Q[i - Len(P) - 1]
  <2>1. P \in Seq(S) /\ Q \in Seq(S) /\ b \in S
    BY <1>5
  <2> HIDE DEF P, Q
  <2> QED BY <2>1, Around
<1> HIDE DEF c, P, Q
<1>8. PICK lp \in Nat, lq \in Nat : /\ lp = Len(P) /\ lp = (IF x = 0 THEN 1 ELSE x)
                                  /\ lq = Len(Q) /\ lq = (IF y = 0 THEN 1 ELSE y)
  BY <1>3, <1>5
<1>9. \A i \in 1..Len(c) :
        c[i] < FieldWord /\ (c[i] >= 0 => (x # 0 /\ i \in 1..lp) \/ (y # 0 /\ i - lp - 1 \in 1..lq))
  <2> TAKE i \in 1..Len(c)
  <2>1. CASE i \in 1..Len(P) /\ c[i] = P[i]
    BY <1>4, <1>6, <1>8, <2>1
  <2>2. CASE i = Len(P) + 1 /\ c[i] = b
    BY <1>4, <2>2
  <2>3. CASE i - Len(P) - 1 \in 1..Len(Q) /\ c[i] = Q[i - Len(P) - 1]
    <3>1. PICK j \in 1..Len(Q) : j = i - lp - 1 /\ c[i] = Q[j]
      BY <1>8, <2>3
    <3>2. c[i] < FieldWord /\ (y = 0 => c[i] = b)
      BY <1>6, <3>1
    <3>3. y = 0 => ~(c[i] >= 0)
      BY <1>4, <3>2
    <3>4. i - lp - 1 \in 1..lq
      BY <1>8, <3>1
    <3> QED BY <3>2, <3>3, <3>4
  <2> QED BY <1>7, <2>1, <2>2, <2>3
<1>10. PICK l \in Nat : l = Len(c) /\ l = lp + 1 + lq
  BY <1>7, <1>8
<1>11. c \in Seq(Int)
  BY <1>0, <1>7
<1>12. CASE x = 0
  <2>0. PICK lo \in Nat, hi \in Nat : lo = 3 /\ hi = 9 /\ lo <= hi
    OBVIOUS
  <2>1. \A i \in 1..Len(c) : c[i] < FieldWord /\ (c[i] >= 0 => i \in lo..hi)
    <3> TAKE i \in 1..Len(c)
    <3>1. c[i] >= 0 => lp = 1 /\ y # 0 /\ lq = y /\ i - lp - 1 \in 1..lq /\ i \in 1..l
      BY <1>8, <1>9, <1>10, <1>12
    <3>2. c[i] >= 0 => i \in 3..9
      BY <1>3, <3>1
    <3> QED BY <1>9, <2>0, <3>2
  <2>3. TextLength(c) \in Int /\ TextLength(c) <= Len(c) - 1 + 4 * (hi - lo + 1)
    BY <1>2, <1>11, <2>0, <2>1, LengthBound
  <2>4. 4 * (hi - lo + 1) = 28
    BY <2>0
  <2>5. Len(c) \in Int /\ Len(c) - 1 + 28 <= 39
    BY <1>3, <1>8, <1>10, <1>12
  <2> QED BY <1>1, <2>3, <2>4, <2>5
<1>13. CASE x # 0 /\ y = 0
  <2>0. PICK lo \in Nat, hi \in Nat : lo = 1 /\ hi = 7 /\ lo <= hi
    OBVIOUS
  <2>1. \A i \in 1..Len(c) : c[i] < FieldWord /\ (c[i] >= 0 => i \in lo..hi)
    <3> TAKE i \in 1..Len(c)
    <3>1. c[i] >= 0 => lp = x /\ i \in 1..lp
      BY <1>8, <1>9, <1>13
    <3> QED BY <1>3, <1>9, <2>0, <3>1
  <2>3. TextLength(c) \in Int /\ TextLength(c) <= Len(c) - 1 + 4 * (hi - lo + 1)
    BY <1>2, <1>11, <2>0, <2>1, LengthBound
  <2>4. 4 * (hi - lo + 1) = 28
    BY <2>0
  <2>5. Len(c) \in Int /\ Len(c) - 1 + 28 <= 39
    BY <1>3, <1>8, <1>10, <1>13
  <2> QED BY <1>1, <2>3, <2>4, <2>5
<1>14. CASE x # 0 /\ y # 0
  <2>0. PICK lo \in Nat, hi \in Nat : lo = 1 /\ hi = 8 /\ lo <= hi
    OBVIOUS
  <2>1. \A i \in 1..Len(c) : c[i] < FieldWord /\ (c[i] >= 0 => i \in lo..hi)
    <3> TAKE i \in 1..Len(c)
    <3>1. i \in 1..8
      BY <1>3, <1>8, <1>10, <1>14
    <3> QED BY <1>9, <2>0, <3>1
  <2>3. TextLength(c) \in Int /\ TextLength(c) <= Len(c) - 1 + 4 * (hi - lo + 1)
    BY <1>2, <1>11, <2>0, <2>1, LengthBound
  <2>4. 4 * (hi - lo + 1) = 32
    BY <2>0
  <2>5. Len(c) \in Int /\ Len(c) - 1 + 32 <= 39
    BY <1>3, <1>8, <1>10, <1>14
  <2> QED BY <1>1, <2>3, <2>4, <2>5
<1> QED BY <1>12, <1>13, <1>14

\* Every spelling that is not too long is accepted.
LEMMA FullValid ==
  ASSUME NEW f \in Seq(Field), NEW t \in Tails, Len(f) = Full(t), TextLength(f \o t) <= 39
  PROVE  IsValidIpv6(f \o t)
<1> DEFINE a == f \o t
           blanks == {i \in DOMAIN a : a[i] = Blank}
<1>1. f \in Seq(Int) /\ t \in Seq(Int) /\ Unbroken(f) /\ Unbroken(t) /\ Groups(f) = f /\ Groups(t) = <<>>
  BY FieldsUnbroken, TailFact, TailGroups
<1>2. Unbroken(a) /\ a \in Seq(Int) /\ Len(a) = Len(f) + Len(t) /\ DOMAIN a = 1..Len(a)
  BY <1>1, UnbrokenConcat, SMTT(20)
<1>3. blanks = {}
  <2> HIDE DEF a
  <2> QED BY <1>2 DEF Unbroken
<1>4. Groups(a) = f
  <2>1. f \o <<>> = f
    OBVIOUS
  <2> QED BY <1>1, <2>1, GroupsConcat
<1>5. HasTail(a) <=> t # <<>>
  <2>1. Len(f) + Len(t) \in 1..8
    <3>1. \A x \in {7, 8} : x \in 1..8
      OBVIOUS
    <3> QED BY <3>1, FullLen
  <2>2. f # <<>> => Last(f) # Dotted
    <3> SUFFICES ASSUME f # <<>> PROVE Last(f) # Dotted
      OBVIOUS
    <3>1. Last(f) \in Field
      BY FrontLast
    <3> QED BY <3>1, FieldFact
  <2> QED BY <1>1, <2>1, <2>2, TokensOf
<1>6. \A i \in 1..Len(a) : a[i] < FieldWord
  <2> TAKE i \in 1..Len(a)
  <2>1. Len(t) \in {0, 1} /\ (Len(t) = 1 => t[1] = Dotted) /\ Len(f) \in Nat
    BY TailFact
  <2>2. CASE i <= Len(f)
    <3>1. a[i] = f[i] /\ f[i] \in Field
      BY <1>2, <2>1, <2>2
    <3> HIDE DEF a
    <3> QED BY <3>1, FieldFact
  <2>3. CASE ~(i <= Len(f))
    <3>1. i - Len(f) \in 1..Len(t) /\ a[i] = t[i - Len(f)]
      BY <1>1, <1>2, <2>1, <2>3
    <3>2. t[i - Len(f)] = Dotted
      <4>1. i - Len(f) = 1 /\ Len(t) = 1
        <5> HIDE DEF a
        <5> QED BY <2>1, <3>1
      <4> QED BY <2>1, <4>1
    <3>3. Dotted < FieldWord
      BY FieldFact DEF Dotted
    <3> HIDE DEF a
    <3> QED BY <3>1, <3>2, <3>3
  <2> QED BY <2>2, <2>3
<1>7. Len(a) > 1 /\ FieldsFit(Len(f), t # <<>>, FALSE)
  <2>1. (t = <<>> /\ Full(t) = 8) \/ (t # <<>> /\ Full(t) = 6)
    BY TailFact
  <2>2. FieldsFit(Len(f), t # <<>>, FALSE)
    BY <2>1 DEF FieldsFit
  <2>3. Len(a) \in {7, 8}
    BY <1>2, FullLen
  <2>4. \A x \in {7, 8} : x > 1
    OBVIOUS
  <2> QED BY <2>2, <2>3, <2>4
<1> HIDE DEF a
<1>8. FieldsFit(Len(Groups(a)), HasTail(a), blanks # {})
  <2>1. (HasTail(a) <=> t # <<>>) /\ HasTail(a) \in BOOLEAN /\ (t # <<>>) \in BOOLEAN
    BY <1>5 DEF HasTail
  <2>2. HasTail(a) = (t # <<>>)
    BY <2>1
  <2> QED BY <1>3, <1>4, <1>7, <2>2
<1> QED BY <1>2, <1>3, <1>6, <1>7, <1>8 DEF IsValidIpv6, a

LEMMA FormValid ==
  ASSUME NEW X \in Seq(Field), NEW Y \in Seq(Field), NEW t \in Tails, NEW n \in Nat \ {0},
         Len(X) + n + Len(Y) = Full(t), TextLength(Form(X, Y, t)) <= 39
  PROVE  IsValidIpv6(Form(X, Y, t))
<1> DEFINE b == Blank
           R == Y \o t
           P == IF X = <<>> THEN <<b>> ELSE X
           Q == IF R = <<>> THEN <<b>> ELSE R
           c == P \o <<b>> \o Q
           blanks == {i \in DOMAIN c : c[i] = b}
<1>0. PICK S : S = Int
  OBVIOUS
<1>1. c = Form(X, Y, t)
  BY DEF Form
<1>2. Groups(c) = X \o Y /\ (HasTail(c) <=> t # <<>>)
  <2> HIDE DEF c
  <2> QED BY <1>1, FormGroups
<1>3. /\ X \in Seq(Int) /\ R \in Seq(Int) /\ b \in Int /\ Unbroken(X) /\ Unbroken(R)
      /\ (X = <<>> <=> Len(X) = 0) /\ (R = <<>> <=> Len(R) = 0)
  <2>1. Unbroken(X) /\ Unbroken(R)
    BY FieldsUnbroken, TailFact, UnbrokenConcat
  <2>2. X \in Seq(Int) /\ R \in Seq(Int)
    BY <2>1 DEF Unbroken
  <2> HIDE DEF R
  <2> QED BY <2>1, <2>2, FieldFact
<1>4. \A i \in 1..Len(R) : R[i] < FieldWord
  <2>1. Y \in Seq(Int) /\ t \in Seq(Int) /\ Len(Y) \in Nat
    BY FieldsUnbroken, TailFact
  <2>2. Dotted < FieldWord
    BY FieldFact DEF Dotted
  <2>3. \A i \in 1..Len(Y) : Y[i] < FieldWord
    <3>1. \A i \in 1..Len(Y) : Y[i] \in Field
      OBVIOUS
    <3> QED BY <3>1, FieldFact
  <2>4. \A i \in 1..Len(t) : t[i] < FieldWord
    <3>1. CASE t = <<>>
      BY <3>1
    <3>2. CASE Len(t) = 1 /\ t[1] = Dotted
      BY <2>2, <3>2
    <3> QED BY <3>1, <3>2, TailFact
  <2>5. ASSUME NEW i \in 1..Len(R) PROVE \/ i \in 1..Len(Y) /\ R[i] = Y[i]
                                         \/ i - Len(Y) \in 1..Len(t) /\ R[i] = t[i - Len(Y)]
    BY <2>1
  <2> HIDE DEF R
  <2> QED BY <2>3, <2>4, <2>5
<1>5. b < FieldWord /\ \A i \in 1..Len(X) : X[i] < FieldWord
  <2>1. \A i \in 1..Len(X) : X[i] \in Field
    OBVIOUS
  <2>2. Blank < FieldWord
    BY FieldFact DEF Blank
  <2> QED BY <2>1, <2>2, FieldFact
<1> HIDE DEF b, R
<1>6. /\ P \in Seq(S) /\ Q \in Seq(S) /\ b \in S /\ Len(P) \in Nat \ {0} /\ Len(Q) \in Nat \ {0}
      /\ Len(<<b>>) = 1 /\ <<b>>[1] = b
  <2>1. Len(X) \in Nat /\ Len(R) \in Nat /\ <<b>> \in Seq(Int) /\ Len(<<b>>) = 1 /\ <<b>>[1] = b
    BY <1>3
  <2> QED BY <1>0, <1>3, <2>1
<1>7. /\ c \in Seq(S) /\ Len(c) = Len(P) + 1 + Len(Q)
      /\ c[Len(P) + 1] = b
      /\ \A i \in 1..Len(c) :
           \/ i \in 1..Len(P) /\ c[i] = P[i]
           \/ i = Len(P) + 1 /\ c[i] = b
           \/ i - Len(P) - 1 \in 1..Len(Q) /\ c[i] = Q[i - Len(P) - 1]
      /\ \A i \in 1..Len(P) : c[i] = P[i]
      /\ \A i \in 1..Len(Q) : c[Len(P) + 1 + i] = Q[i]
  <2> HIDE DEF P, Q
  <2> QED BY <1>6, Around
<1> HIDE DEF c
<1>8. Len(c) > 2 /\ DOMAIN c = 1..Len(c)
  <2>1. c \in Seq(S) /\ Len(c) = Len(P) + 1 + Len(Q) /\ Len(P) \in Nat \ {0} /\ Len(Q) \in Nat \ {0}
    BY <1>6, <1>7
  <2>2. \A x, y \in Nat \ {0} : x + 1 + y > 2
    OBVIOUS
  <2> HIDE DEF P, Q
  <2> QED BY <2>1, <2>2
<1>9. (\A i \in 1..Len(P) : P[i] < FieldWord) /\ (\A i \in 1..Len(Q) : Q[i] < FieldWord)
  BY <1>4, <1>5, <1>6
<1>10. \A i \in DOMAIN c : c[i] < FieldWord
  <2> HIDE DEF P, Q
  <2> QED BY <1>5, <1>7, <1>8, <1>9
<1>11. \A i \in 1..Len(P) : P[i] = b <=> X = <<>>
  BY <1>3, <1>6 DEF Unbroken, b
<1>12. \A i \in 1..Len(Q) : Q[i] = b <=> R = <<>>
  BY <1>3, <1>6 DEF Unbroken, b
<1>22. PICK lp \in Nat \ {0} : lp = Len(P)
  BY <1>6
<1>23. PICK lq \in Nat \ {0} : lq = Len(Q)
  BY <1>6
<1>13. (X = <<>> => lp = 1) /\ (R = <<>> => lq = 1)
  BY <1>6, <1>22, <1>23
<1>14. c = <<b, b, b>> <=> X = <<>> /\ R = <<>>
  BY <1>1, FormFact, SMTT(20) DEF b, R
<1> HIDE DEF P, Q
<1>15. \A i \in 1..Len(c) : c[i] = b <=> \/ X = <<>> /\ i = 1
                                         \/ i = Len(P) + 1
                                         \/ R = <<>> /\ i = Len(c)
  <2> TAKE i \in 1..Len(c)
  <2>0. i \in Nat /\ Len(c) = lp + 1 + lq /\ lp = Len(P) /\ lq = Len(Q)
    BY <1>7, <1>8, <1>22, <1>23
  <2>1. CASE i \in 1..Len(P) /\ c[i] = P[i]
    <3>1. c[i] = b <=> X = <<>>
      BY <1>11, <2>1
    <3>2. X = <<>> => i = 1
      BY <1>13, <2>0, <2>1
    <3>3. i # Len(P) + 1 /\ i # Len(c)
      BY <2>0, <2>1
    <3> QED BY <3>1, <3>2, <3>3
  <2>2. CASE i = Len(P) + 1 /\ c[i] = b
    BY <2>2
  <2>3. CASE i - Len(P) - 1 \in 1..Len(Q) /\ c[i] = Q[i - Len(P) - 1]
    <3>1. c[i] = b <=> R = <<>>
      BY <1>12, <2>3
    <3>2. R = <<>> => i = Len(c)
      <4> SUFFICES ASSUME R = <<>> PROVE i = Len(c)
        OBVIOUS
      <4>1. lq = 1 /\ i - lp - 1 \in 1..lq
        BY <1>13, <2>0, <2>3
      <4>2. i = lp + 2
        BY <2>0, <4>1
      <4> QED BY <2>0, <4>1, <4>2
    <3>3. i # Len(P) + 1 /\ i # 1
      BY <2>0, <2>3
    <3> QED BY <3>1, <3>2, <3>3
  <2> QED BY <1>7, <2>1, <2>2, <2>3
<1>16. \/ \E i \in blanks : blanks = {i} /\ i \notin {1, Len(c)}
       \/ blanks \in {{1, 2}, {Len(c) - 1, Len(c)}} /\ Len(c) > 2
       \/ c = <<b, b, b>>
  <2>0. Len(c) = lp + 1 + lq /\ lp = Len(P) /\ lq = Len(Q)
    BY <1>7, <1>22, <1>23
  <2>1. CASE X # <<>> /\ R # <<>>
    <3>1. blanks = {Len(P) + 1} /\ Len(P) + 1 \notin {1, Len(c)}
      BY <1>8, <1>15, <2>0, <2>1
    <3> HIDE DEF blanks
    <3> QED BY <3>1
  <2>2. CASE X = <<>> /\ R # <<>>
    <3>0. lp = 1 /\ Len(c) = lq + 2 /\ lp + 1 = 2
      <4> HIDE DEF R
      <4>1. lp = 1
        BY <1>13, <2>2
      <4>2. lp + 1 + lq = lq + 2 /\ lp + 1 = 2
        BY <4>1
      <4> QED BY <2>0, <4>1, <4>2
    <3>3. \A i \in 1..Len(c) : c[i] = b <=> i = 1 \/ i = 2
      BY <1>15, <2>0, <2>2, <3>0
    <3>4. 1 \in 1..Len(c) /\ 2 \in 1..Len(c)
      BY <3>0
    <3>1. blanks = {1, 2}
      BY <1>8, <3>3, <3>4
    <3> HIDE DEF blanks
    <3> QED BY <1>8, <3>1
  <2>3. CASE X # <<>> /\ R = <<>>
    <3>1. Len(c) - 1 = Len(P) + 1
      <4> HIDE DEF R
      <4>1. lq = 1
        BY <1>13, <2>3
      <4>2. lp + 1 + lq - 1 = lp + 1
        BY <4>1
      <4> QED BY <2>0, <4>2
    <3>2. blanks = {Len(c) - 1, Len(c)}
      BY <1>8, <1>15, <2>0, <2>3, <3>1
    <3> HIDE DEF blanks
    <3> QED BY <1>8, <3>2
  <2>4. CASE X = <<>> /\ R = <<>>
    BY <1>14, <2>4
  <2> QED BY <2>1, <2>2, <2>3, <2>4
<1>17. blanks # {}
  <2>1. Len(P) + 1 \in 1..Len(c)
    BY <1>6, <1>7
  <2> QED BY <1>7, <1>8, <2>1
<1>18. FieldsFit(Len(X \o Y), t # <<>>, TRUE)
  <2>1. Len(X \o Y) = Len(X) + Len(Y) /\ Len(X) \in Nat /\ Len(Y) \in Nat
    OBVIOUS
  <2>2. (t = <<>> /\ Full(t) = 8) \/ (t # <<>> /\ Full(t) = 6)
    BY TailFact
  <2>3. CASE t = <<>> /\ Full(t) = 8
    <3>1. Len(X \o Y) < 8
      BY <2>1, <2>3
    <3> QED BY <2>3, <3>1 DEF FieldsFit
  <2>4. CASE t # <<>> /\ Full(t) = 6
    <3>1. Len(X \o Y) < 7
      BY <2>1, <2>4
    <3> QED BY <2>4, <3>1 DEF FieldsFit
  <2> QED BY <2>2, <2>3, <2>4
<1>19. FieldsFit(Len(Groups(c)), HasTail(c), blanks # {})
  <2>1. HasTail(c) = (t # <<>>) /\ (blanks # {}) = TRUE
    BY <1>2, <1>17 DEF HasTail
  <2> HIDE DEF blanks
  <2> QED BY <1>2, <1>18, <2>1
<1>20. Len(c) > 1 /\ TextLength(c) <= 39
  BY <1>1, <1>6, <1>7
<1> HIDE DEF blanks
<1>21. IsValidIpv6(c)
  BY <1>8, <1>10, <1>16, <1>19, <1>20 DEF IsValidIpv6, blanks, b
<1> QED BY <1>1, <1>21

\* What fits is a spelling, but for a double colon that stands for nothing.
LEMMA FormSpelled ==
  ASSUME NEW X \in Seq(Field), NEW Y \in Seq(Field), NEW t \in Tails,
         FieldsFit(Len(X \o Y), t # <<>>, TRUE), ~(t # <<>> /\ Len(X \o Y) = 6)
  PROVE  Form(X, Y, t) \in Spelled
<1>1. PICK x \in Nat : x = Len(X)
  OBVIOUS
<1>2. PICK y \in Nat : y = Len(Y)
  OBVIOUS
<1>3. PICK m \in {6, 8} : m = Full(t) /\ (t = <<>> <=> m = 8)
  BY TailFact
<1>4. Len(X \o Y) = x + y
  BY <1>1, <1>2
<1>5. x + y < m
  <2>1. CASE t = <<>>
    BY <1>3, <1>4, <2>1 DEF FieldsFit
  <2>2. CASE t # <<>>
    <3>1. x + y < 7 /\ x + y # 6 /\ m = 6
      BY <1>3, <1>4, <2>2 DEF FieldsFit
    <3> QED BY <3>1
  <2> QED BY <2>1, <2>2
<1>6. PICK n \in Nat \ {0} : x + n + y = m
  <2>1. m - x - y \in Nat \ {0} /\ x + (m - x - y) + y = m
    BY <1>5
  <2> QED BY <2>1
<1>7. Len(X) + n + Len(Y) = Full(t)
  BY <1>1, <1>2, <1>3, <1>6
<1> DEFINE f == X \o Zeros(n) \o Y
<1>8. f \in Seq(Field) /\ Len(f) = Full(t)
  BY <1>7, ExpandedIs
<1>9. Form(X, Y, t) \in Spellings(f \o t)
  BY <1>7, FormIsSpelling
<1> HIDE DEF f
<1>10. f \o t \in Address(Field)
  <2>1. \E g \in Seq(Field), u \in Tails : Len(g) = Full(u) /\ f \o t = g \o u
    BY <1>8
  <2> QED BY <2>1, AddressForm
<1> QED BY <1>9, <1>10, SpelledIs

LEMMA SplitTail ==
  ASSUME NEW R \in Seq(Int),
         \A i \in 1..Len(R) : R[i] \in Field \/ (R[i] = Dotted /\ i = Len(R))
  PROVE  \E Y \in Seq(Field), t \in Tails : R = Y \o t
<1>0. <<>> \in Tails /\ <<Dotted>> \in Tails
  BY DEF Tails
<1>1. CASE \A i \in 1..Len(R) : R[i] \in Field
  <2>1. R \in Seq(Field)
    BY <1>1
  <2>2. R = R \o <<>>
    OBVIOUS
  <2> QED BY <1>0, <2>1, <2>2
<1>2. CASE \E i \in 1..Len(R) : R[i] \notin Field
  <2>1. R # <<>> /\ R[Len(R)] = Dotted
    BY <1>2
  <2>2. PICK n \in Nat : Len(R) = n + 1
    <3>1. Len(R) - 1 \in Nat /\ Len(R) = (Len(R) - 1) + 1
      BY <2>1
    <3> QED BY <3>1
  <2> DEFINE Y == SubSeq(R, 1, n)
  <2>3. PICK d \in Int : d = Dotted
    BY FieldFact
  <2>4. Y \in Seq(Int) /\ Len(Y) = n /\ (\A i \in 1..n : Y[i] = R[i])
    BY <2>2
  <2>5. R = Append(Y, R[n + 1])
    BY <2>2
  <2> HIDE DEF Y
  <2>6. \A i \in 1..n : R[i] \in Field
    <3>1. \A i \in 1..n : i \in 1..Len(R) /\ i # Len(R)
      BY <2>2
    <3> QED BY <3>1
  <2>7. Y \in Seq(Field)
    BY <2>4, <2>6
  <2>8. R = Y \o <<d>>
    BY <2>1, <2>2, <2>3, <2>4, <2>5
  <2> QED BY <1>0, <2>3, <2>7, <2>8
<1> QED BY <1>1, <1>2

LEMMA SplitAt ==
  ASSUME NEW S, NEW s \in Seq(S), NEW i \in 1..Len(s)
  PROVE  LET P == SubSeq(s, 1, i - 1)
             Q == SubSeq(s, i + 1, Len(s))
         IN /\ s = P \o <<s[i]>> \o Q /\ SubSeq(s, i, i) = <<s[i]>>
            /\ P \in Seq(S) /\ Len(P) = i - 1 /\ \A j \in 1..i - 1 : P[j] = s[j]
            /\ Q \in Seq(S) /\ Len(Q) = Len(s) - i /\ \A j \in 1..Len(s) - i : Q[j] = s[i + j]
<1> DEFINE P == SubSeq(s, 1, i - 1)
           Z == SubSeq(s, i, i)
           Q == SubSeq(s, i + 1, Len(s))
<1>1. i - 1 \in Nat /\ i \in Nat /\ i - 1 <= i /\ i <= Len(s) /\ (i - 1) + 1 = i
  OBVIOUS
<1>2. s = P \o Z \o Q
  <2>1. s = SubSeq(s, 1, i - 1) \o SubSeq(s, (i - 1) + 1, i) \o SubSeq(s, i + 1, Len(s))
    BY <1>1, ThreeParts
  <2> QED BY <1>1, <2>1
<1>3. Z = <<s[i]>>
  <2>1. Z \in Seq(S) /\ Len(Z) = 1 /\ Z[1] = s[i]
    OBVIOUS
  <2> HIDE DEF Z
  <2> QED BY <2>1
<1>4. P \in Seq(S) /\ Len(P) = i - 1 /\ \A j \in 1..i - 1 : P[j] = s[j]
  OBVIOUS
<1>5. Q \in Seq(S) /\ Len(Q) = Len(s) - i /\ \A j \in 1..Len(s) - i : Q[j] = s[i + j]
  OBVIOUS
<1> HIDE DEF P, Z, Q
<1> QED BY <1>2, <1>3, <1>4, <1>5 DEF P, Z, Q

LEMMA ValidSpelled ==
  ASSUME NEW tok, IsLiteral(tok), IsValidIpv6(tok), ~SixAndTail(tok)
  PROVE  tok \in Spelled
<1> DEFINE b == Blank
           blanks == {i \in DOMAIN tok : tok[i] = b}
<1>0. PICK L \in Nat : L = Len(tok)
  <2>1. tok \in Seq(Int)
    BY DEF IsLiteral
  <2> QED BY <2>1
<1>1. /\ tok \in Seq(Int) /\ tok # <<>> /\ DOMAIN tok = 1..L /\ L \in Nat
      /\ \A i \in 1..L : tok[i] \in Field \cup {b} \/ (tok[i] = Dotted /\ i = L)
  <2>1. tok \in Seq(Int) /\ tok # <<>> /\ DOMAIN tok = 1..L
    BY <1>0 DEF IsLiteral
  <2>2. \A i \in 1..L : tok[i] \in Field \cup {Blank} \/ tok[i] >= FieldWord \/ (tok[i] = Dotted /\ i = L)
    BY <1>0, <2>1 DEF IsLiteral
  <2>3. \A i \in 1..L : tok[i] < FieldWord /\ tok[i] \in Int
    BY <2>1 DEF IsValidIpv6
  <2>4. \A i \in 1..L : ~(tok[i] >= FieldWord)
    BY <2>3, FieldFact
  <2> QED BY <2>1, <2>2, <2>4
<1>2. /\ L > 1
      /\ \/ blanks = {}
         \/ \E i \in blanks : blanks = {i} /\ i \notin {1, L}
         \/ blanks \in {{1, 2}, {L - 1, L}} /\ L > 2
         \/ tok = <<b, b, b>>
      /\ FieldsFit(Len(Groups(tok)), HasTail(tok), blanks # {})
  BY <1>0 DEF IsValidIpv6
<1>3. \A i \in 1..L : i \notin blanks => tok[i] # b
  BY <1>1
<1>4. \A i \in blanks : i \in 1..L /\ tok[i] = b
  BY <1>1
<1>5. ASSUME NEW X \in Seq(Field), NEW Y \in Seq(Field), NEW t \in Tails, tok = Form(X, Y, t), blanks # {}
      PROVE  tok \in Spelled
  <2>1. Groups(tok) = X \o Y /\ (HasTail(tok) <=> t # <<>>)
    BY <1>5, FormGroups
  <2>2. HasTail(tok) = (t # <<>>) /\ (blanks # {}) = TRUE
    BY <1>5, <2>1 DEF HasTail
  <2>3. Blank \in ToSet(tok)
    BY <1>4, <1>5 DEF ToSet
  <2> HIDE DEF blanks
  <2>4. FieldsFit(Len(X \o Y), t # <<>>, TRUE)
    BY <1>2, <2>1, <2>2
  <2>5. ~(t # <<>> /\ Len(X \o Y) = 6)
    BY <2>1, <2>3 DEF SixAndTail
  <2> QED BY <1>5, <2>4, <2>5, FormSpelled
<1>6. PICK S : S = Int
  OBVIOUS
<1>7. tok \in Seq(S)
  BY <1>1, <1>6
<1>8. <<>> \in Tails /\ <<>> \in Seq(Field)
  BY DEF Tails
<1> HIDE DEF blanks
<1>9. CASE blanks = {}
  <2>1. \A i \in 1..Len(tok) : tok[i] \in Field \/ (tok[i] = Dotted /\ i = Len(tok))
    BY <1>0, <1>1, <1>3, <1>9
  <2>2. PICK Y \in Seq(Field), t \in Tails : tok = Y \o t
    BY <1>1, <2>1, SplitTail
  <2>3. Groups(tok) = Y
    <3>1. Y \in Seq(Int) /\ t \in Seq(Int) /\ Groups(Y) = Y /\ Groups(t) = <<>> /\ Y \o <<>> = Y
      BY FieldsUnbroken, TailFact, TailGroups
    <3> QED BY <2>2, <3>1, GroupsConcat
  <2>4. HasTail(tok) <=> t # <<>>
    <3>1. CASE t = <<>>
      <4>1. tok = Y
        BY <2>2, <3>1
      <4>2. Last(tok) \in Field
        BY <1>1, <4>1, FrontLast
      <4> QED BY <3>1, <4>2, FieldFact DEF HasTail
    <3>2. CASE t = <<Dotted>>
      <4>0. PICK d \in Int : d = Dotted
        BY FieldFact
      <4>1. Y \in Seq(Int)
        BY FieldsUnbroken
      <4>2. tok = Append(Y, d)
        BY <2>2, <3>2, <4>0, <4>1
      <4>3. Last(tok) = d
        BY <4>1, <4>2, FrontAppend
      <4>4. t # <<>>
        BY <3>2
      <4> QED BY <1>1, <4>0, <4>3, <4>4 DEF HasTail
    <3> QED BY <3>1, <3>2 DEF Tails
  <2>5. Len(Y) = Full(t)
    <3>1. CASE t = <<>>
      BY <1>2, <1>9, <2>3, <2>4, <3>1 DEF FieldsFit, Full
    <3>2. CASE t # <<>>
      BY <1>2, <1>9, <2>3, <2>4, <3>2 DEF FieldsFit, Full
    <3> QED BY <3>1, <3>2
  <2>6. tok \in Address(Field)
    <3>1. \E f \in Seq(Field), u \in Tails : Len(f) = Full(u) /\ tok = f \o u
      BY <2>2, <2>5
    <3> QED BY <3>1, AddressForm
  <2>7. tok \in Spellings(tok)
    BY DEF Spellings
  <2> QED BY <2>6, <2>7, SpelledIs
<1>10. CASE \E i \in blanks : blanks = {i} /\ i \notin {1, L}
  <2>1. PICK i \in blanks : blanks = {i} /\ i \notin {1, L}
    BY <1>10
  <2>2. i \in 1..L /\ tok[i] = b /\ i # 1 /\ i # L
    BY <1>4, <2>1
  <2> DEFINE P == SubSeq(tok, 1, i - 1)
             Q == SubSeq(tok, i + 1, L)
  <2>3. /\ tok = P \o <<b>> \o Q
        /\ P \in Seq(S) /\ Len(P) = i - 1 /\ \A j \in 1..i - 1 : P[j] = tok[j]
        /\ Q \in Seq(S) /\ Len(Q) = L - i /\ \A j \in 1..L - i : Q[j] = tok[i + j]
    <3>1. i \in 1..Len(tok) /\ L = Len(tok) /\ tok[i] = b /\ tok \in Seq(S)
      BY <1>0, <1>7, <2>2
    <3>2. LET P0 == SubSeq(tok, 1, i - 1)
              Q0 == SubSeq(tok, i + 1, Len(tok))
          IN /\ tok = P0 \o <<tok[i]>> \o Q0 /\ SubSeq(tok, i, i) = <<tok[i]>>
             /\ P0 \in Seq(S) /\ Len(P0) = i - 1 /\ \A j \in 1..i - 1 : P0[j] = tok[j]
             /\ Q0 \in Seq(S) /\ Len(Q0) = Len(tok) - i /\ \A j \in 1..Len(tok) - i : Q0[j] = tok[i + j]
      BY <3>1, SplitAt
    <3> QED BY <3>1, <3>2
  <2> HIDE DEF P, Q
  <2>4. P \in Seq(Field) /\ P # <<>>
    <3>1. \A j \in 1..i - 1 : tok[j] \in Field
      <4>1. \A j \in 1..i - 1 : j \in 1..L /\ j # i /\ j # L
        BY <1>1, <2>2
      <4> QED BY <1>1, <1>3, <2>1, <4>1
    <3>2. i - 1 \in Nat \ {0}
      BY <2>2
    <3>3. \A j \in 1..Len(P) : P[j] \in Field
      BY <2>3, <3>1
    <3>4. P \in Seq(Field)
      BY <2>3, <3>3
    <3>5. P # <<>>
      BY <2>3, <3>2
    <3> QED BY <3>4, <3>5
  <2>5. Q # <<>> /\ Q \in Seq(Int) /\ \A j \in 1..Len(Q) : Q[j] \in Field \/ (Q[j] = Dotted /\ j = Len(Q))
    <3>1. L - i \in Nat \ {0}
      BY <1>1, <2>2
    <3>2. \A j \in 1..L - i : tok[i + j] \in Field \/ (tok[i + j] = Dotted /\ i + j = L)
      <4>1. \A j \in 1..L - i : i + j \in 1..L /\ i + j # i
        BY <1>1, <2>2
      <4> QED BY <1>1, <1>3, <2>1, <4>1
    <3>3. \A j \in 1..L - i : i + j = L => j = L - i
      BY <1>1, <2>2
    <3>4. Q # <<>>
      BY <2>3, <3>1
    <3>5. Q \in Seq(Int)
      BY <1>6, <2>3
    <3> QED BY <2>3, <3>2, <3>3, <3>4, <3>5
  <2>6. PICK Y \in Seq(Field), t \in Tails : Q = Y \o t
    BY <2>5, SplitTail
  <2>7. tok = Form(P, Y, t)
    BY <2>3, <2>4, <2>5, <2>6 DEF Form
  <2> QED BY <1>5, <2>1, <2>4, <2>7
<1>11. CASE blanks = {1, 2} /\ L > 2
  <2>1. 1 \in 1..L /\ 2 \in 1..L /\ tok[1] = b /\ tok[2] = b
    BY <1>1, <1>4, <1>11
  <2> DEFINE Q == SubSeq(tok, 2 + 1, L)
  <2>2. /\ tok = SubSeq(tok, 1, 2 - 1) \o <<b>> \o Q
        /\ Q \in Seq(S) /\ Len(Q) = L - 2 /\ \A j \in 1..L - 2 : Q[j] = tok[2 + j]
    BY <1>0, <1>7, <2>1, SplitAt
  <2>3. SubSeq(tok, 1, 1) = <<b>>
    <3>1. SubSeq(tok, 1, 1) = <<tok[1]>>
      BY <1>0, <1>7, <2>1, SplitAt
    <3> QED BY <2>1, <3>1
  <2> HIDE DEF Q
  <2>4. tok = <<b>> \o <<b>> \o Q
    <3>1. 2 - 1 = 1
      OBVIOUS
    <3> QED BY <2>2, <2>3, <3>1
  <2>5. Q # <<>> /\ Q \in Seq(Int) /\ \A j \in 1..Len(Q) : Q[j] \in Field \/ (Q[j] = Dotted /\ j = Len(Q))
    <3>1. L - 2 \in Nat \ {0}
      BY <1>1, <1>11
    <3>2. \A j \in 1..L - 2 : tok[2 + j] \in Field \/ (tok[2 + j] = Dotted /\ 2 + j = L)
      <4>1. \A j \in 1..L - 2 : 2 + j \in 1..L /\ 2 + j # 1 /\ 2 + j # 2
        BY <1>1
      <4> QED BY <1>1, <1>3, <1>11, <4>1
    <3>3. \A j \in 1..L - 2 : 2 + j = L => j = L - 2
      BY <1>1
    <3>4. Q # <<>>
      BY <2>2, <3>1
    <3>5. Q \in Seq(Int)
      BY <1>6, <2>2
    <3> QED BY <2>2, <3>2, <3>3, <3>4, <3>5
  <2>6. PICK Y \in Seq(Field), t \in Tails : Q = Y \o t
    BY <2>5, SplitTail
  <2>7. tok = Form(<<>>, Y, t)
    BY <2>4, <2>5, <2>6 DEF Form
  <2> QED BY <1>5, <1>8, <1>11, <2>7
<1>12. CASE blanks = {L - 1, L} /\ L > 2
  <2>0. PICK i \in 1..L : i = L - 1
    BY <1>12
  <2> DEFINE P == SubSeq(tok, 1, i - 1)
  <2>1. i \in 1..L /\ L \in 1..L /\ tok[i] = b /\ tok[L] = b /\ i + 1 = L
    BY <1>1, <1>4, <1>12, <2>0
  <2>9. i \in 1..Len(tok) /\ L \in 1..Len(tok)
    BY <1>0, <2>1
  <2>2. /\ tok = P \o <<b>> \o SubSeq(tok, i + 1, L)
        /\ P \in Seq(S) /\ Len(P) = i - 1 /\ \A j \in 1..i - 1 : P[j] = tok[j]
    <3>1. /\ tok = P \o <<tok[i]>> \o SubSeq(tok, i + 1, Len(tok))
          /\ P \in Seq(S) /\ Len(P) = i - 1 /\ \A j \in 1..i - 1 : P[j] = tok[j]
      BY <1>7, <2>9, SplitAt
    <3> HIDE DEF P
    <3> QED BY <1>0, <2>1, <3>1
  <2>3. SubSeq(tok, L, L) = <<b>>
    <3>1. SubSeq(tok, L, L) = <<tok[L]>>
      BY <1>7, <2>9, SplitAt
    <3> QED BY <2>1, <3>1
  <2> HIDE DEF P
  <2>4. tok = P \o <<b>> \o <<b>>
    BY <2>1, <2>2, <2>3
  <2>5. P \in Seq(Field) /\ P # <<>>
    <3>1. \A j \in 1..i - 1 : tok[j] \in Field
      <4>1. \A j \in 1..i - 1 : j \in 1..L /\ j # L - 1 /\ j # L
        BY <1>1, <2>0
      <4> QED BY <1>1, <1>3, <1>12, <4>1
    <3>2. i - 1 \in Nat \ {0}
      BY <1>1, <1>12, <2>0
    <3>3. P \in Seq(S) /\ \A j \in 1..Len(P) : P[j] \in Field
      BY <2>2, <3>1
    <3>4. P \in Seq(Field)
      BY <3>3
    <3>5. P # <<>>
      BY <2>2, <3>2
    <3> QED BY <3>4, <3>5
  <2>6. tok = Form(P, <<>>, <<>>)
    <3>1. <<>> \o <<>> = <<>>
      OBVIOUS
    <3> QED BY <2>4, <2>5, <3>1 DEF Form
  <2> QED BY <1>5, <1>8, <1>12, <2>5, <2>6
<1>13. CASE tok = <<b, b, b>>
  <2>1. <<>> \o <<>> = <<>>
    OBVIOUS
  <2>2. tok = Form(<<>>, <<>>, <<>>)
    <3>1. Form(<<>>, <<>>, <<>>) = <<Blank, Blank, Blank>>
      BY <1>8, <2>1, FormFact
    <3> QED BY <1>13, <3>1
  <2>3. 1 \in blanks
    <3>1. 1 \in DOMAIN tok /\ tok[1] = b
      BY <1>13
    <3> QED BY <3>1 DEF blanks
  <2> QED BY <1>5, <1>8, <2>2, <2>3
<1> QED BY <1>2, <1>9, <1>10, <1>11, <1>12, <1>13

LEMMA SpelledValid ==
  ASSUME NEW tok \in Spelled, HasTail(tok) => TextLength(tok) <= 39
  PROVE  IsValidIpv6(tok)
<1>1. PICK a \in Address(Field) : tok \in Spellings(a)
  BY SpelledIs
<1>2. PICK f \in Seq(Field), t \in Tails : Len(f) = Full(t) /\ a = f \o t
  BY AddressForm
<1>3. tok = f \o t \/ Cut(f, t, tok)
  <2>1. tok \in Spellings(f \o t) /\ Len(f) = Full(t)
    BY <1>1, <1>2
  <2> QED BY <2>1, SpellingIs
<1>4. CASE tok = f \o t
  <2>1. TextLength(tok) <= 39
    <3>1. CASE t = <<>>
      BY <1>2, <1>4, <3>1, FullLength DEF Full
    <3>2. CASE t # <<>>
      <4>0. PICK d \in Int : d = Dotted
        BY FieldFact
      <4>1. t = <<d>> /\ f \in Seq(Int)
        BY <3>2, <4>0, FieldsUnbroken DEF Tails
      <4>2. tok = Append(f, d)
        BY <1>4, <4>1
      <4>3. tok # <<>> /\ Last(tok) = d
        BY <4>1, <4>2, FrontAppend
      <4> QED BY <4>0, <4>3 DEF HasTail
    <3> QED BY <3>1, <3>2
  <2> QED BY <1>2, <1>4, <2>1, FullValid
<1>5. CASE Cut(f, t, tok)
  <2>1. PICK X \in Seq(Field), Y \in Seq(Field), n \in Nat \ {0} :
             f = X \o Zeros(n) \o Y /\ Len(X) + n + Len(Y) = Full(t) /\ tok = Form(X, Y, t)
    BY <1>5 DEF Cut
  <2>2. TextLength(tok) <= 39
    <3>1. CASE t = <<>>
      BY <2>1, <3>1, FormLength DEF Full
    <3>2. CASE t # <<>>
      BY <2>1, <3>2, FormGroups
    <3> QED BY <3>1, <3>2
  <2> QED BY <2>1, <2>2, FormValid
<1> QED BY <1>3, <1>4, <1>5

----------------------------------------------------------------------------
(* The parts of a URL: what parse_url makes of a legal text, build_url     *)
(* writes so that it is read as the same again.                            *)

KeptHost(h, ip) ==
  CASE ip = 0 -> h = Name(Lower(h.x))
    [] ip = 4 -> h.k = "ip4"
    [] ip = 6 -> h = Ip6(NormalizeIpv6(h.tok))
    [] OTHER -> TRUE

Normal(p) ==
  /\ p = [scheme |-> p.scheme, user |-> p.user, host |-> p.host, ip |-> p.ip, port |-> p.port,
          path |-> p.path, query |-> p.query, frag |-> p.frag]
  /\ Lower(p.scheme) = p.scheme /\ NormalizePath(p.path) = p.path
  /\ p.port # NoPort => IsUint(p.port, MaxPort)
  /\ p.host # NoHost => KeptHost(p.host, p.ip) /\ p.host # Ip6(Invalid)

LEMMA LowerLower == \A s : Lower(Lower(s)) = Lower(s)
BY DEF Lower

LEMMA Errors ==
  /\ Cleared # ParseError /\ EmptyText # BuildError
  /\ EmptyText # Malformed /\ Parse(Malformed) = ParseError
BY DEF Cleared, ParseError, EmptyText, BuildError, Malformed, Parse

LEMMA RebuiltIs ==
  ASSUME NEW p, Normal(p)
  PROVE  Rebuilt(p) = [scheme |-> p.scheme, user |-> p.user, host |-> p.host,
                       ip |-> IF p.host = NoHost THEN -1 ELSE p.ip, port |-> BuiltPort(p),
                       path |-> p.path, query |-> p.query, frag |-> p.frag]
<1>1. PICK s, u, h, i, n, path, q, f :
         p = [scheme |-> s, user |-> u, host |-> h, ip |-> i, port |-> n, path |-> path,
              query |-> q, frag |-> f]
  BY DEF Normal
<1>3. PICK m, j : m = BuiltPort(p) /\ j = IF p.host = NoHost THEN -1 ELSE p.ip
  OBVIOUS
<1>4. Rebuilt(p) = [p EXCEPT !.port = m, !.ip = j]
  BY <1>3 DEF Rebuilt, BuiltPort
<1>5. [p EXCEPT !.port = m, !.ip = j]
        = [scheme |-> s, user |-> u, host |-> h, ip |-> j, port |-> m, path |-> path,
           query |-> q, frag |-> f]
  <2>1. PICK r : r = [p EXCEPT !.port = m]
    OBVIOUS
  <2>2. r = [scheme |-> s, user |-> u, host |-> h, ip |-> i, port |-> m, path |-> path,
             query |-> q, frag |-> f]
    BY <1>1, <2>1
  <2>3. [r EXCEPT !.ip = j]
          = [scheme |-> s, user |-> u, host |-> h, ip |-> j, port |-> m, path |-> path,
             query |-> q, frag |-> f]
    BY <2>2
  <2>4. [p EXCEPT !.port = m, !.ip = j] = [r EXCEPT !.ip = j]
    BY <2>1
  <2> QED BY <2>3, <2>4
<1> QED BY <1>1, <1>3, <1>4, <1>5

LEMMA EmptyNormal ==
  /\ Normal(Cleared) /\ Build(Cleared) = EmptyText /\ Rebuilt(Cleared) = Cleared
  /\ Parse(EmptyText) = Cleared
<1>1. Lower("") = "" /\ NormalizePath(NoPath) = NoPath
  BY DEF Lower, NormalizePath, NoPath, Path
<1>2. Normal(Cleared)
  BY <1>1 DEF Normal, Cleared
<1>3. ~Unbuildable(Cleared)
  BY DEF Unbuildable, Cleared, ColonFirst, NoPath, Path, NoHost, NoPort
<1>4. HostText(Cleared) = NoHost /\ BuiltPort(Cleared) = NoPort
  BY DEF Cleared, HostText, BuiltPort, DefaultPort
<1>5. Build(Cleared) = EmptyText
  BY <1>3, <1>4 DEF Build, Cleared, EmptyText
<1>6. Rebuilt(Cleared) = Cleared
  <2>1. Normal(Cleared) /\ Cleared.host = NoHost /\ BuiltPort(Cleared) = NoPort
    BY <1>2, <1>4 DEF Cleared
  <2>2. Rebuilt(Cleared) = [scheme |-> "", user |-> "", host |-> NoHost, ip |-> -1, port |-> NoPort,
                            path |-> NoPath, query |-> <<>>, frag |-> ""]
    BY <2>1, RebuiltIs DEF Cleared
  <2> QED BY <2>2 DEF Cleared
<1> QED BY <1>2, <1>5, <1>6 DEF Parse

\* A right spelling of an address is written in the recommended one.
LEMMA SpellingStays ==
  ASSUME NEW tok \in Spelled, ~SpoiltZero(tok)
  PROVE  NormalizeIpv6(NormalizeIpv6(tok)) = NormalizeIpv6(tok)
<1>1. PICK a \in Address(Field) : tok \in Spellings(a)
  BY SpelledIs
<1>2. NormalizeIpv6(tok) = Recommended(a)
  BY <1>1, NormalizeSpelling
<1> QED BY <1>2, RecommendedStays

LEMMA Ip6Kept ==
  ASSUME NEW h, WellSpelled(h), Normalized(h, 6) # Ip6(Invalid)
  PROVE  KeptHost(Normalized(h, 6), 6)
<1>1. h.k = "ip6" /\ Normalized(h, 6) = Ip6(NormalizeIpv6(h.tok))
  BY DEF Normalized
<1>2. NormalizeIpv6(NormalizeIpv6(h.tok)) = NormalizeIpv6(h.tok)
  BY <1>1, SpellingStays DEF WellSpelled
<1> QED BY <1>1, <1>2 DEF KeptHost, Ip6

LEMMA NameKept == ASSUME NEW h, h.k = "name" PROVE Normalized(h, 0) = Name(Lower(h.x))
BY DEF Normalized, LowerHost

\* What is kept of the host of a legal text.
LEMMA LegalHost ==
  ASSUME NEW t, IsText(t), Legal(t), ~BadVersion(t.host), HostOf(t) # NoHost, HostOf(t) # Ip6(Invalid)
  PROVE  KeptHost(HostOf(t), IpVersion(t))
<1>1. t.auth
  <2>1. CASE ~t.auth
    <3>1. t.host = NoHost /\ IpVersion(t) = -1
      BY <2>1 DEF IsText, Delimited, PathDelimited, IpVersion
    <3>2. HostOf(t) = NoHost
      BY <3>1 DEF HostOf, Normalized, LowerHost, NoHost
    <3> QED BY <3>2
  <2> QED BY <2>1
<1>2. CASE IsHost(t.host)
  <2>1. CASE t.host = NoHost
    <3>1. HostOf(t) = NoHost
      BY <1>1, <2>1 DEF HostOf, Normalized, LowerHost, NoHost, IpVersion
    <3> QED BY <3>1
  <2>2. CASE t.host \in [k : {"name", "ip4"}, x : STRING]
    <3>1. CASE t.host.k = "name"
      <4>1. IpVersion(t) = 0 /\ HostOf(t) = Name(Lower(t.host.x))
        BY <1>1, <3>1 DEF IpVersion, HostOf, Normalized, LowerHost
      <4> QED BY <4>1, LowerLower DEF KeptHost, Name
    <3>2. CASE t.host.k = "ip4"
      <4>1. IpVersion(t) = 4 /\ HostOf(t) = t.host
        BY <1>1, <3>2 DEF IpVersion, HostOf, Normalized
      <4> QED BY <4>1, <3>2 DEF KeptHost
    <3> QED BY <2>2, <3>1, <3>2
  <2>3. CASE t.host.k = "ip6"
    <3>1. IpVersion(t) = 6 /\ HostOf(t) = Normalized(t.host, 6)
      BY <1>1, <2>3 DEF IpVersion, HostOf
    <3> QED BY <3>1, Ip6Kept DEF Legal
  <2> QED BY <1>2, <2>1, <2>2, <2>3 DEF IsHost
<1>3. CASE IsFuture(t.host)
  <2> DEFINE h == t.host.h
  <2>0. t.host.k = "future" /\ t.host.v \in Seq(0..15)
    BY <1>3 DEF IsFuture
  <2>6. PICK v : t.host.v = <<v>>
    <3>1. Len(t.host.v) = 1
      BY <2>0 DEF BadVersion
    <3> QED BY <2>0, <3>1
  <2>1. IpVersion(t) = v /\ HostOf(t) = Normalized(h, v)
    <3>1. <<v>>[1] = v
      OBVIOUS
    <3>2. IpVersion(t) = v
      BY <1>1, <2>0, <2>6, <3>1 DEF IpVersion
    <3> QED BY <2>0, <3>2 DEF HostOf
  <2> HIDE DEF h
  <2>2. CASE v = 0
    <3>1. h.k = "name"
      BY <2>0, <2>2, <2>6 DEF Legal, h
    <3>2. HostOf(t) = Name(Lower(h.x))
      BY <2>1, <2>2, <3>1, NameKept
    <3> QED BY <2>1, <2>2, <3>2, LowerLower DEF KeptHost, Name
  <2>3. CASE v = 4
    <3>1. h.k = "ip4"
      <4>1. <<4>> # <<0>>
        OBVIOUS
      <4> QED BY <2>0, <2>3, <2>6, <4>1 DEF Legal, h
    <3>2. HostOf(t) = h
      BY <2>1, <2>3, <3>1 DEF Normalized
    <3> QED BY <2>1, <2>3, <3>1, <3>2 DEF KeptHost
  <2>4. CASE v = 6
    <3>1. WellSpelled(h)
      <4>1. <<6>> # <<0>> /\ <<6>> # <<4>>
        OBVIOUS
      <4> QED BY <2>0, <2>4, <2>6, <4>1 DEF Legal, h
    <3> QED BY <2>1, <2>4, <3>1, Ip6Kept
  <2>5. CASE v \notin {0, 4, 6}
    BY <2>1, <2>5 DEF KeptHost
  <2> QED BY <2>2, <2>3, <2>4, <2>5
<1> QED BY <1>2, <1>3 DEF IsText

\* What a text says of its path.
LEMMA TextPath == ASSUME NEW t, IsText(t) PROVE t.path \in Paths
<1>1. STRING \subseteq Segment
  BY DEF Segment
<1>2. Seq(STRING) \subseteq Seq(Segment)
  BY <1>1, SeqMonotonic
<1> QED BY <1>2 DEF IsText, Paths

\* parse_url: the parts of a legal text are normal.
LEMMA ParseNormal ==
  ASSUME NEW t, IsText(t), Legal(t), Parse(t) # ParseError
  PROVE  Normal(Parse(t))
<1>1. CASE t = EmptyText
  BY <1>1, EmptyNormal
<1>2. CASE t # EmptyText
  <2>1. t # Malformed
    BY Errors
  <2>0. t.host.k # "colon" /\ Parse(t) = ParseParts(t)
    <3>1. t.host.k # "colon"
      BY DEF IsText, Delimited
    <3> QED BY <1>2, <2>1, <3>1 DEF Parse, Reread
  <2>2. /\ ~BadVersion(t.host)
        /\ HostOf(t) # Ip6(Invalid) /\ (t.port = NoPort \/ IsUint(t.port, MaxPort))
    BY <2>0 DEF ParseParts
  <2>3. PICK p : p = Parse(t)
    OBVIOUS
  <2>4. p = [scheme |-> Lower(t.scheme), user |-> t.user, host |-> HostOf(t), ip |-> IpVersion(t),
             port |-> t.port, path |-> NormalizePath(t.path), query |-> t.query, frag |-> t.frag]
    BY <2>0, <2>2, <2>3 DEF ParseParts
  <2>5. NormalizePath(p.path) = p.path
    <3>1. t.path \in Paths
      BY TextPath
    <3> QED BY <2>4, <3>1, NormalizePathIs
  <2>6. Lower(p.scheme) = p.scheme
    BY <2>4, LowerLower
  <2>7. p.host # NoHost => KeptHost(p.host, p.ip)
    BY <2>2, <2>4, LegalHost
  <2>8. p = [scheme |-> p.scheme, user |-> p.user, host |-> p.host, ip |-> p.ip, port |-> p.port,
             path |-> p.path, query |-> p.query, frag |-> p.frag]
    BY <2>4
  <2> QED BY <2>2, <2>3, <2>4, <2>5, <2>6, <2>7, <2>8 DEF Normal
<1> QED BY <1>1, <1>2

\* The host that build_url writes is read again under its version.
LEMMA HostAgain ==
  ASSUME NEW p, NEW t, p.host # NoHost, KeptHost(p.host, p.ip), t.auth = TRUE, t.host = HostText(p)
  PROVE  /\ IpVersion(t) = p.ip /\ HostOf(t) = p.host
         /\ t.host.k # "colon" /\ ~BadVersion(t.host)
<1>1. CASE p.ip = 0
  <2>1. t.host = Name(Lower(p.host.x)) /\ t.host = p.host /\ t.host.k = "name"
    BY <1>1 DEF KeptHost, HostText, Name
  <2>2. IpVersion(t) = 0
    BY <2>1 DEF IpVersion
  <2>3. HostOf(t) = Normalized(p.host, 0)
    BY <2>1, <2>2 DEF HostOf
  <2>4. HostOf(t) = Name(Lower(p.host.x))
    <3>1. p.host.k = "name"
      BY <2>1
    <3> QED BY <2>3, <3>1, NameKept
  <2> QED BY <1>1, <2>1, <2>2, <2>4 DEF BadVersion
<1>2. CASE p.ip = 4
  <2>1. t.host = p.host /\ p.host.k = "ip4"
    BY <1>2 DEF KeptHost, HostText
  <2> QED BY <1>2, <2>1 DEF IpVersion, HostOf, Normalized, BadVersion
<1>3. CASE p.ip = 6
  <2>1. t.host = p.host /\ p.host = Ip6(NormalizeIpv6(p.host.tok)) /\ p.host.k = "ip6"
    BY <1>3 DEF KeptHost, HostText, Ip6
  <2>2. IpVersion(t) = 6
    BY <2>1 DEF IpVersion
  <2> QED BY <1>3, <2>1, <2>2 DEF HostOf, Normalized, BadVersion
<1>4. CASE p.ip \notin {0, 4, 6}
  <2>1. t.host = Future(<<p.ip>>, p.host)
    BY <1>4 DEF HostText
  <2>2. t.host.k = "future" /\ t.host.v = <<p.ip>> /\ t.host.h = p.host
    BY <2>1 DEF Future
  <2>3. Len(t.host.v) = 1 /\ t.host.v[1] = p.ip
    BY <2>2
  <2>4. IpVersion(t) = p.ip
    BY <2>2, <2>3 DEF IpVersion
  <2>5. HostOf(t) = p.host
    BY <1>4, <2>2, <2>4 DEF HostOf, Normalized
  <2> QED BY <2>2, <2>3, <2>4, <2>5 DEF BadVersion
<1> QED BY <1>1, <1>2, <1>3, <1>4

\* build_url, then parse_url.
LEMMA BuildAgain ==
  ASSUME NEW p, Normal(p), Build(p) # BuildError
  PROVE  Parse(Build(p)) = Rebuilt(p)
<1>1. ~Unbuildable(p)
  BY DEF Build
<1>2. PICK t : t = Build(p)
  OBVIOUS
<1>3. t = [scheme |-> p.scheme, auth |-> p.host # NoHost, user |-> p.user, host |-> HostText(p),
           port |-> BuiltPort(p), path |-> p.path, query |-> p.query, frag |-> p.frag]
  BY <1>1, <1>2 DEF Build
<1>4. t # Malformed
  BY <1>3 DEF Malformed
<1>5. p.host = NoHost => p.user = "" /\ p.port = NoPort
  BY <1>1 DEF Unbuildable
<1>6. Rebuilt(p) = [scheme |-> p.scheme, user |-> p.user, host |-> p.host,
                    ip |-> IF p.host = NoHost THEN -1 ELSE p.ip, port |-> BuiltPort(p),
                    path |-> p.path, query |-> p.query, frag |-> p.frag]
  BY RebuiltIs
<1>7. BuiltPort(p) = NoPort \/ IsUint(BuiltPort(p), MaxPort)
  BY DEF Normal, BuiltPort
<1>8. /\ HostOf(t) = p.host /\ IpVersion(t) = IF p.host = NoHost THEN -1 ELSE p.ip
      /\ t.host.k # "colon" /\ ~BadVersion(t.host)
  <2>1. CASE p.host = NoHost
    <3>1. t.auth = FALSE /\ t.host = NoHost
      BY <1>3, <2>1 DEF HostText
    <3>2. IpVersion(t) = -1
      BY <3>1 DEF IpVersion
    <3> QED BY <2>1, <3>1, <3>2 DEF HostOf, Normalized, NoHost, BadVersion
  <2>2. CASE p.host # NoHost
    <3>1. t.auth = TRUE /\ t.host = HostText(p) /\ KeptHost(p.host, p.ip)
      BY <1>3, <2>2 DEF Normal
    <3> QED BY <2>2, <3>1, HostAgain
  <2> QED BY <2>1, <2>2
<1>9. HostOf(t) # Ip6(Invalid)
  BY <1>8 DEF Normal, NoHost, Ip6
<1>10. CASE t = EmptyText
  <2>1. /\ p.scheme = "" /\ p.host = NoHost /\ p.user = "" /\ BuiltPort(p) = NoPort
        /\ p.path = NoPath /\ p.query = <<>> /\ p.frag = ""
    <3>1. /\ t.scheme = "" /\ t.auth = FALSE /\ t.user = "" /\ t.port = NoPort
          /\ t.path = NoPath /\ t.query = <<>> /\ t.frag = ""
      BY <1>10 DEF EmptyText
    <3>2. /\ t.scheme = p.scheme /\ t.auth = (p.host # NoHost) /\ t.user = p.user
          /\ t.port = BuiltPort(p) /\ t.path = p.path /\ t.query = p.query /\ t.frag = p.frag
      BY <1>3
    <3> QED BY <3>1, <3>2
  <2>2. Rebuilt(p) = Cleared
    BY <1>6, <2>1 DEF Cleared
  <2> QED BY <1>2, <1>10, <2>2 DEF Parse
<1>11. CASE t # EmptyText
  <2>1. Parse(t) = [scheme |-> Lower(t.scheme), user |-> t.user, host |-> HostOf(t),
                    ip |-> IpVersion(t), port |-> t.port, path |-> NormalizePath(t.path),
                    query |-> t.query, frag |-> t.frag]
    <3>1. Parse(t) = ParseParts(t)
      BY <1>4, <1>8, <1>11 DEF Parse, Reread
    <3>2. t.port = NoPort \/ IsUint(t.port, MaxPort)
      BY <1>3, <1>7
    <3> QED BY <1>8, <1>9, <3>1, <3>2 DEF ParseParts
  <2>2. /\ Lower(t.scheme) = p.scheme /\ NormalizePath(t.path) = p.path /\ t.user = p.user
        /\ t.port = BuiltPort(p) /\ t.query = p.query /\ t.frag = p.frag
    BY <1>3 DEF Normal
  <2> QED BY <1>2, <1>6, <1>8, <2>1, <2>2
<1> QED BY <1>10, <1>11

\* What has been built once is built the same again.
LEMMA RebuiltBuilds ==
  ASSUME NEW p, Normal(p), Build(p) # BuildError
  PROVE  Normal(Rebuilt(p)) /\ Build(Rebuilt(p)) = Build(p) /\ Rebuilt(p) # ParseError
<1>1. ~Unbuildable(p)
  BY DEF Build
<1>2. PICK q : q = Rebuilt(p)
  OBVIOUS
<1>3. q = [scheme |-> p.scheme, user |-> p.user, host |-> p.host,
           ip |-> IF p.host = NoHost THEN -1 ELSE p.ip, port |-> BuiltPort(p),
           path |-> p.path, query |-> p.query, frag |-> p.frag]
  BY <1>2, RebuiltIs
<1>4. BuiltPort(p) = NoPort \/ IsUint(BuiltPort(p), MaxPort)
  BY DEF Normal, BuiltPort
<1>5. Normal(q)
  BY <1>3, <1>4 DEF Normal
<1>6. ~Unbuildable(q)
  <2>1. p.port = NoPort => BuiltPort(p) = NoPort
    BY DEF BuiltPort
  <2> QED BY <1>1, <1>3, <2>1 DEF Unbuildable
<1>7. HostText(q) = HostText(p)
  BY <1>3 DEF HostText
<1>8. BuiltPort(q) = BuiltPort(p)
  <2>1. ~DefaultPort(p.scheme, NoPort)
    BY DEF DefaultPort, NoPort
  <2> QED BY <1>3, <2>1 DEF BuiltPort
<1>9. Build(q) = Build(p)
  BY <1>1, <1>3, <1>6, <1>7, <1>8 DEF Build
<1> QED BY <1>2, <1>3, <1>5, <1>9 DEF ParseError

----------------------------------------------------------------------------
(* The inductive invariant.  What a legal text has been taken apart to is  *)
(* normal, and the text is built from it: so it does not matter how often  *)
(* the URL is read.                                                        *)

Counted == written \in Written /\ trips \in 0..3
Unread == trips = 0 => text = written
ReadBack ==
  trips \in 1..2 /\ Legal(written) =>
    Normal(parts) /\ text = Build(parts) /\ Build(parts) # BuildError
AddressThere ==
  trips \in 1..2 /\ written.host.k = "ip6" /\ ~SpoiltZero(written.host.tok) =>
    \A a \in AddressOf(written.host.tok) : text.auth = TRUE /\ text.host = Ip6(Recommended(a))

StillText == text = Malformed \/ (PathDelimited(text) /\ text.path \in Paths)
HostBefore == Legal(written) => text = Malformed \/ text.host.k # "colon"

IInv == Counted /\ Unread /\ ReadBack /\ AddressThere /\ StillText /\ HostBefore

LEMMA InitInv == Init => IInv
<1> SUFFICES ASSUME Init
             PROVE  IInv
  OBVIOUS
<1>1. Counted /\ Unread /\ ReadBack /\ AddressThere
  BY DEF Init, Counted, Unread, ReadBack, AddressThere
<1>2. text = Malformed \/ IsText(text)
  BY RoundTripAssumption DEF Init
<1>3. StillText /\ HostBefore
  <2>1. IsText(text) => Delimited(text)
    BY DEF IsText
  <2>2. IsText(text) => text.path \in Paths
    BY TextPath
  <2> QED BY <1>2, <2>1, <2>2 DEF StillText, HostBefore, Delimited
<1> QED BY <1>1, <1>3 DEF IInv

LEMMA AddressOfIs ==
  ASSUME NEW tok, NEW a
  PROVE  a \in AddressOf(tok) <=> a \in Address(Field) /\ tok \in Spellings(a)
BY DEF AddressOf, SpellingsOf

\* A text with an address for its host, read and written: the host that
\* normalize_IPv6 makes of it.
LEMMA HostRewritten ==
  ASSUME NEW t, t.auth = TRUE, t.host.k = "ip6", Rewritten(t) \notin {ParseError, BuildError}
  PROVE  Rewritten(t).auth = TRUE /\ Rewritten(t).host = Ip6(NormalizeIpv6(t.host.tok))
<1>1. t # EmptyText
  <2>1. EmptyText.auth = FALSE
    BY DEF EmptyText
  <2> QED BY <2>1
<1>2. t # Malformed
  BY Errors DEF Rewritten
<1>3. IpVersion(t) = 6 /\ HostOf(t) = Ip6(NormalizeIpv6(t.host.tok))
  BY DEF IpVersion, HostOf, Normalized
<1>4. PICK p : p = Parse(t)
  OBVIOUS
<1>5. p # ParseError /\ Rewritten(t) = Build(p) /\ Build(p) # BuildError
  BY <1>4 DEF Rewritten
<1>6. p.host = Ip6(NormalizeIpv6(t.host.tok)) /\ p.ip = 6
  <2>1. p = ParseParts(t)
    BY <1>1, <1>2, <1>4 DEF Parse, Reread
  <2> QED BY <1>3, <1>5, <2>1 DEF ParseParts
<1>7. p.host # NoHost
  BY <1>6 DEF NoHost, Ip6
<1>8. HostText(p) = p.host
  BY <1>6 DEF HostText
<1>9. PICK u : u = Build(p)
  OBVIOUS
<1>10. u = [scheme |-> p.scheme, auth |-> p.host # NoHost, user |-> p.user, host |-> HostText(p),
            port |-> BuiltPort(p), path |-> p.path, query |-> p.query, frag |-> p.frag]
  BY <1>5, <1>9 DEF Build
<1>11. u.auth = TRUE /\ u.host = p.host
  BY <1>7, <1>8, <1>10
<1> QED BY <1>5, <1>6, <1>9, <1>11

LEMMA SetAndGetReadBack ==
  ASSUME IInv, SetAndGet
  PROVE  ReadBack'
<1> SUFFICES ASSUME Legal(written)
             PROVE  Normal(parts') /\ text' = Build(parts') /\ Build(parts') # BuildError
  BY DEF ReadBack, SetAndGet
<1>1. parts' = Parse(text) /\ Parse(text) # ParseError /\ text' = Build(Parse(text))
      /\ Build(Parse(text)) # BuildError
  BY DEF SetAndGet, Rewritten
<1>2. CASE trips = 0
  <2>1. text = written /\ text # Malformed
    BY <1>1, <1>2, Errors DEF IInv, Unread
  <2>2. IsText(text)
    BY <2>1, RoundTripAssumption DEF IInv, Counted
  <2> QED BY <1>1, <2>1, <2>2, ParseNormal
<1>3. CASE trips # 0
  <2>1. trips \in 1..2
    BY <1>3 DEF IInv, Counted, SetAndGet
  <2>2. Normal(parts) /\ text = Build(parts) /\ Build(parts) # BuildError
    BY <2>1 DEF IInv, ReadBack
  <2>3. Parse(text) = Rebuilt(parts)
    BY <2>2, BuildAgain
  <2> QED BY <1>1, <2>2, <2>3, RebuiltBuilds
<1> QED BY <1>2, <1>3

LEMMA SetAndGetAddress ==
  ASSUME IInv, SetAndGet
  PROVE  AddressThere'
<1> DEFINE tok == written.host.tok
<1> SUFFICES ASSUME written.host.k = "ip6", ~SpoiltZero(tok), NEW a \in AddressOf(tok)
             PROVE  text'.auth = TRUE /\ text'.host = Ip6(Recommended(a))
  BY DEF AddressThere, SetAndGet
<1>1. a \in Address(Field) /\ tok \in Spellings(a)
  BY AddressOfIs
<1>2. text' = Rewritten(text) /\ Rewritten(text) \notin {ParseError, BuildError}
  BY DEF SetAndGet
<1>3. CASE trips = 0
  <2>1. text = written /\ text # Malformed
    BY <1>2, <1>3, Errors DEF IInv, Unread, Rewritten
  <2>2. IsText(text)
    BY <2>1, RoundTripAssumption DEF IInv, Counted
  <2>3. text.auth = TRUE
    <3>1. text.auth \in BOOLEAN /\ (~text.auth => text.host = NoHost)
      BY <2>2 DEF IsText, Delimited, PathDelimited
    <3>2. text.host # NoHost
      BY <2>1 DEF NoHost
    <3> QED BY <3>1, <3>2
  <2>4. NormalizeIpv6(tok) = Recommended(a)
    BY <1>1, NormalizeSpelling
  <2> QED BY <1>2, <2>1, <2>3, <2>4, HostRewritten
<1>4. CASE trips # 0
  <2>1. trips \in 1..2
    BY <1>4 DEF IInv, Counted, SetAndGet
  <2>2. text.auth = TRUE /\ text.host = Ip6(Recommended(a))
    BY <2>1 DEF IInv, AddressThere
  <2>3. text.host.k = "ip6" /\ text.host.tok = Recommended(a)
    BY <2>2 DEF Ip6
  <2>4. NormalizeIpv6(Recommended(a)) = Recommended(a)
    BY <1>1, RecommendedStays
  <2> QED BY <1>2, <2>2, <2>3, <2>4, HostRewritten
<1> QED BY <1>3, <1>4

LEMMA StraightHead ==
  ASSUME NEW s, Straight(s)
  PROVE  s \in {<<>>, <<"">>} \/ (s # <<>> /\ Head(s) # "")
<1>1. CASE s \in Seq(Whole)
  <2>1. s # <<>> => Head(s) \in Whole
    BY <1>1, HeadTailProperties
  <2> QED BY <2>1 DEF Whole
<1>2. CASE \E w \in Seq(Whole) : s = Append(w, "")
  <2>1. PICK w \in Seq(Whole) : s = Append(w, "")
    BY <1>2
  <2>2. w \in Seq(Segment)
    BY WholeSegments
  <2>3. CASE w = <<>>
    <3>1. <<"">> = Append(<<>>, "") /\ <<>> \in Seq(Segment)
      OBVIOUS
    <3> QED BY <2>1, <2>3, <3>1
  <2>4. CASE w # <<>>
    <3>1. Len(w) \in Nat \ {0} /\ w[1] \in Whole
      BY <2>4
    <3>2. Len(s) = Len(w) + 1 /\ s[1] = w[1] /\ s \in Seq(Segment)
      <4>1. PICK e \in Segment : e = ""
        BY WholeSegments
      <4>2. s = Append(w, e)
        BY <2>1, <4>1
      <4>3. Append(w, e) \in Seq(Segment) /\ Len(Append(w, e)) = Len(w) + 1
            /\ \A i \in 1..Len(w) : Append(w, e)[i] = w[i]
        BY <2>2, AppendProperties
      <4>4. 1 \in 1..Len(w)
        BY <3>1
      <4> QED BY <4>2, <4>3, <4>4
    <3>3. s # <<>> /\ Head(s) = s[1]
      BY <3>1, <3>2
    <3> QED BY <3>1, <3>2, <3>3 DEF Whole
  <2> QED BY <2>3, <2>4
<1> QED BY <1>1, <1>2 DEF Straight

\* normalize_path: a path that can be written stays one, and does not begin
\* with two slashes.
LEMMA NormalDelimited ==
  ASSUME NEW p \in Paths, IsPath(p)
  PROVE  IsPath(NormalizePath(p)) /\ NormalizePath(p) \in Paths
         /\ (p.segs # <<>> => ~TwoSlashes(NormalizePath(p)))
<1>1. PICK q : q = NormalizePath(p)
  OBVIOUS
<1>2. /\ q \in Paths
      /\ \/ p.segs = <<>> /\ q = p
         \/ q \in {RootPath, NoPath} /\ (q = RootPath <=> p.abs)
         \/ Straight(q.segs) /\ q.segs \notin {<<>>, <<"">>} /\ q.abs = p.abs
  BY <1>1, NormalizePathIs
<1>3. CASE p.segs = <<>> /\ q = p
  BY <1>1, <1>2, <1>3
<1>4. CASE q \in {RootPath, NoPath}
  <2>1. RootPath.abs = TRUE /\ RootPath.segs # <<>> /\ Len(RootPath.segs) = 1
    <3>1. \A x : <<x>> # <<>> /\ Len(<<x>>) = 1
      OBVIOUS
    <3> QED BY <3>1 DEF RootPath, Path
  <2>2. NoPath.abs = FALSE /\ NoPath.segs = <<>>
    BY DEF NoPath, Path
  <2>3. IsPath(RootPath)
    BY <2>1 DEF IsPath
  <2>5. ~TwoSlashes(RootPath)
    BY <2>1 DEF TwoSlashes
  <2>4. IsPath(NoPath) /\ ~TwoSlashes(NoPath)
    BY <2>2 DEF IsPath, TwoSlashes
  <2> QED BY <1>1, <1>2, <1>4, <2>3, <2>4, <2>5
<1>5. CASE Straight(q.segs) /\ q.segs \notin {<<>>, <<"">>}
  <2>1. q.segs # <<>> /\ Head(q.segs) # ""
    BY <1>5, StraightHead
  <2> QED BY <1>1, <1>2, <2>1 DEF IsPath, TwoSlashes
<1> QED BY <1>2, <1>3, <1>4, <1>5

LEMMA SetAndGetText ==
  ASSUME IInv, SetAndGet
  PROVE  StillText'
<1>1. PICK p, t : p = Parse(text) /\ t = Build(p)
  OBVIOUS
<1>2. p # ParseError /\ t # BuildError /\ text' = t
  BY <1>1 DEF SetAndGet, Rewritten
<1>3. text # Malformed /\ PathDelimited(text) /\ text.path \in Paths
  BY <1>1, <1>2, Errors DEF IInv, StillText
<1>4. ~Unbuildable(p)
  BY <1>1, <1>2 DEF Build
<1>5. t = [scheme |-> p.scheme, auth |-> p.host # NoHost, user |-> p.user, host |-> HostText(p),
           port |-> BuiltPort(p), path |-> p.path, query |-> p.query, frag |-> p.frag]
  BY <1>1, <1>4 DEF Build
<1>6. p.path \in Paths /\ IsPath(p.path) /\ ~TwoSlashes(p.path)
  <2>1. CASE text = EmptyText
    <3>1. p.path = NoPath
      <4>1. p = Cleared /\ Cleared.path = NoPath
        BY <1>1, <2>1, EmptyNormal DEF Cleared
      <4> QED BY <4>1
    <3>2. NoPath \in Paths
      <4>1. <<>> \in Seq(Segment)
        OBVIOUS
      <4> QED BY <4>1 DEF NoPath, Path, Paths
    <3> QED BY <3>1, <3>2 DEF NoPath, Path, IsPath, TwoSlashes
  <2>2. CASE text # EmptyText
    <3>1. p.path = NormalizePath(text.path)
      <4>1. p = ParseParts(Reread(text)) /\ Reread(text).path = text.path
        BY <1>1, <1>3, <2>2 DEF Parse, Reread
      <4> QED BY <1>2, <4>1 DEF ParseParts
    <3>2. p.path \in Paths /\ IsPath(p.path) /\ (text.path.segs # <<>> => ~TwoSlashes(p.path))
      BY <1>3, <3>1, NormalDelimited DEF PathDelimited
    <3>3. text.path.segs = <<>> => p.path = text.path
      BY <3>1 DEF NormalizePath
    <3>4. CASE text.path.segs = <<>>
      <4>1. Len(p.path.segs) = 0
        BY <3>3, <3>4
      <4> QED BY <3>2, <4>1 DEF TwoSlashes
    <3> QED BY <3>2, <3>4
  <2> QED BY <2>1, <2>2
<1>7. CASE p.host = NoHost
  <2>1. t.auth = FALSE /\ t.host = NoHost /\ t.user = "" /\ t.port = NoPort /\ t.path = p.path
    BY <1>4, <1>5, <1>7 DEF Unbuildable, HostText, BuiltPort
  <2>2. ~ColonFirst(p.path)
    BY <1>4, <1>7 DEF Unbuildable
  <2>3. PathDelimited(t)
    BY <1>6, <2>1, <2>2 DEF PathDelimited
  <2> QED BY <1>2, <1>6, <2>1, <2>3 DEF StillText
<1>8. CASE p.host # NoHost
  <2>1. t.auth = TRUE /\ t.path = p.path
    BY <1>5, <1>8
  <2>2. p.path.abs \/ p.path = NoPath
    BY <1>4, <1>8 DEF Unbuildable
  <2>3. PathDelimited(t)
    BY <1>6, <2>1, <2>2 DEF PathDelimited
  <2> QED BY <1>2, <1>6, <2>1, <2>3 DEF StillText
<1> QED BY <1>7, <1>8

\* The host of normal parts is written so that no colon of it is taken for the
\* one before the port.
LEMMA SetAndGetHost ==
  ASSUME IInv, SetAndGet
  PROVE  HostBefore'
<1> SUFFICES ASSUME Legal(written)
             PROVE  text'.host.k # "colon"
  BY DEF HostBefore, SetAndGet
<1>1. trips' \in 1..2 /\ written' = written
  BY DEF IInv, Counted, SetAndGet
<1>2. PICK p, t : p = parts' /\ t = text' /\ Normal(p) /\ t = Build(p) /\ Build(p) # BuildError
  BY <1>1, SetAndGetReadBack DEF ReadBack
<1>3. t.host = HostText(p)
  BY <1>2 DEF Build
<1>4. CASE p.host = NoHost
  BY <1>2, <1>3, <1>4 DEF HostText, NoHost
<1>5. CASE p.host # NoHost
  <2>1. KeptHost(p.host, p.ip)
    BY <1>2, <1>5 DEF Normal
  <2>2. CASE p.ip = 0
    BY <1>2, <1>3, <2>1, <2>2 DEF KeptHost, HostText, Name
  <2>3. CASE p.ip = 4
    BY <1>2, <1>3, <2>1, <2>3 DEF KeptHost, HostText
  <2>4. CASE p.ip = 6
    BY <1>2, <1>3, <2>1, <2>4 DEF KeptHost, HostText, Ip6
  <2>5. CASE p.ip \notin {0, 4, 6}
    BY <1>2, <1>3, <1>5, <2>5 DEF HostText, Future
  <2> QED BY <2>2, <2>3, <2>4, <2>5
<1> QED BY <1>4, <1>5

LEMMA NextInv == IInv /\ [Next]_vars => IInv'
<1> SUFFICES ASSUME IInv, [Next]_vars
             PROVE  IInv'
  OBVIOUS
<1>1. CASE SetAndGet
  <2>1. Counted' /\ Unread'
    BY <1>1 DEF IInv, Counted, Unread, SetAndGet
  <2> QED BY <1>1, <2>1, SetAndGetReadBack, SetAndGetAddress, SetAndGetText, SetAndGetHost DEF IInv
<1>2. CASE Thrown
  BY <1>2 DEF IInv, Counted, Unread, ReadBack, AddressThere, StillText, HostBefore, Thrown
<1>3. CASE UNCHANGED vars
  BY <1>3 DEF IInv, Counted, Unread, ReadBack, AddressThere, StillText, HostBefore, vars
<1> QED BY <1>1, <1>2, <1>3 DEF Next

LEMMA AlwaysInv == Spec => []IInv
BY InitInv, NextInv, PTL DEF Spec

----------------------------------------------------------------------------
(* The theorems. *)

\* url.cpp parse_url and build_url, for every text whose host is no misspelt
\* address: what build_url writes is taken apart to the parts it was built
\* from, but for a default port and for the version of a host that is empty.
THEOREM UrlComesBack == Spec => []RoundTrip
<1>1. IInv => RoundTrip
  BY BuildAgain DEF IInv, ReadBack, RoundTrip
<1> QED BY <1>1, AlwaysInv, PTL

\* normalize_IPv6, for every address and each of its spellings: what comes back
\* is the spelling RFC 5952 recommends for that address, however often the text
\* is read.
THEOREM AddressAlwaysKept == Spec => []AddressKept
<1>1. IInv => AddressKept
  BY DEF IInv, AddressThere, AddressKept
<1> QED BY <1>1, AlwaysInv, PTL

\* is_valid_ipv6, for every text: it accepts the spellings of addresses and
\* nothing else, but for a double colon that stands for nothing, which it lets
\* pass, and spellings with an IPv4 address that have more than 39 characters,
\* which it refuses; without one, every spelling is short enough.
THEOREM ValidAlwaysExact == Spec => []ValidExactly
<1>1. IInv => ValidExactly
  <2> SUFFICES ASSUME IInv, trips = 0, text # Malformed, text.host.k = "ip6",
                      ~SixAndTail(text.host.tok)
               PROVE  IsValidIpv6(text.host.tok) <=>
                        /\ text.host.tok \in Spelled
                        /\ HasTail(text.host.tok) => TextLength(text.host.tok) <= 39
    BY DEF ValidExactly
  <2>1. IsText(text)
    BY RoundTripAssumption DEF IInv, Counted, Unread
  <2>2. IsLiteral(text.host.tok)
    <3>1. IsHost(text.host)
      <4>1. ~IsFuture(text.host)
        BY DEF IsFuture
      <4> QED BY <2>1, <4>1 DEF IsText
    <3>2. text.host # NoHost /\ text.host \notin [k : {"name", "ip4"}, x : STRING]
      BY DEF NoHost
    <3> QED BY <3>1, <3>2 DEF IsHost
  <2>3. PICK tok : tok = text.host.tok
    OBVIOUS
  <2>4. IsValidIpv6(tok) => tok \in Spelled /\ TextLength(tok) <= 39
    BY <2>2, <2>3, ValidSpelled DEF IsValidIpv6
  <2>5. tok \in Spelled /\ (HasTail(tok) => TextLength(tok) <= 39) => IsValidIpv6(tok)
    BY SpelledValid
  <2> QED BY <2>3, <2>4, <2>5
<1> QED BY <1>1, AlwaysInv, PTL

\* SetURL and GetURL of the WebSocket natives: a legal URL that has been read
\* once is its own text from then on.
THEOREM AlwaysSettles == Spec => Settles
<1>1. IInv /\ [Next]_vars => [trips = 1 /\ trips' = 2 /\ Legal(written) => text' = text]_vars
  <2> SUFFICES ASSUME IInv, Next, trips = 1, trips' = 2, Legal(written)
               PROVE  text' = text
    OBVIOUS
  <2>1. SetAndGet
    BY DEF Next, Thrown
  <2>2. Normal(parts) /\ text = Build(parts) /\ Build(parts) # BuildError
    BY DEF IInv, ReadBack
  <2>3. Parse(text) = Rebuilt(parts)
    BY <2>2, BuildAgain
  <2>4. text' = Build(Rebuilt(parts))
    BY <2>1, <2>3 DEF SetAndGet, Rewritten
  <2> QED BY <2>2, <2>4, RebuiltBuilds
<1> QED BY <1>1, AlwaysInv, PTL DEF Spec, Settles

\* build_url with normalize_path: in what it writes of a legal text no part can
\* be taken for another.  The host has no colon outside brackets; a path without
\* a host does not begin with two slashes, nor, without a scheme, with a segment
\* that has a colon.
THEOREM StaysDelimited == Spec => [](Legal(written) /\ text # Malformed => Delimited(text))
<1>1. IInv => (Legal(written) /\ text # Malformed => Delimited(text))
  BY DEF IInv, StillText, HostBefore, Delimited
<1> QED BY <1>1, AlwaysInv, PTL
============================================================================
