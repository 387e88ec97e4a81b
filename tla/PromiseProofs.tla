--------------------------- MODULE PromiseProofs ---------------------------
(***************************************************************************)
(* The client keeps its promise: Asio2Client implements ClientPromise.     *)
(***************************************************************************)
EXTENDS ClientSafety, WellFoundedInduction

----------------------------------------------------------------------------
(* Sequences joined. *)

\* Induction over the natural numbers.
LEMMA SetInduction ==
  ASSUME NEW T, T \subseteq Nat, 0 \in T, \A n \in T : n + 1 \in T
  PROVE  T = Nat
<1> DEFINE R == OpToRel(<, Nat)
<1> DEFINE U == Nat \ T
<1>1. IsWellFoundedOn(R, Nat)
  BY NatLessThanWellFounded
<1>2. SUFFICES ASSUME U # {} PROVE FALSE
  OBVIOUS
<1>3. PICK x \in U : \A y \in U : ~(<<y, x>> \in R)
  <2> HIDE DEF R, U
  <2>1. U \subseteq Nat BY DEF U
  <2> QED BY <1>1, <1>2, <2>1, WFMin
<1>4. x # 0 /\ x - 1 \in Nat /\ x - 1 \notin T
  <2>1. x # 0 OBVIOUS
  <2>2. x - 1 \in Nat BY <2>1
  <2> QED BY <2>1, <2>2
<1>5. <<x - 1, x>> \in R
  BY <1>4 DEF OpToRel
<1> QED BY <1>3, <1>4, <1>5

\* CallsAlong builds a function along the sequence: f[i] has what F gives for the
\* first i elements, joined.
JoinAt(f, F, s, i) == IF i = 0 THEN <<>> ELSE f[i-1] \o F[s[i]]
Joins(f, F, s, n) == f = [i \in 0..n |-> JoinAt(f, F, s, i)]
Gather(F, s) == (CHOOSE f : Joins(f, F, s, Len(s)))[Len(s)]
Lists(F, S, T) == F \in [S -> Seq(T)]

\* There is such a function, ...
LEMMA JoinExists == ASSUME NEW F, NEW s, NEW n \in Nat PROVE \E f : Joins(f, F, s, n)
<1> DEFINE T == {k \in Nat : \E f : Joins(f, F, s, k)}
<1>1. 0 \in T
  <2> DEFINE e == [i \in 0..0 |-> <<>>]
  <2>1. e = [i \in 0..0 |-> JoinAt(e, F, s, i)]
    BY DEF JoinAt
  <2> HIDE DEF e
  <2>2. Joins(e, F, s, 0)
    BY <2>1 DEF Joins
  <2> QED BY <2>2
<1>2. ASSUME NEW k \in T PROVE k + 1 \in T
  <2>1. PICK f : Joins(f, F, s, k)
    OBVIOUS
  <2> DEFINE g == [i \in 0..k + 1 |-> IF i <= k THEN f[i] ELSE JoinAt(f, F, s, i)]
  <2>2. \A i \in 0..k + 1 : g[i] = JoinAt(g, F, s, i)
    <3>1. ASSUME NEW i \in 0..k + 1, i <= k PROVE g[i] = JoinAt(g, F, s, i)
      <4>1. i \in 0..k /\ g[i] = f[i] /\ (i # 0 => i - 1 \in 0..k /\ g[i-1] = f[i-1])
        BY <3>1
      <4>2. f[i] = JoinAt(f, F, s, i)
        BY <2>1, <4>1 DEF Joins
      <4> QED BY <4>1, <4>2 DEF JoinAt
    <3>2. g[k + 1] = JoinAt(g, F, s, k + 1)
      <4>1. k + 1 \in 0..k + 1 /\ ~(k + 1 <= k) /\ g[k] = f[k] /\ (k + 1) - 1 = k
        OBVIOUS
      <4>2. g[k + 1] = JoinAt(f, F, s, k + 1)
        BY <4>1
      <4> QED BY <4>1, <4>2 DEF JoinAt
    <3> QED BY <3>1, <3>2
  <2>3. g = [i \in 0..k + 1 |-> JoinAt(g, F, s, i)]
    BY <2>2
  <2> HIDE DEF g
  <2>4. Joins(g, F, s, k + 1)
    BY <2>3 DEF Joins
  <2> QED BY <2>4
<1>3. T = Nat
  <2> HIDE DEF T
  <2>1. T \subseteq Nat BY DEF T
  <2> QED BY <1>1, <1>2, <2>1, SetInduction
<1> QED BY <1>3

\* ... it grows with the sequence, and it is the only one.
LEMMA JoinGrows ==
  ASSUME NEW F, NEW s, NEW t, NEW n \in Nat, NEW m \in Nat, NEW f, NEW g, n <= m,
         Joins(f, F, s, n), Joins(g, F, t, m), \A i \in 1..n : s[i] = t[i]
  PROVE  f[n] = g[n]
<1> DEFINE T == {j \in Nat : j <= n => f[j] = g[j]}
<1>1. \A i \in 0..n : f[i] = JoinAt(f, F, s, i)
  BY DEF Joins
<1>2. \A i \in 0..m : g[i] = JoinAt(g, F, t, i)
  BY DEF Joins
<1>3. 0 \in T
  <2>1. f[0] = JoinAt(f, F, s, 0) /\ g[0] = JoinAt(g, F, t, 0)
    BY <1>1, <1>2
  <2> QED BY <2>1 DEF JoinAt
<1>4. ASSUME NEW j \in T, j + 1 <= n PROVE f[j + 1] = g[j + 1]
  <2>1. f[j] = g[j] /\ (j + 1) - 1 = j /\ j + 1 # 0
    BY <1>4
  <2>2. j + 1 \in 0..n /\ j + 1 \in 0..m /\ s[j + 1] = t[j + 1]
    BY <1>4
  <2>3. f[j + 1] = JoinAt(f, F, s, j + 1) /\ g[j + 1] = JoinAt(g, F, t, j + 1)
    BY <1>1, <1>2, <2>2
  <2> QED BY <2>1, <2>2, <2>3 DEF JoinAt
<1>5. T = Nat
  <2>1. \A j \in T : j + 1 \in T
    BY <1>4
  <2>2. T \subseteq Nat
    OBVIOUS
  <2> HIDE DEF T
  <2> QED BY <1>3, <2>1, <2>2, SetInduction
<1>6. n \in T
  BY <1>5
<1> QED BY <1>6

LEMMA GatherIs ==
  ASSUME NEW F, NEW s, Len(s) \in Nat
  PROVE  \E f : Joins(f, F, s, Len(s)) /\ Gather(F, s) = f[Len(s)]
<1>1. \E f : Joins(f, F, s, Len(s))
  BY JoinExists
<1>2. Joins(CHOOSE f : Joins(f, F, s, Len(s)), F, s, Len(s))
  BY <1>1
<1> QED BY <1>2 DEF Gather

LEMMA GatherOnce ==
  ASSUME NEW F, NEW s, NEW f, Len(s) \in Nat, Joins(f, F, s, Len(s))
  PROVE  Gather(F, s) = f[Len(s)]
<1> DEFINE n == Len(s)
<1>1. PICK g : Joins(g, F, s, n) /\ Gather(F, s) = g[n]
  BY GatherIs
<1>2. n \in Nat /\ n <= n
  OBVIOUS
<1> HIDE DEF n
<1>3. f[n] = g[n]
  <2>1. Joins(f, F, s, n)
    BY DEF n
  <2> QED BY <1>1, <1>2, <2>1, JoinGrows
<1> QED BY <1>1, <1>3 DEF n

LEMMA GatherEmpty == ASSUME NEW F PROVE Gather(F, <<>>) = <<>>
<1> DEFINE s == <<>>
<1>1. Len(s) = 0
  OBVIOUS
<1> HIDE DEF s
<1>2. PICK f : Joins(f, F, s, Len(s)) /\ Gather(F, s) = f[Len(s)]
  BY <1>1, GatherIs
<1>3. f[0] = JoinAt(f, F, s, 0)
  BY <1>1, <1>2 DEF Joins
<1>4. Gather(F, s) = <<>>
  BY <1>1, <1>2, <1>3 DEF JoinAt
<1> QED BY <1>4 DEF s

LEMMA GatherAppend ==
  ASSUME NEW S, NEW F, NEW s \in Seq(S), NEW x \in S
  PROVE  Gather(F, Append(s, x)) = Gather(F, s) \o F[x]
<1> DEFINE n == Len(s)
           t == Append(s, x)
<1>1. n \in Nat /\ Len(t) = n + 1 /\ t[n + 1] = x /\ \A i \in 1..n : s[i] = t[i]
  OBVIOUS
<1> HIDE DEF n, t
<1>2. PICK f : Joins(f, F, s, n) /\ Gather(F, s) = f[n]
  BY <1>1, GatherIs DEF n
<1>3. PICK g : Joins(g, F, t, n + 1) /\ Gather(F, t) = g[n + 1]
  BY <1>1, GatherIs
<1>4. f[n] = g[n]
  <2>1. n \in Nat /\ n + 1 \in Nat /\ n <= n + 1 /\ \A i \in 1..n : s[i] = t[i]
    BY <1>1
  <2>2. Joins(f, F, s, n) /\ Joins(g, F, t, n + 1)
    BY <1>2, <1>3
  <2> QED BY <2>1, <2>2, JoinGrows
<1>5. g[n + 1] = JoinAt(g, F, t, n + 1)
  BY <1>1, <1>3 DEF Joins
<1>6. n + 1 # 0 /\ (n + 1) - 1 = n
  BY <1>1
<1> QED BY <1>1, <1>2, <1>3, <1>4, <1>5, <1>6 DEF JoinAt, t

\* A sequence is empty or something was appended to a shorter one.
LEMMA Shorter ==
  ASSUME NEW S, NEW s \in Seq(S), NEW k \in Nat, Len(s) = k + 1
  PROVE  \E v \in Seq(S), x \in S : Len(v) = k /\ s = Append(v, x)
<1> DEFINE v == SubSeq(s, 1, k)
<1>1. v \in Seq(S) /\ Len(v) = k /\ s[k + 1] \in S /\ s = Append(v, s[k + 1])
  OBVIOUS
<1> HIDE DEF v
<1> QED BY <1>1

LEMMA GatherType ==
  ASSUME NEW S, NEW T, NEW F, Lists(F, S, T), NEW s \in Seq(S)
  PROVE  Gather(F, s) \in Seq(T)
<1> DEFINE K == {k \in Nat : \A u \in Seq(S) : Len(u) = k => Gather(F, u) \in Seq(T)}
<1>1. 0 \in K
  <2>1. ASSUME NEW u \in Seq(S), Len(u) = 0 PROVE Gather(F, u) \in Seq(T)
    <3>1. u = <<>> /\ <<>> \in Seq(T)
      BY <2>1
    <3> QED BY <3>1, GatherEmpty
  <2> QED BY <2>1
<1>2. ASSUME NEW k \in K PROVE k + 1 \in K
  <2>1. ASSUME NEW u \in Seq(S), Len(u) = k + 1 PROVE Gather(F, u) \in Seq(T)
    <3> k \in Nat
      OBVIOUS
    <3> HIDE DEF K
    <3>1. PICK v \in Seq(S), x \in S : Len(v) = k /\ u = Append(v, x)
      BY <2>1, Shorter
    <3>2. Gather(F, v) \in Seq(T) /\ F[x] \in Seq(T)
      BY <1>2, <3>1 DEF Lists, K
    <3> DEFINE a == Gather(F, v)
    <3>3. a \o F[x] \in Seq(T)
      BY <3>2, ConcatProperties
    <3> QED BY <3>1, <3>3, GatherAppend
  <2> QED BY <2>1
<1>3. K = Nat
  <2>1. K \subseteq Nat
    OBVIOUS
  <2> HIDE DEF K
  <2> QED BY <1>1, <1>2, <2>1, SetInduction
<1>4. Len(s) \in K
  BY <1>3
<1> QED BY <1>4

LEMMA GatherConcat ==
  ASSUME NEW S, NEW T, NEW F, Lists(F, S, T), NEW s \in Seq(S), NEW t \in Seq(S)
  PROVE  Gather(F, s \o t) = Gather(F, s) \o Gather(F, t)
<1> DEFINE P(u) == Gather(F, s \o u) = Gather(F, s) \o Gather(F, u)
           K == {k \in Nat : \A u \in Seq(S) : Len(u) = k => P(u)}
<1>1. 0 \in K
  <2>1. ASSUME NEW u \in Seq(S), Len(u) = 0 PROVE P(u)
    <3>1. u = <<>> /\ s \o <<>> = s
      BY <2>1
    <3>2. Gather(F, s) \o <<>> = Gather(F, s)
      BY GatherType
    <3> QED BY <3>1, <3>2, GatherEmpty
  <2> QED BY <2>1
<1>2. ASSUME NEW k \in K PROVE k + 1 \in K
  <2>1. ASSUME NEW u \in Seq(S), Len(u) = k + 1 PROVE P(u)
    <3> k \in Nat
      OBVIOUS
    <3> HIDE DEF K
    <3>1. PICK v \in Seq(S), x \in S : Len(v) = k /\ u = Append(v, x)
      BY <2>1, Shorter, SMTT(30)
    <3>2. P(v)
      BY <1>2, <3>1 DEF K
    <3>3. s \o u = Append(s \o v, x) /\ s \o v \in Seq(S)
      BY <3>1
    <3>4. Gather(F, s \o u) = Gather(F, s \o v) \o F[x]
      BY <3>3, GatherAppend
    <3>5. Gather(F, u) = Gather(F, v) \o F[x]
      BY <3>1, GatherAppend
    <3>6. Gather(F, s) \in Seq(T) /\ Gather(F, v) \in Seq(T) /\ F[x] \in Seq(T)
      BY <3>1, GatherType DEF Lists
    <3> DEFINE a == Gather(F, s)
               b == Gather(F, v)
               c == F[x]
    <3>7. a \in Seq(T) /\ b \in Seq(T) /\ c \in Seq(T)
      BY <3>6
    <3>8. Gather(F, s \o u) = (a \o b) \o c /\ Gather(F, s) \o Gather(F, u) = a \o (b \o c)
      BY <3>2, <3>4, <3>5
    <3> HIDE DEF a, b, c
    <3>9. (a \o b) \o c = a \o (b \o c)
      BY <3>7
    <3> QED BY <3>8, <3>9
  <2> QED BY <2>1
<1>3. K = Nat
  <2>1. K \subseteq Nat
    OBVIOUS
  <2> HIDE DEF K
  <2> QED BY <1>1, <1>2, <2>1, SetInduction
<1>4. Len(t) \in K
  BY <1>3
<1> QED BY <1>4

LEMMA GatherOne ==
  ASSUME NEW S, NEW T, NEW F, Lists(F, S, T), NEW x \in S
  PROVE  Gather(F, <<x>>) = F[x] /\ Gather(F, <<>>) = <<>>
<1>1. <<x>> = Append(<<>>, x) /\ <<>> \in Seq(S)
  OBVIOUS
<1>2. F[x] \in Seq(T)
  BY DEF Lists
<1>3. <<>> \o F[x] = F[x]
  BY <1>2
<1> QED BY <1>1, <1>3, GatherAppend, GatherEmpty

LEMMA GatherNone ==
  ASSUME NEW S, NEW T, NEW F, Lists(F, S, T), NEW s \in Seq(S), \A i \in 1..Len(s) : F[s[i]] = <<>>
  PROVE  Gather(F, s) = <<>>
<1> DEFINE R == {y \in S : F[y] = <<>>}
           K == {k \in Nat : \A u \in Seq(R) : Len(u) = k => Gather(F, u) = <<>>}
<1>1. s \in Seq(R)
  OBVIOUS
<1>2. 0 \in K
  <2>1. ASSUME NEW u \in Seq(R), Len(u) = 0 PROVE Gather(F, u) = <<>>
    <3>1. u = <<>>
      BY <2>1
    <3> QED BY <3>1, GatherEmpty
  <2> QED BY <2>1
<1>3. ASSUME NEW k \in K PROVE k + 1 \in K
  <2>1. ASSUME NEW u \in Seq(R), Len(u) = k + 1 PROVE Gather(F, u) = <<>>
    <3> k \in Nat
      OBVIOUS
    <3> HIDE DEF K
    <3>1. PICK v \in Seq(R), x \in R : Len(v) = k /\ u = Append(v, x)
      BY <2>1, Shorter
    <3>2. Gather(F, v) = <<>> /\ F[x] = <<>>
      BY <1>3, <3>1 DEF K
    <3>3. Gather(F, u) = Gather(F, v) \o F[x]
      BY <3>1, GatherAppend
    <3> QED BY <3>2, <3>3
  <2> QED BY <2>1
<1>4. K = Nat
  <2>1. K \subseteq Nat
    OBVIOUS
  <2> HIDE DEF K
  <2> QED BY <1>2, <1>3, <2>1, SetInduction
<1>5. Len(s) \in K
  BY <1>4
<1> HIDE DEF R
<1> QED BY <1>1, <1>5

LEMMA GatherFirst ==
  ASSUME NEW S, NEW T, NEW F, Lists(F, S, T), NEW s \in Seq(S), s # <<>>
  PROVE  Gather(F, s) = F[Head(s)] \o Gather(F, Tail(s))
<1>1. \A u \in Seq(S), v \in Seq(S) : Gather(F, u \o v) = Gather(F, u) \o Gather(F, v)
  BY GatherConcat
<1>2. /\ Head(s) \in S /\ <<Head(s)>> \in Seq(S) /\ Tail(s) \in Seq(S)
      /\ s = <<Head(s)>> \o Tail(s)
  OBVIOUS
<1>3. Gather(F, <<Head(s)>>) = F[Head(s)]
  BY <1>2, GatherOne
<1> QED BY <1>1, <1>2, <1>3

LEMMA GatherLast ==
  ASSUME NEW S, NEW T, NEW F, Lists(F, S, T), NEW s \in Seq(S), NEW x \in S
  PROVE  Gather(F, Append(s, x)) = Gather(F, s) \o F[x]
BY GatherAppend

----------------------------------------------------------------------------
(* The calls that are on their way. *)

\* The calls among the events of W and the handlers of q.
EventCall   == [ev \in Event |-> CallOf(ev)]
HandlerCall == [hd \in Handler |-> CallBy(hd)]
CallsOf(W, q) == Gather(EventCall, W) \o Gather(HandlerCall, q)

LEMMA CallKinds ==
  /\ Lists(EventCall, Event, Promise!Call) /\ Lists(HandlerCall, Handler, Promise!Call)
  /\ \A ev \in Event : ev.e \notin {"connect", "stop"} => EventCall[ev] = <<>>
  /\ \A hd \in Handler : hd.h # "push" => HandlerCall[hd] = <<>>
  /\ \A hd \in Handler : hd.h = "push" => HandlerCall[hd] = EventCall[hd.ev]
<1>1. ASSUME NEW ev \in Event PROVE CallOf(ev) \in Seq(Promise!Call) /\ (ev.e \notin {"connect", "stop"} => CallOf(ev) = <<>>)
  <2>1. CASE ev.e = "connect"
    <3>1. ev.to \in 1..MaxStarts
      BY <2>1, EventKinds
    <3>2. [call |-> "start", to |-> ev.to] \in Promise!Call
      BY <3>1 DEF Promise!Call
    <3> QED BY <2>1, <3>2 DEF CallOf
  <2>2. CASE ev.e = "stop"
    <3>1. [call |-> "stop"] \in Promise!Call
      BY DEF Promise!Call
    <3> QED BY <2>2, <3>1 DEF CallOf
  <2>3. CASE ev.e \notin {"connect", "stop"}
    BY <2>3 DEF CallOf
  <2> QED BY <2>1, <2>2, <2>3
<1>2. ASSUME NEW hd \in Handler
      PROVE  /\ CallBy(hd) \in Seq(Promise!Call)
             /\ hd.h # "push" => CallBy(hd) = <<>>
             /\ hd.h = "push" => hd.ev \in Event /\ CallBy(hd) = CallOf(hd.ev)
  BY <1>1, HandlerKinds DEF CallBy
<1> QED BY <1>1, <1>2 DEF EventCall, HandlerCall, Lists

LEMMA EventCalls ==
  ASSUME NEW W \in Seq(Event) PROVE CallsAlong(CallOf, W) = Gather(EventCall, W)
<1>1. \A i \in 1..Len(W) : CallOf(W[i]) = EventCall[W[i]]
  BY DEF EventCall
<1> DEFINE g == CHOOSE f : f = [i \in 0..Len(W) |-> IF i = 0 THEN <<>> ELSE f[i - 1] \o CallOf(W[i])]
<1>2. CallsAlong(CallOf, W) = g[Len(W)]
  BY DEF CallsAlong
<1>3. Len(W) \in Nat
  OBVIOUS
<1>4. PICK f : Joins(f, EventCall, W, Len(W))
  BY <1>3, JoinExists
<1>5. f = [i \in 0..Len(W) |-> IF i = 0 THEN <<>> ELSE f[i - 1] \o CallOf(W[i])]
  <2>1. \A i \in 0..Len(W) : JoinAt(f, EventCall, W, i) = IF i = 0 THEN <<>> ELSE f[i - 1] \o CallOf(W[i])
    BY <1>1, <1>3 DEF JoinAt
  <2> QED BY <1>4, <2>1 DEF Joins
<1>6. g = [i \in 0..Len(W) |-> IF i = 0 THEN <<>> ELSE g[i - 1] \o CallOf(W[i])]
  BY <1>5
<1>7. Joins(g, EventCall, W, Len(W))
  <2> HIDE DEF g
  <2>1. \A i \in 0..Len(W) : JoinAt(g, EventCall, W, i) = IF i = 0 THEN <<>> ELSE g[i - 1] \o CallOf(W[i])
    BY <1>1, <1>3 DEF JoinAt
  <2> QED BY <1>6, <2>1 DEF Joins
<1> HIDE DEF g
<1>8. Gather(EventCall, W) = g[Len(W)]
  BY <1>3, <1>7, GatherOnce
<1> QED BY <1>2, <1>8

LEMMA HandlerCalls ==
  ASSUME NEW q \in Seq(Handler) PROVE CallsAlong(CallBy, q) = Gather(HandlerCall, q)
<1>1. \A i \in 1..Len(q) : CallBy(q[i]) = HandlerCall[q[i]]
  BY DEF HandlerCall
<1> DEFINE g == CHOOSE f : f = [i \in 0..Len(q) |-> IF i = 0 THEN <<>> ELSE f[i - 1] \o CallBy(q[i])]
<1>2. CallsAlong(CallBy, q) = g[Len(q)]
  BY DEF CallsAlong
<1>3. Len(q) \in Nat
  OBVIOUS
<1>4. PICK f : Joins(f, HandlerCall, q, Len(q))
  BY <1>3, JoinExists
<1>5. f = [i \in 0..Len(q) |-> IF i = 0 THEN <<>> ELSE f[i - 1] \o CallBy(q[i])]
  <2>1. \A i \in 0..Len(q) : JoinAt(f, HandlerCall, q, i) = IF i = 0 THEN <<>> ELSE f[i - 1] \o CallBy(q[i])
    BY <1>1, <1>3 DEF JoinAt
  <2> QED BY <1>4, <2>1 DEF Joins
<1>6. g = [i \in 0..Len(q) |-> IF i = 0 THEN <<>> ELSE g[i - 1] \o CallBy(q[i])]
  BY <1>5
<1>7. Joins(g, HandlerCall, q, Len(q))
  <2> HIDE DEF g
  <2>1. \A i \in 0..Len(q) : JoinAt(g, HandlerCall, q, i) = IF i = 0 THEN <<>> ELSE g[i - 1] \o CallBy(q[i])
    BY <1>1, <1>3 DEF JoinAt
  <2> QED BY <1>6, <2>1 DEF Joins
<1> HIDE DEF g
<1>8. Gather(HandlerCall, q) = g[Len(q)]
  BY <1>3, <1>7, GatherOnce
<1> QED BY <1>2, <1>8

LEMMA CallsJoined ==
  ASSUME NEW W \in Seq(Event), NEW q \in Seq(Handler)
  PROVE  CallsAlong(CallOf, W) \o CallsAlong(CallBy, q) = CallsOf(W, q)
BY EventCalls, HandlerCalls DEF CallsOf

\* The calls that the client has not yet taken.
LEMMA PendingAre ==
  ASSUME ClientInv, ClientInv', [Next]_vars
  PROVE  /\ PendingCalls = CallsOf(Waiting(events, todo), ioq)
         /\ PendingCalls' = CallsOf(Waiting(events', todo'), ioq')
<1>1. Waiting(events, todo) \in Seq(Event) /\ Waiting(events', todo') \in Seq(Event)
      /\ ioq \in Seq(Handler) /\ ioq' \in Seq(Handler)
  BY DEF Waiting, ClientInv, TypeOK
<1>2. PendingCalls = CallsOf(Waiting(events, todo), ioq)
  BY <1>1, CallsJoined, WaitingNow DEF PendingCalls
<1>3. PendingCalls' = CallsOf(Waiting(events', todo'), ioq')
  BY <1>1, CallsJoined, WaitingNow DEF PendingCalls
<1> QED BY <1>2, <1>3
----------------------------------------------------------------------------
(* The invariants. *)

\* A stop that goes on is the front event, and after it the client is not wanted;
\* a write is under way only for a send event.
Stops(by) == ~wanted /\ Head(events) = [e |-> "stop", by |-> by]
Strays == {fr \in Frame : fr.f \in {"disconnect", "disconnected", "stopReturns"} /\ fr.by # "none" /\ ~Stops(fr.by)}
StrayHandlers == {hd \in Handler : \/ hd.h = "closed" /\ hd.by # "none" /\ ~Stops(hd.by)
                                   \/ hd.h = "written" /\ Head(events).e # "send"}
HeadInv ==
    /\ NoneOf(todo, Strays) /\ NoneOf(ioq, StrayHandlers)
    /\ op.close \notin {"no", "none"} => Stops(op.close)
    /\ op.write # 0 => Head(events).e = "send"
    /\ Connected => wanted

\* A client that is not to reconnect does not.
RetryHandler == {hd \in Handler : hd.h = "rtimer"}
RetryEvent   == {ev \in Event : ev.e = "reconnect"}
RetryInv == ~AutoReconnect => NoneOf(ioq, RetryHandler) /\ NoneOf(events, RetryEvent) /\ rtimer.wait # "delay"

\* Every element of s in B is before those in A.
Last(s, A, B) == \A i, j \in 1..Len(s) : s[i] \in A /\ s[j] \in B => j <= i

\* The game thread waits for its stop, which is its last call until it returns.
Pushed      == {hd \in Handler : hd.h = "push"}
PushStop    == {hd \in Pushed : hd.ev.e = "stop"}
GameStop    == {ev \in Event : ev.e = "stop" /\ ev.by = "game"}
GameConnect == {ev \in Event : ev.e = "connect" /\ ev.by = "game"}
Closing == game = "joining" \/ (game = "stopping" /\ ret # "none")
OrderInv ==
    /\ Last(ioq, PushStop, Pushed) /\ Last(events, GameStop, GameConnect)
    /\ ~NoneOf(events, GameStop) => NoneOf(ioq, Pushed)
    /\ game \in {"idle", "starting"} => NoneOf(ioq, PushStop) /\ NoneOf(events, GameStop)
    /\ Closing => NoneOf(ioq, Pushed) /\ NoneOf(events, GameConnect)
    /\ game = "stopping" => pool = "up"
    /\ game = "joining" <=> pool = "closing"

\* Inside the receive callback the client is in use, and of the events only a
\* connect that finds it so runs there.
RecvFrame == {fr \in Frame : fr.f = "recv"}
Receiving == ~NoneOf(todo, RecvFrame)
Callback  == <<[f |-> "recv"], [f |-> "postRecv"]>>
CallbackInv ==
    Receiving =>
        /\ st = "started" /\ pool = "up"
        /\ \/ todo = Callback
           \/ /\ Len(events) = 1 /\ Head(events).e = "connect"
              /\ \/ todo = <<Run>> \o Callback \/ todo = <<Release>> \o Callback
                 \/ \E by \in Caller : todo = (StartReturns(by, "already_started") \o <<Release>>) \o Callback

\* The callback that starts stops after it, so that a call follows its connect.
Call      == {"connect", "stop"}
IoConnect == {ev \in Event : ev.e = "connect" /\ ev.by = "io"}
IoPush    == {hd \in Pushed : hd.ev.e = "connect" /\ hd.ev.by = "io"}
FollowInv ==
    /\ NoneOf(ioq, IoPush)
    /\ ~StartOnRecv => NoneOf(events, IoConnect)
    /\ \A i \in 1..Len(events) :
         events[i] \in IoConnect => IF i < Len(events) THEN events[i + 1].e \in Call ELSE Receiving

\* Once the promise of the game thread's stop is set, only what the callback has
\* called is left, and that ends with a stop.
CloseInv ==
    Closing => /\ ~Receiving
               /\ wanted => /\ events # <<>> /\ Head(events).e \in Call
                            /\ Head(events).e = "stop" => ~NoRun(todo)

----------------------------------------------------------------------------
(* What stands last in a sequence. *)

LEMMA LastAppend ==
  ASSUME NEW S, NEW s \in Seq(S), NEW x \in S, NEW A, NEW B, Last(s, A, B), x \in B => NoneOf(s, A)
  PROVE  Last(Append(s, x), A, B)
<1>1. Len(Append(s, x)) = Len(s) + 1 /\ Append(s, x)[Len(s) + 1] = x
  OBVIOUS
<1>2. \A i \in 1..Len(s) : Append(s, x)[i] = s[i]
  OBVIOUS
<1> QED BY <1>1, <1>2 DEF Last, NoneOf

LEMMA LastConcat ==
  ASSUME NEW S, NEW s \in Seq(S), NEW t \in Seq(S), NEW A, NEW B, Last(s, A, B), NoneOf(t, B)
  PROVE  Last(s \o t, A, B)
<1>1. Len(s \o t) = Len(s) + Len(t) /\ \A i \in 1..Len(s) : (s \o t)[i] = s[i]
  OBVIOUS
<1>2. \A j \in 1..Len(s \o t) : j > Len(s) => (s \o t)[j] \notin B
  <2>1. \A j \in 1..Len(s \o t) : j > Len(s) => j - Len(s) \in 1..Len(t) /\ (s \o t)[j] = t[j - Len(s)]
    OBVIOUS
  <2> QED BY <2>1 DEF NoneOf
<1>3. ASSUME NEW i \in 1..Len(s \o t), NEW j \in 1..Len(s \o t), (s \o t)[i] \in A, (s \o t)[j] \in B
      PROVE  j <= i
  <2>1. j \in 1..Len(s) /\ s[j] \in B
    BY <1>1, <1>2, <1>3
  <2>2. CASE i \in 1..Len(s)
    BY <1>1, <1>3, <2>1, <2>2 DEF Last
  <2>3. CASE i > Len(s)
    BY <2>1, <2>3
  <2> QED BY <1>1, <2>2, <2>3
<1> QED BY <1>3 DEF Last

LEMMA LastTail ==
  ASSUME NEW S, NEW s \in Seq(S), s # <<>>, NEW A, NEW B, Last(s, A, B)
  PROVE  Last(Tail(s), A, B) /\ (Head(s) \in A => NoneOf(Tail(s), B))
<1>1. Len(Tail(s)) = Len(s) - 1 /\ Len(s) \in Nat \ {0} /\ Head(s) = s[1]
  OBVIOUS
<1>2. \A i \in 1..Len(Tail(s)) : i + 1 \in 1..Len(s) /\ Tail(s)[i] = s[i + 1]
  OBVIOUS
<1>3. Last(Tail(s), A, B)
  BY <1>1, <1>2 DEF Last
<1>4. ASSUME Head(s) \in A, NEW i \in 1..Len(Tail(s)), Tail(s)[i] \in B PROVE FALSE
  <2>1. i + 1 \in 1..Len(s) /\ 1 \in 1..Len(s) /\ s[1] \in A /\ s[i + 1] \in B
    BY <1>1, <1>2, <1>4
  <2>2. i + 1 <= 1
    BY <2>1 DEF Last
  <2> QED BY <2>2
<1> QED BY <1>3, <1>4 DEF NoneOf

----------------------------------------------------------------------------
(* Who may change what. *)

LEMMA WantedMoves ==
  ASSUME [Next]_vars
  PROVE  /\ wanted' = wanted \/ (RunConnect /\ wanted' = TRUE) \/ (RunStop /\ wanted' = FALSE)
         /\ host' = host \/ RunConnect
<1>1. ASSUME IoInternal \/ IoCallback \/ Disconnect
      PROVE  /\ wanted' = wanted \/ (RunConnect /\ wanted' = TRUE) \/ (RunStop /\ wanted' = FALSE)
             /\ host' = host \/ RunConnect
  BY <1>1 DEF IoInternal, IoCallback, HandlePush, NextEvent, RunConnect, RunReconnect, RunSend, RunStop,
     RunDisconnect, HandleResolved, HandleConnected, HandleUpgraded, DoneConnect, AfterConnect, SetStartPromise,
     SetStopPromise, Disconnect, HandleClosed, HandleDisconnect, HandleDisconnectTimer, HandleConnectTimer,
     HandleReconnectTimer, HandleWritten, HandleControl, HandleRead, PostRecv, NotifyConnect, Recv, StartInCallback
<1>2. ASSUME GameThread \/ Calls \/ Clock \/ Network \/ UNCHANGED vars PROVE wanted' = wanted /\ host' = host
  BY <1>2 DEF GameThread, Calls, Clock, Network, StartReturned, StopPool, StopReturned, Start, Stop,
     ConnectTimerExpires, ReconnectDelayExpires, DisconnectTick, NetResolve, NetConnect, NetUpgrade, NetClose, NetCloseFrame,
     NetWrite, NetRead, io, quiet, vars
<1> QED BY <1>1, <1>2 DEF Next, IoThread

\* The game thread and what it waits for.
LEMMA CallerMoves ==
  ASSUME [Next]_vars
  PROVE  \/ Start \/ Stop \/ StartReturned \/ StopPool \/ StopReturned
         \/ UNCHANGED <<game, pool>> /\ (ret' = ret \/ SetStartPromise \/ SetStopPromise)
<1>1. ASSUME IoInternal \/ IoCallback \/ Disconnect
      PROVE  UNCHANGED <<game, pool>> /\ (ret' = ret \/ SetStartPromise \/ SetStopPromise)
  BY <1>1 DEF IoInternal, IoCallback, HandlePush, NextEvent, RunConnect, RunReconnect, RunSend, RunStop,
     RunDisconnect, HandleResolved, HandleConnected, HandleUpgraded, DoneConnect, AfterConnect, SetStartPromise,
     SetStopPromise, Disconnect, HandleClosed, HandleDisconnect, HandleDisconnectTimer, HandleConnectTimer,
     HandleReconnectTimer, HandleWritten, HandleControl, HandleRead, PostRecv, NotifyConnect, Recv, StartInCallback, caller
<1>2. ASSUME Clock \/ Network \/ UNCHANGED vars PROVE UNCHANGED <<game, pool, ret>>
  BY <1>2 DEF Clock, Network, ConnectTimerExpires, ReconnectDelayExpires, DisconnectTick, NetResolve, NetConnect,
     NetUpgrade, NetClose, NetCloseFrame, NetWrite, NetRead, quiet, vars, caller
<1> QED BY <1>1, <1>2 DEF Next, IoThread, GameThread, Calls

\* A write begins with a send event.
LEMMA WriteBegins ==
  ASSUME ClientInv, [Next]_vars, op'.write # 0 PROVE op.write # 0 \/ RunSend
<1>1. op \in OpRecord
  BY DEF ClientInv, TypeOK, OpRecord
<1>2. Aborted.write = 0
  BY AbortedOp DEF ClientInv
<1>3. ASSUME HandleResolved \/ HandleConnected PROVE op'.write = op.write
  <2>1. ASSUME NEW n, NEW ec, PostConnect(n, ec) PROVE op'.write = op.write
    BY <1>1, <2>1 DEF PostConnect, OpRecord
  <2>2. PostUpgrade => op'.write = op.write
    BY <1>1 DEF PostUpgrade, OpRecord
  <2> QED BY <1>3, <2>1, <2>2 DEF HandleResolved, HandleConnected
<1>4. ASSUME RunConnect \/ RunReconnect \/ AfterConnect \/ PostRecv \/ Disconnect PROVE op'.write = op.write
  BY <1>1, <1>4 DEF RunConnect, RunReconnect, StartConnect, AfterConnect, PostRecv, PostRead, Disconnect, OpRecord
<1>5. ASSUME HandleDisconnect \/ HandleDisconnectTimer \/ HandleConnectTimer PROVE op'.write = op.write \/ op'.write = 0
  <2>1. CASE HandleDisconnect \/ HandleDisconnectTimer
    BY <1>2, <2>1 DEF HandleDisconnect, HandleDisconnectTimer
  <2>2. CASE HandleConnectTimer
    <3>1. CASE op' = op
      BY <3>1
    <3>2. CASE CloseSocket
      <4>1. Aborted \in OpRecord
        BY AbortedType DEF ClientInv
      <4> HIDE DEF Aborted
      <4> QED BY <1>2, <3>2, <4>1 DEF CloseSocket, OpRecord
    <3> QED BY <2>2, <3>1, <3>2 DEF HandleConnectTimer
  <2> QED BY <1>5, <2>1, <2>2
<1>6. ASSUME Network PROVE op'.write = op.write \/ op.write # 0
  <2>1. NetResolve \/ NetConnect \/ NetUpgrade \/ NetClose => op'.write = op.write
    BY <1>1 DEF NetResolve, NetConnect, NetUpgrade, NetClose, OpRecord
  <2>2. NetRead => op'.write = op.write
    BY <1>1 DEF NetRead, OpRecord
  <2>3. NetWrite => op.write # 0
    BY <1>1 DEF NetWrite, OpRecord
  <2>4. NetCloseFrame => op'.write = op.write
    BY DEF NetCloseFrame, io
  <2> QED BY <1>6, <2>1, <2>2, <2>3, <2>4 DEF Network
<1>7. ASSUME \/ HandlePush \/ NextEvent \/ RunStop \/ RunDisconnect \/ HandleUpgraded \/ DoneConnect
             \/ SetStartPromise \/ SetStopPromise \/ HandleClosed \/ HandleReconnectTimer \/ HandleWritten \/ HandleControl \/ HandleRead
             \/ IoCallback
      PROVE  op' = op
  BY <1>7 DEF HandlePush, NextEvent, RunStop, RunDisconnect, HandleUpgraded, DoneConnect, SetStartPromise, SetStopPromise,
     HandleClosed, HandleReconnectTimer, HandleWritten, HandleControl, HandleRead, IoCallback, NotifyConnect, Recv, StartInCallback
<1>8. ASSUME GameThread \/ Calls \/ Clock \/ UNCHANGED vars PROVE op' = op
  BY <1>8 DEF GameThread, Calls, Clock, StartReturned, StopPool, StopReturned, Start, Stop,
     ConnectTimerExpires, ReconnectDelayExpires, DisconnectTick, io, quiet, vars
<1> QED BY <1>3, <1>4, <1>5, <1>6, <1>7, <1>8 DEF Next, IoThread, IoInternal

\* The frames of the receive callback, and those that return from a start or
\* give the guard back.
LEMMA TopReturns ==
  ASSUME [Next]_vars, todo # <<>>
  PROVE  /\ Head(todo).f = "recv" => Recv \/ StartInCallback \/ UNCHANGED <<todo, events, st>>
         /\ Head(todo).f = "startReturns" => SetStartPromise \/ UNCHANGED <<todo, events, st>>
         /\ Head(todo).f = "release" => NextEvent \/ UNCHANGED <<todo, events, st>>
         /\ Head(todo).f = "stopReturns" => SetStopPromise \/ UNCHANGED <<todo, events, st>>
<1>1. CASE \/ HandlePush \/ HandleResolved \/ HandleConnected \/ HandleUpgraded \/ HandleClosed \/ HandleDisconnectTimer
           \/ HandleConnectTimer \/ HandleReconnectTimer \/ HandleWritten \/ HandleControl \/ HandleRead
  BY <1>1 DEF HandlePush, HandleResolved, HandleConnected, HandleUpgraded, HandleClosed, HandleDisconnectTimer,
     HandleConnectTimer, HandleReconnectTimer, HandleWritten, HandleControl, HandleRead, Ready
<1>2. CASE GameThread \/ Calls \/ Clock \/ Network \/ UNCHANGED vars
  BY <1>2 DEF GameThread, Calls, Clock, Network, StartReturned, StopPool,
     StopReturned, Start, Stop, ConnectTimerExpires, ReconnectDelayExpires, DisconnectTick, NetResolve, NetConnect,
     NetUpgrade, NetClose, NetCloseFrame, NetWrite, NetRead, io, quiet, vars
<1>3. CASE \/ NextEvent \/ RunConnect \/ RunReconnect \/ RunSend \/ RunStop \/ RunDisconnect
           \/ DoneConnect \/ AfterConnect \/ SetStartPromise \/ SetStopPromise \/ Disconnect \/ HandleDisconnect
           \/ PostRecv \/ IoCallback
  BY <1>3 DEF NextEvent, RunConnect, RunReconnect, RunSend, RunStop, RunDisconnect, RunNow,
     DoneConnect, AfterConnect, SetStartPromise, SetStopPromise, Disconnect, HandleDisconnect,
     PostRecv, IoCallback, NotifyConnect, Recv, StartInCallback, Top
<1> QED BY <1>1, <1>2, <1>3 DEF Next, IoThread, IoInternal

----------------------------------------------------------------------------
(* A stop that goes on is at the front of the queue. *)

LEMMA StopFrames ==
  /\ Strays \subseteq GuardFrame /\ StrayHandlers \subseteq GuardHandler
  /\ Strays' \subseteq GuardFrame /\ StrayHandlers' \subseteq GuardHandler
BY DEF Strays, StrayHandlers, GuardFrame, GuardHandler, HoldingFrame, HoldingHandler

\* The front event stays while no event ends, begins to connect or stops.
LEMMA HeadStays ==
  ASSUME ClientInv, PushInv, [Next]_vars, ~NextEvent
  PROVE  events # <<>> => events' # <<>> /\ Head(events') = Head(events)
<1>1. Requeued
  BY EventQueued
<1>2. events \in Seq(Event)
  BY DEF ClientInv, TypeOK
<1>3. \A ev \in Event : events # <<>> => Append(events, ev) # <<>> /\ Head(Append(events, ev)) = Head(events)
  BY <1>2
<1> QED BY <1>1, <1>3 DEF Requeued

\* The three steps that move the front event or what it means, take the guard
\* from the top of the stack.
LEMMA FreshHead ==
  ASSUME ClientInv, [Next]_vars, NextEvent \/ RunConnect \/ RunStop
  PROVE  /\ NoneOf(todo, Strays') /\ NoneOf(ioq, StrayHandlers') /\ OpFree(op)
         /\ todo # <<>> /\ Head(todo).f \in {"release", "run"}
         /\ ioq' = ioq /\ op'.write = op.write /\ op'.close = op.close
<1>1. todo # <<>> /\ Head(todo).f \in {"release", "run"} /\ Head(todo).f \in HoldingFrame
  BY DEF NextEvent, RunConnect, RunStop, RunNow, Top, HoldingFrame
<1>2. todo \in Seq(Frame) /\ Head(todo) \in Frame /\ Unheld(Tail(todo), ioq, op)
  BY <1>1, TopFrame DEF ClientInv, TypeOK
<1>3. Head(todo) \notin Strays'
  BY <1>1 DEF Strays
<1>4. NoneOf(Tail(todo), Strays') /\ NoneOf(ioq, StrayHandlers')
  BY <1>2, StopFrames, FewerMarks DEF Unheld
<1>5. NoneOf(todo, Strays')
  BY <1>1, <1>2, <1>3, <1>4, FirstMark
<1>6. ioq' = ioq /\ op'.write = op.write /\ op'.close = op.close
  <2>1. op \in OpRecord
    BY DEF ClientInv, TypeOK, OpRecord
  <2> QED BY <2>1 DEF NextEvent, RunConnect, RunStop, StartConnect, OpRecord
<1> QED BY <1>1, <1>2, <1>4, <1>5, <1>6 DEF Unheld

LEMMA HeadKept ==
  ASSUME PhaseInv, ReconnectInv, HeadInv, [Next]_vars PROVE HeadInv'
<1>0. ClientInv /\ PushInv /\ FitInv /\ todo \in Seq(Frame) /\ ioq \in Seq(Handler) /\ op \in OpRecord
      /\ Guarded(events, todo, ioq, op) /\ events \in Seq(Event)
  BY DEF PhaseInv, ClientInv, TypeOK, OpRecord
<1>1. Connected' => wanted'
  <2>1. CASE Connected /\ wanted' # wanted
    <3>1. CASE RunConnect
      BY <2>1, <3>1, WantedMoves DEF RunConnect, RunStop, RunNow
    <3>2. CASE RunStop
      BY <3>2 DEF RunStop, DisconnectInPlace, Connected
    <3> QED BY <2>1, <3>1, <3>2, WantedMoves
  <2>2. CASE Connected /\ wanted' = wanted
    BY <2>2 DEF HeadInv
  <2>3. CASE ~Connected /\ Connected'
    <3>1. st # "starting" /\ st' = "starting" /\ (RunConnect \/ RunReconnect)
      BY <1>0, <2>3, WhoStops DEF Connected
    <3>2. attempt' # attempt
      <4>1. attempt \in Nat
        BY <1>0 DEF ClientInv, TypeOK, Attempt
      <4> QED BY <3>1, <4>1 DEF RunConnect, RunReconnect, StartConnect
    <3>3. wanted \/ wanted'
      BY <1>0, <3>2, ReconnectTimerKept
    <3>4. ~RunStop
      BY <3>1 DEF RunConnect, RunReconnect, RunStop, RunNow
    <3> QED BY <3>3, <3>4, WantedMoves
  <2> QED BY <2>1, <2>2, <2>3
<1>2. CASE NextEvent \/ RunConnect \/ RunStop
  <2>1. /\ NoneOf(todo, Strays') /\ NoneOf(ioq, StrayHandlers') /\ OpFree(op)
        /\ todo # <<>> /\ Head(todo).f \in {"release", "run"}
        /\ ioq' = ioq /\ op'.write = op.write /\ op'.close = op.close
    BY <1>0, <1>2, FreshHead
  <2>2. ASSUME NEW fr \in Frame, Put(fr) PROVE fr \notin Strays'
    <3>1. CASE fr.f \in {"disconnect", "disconnected", "stopReturns"} /\ fr.by # "none"
      <4>1. RunStop /\ fr.by = Head(events).by
        BY <2>1, <2>2, <3>1 DEF Put, Passed, HandleClosed, Ready
      <4>2. events # <<>> /\ Head(events) \in Event /\ Head(events).e = "stop"
        BY <1>0, <4>1, RunEvent DEF RunStop
      <4>3. Head(events) = [e |-> "stop", by |-> fr.by]
        BY <4>1, <4>2 DEF Event
      <4>4. Stops(fr.by)'
        BY <4>1, <4>3 DEF Stops, RunStop
      <4> QED BY <4>4 DEF Strays
    <3>2. CASE ~(fr.f \in {"disconnect", "disconnected", "stopReturns"} /\ fr.by # "none")
      BY <3>2 DEF Strays
    <3> QED BY <3>1, <3>2
  <2>3. NoneOf(todo', Strays')
    BY <1>0, <2>1, <2>2, FramesKept
  <2> QED BY <1>1, <2>1, <2>3 DEF HeadInv, OpFree
<1>3. CASE ~NextEvent /\ ~RunConnect /\ ~RunStop
  <2>1. wanted' = wanted
    BY <1>3, WantedMoves
  <2> DEFINE Goes(by) == ~wanted' /\ Head(events') = [e |-> "stop", by |-> by]
  <2>0. /\ Strays' = {fr \in Frame : fr.f \in {"disconnect", "disconnected", "stopReturns"} /\ fr.by # "none" /\ ~Goes(fr.by)}
        /\ StrayHandlers' = {hd \in Handler : \/ hd.h = "closed" /\ hd.by # "none" /\ ~Goes(hd.by)
                                              \/ hd.h = "written" /\ Head(events').e # "send"}
    BY DEF Strays, StrayHandlers, Stops
  <2> HIDE DEF Goes
  <2>2. ASSUME events # <<>>
        PROVE  /\ \A by : Goes(by) <=> Stops(by)
               /\ Strays' = Strays /\ StrayHandlers' = StrayHandlers /\ Head(events') = Head(events)
    <3>1. Head(events') = Head(events)
      BY <1>0, <1>3, <2>2, HeadStays
    <3>2. \A by : Goes(by) <=> Stops(by)
      BY <2>1, <3>1 DEF Stops, Goes
    <3> QED BY <2>0, <3>1, <3>2 DEF Strays, StrayHandlers
  <2>3. events = <<>> => NoneOf(todo, GuardFrame) /\ NoneOf(ioq, GuardHandler) /\ OpFree(op)
    BY <1>0 DEF Guarded, Unheld
  <2>4. NoneOf(todo, Strays') /\ NoneOf(ioq, StrayHandlers')
    BY <2>2, <2>3, StopFrames, FewerMarks DEF HeadInv
  <2>5. ASSUME todo # <<>>, Head(todo).f \in {"disconnect", "disconnected"}
        PROVE  Head(todo).by = "none" \/ Goes(Head(todo).by)
    <3>1. Head(todo) \in Frame /\ Head(todo) \notin Strays'
      BY <1>0, <2>4, <2>5, FirstMark
    <3> QED BY <2>0, <2>5, <3>1
  <2>6. ASSUME HandleClosed PROVE Head(ioq).by = "none" \/ Goes(Head(ioq).by)
    <3>1. Head(ioq) \in Handler /\ Head(ioq) \notin StrayHandlers' /\ Head(ioq).h = "closed"
      BY <1>0, <2>4, <2>6, FirstMark DEF HandleClosed, Ready
    <3> QED BY <2>0, <3>1
  <2>7. ASSUME NEW fr \in Frame, Put(fr) PROVE fr \notin Strays'
    <3>1. CASE fr.f \in {"disconnect", "disconnected", "stopReturns"} /\ fr.by # "none"
      BY <1>3, <2>0, <2>5, <2>6, <2>7, <3>1 DEF Put, Passed
    <3>2. CASE ~(fr.f \in {"disconnect", "disconnected", "stopReturns"} /\ fr.by # "none")
      BY <2>0, <3>2
    <3> QED BY <3>1, <3>2
  <2>8. NoneOf(todo', Strays')
    BY <1>0, <2>4, <2>7, FramesKept
  <2>9. op.close \notin {"no", "none"} => Goes(op.close)
    BY <2>2, <2>3 DEF HeadInv, OpFree
  <2>10. op.write # 0 \/ RunSend => Head(events').e = "send"
    <3>1. RunSend => events # <<>> /\ Head(events).e = "send"
      BY <1>0, RunEvent DEF RunSend
    <3> QED BY <2>2, <2>3, <3>1 DEF HeadInv, OpFree
  <2>11. ASSUME NEW hd \in Handler, Made(hd) PROVE hd \notin StrayHandlers'
    <3>1. CASE hd.h = "closed"
      <4>1. hd.by = op.close /\ op.close # "no"
        BY <2>11, <3>1 DEF Made, NetClose
      <4> QED BY <2>0, <2>9, <3>1, <4>1
    <3>2. CASE hd.h = "written"
      BY <2>0, <2>10, <2>11, <3>2 DEF Made
    <3>3. CASE hd.h \notin {"closed", "written"}
      BY <2>0, <3>3
    <3> QED BY <3>1, <3>2, <3>3
  <2>12. NoneOf(ioq', StrayHandlers')
    BY <1>0, <2>4, <2>11, QueueKept
  <2>13. op'.close \notin {"no", "none"} => Goes(op'.close)
    <3>1. op'.close \in {op.close, "no"} \/ (Disconnect /\ op'.close = Head(todo).by)
      BY <1>0, OpReads
    <3>2. Disconnect => todo # <<>> /\ Head(todo).f = "disconnect"
      BY DEF Disconnect, Top
    <3> QED BY <2>5, <2>9, <3>1, <3>2
  <2>14. op'.write # 0 => Head(events').e = "send"
    BY <1>0, <2>10, WriteBegins
  <2> QED BY <1>1, <2>8, <2>12, <2>13, <2>14 DEF HeadInv, Stops, Goes
<1> QED BY <1>2, <1>3

LEMMA RetryKept == ASSUME PhaseInv, RetryInv, [Next]_vars PROVE RetryInv'
<1>0. ClientInv /\ PushInv /\ TypeOK /\ ioq \in Seq(Handler)
  BY DEF PhaseInv, ClientInv, TypeOK
<1>1. SUFFICES ASSUME ~AutoReconnect
               PROVE  NoneOf(ioq', RetryHandler) /\ NoneOf(events', RetryEvent) /\ rtimer'.wait # "delay"
  BY DEF RetryInv, RetryHandler, RetryEvent
<1>2. NoneOf(ioq, RetryHandler) /\ NoneOf(events, RetryEvent) /\ rtimer.wait # "delay"
  BY <1>1 DEF RetryInv
<1>3. ~Ready("rtimer")
  BY <1>0, <1>2, FirstMark DEF Ready, RetryHandler
<1>4. NoneOf(ioq', RetryHandler)
  <2>1. ASSUME NEW hd \in Handler, Made(hd) PROVE hd \notin RetryHandler
    BY <1>1, <1>2, <2>1 DEF Made, RetryHandler
  <2> QED BY <1>0, <1>2, <2>1, QueueKept
<1>5. NoneOf(events', RetryEvent)
  <2>1. ASSUME NEW ev \in Event, Queued(ev) PROVE ev \notin RetryEvent
    BY <1>3, <2>1 DEF Queued, RetryEvent
  <2> QED BY <1>0, <1>2, <2>1, EventKept
<1>6. rtimer'.wait # "delay"
  BY <1>0, <1>2, <1>3, DelayBegins DEF HandleReconnectTimer
<1> QED BY <1>4, <1>5, <1>6

----------------------------------------------------------------------------
(* The stop of the game thread is the last of its calls. *)

\* The promise of stop is set for the stop that is the front event.
LEMMA ClosingBegins ==
  ASSUME ClientInv, HeadInv, [Next]_vars, ~Closing, Closing'
  PROVE  /\ SetStopPromise /\ game = "stopping" /\ ~wanted
         /\ events # <<>> /\ Head(events) \in GameStop /\ events' = events
<1>1. SetStopPromise /\ game = "stopping" /\ Head(todo).by = "game"
  <2>1. CASE Start \/ Stop \/ StartReturned \/ StopPool \/ StopReturned
    BY <2>1 DEF Start, Stop, StartReturned, StopPool, StopReturned, Closing
  <2>2. CASE UNCHANGED <<game, pool, ret>>
    BY <2>2 DEF Closing
  <2>3. CASE SetStartPromise /\ UNCHANGED <<game, pool>>
    BY <2>3 DEF SetStartPromise, Closing
  <2>4. CASE SetStopPromise /\ UNCHANGED <<game, pool>>
    BY <2>4 DEF SetStopPromise, Closing
  <2> QED BY <2>1, <2>2, <2>3, <2>4, CallerMoves
<1>2. todo # <<>> /\ Head(todo).f = "stopReturns" /\ events' = events
  BY <1>1 DEF SetStopPromise, Top
<1>3. todo \in Seq(Frame) /\ Head(todo) \in Frame /\ events # <<>> /\ events \in Seq(Event)
  BY <1>2, TopFrame DEF ClientInv, TypeOK, HoldingFrame
<1>4. Head(todo) \notin Strays
  BY <1>2, <1>3, FirstMark DEF HeadInv
<1>5. Stops("game")
  BY <1>1, <1>2, <1>3, <1>4 DEF Strays
<1>6. Head(events) \in GameStop
  BY <1>3, <1>5 DEF Stops, GameStop
<1> QED BY <1>1, <1>2, <1>3, <1>5, <1>6 DEF Stops

\* Who puts calls on their way to the io thread.
LEMMA PushedBy ==
  ASSUME ClientInv, [Next]_vars, NEW H, H \subseteq Pushed, NoneOf(ioq, H), ~NoneOf(ioq', H)
  PROVE  game = "idle" /\ \/ Start /\ [h |-> "push", ev |-> [e |-> "connect", by |-> "game", to |-> starts + 1]] \in H
                          \/ Stop /\ [h |-> "push", ev |-> [e |-> "stop", by |-> "game"]] \in H
<1>1. PICK hd \in Handler : Made(hd) /\ hd \in H
  BY QueueKept
<1>2. hd.h = "push"
  BY <1>1 DEF Pushed
<1>3. hd = [h |-> "push", ev |-> hd.ev]
  BY <1>2 DEF Handler
<1> QED BY <1>1, <1>2, <1>3 DEF Made, Start, Stop

LEMMA PushedOrder ==
  ASSUME ClientInv, OrderInv, [Next]_vars PROVE Last(ioq', PushStop, Pushed)
<1>0. ioq \in Seq(Handler) /\ starts \in 0..MaxStarts /\ Last(ioq, PushStop, Pushed)
  BY DEF ClientInv, TypeOK, OrderInv
<1>1. CASE Start \/ Stop
  <2>1. game = "idle" /\ NoneOf(ioq, PushStop)
    BY <1>1 DEF Start, Stop, OrderInv
  <2>2. PICK ev \in Event : ioq' = Append(ioq, [h |-> "push", ev |-> ev])
    <3>1. CASE Start
      <4>1. starts + 1 \in 1..MaxStarts /\ starts' = starts + 1
        BY <1>0, <3>1, ClientAssumption DEF Start
      <4> QED BY <3>1, <4>1, MakeEvent DEF Start, Posted, Caller
    <3>2. CASE Stop
      BY <3>2, MakeEvent DEF Stop, Posted, Caller
    <3> QED BY <1>1, <3>1, <3>2
  <2> DEFINE x == [h |-> "push", ev |-> ev]
  <2>3. x \in Handler
    BY MakeHandler
  <2> HIDE DEF x
  <2> QED BY <1>0, <2>1, <2>2, <2>3, LastAppend DEF x
<1>2. CASE ~Start /\ ~Stop
  <2>1. PICK q, hs \in Seq(Handler) : Left(q) /\ Added(hs) /\ ioq' = q \o hs
    BY HandlersAdded DEF Rehandled
  <2>2. NoneOf(hs, Pushed)
    <3>1. \A i \in 1..Len(hs) : hs[i] \in Handler /\ hs[i] \notin Unmade
      BY <2>1 DEF Added, NoneOf
    <3> QED BY <1>2, <3>1 DEF NoneOf, Unmade, Pushed, Made
  <2>3. Last(q, PushStop, Pushed)
    BY <1>0, <2>1, LastTail DEF Left
  <2> QED BY <2>1, <2>2, <2>3, LastConcat
<1> QED BY <1>1, <1>2

LEMMA CallsOrder ==
  ASSUME ClientInv, PushInv, FollowInv, OrderInv, [Next]_vars
  PROVE  /\ Last(events', GameStop, GameConnect)
         /\ ~NoneOf(events, GameStop) => NoneOf(ioq', Pushed)
         /\ ~NoneOf(events', GameStop) => NoneOf(ioq', Pushed)
<1>0. /\ ioq \in Seq(Handler) /\ events \in Seq(Event) /\ Last(events, GameStop, GameConnect)
      /\ Last(ioq, PushStop, Pushed)
  BY DEF ClientInv, TypeOK, OrderInv
<1>1. ASSUME HandlePush
      PROVE  /\ ioq # <<>> /\ Head(ioq) \in Pushed /\ ioq' = Tail(ioq)
             /\ events' = Append(events, Head(ioq).ev) /\ Head(ioq).ev \in Event
             /\ NoneOf(events, GameStop)
  <2>1. ioq # <<>> /\ Head(ioq).h = "push" /\ ioq' = Tail(ioq) /\ events' = Append(events, Head(ioq).ev)
    BY <1>1 DEF HandlePush, Ready, Handled, Push
  <2>2. Head(ioq) \in Handler /\ Head(ioq) \in Pushed /\ ~NoneOf(ioq, Pushed)
    BY <1>0, <2>1, FirstMark DEF Pushed
  <2> QED BY <2>1, <2>2, HandlerKinds DEF OrderInv
<1>2. ~NoneOf(events, GameStop) => NoneOf(ioq', Pushed)
  <2>1. SUFFICES ASSUME ~NoneOf(events, GameStop) PROVE NoneOf(ioq', Pushed)
    OBVIOUS
  <2>2. NoneOf(ioq, Pushed) /\ game # "idle"
    BY <2>1 DEF OrderInv
  <2> QED BY <2>2, PushedBy
<1>3. CASE events' = events
  BY <1>0, <1>2, <1>3
<1>4. CASE events # <<>> /\ events' = Tail(events)
  <2>1. Last(events', GameStop, GameConnect)
    BY <1>0, <1>4, LastTail
  <2>2. ~NoneOf(events', GameStop) => ~NoneOf(events, GameStop)
    BY <1>0, <1>4, FirstMark
  <2> QED BY <1>2, <2>1, <2>2
<1>5. ASSUME NEW ev \in Event, Queued(ev), events' = Append(events, ev)
      PROVE  Last(events', GameStop, GameConnect) /\ (~NoneOf(events', GameStop) => NoneOf(ioq', Pushed))
  <2>1. ev \in GameConnect => NoneOf(events, GameStop)
    <3>1. ev \in GameConnect => HandlePush
      BY <1>5 DEF Queued, GameConnect
    <3> QED BY <1>1, <3>1
  <2>2. Last(events', GameStop, GameConnect)
    BY <1>0, <1>5, <2>1, LastAppend
  <2>3. ASSUME ~NoneOf(events', GameStop), NoneOf(events, GameStop) PROVE NoneOf(ioq', Pushed)
    <3>1. ev \in GameStop
      BY <1>0, <1>5, <2>3, PutMark
    <3>2. HandlePush /\ ev = Head(ioq).ev
      BY <1>5, <3>1 DEF Queued, GameStop
    <3>3. Head(ioq) \in PushStop /\ ioq # <<>> /\ ioq' = Tail(ioq)
      BY <1>1, <3>1, <3>2 DEF PushStop, GameStop
    <3> QED BY <1>0, <3>3, LastTail
  <2> QED BY <1>2, <2>2, <2>3
<1> QED BY <1>2, <1>3, <1>4, <1>5, EventQueued DEF Requeued

LEMMA OrderKept ==
  ASSUME PhaseInv, ReadInv, LinkInv, HeadInv, FollowInv, OrderInv, [Next]_vars PROVE OrderInv'
<1>0. ClientInv /\ PushInv /\ ioq \in Seq(Handler) /\ events \in Seq(Event)
  BY DEF PhaseInv, ClientInv, TypeOK
<1>1. Last(ioq', PushStop, Pushed) /\ Last(events', GameStop, GameConnect)
      /\ (~NoneOf(events', GameStop) => NoneOf(ioq', Pushed))
  BY <1>0, PushedOrder, CallsOrder
<1>2. ASSUME game' \in {"idle", "starting"} PROVE NoneOf(ioq', PushStop) /\ NoneOf(events', GameStop)
  <2>1. CASE game \in {"idle", "starting"}
    <3>1. NoneOf(ioq, PushStop) /\ NoneOf(events, GameStop)
      BY <2>1 DEF OrderInv
    <3>2. NoneOf(ioq', PushStop)
      <4>1. PushStop \subseteq Pushed /\ ~Stop
        BY <1>2 DEF PushStop, Stop
      <4>2. [h |-> "push", ev |-> [e |-> "connect", by |-> "game", to |-> starts + 1]] \notin PushStop
        BY DEF PushStop
      <4> QED BY <1>0, <3>1, <4>1, <4>2, PushedBy
    <3>3. ASSUME NEW ev \in Event, Queued(ev) PROVE ev \notin GameStop
      <4>1. HandlePush => Head(ioq) \in Pushed /\ Head(ioq) \notin PushStop
        BY <1>0, <3>1, FirstMark DEF HandlePush, Ready, Pushed
      <4> QED BY <3>3, <4>1 DEF Queued, GameStop, PushStop
    <3>4. NoneOf(events', GameStop)
      BY <1>0, <3>1, <3>3, EventKept
    <3> QED BY <3>2, <3>4
  <2>2. CASE game \notin {"idle", "starting"}
    <3>1. StopReturned
      BY <1>2, <2>2, CallerMoves DEF Start, Stop, StartReturned, StopPool
    <3>2. ioq' = <<>> /\ events' = <<>>
      BY <3>1, NoWorkIsIdle DEF StopReturned, NoWork, io
    <3> QED BY <3>2, EmptyMarks
  <2> QED BY <2>1, <2>2
<1>3. ASSUME Closing' PROVE NoneOf(ioq', Pushed) /\ NoneOf(events', GameConnect)
  <2>1. CASE Closing
    <3>1. NoneOf(ioq, Pushed) /\ NoneOf(events, GameConnect) /\ game # "idle"
      BY <2>1 DEF OrderInv, Closing
    <3>2. ~HandlePush
      BY <1>0, <3>1, FirstMark DEF HandlePush, Ready, Pushed
    <3>3. ASSUME NEW ev \in Event, Queued(ev) PROVE ev \notin GameConnect
      BY <3>2, <3>3 DEF Queued, GameConnect
    <3> QED BY <1>0, <3>1, <3>3, PushedBy, EventKept
  <2>2. CASE ~Closing
    <3>1. events # <<>> /\ Head(events) \in GameStop /\ events' = events
      BY <1>0, <1>3, <2>2, ClosingBegins
    <3>2. NoneOf(Tail(events), GameConnect) /\ ~NoneOf(events, GameStop)
      BY <1>0, <3>1, LastTail, FirstMark DEF OrderInv
    <3>3. Head(events) \notin GameConnect
      BY <3>1 DEF GameStop, GameConnect
    <3>4. NoneOf(events, GameConnect)
      BY <1>0, <3>1, <3>2, <3>3, FirstMark
    <3> QED BY <1>0, <3>1, <3>2, <3>4, CallsOrder
  <2> QED BY <2>1, <2>2
<1>4. (game' = "stopping" => pool' = "up") /\ (game' = "joining" <=> pool' = "closing")
  <2>1. CASE Start \/ Stop \/ StartReturned \/ StopPool \/ StopReturned
    BY <2>1 DEF Start, Stop, StartReturned, StopPool, StopReturned, OrderInv
  <2>2. CASE UNCHANGED <<game, pool>>
    BY <2>2 DEF OrderInv
  <2> QED BY <2>1, <2>2, CallerMoves
<1> QED BY <1>1, <1>2, <1>3, <1>4 DEF OrderInv, Pushed, PushStop, GameStop, GameConnect

----------------------------------------------------------------------------
(* The receive callback, and what it has called. *)

LEMMA CallbackFrames ==
  /\ Callback \in Seq(Frame) /\ Callback # <<>> /\ Head(Callback) = [f |-> "recv"]
  /\ Head(Callback) \in RecvFrame /\ NoneOf(Tail(Callback), RecvFrame) /\ ~NoneOf(Callback, RecvFrame)
<1>1. PICK x \in Frame : x = [f |-> "recv"]
  BY MakeFrame
<1>2. PICK y \in Frame : y = [f |-> "postRecv"]
  BY MakeFrame
<1>3. Callback = <<x, y>> /\ x \in RecvFrame /\ y \notin RecvFrame
  BY <1>1, <1>2 DEF Callback, RecvFrame
<1>4. <<x, y>> \in Seq(Frame) /\ Head(<<x, y>>) = x /\ Tail(<<x, y>>) = <<y>> /\ <<x, y>> # <<>>
  OBVIOUS
<1>5. NoneOf(Tail(<<x, y>>), RecvFrame)
  BY <1>3, <1>4, SingleMarks
<1>6. ~NoneOf(<<x, y>>, RecvFrame)
  <2>1. 1 \in 1..Len(<<x, y>>) /\ <<x, y>>[1] = x
    OBVIOUS
  <2> QED BY <1>3, <2>1 DEF NoneOf
<1> QED BY <1>1, <1>3, <1>4, <1>5, <1>6

\* The stack of the callback: who is on top, and what is below.
LEMMA CallbackTop ==
  ASSUME ClientInv, CallbackInv, Receiving
  PROVE  /\ todo # <<>> /\ Head(todo).f \in {"recv", "run", "release", "startReturns"}
         /\ Head(todo).f = "recv" => todo = Callback
         /\ Head(todo).f # "recv" => Len(events) = 1 /\ Head(events).e = "connect"
         /\ Head(todo).f = "run" => Tail(todo) = Callback
         /\ Head(todo).f = "release" => Tail(todo) = Callback
         /\ Head(todo).f = "startReturns" => Tail(todo) = <<Release>> \o Callback
<1>1. PICK run \in Frame : run = Run
  BY MakeFrame DEF Run
<1>2. PICK rel \in Frame : rel = Release
  BY MakeFrame DEF Release
<1>3. \A fr \in Frame, s \in Seq(Frame) : Head(<<fr>> \o s) = fr /\ Tail(<<fr>> \o s) = s /\ <<fr>> \o s # <<>>
  OBVIOUS
<1>4. run.f = "run" /\ rel.f = "release"
  BY <1>1, <1>2 DEF Run, Release
<1>5. CASE todo = Callback
  BY <1>5, CallbackFrames
<1>6. CASE todo = <<Run>> \o Callback
  <2>1. Len(events) = 1 /\ Head(events).e = "connect"
    <3>1. <<run>> \o Callback # Callback
      BY <1>3, <1>4, CallbackFrames
    <3>2. Head(todo).f = "run"
      BY <1>1, <1>3, <1>4, <1>6, CallbackFrames
    <3> QED BY <1>3, <3>2, CallbackFrames DEF CallbackInv
  <2> QED BY <1>1, <1>3, <1>4, <1>6, <2>1, CallbackFrames
<1>7. CASE todo = <<Release>> \o Callback
  <2>1. Head(todo).f = "release"
    BY <1>2, <1>3, <1>4, <1>7, CallbackFrames
  <2>2. Len(events) = 1 /\ Head(events).e = "connect"
    BY <2>1, CallbackFrames DEF CallbackInv
  <2> QED BY <1>2, <1>3, <1>7, <2>1, <2>2, CallbackFrames
<1>8. ASSUME NEW by \in Caller, todo = (StartReturns(by, "already_started") \o <<Release>>) \o Callback
      PROVE  /\ todo # <<>> /\ Head(todo).f = "startReturns" /\ Tail(todo) = <<Release>> \o Callback
             /\ Len(events) = 1 /\ Head(events).e = "connect"
  <2>1. PICK x \in Frame : StartReturns(by, "already_started") = <<x>> /\ x.f = "startReturns"
    BY MakeFrame DEF StartReturns
  <2>2. todo = <<x>> \o (<<rel>> \o Callback) /\ <<rel>> \o Callback \in Seq(Frame)
    <3>1. <<x>> \in Seq(Frame) /\ <<rel>> \in Seq(Frame) /\ Callback \in Seq(Frame)
      BY CallbackFrames
    <3>2. todo = (<<x>> \o <<rel>>) \o Callback
      BY <1>2, <1>8, <2>1
    <3> QED BY <3>1, <3>2, StackAssociates, ConcatProperties
  <2>3. Head(todo) = x /\ Tail(todo) = <<rel>> \o Callback /\ todo # <<>>
    BY <1>3, <2>2
  <2>4. Len(events) = 1 /\ Head(events).e = "connect"
    BY <2>1, <2>3, CallbackFrames DEF CallbackInv
  <2> QED BY <1>2, <2>1, <2>3, <2>4
<1> QED BY <1>5, <1>6, <1>7, <1>8 DEF CallbackInv

\* A callback goes on until the receive frame itself has run.
LEMMA ReceivingStays ==
  ASSUME ClientInv, CallbackInv, Receiving, [Next]_vars, ~Recv
  PROVE  Receiving'
<1>1. SUFFICES ASSUME NoneOf(todo', RecvFrame) PROVE FALSE
  BY DEF Receiving, RecvFrame
<1>2. todo # <<>> /\ Head(todo) \in RecvFrame
  BY <1>1, FramesKept DEF Receiving
<1>3. Head(todo).f = "recv" /\ todo = Callback
  BY <1>2, CallbackTop DEF RecvFrame
<1>4. CASE StartInCallback
  <2>1. todo' = (IF events = <<>> THEN <<Run>> ELSE <<>>) \o Callback
    BY <1>3, <1>4 DEF StartInCallback, Push
  <2>2. <<Run>> \in Seq(Frame) /\ <<>> \in Seq(Frame)
    BY PlainFrames
  <2> QED BY <1>1, <2>1, <2>2, CallbackFrames, ConcatMarks
<1>5. CASE UNCHANGED <<todo, events, st>>
  BY <1>1, <1>5 DEF Receiving
<1> QED BY <1>2, <1>3, <1>4, <1>5, TopReturns

\* A callback begins with a message.
LEMMA ReceivingBegins ==
  ASSUME ClientInv, ~Receiving, [Next]_vars, Receiving'
  PROVE  HandleRead /\ IsStarted /\ todo = <<>> /\ todo' = Callback /\ UNCHANGED <<st, pool>> /\ ioq # <<>>
<1>1. PICK fr \in RecvFrame : Put(fr)
  <2>1. ~NoneOf(todo', RecvFrame) /\ NoneOf(todo, RecvFrame) /\ RecvFrame \subseteq Frame
    BY DEF Receiving, RecvFrame
  <2> QED BY <2>1, FramesKept
<1>2. HandleRead /\ IsStarted /\ Head(ioq).ok
  BY <1>1 DEF Put, RecvFrame
<1> QED BY <1>2 DEF HandleRead, IsStarted, Ready, Callback, caller

\* Once the game thread's stop has run, no message is given to the callback: the
\* client is in use again only for a connect that holds the guard.
LEMMA NoMessageWhileClosing ==
  ASSUME PhaseInv, HeadInv, CloseInv, Closing, IsStarted, todo = <<>>
  PROVE  FALSE
<1>1. ClientInv /\ FitInv /\ Guarded(events, todo, ioq, op)
  BY DEF PhaseInv, ClientInv
<1>2. NoneOf(todo, GuardFrame) /\ NoRun(todo) /\ st = "started"
  BY EmptyMarks, NoRunFrames DEF IsStarted
<1>3. events # <<>> /\ Head(events).e = "connect"
  <2>1. wanted
    BY <1>2 DEF HeadInv, Connected
  <2> QED BY <1>2, <2>1 DEF CloseInv, Call
<1>4. ~OneOf(todo, GuardFrame)
  BY <1>2, OneIsSome
<1>5. CASE OneOf(ioq, GuardHandler)
  <2>1. PICK i \in 1..Len(ioq) : ioq[i] \in GuardHandler
    BY <1>5 DEF OneOf
  <2>2. HandlerFits(ioq[i]) /\ ioq[i].h \in HoldingHandler /\ ioq[i] \notin StrayHandlers /\ ioq[i] \in Handler
    BY <1>1, <2>1 DEF FitInv, HeadInv, NoneOf, HandlerMisfits, GuardHandler
  <2>3. ioq[i].h # "written"
    BY <1>3, <2>2 DEF StrayHandlers
  <2> QED BY <1>2, <2>2, <2>3 DEF HandlerFits, HoldingHandler, Dialling
<1>6. CASE OpOne(op)
  BY <1>1, <1>2, <1>3, <1>6 DEF FitInv, HeadInv, OpFits, OpOne, Dialling
<1> QED BY <1>1, <1>3, <1>4, <1>5, <1>6 DEF Guarded, Held

\* In use, the client answers a connect event at once.
LEMMA RunConnectInUse ==
  ASSUME PhaseInv, RunConnect, st = "started"
  PROVE  /\ Head(events).by \in Caller
         /\ todo' = (StartReturns(Head(events).by, "already_started") \o <<Release>>) \o Tail(todo)
<1>1. events # <<>> /\ Head(events) \in Event /\ Head(events).e = "connect"
  BY RunConnectTakes
<1> QED BY <1>1, RunConnectTakes, EventKinds

LEMMA CallbackKept ==
  ASSUME PhaseInv, PoolInv, HeadInv, OrderInv, CallbackInv, CloseInv, [Next]_vars PROVE CallbackInv'
<1>0. ClientInv /\ PushInv /\ events \in Seq(Event) /\ todo \in Seq(Frame)
  BY DEF PhaseInv, ClientInv, TypeOK
<1>1. SUFFICES ASSUME Receiving'
               PROVE  /\ st' = "started" /\ pool' = "up"
                      /\ \/ todo' = Callback
                         \/ /\ Len(events') = 1 /\ Head(events').e = "connect"
                            /\ \/ todo' = <<Run>> \o Callback \/ todo' = <<Release>> \o Callback
                               \/ \E by \in Caller : todo' = (StartReturns(by, "already_started") \o <<Release>>) \o Callback
  BY DEF CallbackInv, Callback
<1>2. CASE ~Receiving
  <2>1. HandleRead /\ IsStarted /\ todo = <<>> /\ todo' = Callback /\ UNCHANGED <<st, pool>> /\ ioq # <<>>
    BY <1>0, <1>1, <1>2, ReceivingBegins
  <2>2. ~Closing
    BY <2>1, NoMessageWhileClosing
  <2>3. pool = "up"
    BY <1>0, <2>1, <2>2 DEF PoolInv, NoWork, OrderInv, Closing, ClientInv, TypeOK
  <2> QED BY <2>1, <2>3 DEF IsStarted
<1>3. CASE Receiving
  <2>1. /\ todo # <<>> /\ Head(todo).f \in {"recv", "run", "release", "startReturns"}
        /\ Head(todo).f = "recv" => todo = Callback
        /\ Head(todo).f # "recv" => Len(events) = 1 /\ Head(events).e = "connect"
        /\ Head(todo).f = "run" => Tail(todo) = Callback
        /\ Head(todo).f = "release" => Tail(todo) = Callback
        /\ Head(todo).f = "startReturns" => Tail(todo) = <<Release>> \o Callback
    BY <1>0, <1>3, CallbackTop
  <2>2. st = "started" /\ pool = "up" /\ ~Closing
    BY <1>3 DEF CallbackInv, CloseInv
  <2>3. pool' = "up"
    <3>1. ~StopPool /\ ~StopReturned
      BY <2>2 DEF StopPool, StopReturned, Closing
    <3> QED BY <2>2, <3>1, CallerMoves DEF Start, Stop, StartReturned
  <2>4. CASE UNCHANGED <<todo, events, st>>
    BY <1>3, <2>2, <2>3, <2>4 DEF CallbackInv
  <2>5. CASE Head(todo).f = "recv" /\ ~UNCHANGED <<todo, events, st>>
    <3>1. Recv \/ StartInCallback
      BY <2>1, <2>5, TopReturns
    <3>2. ~Recv
      <4>1. SUFFICES ASSUME Recv PROVE FALSE
        OBVIOUS
      <4>2. PICK gs \in Seq(Frame) : todo' = gs \o Tail(todo) /\ NoneOf(gs, RecvFrame)
        <5>1. <<>> \in Seq(Frame) /\ <<Run>> \in Seq(Frame) /\ NoneOf(<<>>, RecvFrame) /\ NoneOf(<<Run>>, RecvFrame)
          BY PlainFrames, EmptyMarks, SingleMarks DEF RecvFrame, Run
        <5>2. todo' = <<>> \o Tail(todo) \/ todo' = <<Run>> \o Tail(todo)
          BY <4>1 DEF Recv, Push, Then
        <5> QED BY <5>1, <5>2
      <4>3. Tail(todo) \in Seq(Frame) /\ NoneOf(Tail(todo), RecvFrame)
        BY <1>0, <2>1, <2>5, CallbackFrames
      <4>4. NoneOf(todo', RecvFrame)
        BY <4>2, <4>3, ConcatMarks
      <4> QED BY <1>1, <4>4 DEF Receiving, RecvFrame
    <3>3. StartInCallback /\ todo = Callback
      BY <2>1, <2>5, <3>1, <3>2
    <3>4. st' = st /\ todo' = (IF events = <<>> THEN <<Run>> ELSE <<>>) \o Callback
      BY <3>3 DEF StartInCallback, Push
    <3>5. events = <<>> => Len(events') = 1 /\ Head(events').e = "connect"
      <4>1. SUFFICES ASSUME events = <<>> PROVE Len(events') = 1 /\ Head(events').e = "connect"
        OBVIOUS
      <4>2. PICK x : events' = Append(events, x) /\ x.e = "connect"
        BY <3>3 DEF StartInCallback, Push
      <4>3. events' = <<x>>
        BY <4>1, <4>2
      <4> QED BY <4>2, <4>3
    <3>6. events # <<>> => todo' = Callback
      BY <3>4, CallbackFrames
    <3> QED BY <2>2, <2>3, <3>4, <3>5, <3>6
  <2>6. CASE Head(todo).f = "run" /\ ~UNCHANGED <<todo, events, st, linked>>
    <3>1. RunConnect
      BY <2>1, <2>6, TopActs DEF RunReconnect, RunSend, RunStop, RunDisconnect, RunNow
    <3>2. /\ Head(events).by \in Caller /\ events' = events /\ st' = st
          /\ todo' = (StartReturns(Head(events).by, "already_started") \o <<Release>>) \o Callback
      BY <2>1, <2>2, <2>6, <3>1, RunConnectInUse, RunConnectTakes DEF RunConnect
    <3> QED BY <2>1, <2>2, <2>3, <2>6, <3>2
  <2>7. CASE Head(todo).f = "startReturns" /\ ~UNCHANGED <<todo, events, st>>
    <3>1. SetStartPromise
      BY <2>1, <2>7, TopReturns
    <3>2. st' = st /\ events' = events /\ todo' = <<>> \o Tail(todo)
      BY <3>1 DEF SetStartPromise, Then
    <3>3. todo' = Tail(todo)
      BY <1>0, <2>1, <3>2, NoFrame
    <3> QED BY <2>1, <2>2, <2>3, <2>7, <3>2, <3>3
  <2>8. CASE Head(todo).f = "release" /\ ~UNCHANGED <<todo, events, st>>
    <3>1. NextEvent
      BY <2>1, <2>8, TopReturns
    <3>2. st' = st /\ todo' = <<>> \o Tail(todo)
      <4>1. Head(todo).f # "recv"
        BY <2>8
      <4>2. Len(events) = 1
        BY <2>1, <4>1
      <4>3. ~(Len(events) > 1)
        BY <4>2
      <4> QED BY <3>1, <4>3 DEF NextEvent, Then
    <3>3. todo' = Callback
      BY <1>0, <2>1, <2>8, <3>2, NoFrame, CallbackFrames
    <3> QED BY <2>2, <2>3, <3>2, <3>3
  <2> QED BY <2>1, <2>4, <2>5, <2>6, <2>7, <2>8
<1> QED BY <1>2, <1>3

\* The first calls are followed by others as long as the callback goes on.
LEMMA FollowKept ==
  ASSUME StartOnRecv => StopOnRecv, PhaseInv, CallbackInv, FollowInv, [Next]_vars PROVE FollowInv'
<1>0. /\ ClientInv /\ PushInv /\ events \in Seq(Event) /\ todo \in Seq(Frame)
      /\ NoneOf(ioq, IoPush) /\ (~StartOnRecv => NoneOf(events, IoConnect))
      /\ \A i \in 1..Len(events) :
            events[i] \in IoConnect => IF i < Len(events) THEN events[i + 1].e \in Call ELSE Receiving
  BY DEF PhaseInv, ClientInv, TypeOK, FollowInv
<1>1. NoneOf(ioq', IoPush)
  <2>1. ASSUME NEW hd \in Handler, Made(hd) PROVE hd \notin IoPush
    BY <2>1 DEF Made, IoPush, Pushed
  <2> QED BY <1>0, <2>1, QueueKept
<1>2. ASSUME NEW ev \in Event, Queued(ev), ev \in IoConnect PROVE StartInCallback
  <2>1. ~(HandlePush /\ ev = Head(ioq).ev)
    <3>1. SUFFICES ASSUME HandlePush, ev = Head(ioq).ev PROVE FALSE
      OBVIOUS
    <3>2. ioq \in Seq(Handler) /\ ioq # <<>> /\ Head(ioq).h = "push"
      BY <1>0, <3>1 DEF ClientInv, TypeOK, HandlePush, Ready
    <3>3. Head(ioq) \in Handler /\ Head(ioq) \notin IoPush
      BY <1>0, <3>2, FirstMark
    <3> QED BY <1>2, <3>1, <3>2, <3>3 DEF IoPush, Pushed, IoConnect
  <2> QED BY <1>2, <2>1 DEF Queued, IoConnect
<1>3. ~StartOnRecv => NoneOf(events', IoConnect)
  <2>1. SUFFICES ASSUME ~StartOnRecv PROVE NoneOf(events', IoConnect)
    OBVIOUS
  <2>2. ASSUME NEW ev \in Event, Queued(ev) PROVE ev \notin IoConnect
    BY <1>2, <2>1, <2>2 DEF StartInCallback
  <2> QED BY <1>0, <2>1, <2>2, EventKept
<1>4. Receiving /\ ~Recv => Receiving'
  BY <1>0, ReceivingStays
<1>5. ASSUME Receiving, Recv
      PROVE  IF StopOnRecv THEN \E ev \in Event : ev.e = "stop" /\ events' = Append(events, ev) ELSE events' = events
  <2>1. pool = "up"
    BY <1>5 DEF CallbackInv
  <2>2. [e |-> "stop", by |-> "io"] \in Event
    BY MakeEvent DEF Caller
  <2> QED BY <1>5, <2>1, <2>2 DEF Recv, Push
<1> DEFINE Follows(i) == IF i < Len(events') THEN events'[i + 1].e \in Call ELSE Receiving'
<1>6. SUFFICES ASSUME NEW i \in 1..Len(events'), events'[i] \in IoConnect PROVE Follows(i)
  BY <1>1, <1>3 DEF FollowInv, IoPush, IoConnect, Pushed
<1>7. CASE events' = events
  <2>1. i \in 1..Len(events) /\ events[i] \in IoConnect
    BY <1>6, <1>7
  <2>2. IF i < Len(events) THEN events[i + 1].e \in Call ELSE Receiving
    BY <1>0, <2>1
  <2>3. CASE i < Len(events)
    BY <1>7, <2>2, <2>3
  <2>4. CASE ~(i < Len(events))
    <3>1. StartOnRecv
      BY <1>0, <2>1 DEF NoneOf
    <3>2. ~Recv
      <4>1. SUFFICES ASSUME Recv PROVE FALSE
        OBVIOUS
      <4>2. PICK ev \in Event : events' = Append(events, ev)
        BY <1>5, <2>2, <2>4, <3>1, <4>1
      <4> QED BY <1>0, <1>7, <4>2
    <3> QED BY <1>4, <1>7, <2>2, <2>4, <3>2
  <2> QED BY <2>3, <2>4
<1>8. CASE NextEvent /\ events # <<>> /\ events' = Tail(events)
  <2>1. /\ i + 1 \in 1..Len(events) /\ events'[i] = events[i + 1] /\ Len(events') = Len(events) - 1
        /\ i < Len(events') => events'[i + 1] = events[i + 2]
    BY <1>0, <1>6, <1>8
  <2>2. IF i + 1 < Len(events) THEN events[i + 2].e \in Call ELSE Receiving
    <3>1. IF i + 1 < Len(events) THEN events[(i + 1) + 1].e \in Call ELSE Receiving
      BY <1>0, <1>6, <2>1
    <3>2. (i + 1) + 1 = i + 2
      OBVIOUS
    <3> QED BY <3>1, <3>2
  <2>3. ~Recv
    BY <1>8 DEF NextEvent, Recv, Top
  <2>4. CASE i < Len(events')
    <3>1. i + 1 < Len(events)
      BY <1>0, <2>1, <2>4
    <3> QED BY <2>1, <2>2, <2>4, <3>1
  <2>5. CASE ~(i < Len(events'))
    <3>1. ~(i + 1 < Len(events))
      BY <1>0, <2>1, <2>5
    <3> QED BY <1>4, <2>2, <2>3, <2>5, <3>1
  <2> QED BY <2>4, <2>5
<1>9. ASSUME NEW ev \in Event, Queued(ev), events' = Append(events, ev) PROVE Follows(i)
  <2>1. /\ Len(events') = Len(events) + 1 /\ events'[Len(events) + 1] = ev
        /\ \A j \in 1..Len(events) : events'[j] = events[j]
    BY <1>0, <1>9
  <2>2. CASE i = Len(events) + 1
    <3>1. StartInCallback
      BY <1>2, <1>6, <1>9, <2>1, <2>2
    <3>2. todo # <<>> /\ Head(todo).f = "recv" /\ Head(todo) \in Frame
      BY <1>0, <3>1, TopFrame DEF StartInCallback, Top
    <3>3. Receiving
      BY <1>0, <3>2, FirstMark DEF Receiving, RecvFrame
    <3>4. todo' = (IF events = <<>> THEN <<Run>> ELSE <<>>) \o todo
      BY <3>1 DEF StartInCallback, Push
    <3>5. Receiving'
      <4>1. <<Run>> \in Seq(Frame) /\ <<>> \in Seq(Frame)
        BY PlainFrames
      <4>2. ~NoneOf(todo', RecvFrame)
        BY <1>0, <3>3, <3>4, <4>1, ConcatMarks DEF Receiving
      <4> QED BY <4>2 DEF Receiving, RecvFrame
    <3> QED BY <2>1, <2>2, <3>5
  <2>3. CASE i \in 1..Len(events) /\ i < Len(events)
    <3>1. events[i] \in IoConnect /\ events[i + 1].e \in Call /\ i + 1 \in 1..Len(events)
      BY <1>0, <1>6, <2>1, <2>3
    <3> QED BY <2>1, <2>3, <3>1
  <2>4. CASE i = Len(events)
    <3>1. Receiving
      BY <1>0, <1>6, <2>1, <2>4
    <3>2. todo # <<>> /\ Head(todo).f \in {"recv", "run", "release", "startReturns"}
      BY <1>0, <3>1, CallbackTop
    <3>3. ~UNCHANGED <<todo, events, st>> /\ ~UNCHANGED <<todo, events, st, linked>>
      BY <1>0, <2>1
    <3>4. Recv \/ StartInCallback
      <4>1. CASE Head(todo).f = "recv"
        BY <3>2, <3>3, <4>1, TopReturns
      <4>2. CASE Head(todo).f # "recv"
        <5>1. \/ RunConnect \/ RunReconnect \/ RunSend \/ RunStop \/ RunDisconnect
              \/ SetStartPromise \/ NextEvent
          BY <3>2, <3>3, <4>2, TopActs, TopReturns
        <5>2. events' = events \/ events' = Tail(events)
          BY <5>1 DEF RunConnect, RunReconnect, RunSend, RunStop, RunDisconnect, SetStartPromise, NextEvent
        <5>3. Len(events) = 1
          BY <1>0, <3>1, <4>2, CallbackTop
        <5>4. events # <<>>
          BY <5>3
        <5>5. Len(Tail(events)) = Len(events) - 1
          BY <1>0, <5>4
        <5>6. Len(events') = 2 /\ Len(Tail(events)) = 0
          BY <2>1, <5>3, <5>5
        <5>7. Len(events') # Len(events) /\ Len(events') # Len(Tail(events))
          BY <5>3, <5>6
        <5> QED BY <5>2, <5>7, Zenon
      <4> QED BY <4>1, <4>2
    <3>5. ev.e \in Call
      <4>1. CASE StartInCallback
        <5>1. PICK x : x.e = "connect" /\ events' = Append(events, x)
          BY <4>1 DEF StartInCallback, Push
        <5>2. events'[Len(events) + 1] = x
          BY <1>0, <5>1
        <5> QED BY <2>1, <5>1, <5>2 DEF Call
      <4>2. CASE Recv
        <5>1. events' # events
          BY <1>0, <1>9
        <5>2. PICK x \in Event : x.e = "stop" /\ events' = Append(events, x)
          BY <1>5, <3>1, <4>2, <5>1
        <5>3. events'[Len(events) + 1] = x
          BY <1>0, <5>2
        <5> QED BY <2>1, <5>2, <5>3 DEF Call
      <4> QED BY <3>4, <4>1, <4>2
    <3> QED BY <1>0, <2>1, <2>4, <3>5
  <2> QED BY <1>0, <1>6, <2>1, <2>2, <2>3, <2>4
<1> QED BY <1>0, <1>7, <1>8, <1>9, EventQueued DEF Requeued

\* What is left after the game thread's stop ends with a stop.
LEMMA CloseKept ==
  ASSUME PhaseInv, HeadInv, OrderInv, CallbackInv, FollowInv, CloseInv, [Next]_vars PROVE CloseInv'
<1>0. ClientInv /\ PushInv /\ events \in Seq(Event) /\ todo \in Seq(Frame)
  BY DEF PhaseInv, ClientInv, TypeOK
<1>1. SUFFICES ASSUME Closing'
               PROVE  /\ ~Receiving'
                      /\ wanted' => /\ events' # <<>> /\ Head(events').e \in Call
                                    /\ Head(events').e = "stop" => ~NoRun(todo')
  BY DEF CloseInv, Call
<1>2. CASE ~Closing
  <2>1. SetStopPromise /\ ~wanted
    BY <1>0, <1>1, <1>2, ClosingBegins
  <2>2. todo # <<>> /\ Head(todo).f = "stopReturns" /\ wanted' = wanted
    BY <2>1 DEF SetStopPromise, Top
  <2>3. ~Receiving
    BY <1>0, <2>2, CallbackTop
  <2>4. ~Receiving'
    BY <1>0, <2>2, <2>3, ReceivingBegins
  <2> QED BY <2>1, <2>2, <2>4
<1>3. CASE Closing
  <2>1. /\ ~Receiving
        /\ wanted => /\ events # <<>> /\ Head(events).e \in Call
                     /\ Head(events).e = "stop" => ~NoRun(todo)
    BY <1>3 DEF CloseInv
  <2>2. ~Receiving'
    BY <1>0, <1>3, <2>1, ReceivingBegins, NoMessageWhileClosing
  <2>3. CASE ~wanted'
    BY <2>2, <2>3
  <2>4. CASE wanted' /\ ~wanted
    <3>1. RunConnect
      BY <2>4, WantedMoves
    <3>2. events # <<>> /\ Head(events).e = "connect" /\ events' = events
      BY <1>0, <3>1, RunEvent DEF RunConnect
    <3> QED BY <2>2, <3>2 DEF Call
  <2>5. CASE wanted' /\ wanted /\ ~NextEvent
    <3>1. events' # <<>> /\ Head(events') = Head(events)
      BY <1>0, <2>1, <2>5, HeadStays
    <3>2. ASSUME Head(events).e = "stop" PROVE ~NoRun(todo')
      <4>1. SUFFICES ASSUME NoneOf(todo', {Run}) PROVE FALSE
        BY DEF NoRun, NoneOf
      <4>2. ~NoneOf(todo, {Run})
        BY <2>1, <2>5, <3>2 DEF NoRun, NoneOf
      <4>3. todo # <<>> /\ Head(todo) = Run
        BY <1>0, <4>1, <4>2, FramesKept
      <4>4. RunConnect \/ RunReconnect \/ RunSend \/ RunStop \/ RunDisconnect
        <5>1. ~UNCHANGED <<todo, events, st, linked>>
          BY <4>1, <4>2
        <5>2. Head(todo).f = "run"
          BY <4>3 DEF Run
        <5> QED BY <4>3, <5>1, <5>2, TopActs
      <4>5. RunStop
        BY <3>2, <4>4 DEF RunConnect, RunReconnect, RunSend, RunDisconnect, RunNow
      <4> QED BY <2>5, <4>5 DEF RunStop
    <3> QED BY <2>1, <2>2, <2>5, <3>1, <3>2
  <2>6. CASE wanted' /\ wanted /\ NextEvent
    <3>1. /\ todo # <<>> /\ Head(todo).f = "release" /\ events' = Tail(events)
          /\ todo' = (IF Len(events) > 1 THEN <<Run>> ELSE <<>>) \o Tail(todo)
      BY <2>6 DEF NextEvent, Top, Then
    <3>2. Head(events).e = "connect" /\ events # <<>>
      <4>1. NoRun(todo)
        <5>1. Tail(todo) \in Seq(Frame) /\ NoneOf(Tail(todo), GuardFrame)
          BY <1>0, <3>1, TopFrame DEF HoldingFrame, Unheld
        <5>2. NoneOf(Tail(todo), {Run})
          BY <5>1, UnheldNoRun DEF NoRun, NoneOf
        <5>3. Head(todo) # Run
          BY <3>1 DEF Run
        <5>4. NoneOf(todo, {Run})
          BY <1>0, <3>1, <5>2, <5>3, FirstMark
        <5> QED BY <5>4 DEF NoRun, NoneOf
      <4> QED BY <2>1, <2>6, <4>1 DEF Call
    <3>3. 1 \in 1..Len(events) /\ events[1] = Head(events) /\ events[1] \in Event
      BY <1>0, <3>2
    <3>4. events[1] \in IoConnect
      <4>1. events[1] \notin GameConnect
        BY <1>3, <3>3 DEF OrderInv, NoneOf
      <4>2. events[1].by \in Caller
        BY <3>2, <3>3, EventKinds
      <4> QED BY <3>2, <3>3, <4>1, <4>2 DEF IoConnect, GameConnect, Caller
    <3>5. IF 1 < Len(events) THEN events[1 + 1].e \in Call ELSE Receiving
      BY <3>3, <3>4 DEF FollowInv
    <3>6. 1 < Len(events) /\ events[2].e \in Call
      <4>1. 1 < Len(events)
        BY <2>1, <3>5
      <4> QED BY <3>5, <4>1
    <3>7. events' # <<>> /\ Head(events') = events[2]
      <4>1. events # <<>> /\ Len(events) > 1
        BY <1>0, <3>2, <3>6
      <4>2. Len(Tail(events)) = Len(events) - 1 /\ Tail(events) \in Seq(Event)
        BY <1>0, <4>1
      <4>3. 1 \in 1..Len(Tail(events)) /\ Tail(events)[1] = events[2]
        BY <1>0, <4>1, <4>2
      <4> QED BY <3>1, <4>2, <4>3
    <3>8. ~NoRun(todo')
      <4>1. todo' = <<Run>> \o Tail(todo) /\ <<Run>> \in Seq(Frame) /\ Tail(todo) \in Seq(Frame)
        <5>1. Len(events) > 1
          BY <1>0, <3>6
        <5> QED BY <1>0, <3>1, <5>1, PlainFrames
      <4>2. ~NoRun(<<Run>>)
        BY DEF NoRun, NoneOf
      <4> QED BY <4>1, <4>2, NoRunFrames
    <3> QED BY <2>2, <3>6, <3>7, <3>8
  <2> QED BY <2>3, <2>4, <2>5, <2>6
<1> QED BY <1>2, <1>3

\* All of it.
PromiseInv ==
    /\ PhaseInv /\ ReadInv /\ LinkInv /\ PoolInv /\ ReconnectInv
    /\ HeadInv /\ RetryInv /\ OrderInv /\ CallbackInv /\ FollowInv /\ CloseInv

LEMMA PromiseInit == Init => HeadInv /\ RetryInv /\ OrderInv /\ CallbackInv /\ FollowInv /\ CloseInv
<1> SUFFICES ASSUME Init PROVE HeadInv /\ RetryInv /\ OrderInv /\ CallbackInv /\ FollowInv /\ CloseInv
  OBVIOUS
<1>1. /\ events = <<>> /\ todo = <<>> /\ ioq = <<>> /\ st = "stopped" /\ op.close = "no" /\ op.write = 0
      /\ rtimer.wait = "none" /\ game = "idle" /\ pool = "down"
  BY DEF Init
<1>2. \A H : NoneOf(<<>>, H)
  BY EmptyMarks
<1>3. \A A, B : Last(<<>>, A, B)
  BY DEF Last
<1>4. ~Receiving
  BY <1>1, <1>2 DEF Receiving
<1>5. HeadInv /\ RetryInv /\ OrderInv
  BY <1>1, <1>2, <1>3 DEF HeadInv, RetryInv, OrderInv, Connected, Closing
<1> QED BY <1>1, <1>2, <1>4, <1>5 DEF CallbackInv, FollowInv, CloseInv, Closing

LEMMA PromiseInductive == ASSUME StartOnRecv => StopOnRecv PROVE Spec => []PromiseInv
<1>1. Init => HeadInv /\ RetryInv /\ OrderInv /\ CallbackInv /\ FollowInv /\ CloseInv
  BY PromiseInit
<1>2. /\ PhaseInv /\ ReadInv /\ LinkInv /\ PoolInv /\ ReconnectInv
      /\ HeadInv /\ RetryInv /\ OrderInv /\ CallbackInv /\ FollowInv /\ CloseInv
      /\ [Next]_vars
      => HeadInv' /\ RetryInv' /\ OrderInv' /\ CallbackInv' /\ FollowInv' /\ CloseInv'
  BY HeadKept, RetryKept, OrderKept, CallbackKept, FollowKept, CloseKept
<1>3. Spec => []ReconnectInv
  <2>1. Init => ReconnectInv /\ PushInv /\ ClientInv
    BY InitInv, EmptyMarks DEF Init, ReconnectInv, PushInv
  <2>2. ClientInv /\ PushInv /\ ReconnectInv /\ [Next]_vars => ClientInv' /\ PushInv' /\ ReconnectInv'
    BY NextInv, PushKept, ReconnectKept
  <2> QED BY <2>1, <2>2, PTL DEF Spec
<1> QED BY <1>1, <1>2, <1>3, PhaseInductive, ReadInductive, LinkInductive, PoolInductive, PTL DEF Spec, PromiseInv

----------------------------------------------------------------------------
(* What a step does to the calls that are on their way. *)

\* Of the handlers that a step takes or adds only those that carry a call matter.
LEMMA QueuedCallsWait ==
  ASSUME ClientInv, [Next]_vars, ~Start, ~Stop, ~HandlePush
  PROVE  Gather(HandlerCall, ioq') = Gather(HandlerCall, ioq)
<1>1. PICK q, hs \in Seq(Handler) : Left(q) /\ Added(hs) /\ ioq' = q \o hs
  BY HandlersAdded DEF Rehandled
<1>2. ioq \in Seq(Handler)
  BY DEF ClientInv, TypeOK
<1>3. Gather(HandlerCall, q \o hs) = Gather(HandlerCall, q) \o Gather(HandlerCall, hs)
  BY CallKinds, GatherConcat
<1>4. Gather(HandlerCall, hs) = <<>>
  <2>1. \A i \in 1..Len(hs) : hs[i] \in Handler /\ hs[i].h # "push"
    <3>1. \A i \in 1..Len(hs) : hs[i] \in Handler /\ hs[i] \notin Unmade
      BY <1>1 DEF Added, NoneOf
    <3> QED BY <3>1 DEF Unmade, Made
  <2>2. \A i \in 1..Len(hs) : HandlerCall[hs[i]] = <<>>
    BY <2>1, CallKinds
  <2> QED BY <2>2, CallKinds, GatherNone
<1>5. Gather(HandlerCall, q) = Gather(HandlerCall, ioq) /\ Gather(HandlerCall, q) \in Seq(Promise!Call)
  <2>1. Gather(HandlerCall, q) \in Seq(Promise!Call)
    BY CallKinds, GatherType
  <2>2. CASE q = ioq
    BY <2>1, <2>2
  <2>3. CASE ioq # <<>> /\ q = Tail(ioq) /\ Head(ioq).h # "push"
    <3>1. Head(ioq) \in Handler
      BY <1>2, <2>3
    <3>2. HandlerCall[Head(ioq)] = <<>>
      BY <2>3, <3>1, CallKinds
    <3>3. Gather(HandlerCall, ioq) = HandlerCall[Head(ioq)] \o Gather(HandlerCall, Tail(ioq))
      BY <1>2, <2>3, CallKinds, GatherFirst
    <3>4. \A s \in Seq(Promise!Call) : <<>> \o s = s
      OBVIOUS
    <3> QED BY <2>1, <2>3, <3>2, <3>3, <3>4
  <2> QED BY <1>1, <2>2, <2>3 DEF Left
<1>6. \A s \in Seq(Promise!Call) : s \o <<>> = s
  OBVIOUS
<1> QED BY <1>1, <1>3, <1>4, <1>5, <1>6

\* Most steps move no call.
LEMMA CallsWait ==
  ASSUME ClientInv, ClientInv', PushInv, [Next]_vars,
         ~Start, ~Stop, ~HandlePush, ~Recv, ~StartInCallback, ~RunConnect, ~RunStop
  PROVE  PendingCalls' = PendingCalls
<1> DEFINE W == Waiting(events, todo)
           Z == Waiting(events', todo')
<1>1. /\ W \in Seq(Event)
      /\ \/ Z = W
         \/ \E ev \in Event : Queued(ev) /\ Z = Append(W, ev)
         \/ W # <<>> /\ Z = Tail(W) /\ W = events /\ todo # <<>> /\ Head(todo).f = "run"
  BY WaitingMoves
<1> HIDE DEF W, Z
<1>2. Gather(EventCall, W) \in Seq(Promise!Call)
  BY <1>1, CallKinds, GatherType
<1>3. Gather(EventCall, Z) = Gather(EventCall, W)
  <2>1. CASE Z = W
    BY <2>1
  <2>2. ASSUME NEW ev \in Event, Queued(ev), Z = Append(W, ev) PROVE Gather(EventCall, Z) = Gather(EventCall, W)
    <3>1. ev.e \notin {"connect", "stop"}
      BY <2>2 DEF Queued
    <3>2. EventCall[ev] = <<>>
      BY <3>1, CallKinds
    <3>3. Gather(EventCall, Z) = Gather(EventCall, W) \o EventCall[ev]
      BY <1>1, <2>2, CallKinds, GatherLast
    <3>4. \A s \in Seq(Promise!Call) : s \o <<>> = s
      OBVIOUS
    <3> QED BY <1>2, <3>2, <3>3, <3>4
  <2>3. CASE Z # W /\ W # <<>> /\ Z = Tail(W) /\ W = events /\ todo # <<>> /\ Head(todo).f = "run"
    <3>1. ~UNCHANGED <<todo, events, st, linked>>
      BY <2>3 DEF W, Z
    <3>2. RunReconnect \/ RunSend \/ RunDisconnect
      BY <2>3, <3>1, TopActs
    <3>3. Head(events).e \notin {"connect", "stop"} /\ Head(events) \in Event
      BY <1>1, <2>3, <3>2 DEF RunReconnect, RunSend, RunDisconnect, RunNow
    <3>4. EventCall[Head(W)] = <<>>
      BY <2>3, <3>3, CallKinds
    <3>5. Gather(EventCall, W) = EventCall[Head(W)] \o Gather(EventCall, Tail(W))
      <4>1. W \in Seq(Event) /\ W # <<>> /\ Lists(EventCall, Event, Promise!Call)
        BY <1>1, <2>3, CallKinds
      <4> QED BY <4>1, GatherFirst
    <3>6. Tail(W) \in Seq(Event)
      BY <1>1, <2>3
    <3>7. Gather(EventCall, Tail(W)) \in Seq(Promise!Call)
      BY <3>6, CallKinds, GatherType
    <3>8. \A s \in Seq(Promise!Call) : <<>> \o s = s
      OBVIOUS
    <3> QED BY <2>3, <3>4, <3>5, <3>7, <3>8
  <2> QED BY <1>1, <2>1, <2>2, <2>3
<1>4. Gather(HandlerCall, ioq') = Gather(HandlerCall, ioq)
  BY QueuedCallsWait
<1>5. PendingCalls = CallsOf(W, ioq) /\ PendingCalls' = CallsOf(Z, ioq')
  BY PendingAre DEF W, Z
<1> QED BY <1>3, <1>4, <1>5 DEF CallsOf

\* What CallsOf is made of.
LEMMA CallsTyped ==
  ASSUME NEW W \in Seq(Event), NEW q \in Seq(Handler)
  PROVE  /\ Gather(EventCall, W) \in Seq(Promise!Call) /\ Gather(HandlerCall, q) \in Seq(Promise!Call)
         /\ CallsOf(W, q) \in Seq(Promise!Call)
<1>1. Gather(EventCall, W) \in Seq(Promise!Call) /\ Gather(HandlerCall, q) \in Seq(Promise!Call)
  BY CallKinds, GatherType
<1> QED BY <1>1, ConcatProperties DEF CallsOf

LEMMA CallsAssociate ==
  ASSUME NEW a \in Seq(Promise!Call), NEW b \in Seq(Promise!Call), NEW c \in Seq(Promise!Call)
  PROVE  (a \o b) \o c = a \o (b \o c)
OBVIOUS

\* The events and the handlers one at a time.
LEMMA CallSteps ==
  ASSUME NEW W \in Seq(Event), NEW q \in Seq(Handler), NEW ev \in Event
  PROVE  /\ EventCall[ev] \in Seq(Promise!Call)
         /\ CallsOf(Append(W, ev), q) = (Gather(EventCall, W) \o EventCall[ev]) \o Gather(HandlerCall, q)
         /\ CallsOf(W, Append(q, [h |-> "push", ev |-> ev])) = CallsOf(W, q) \o EventCall[ev]
         /\ W # <<>> => CallsOf(W, q) = EventCall[Head(W)] \o CallsOf(Tail(W), q)
         /\ q # <<>> /\ Head(q) = [h |-> "push", ev |-> ev] =>
                CallsOf(W, q) = CallsOf(Append(W, ev), Tail(q))
<1> DEFINE hd == [h |-> "push", ev |-> ev]
<1>1. EventCall[ev] \in Seq(Promise!Call) /\ hd \in Handler /\ HandlerCall[hd] = EventCall[ev]
  <2>1. hd \in Handler /\ hd.h = "push" /\ hd.ev = ev
    BY MakeHandler
  <2>2. EventCall[ev] \in Seq(Promise!Call)
    BY CallKinds DEF Lists
  <2> HIDE DEF hd
  <2> QED BY <2>1, <2>2, CallKinds
<1> HIDE DEF hd
<1>2. Gather(EventCall, W) \in Seq(Promise!Call) /\ Gather(HandlerCall, q) \in Seq(Promise!Call)
  BY CallsTyped
<1>4. Gather(EventCall, Append(W, ev)) = Gather(EventCall, W) \o EventCall[ev]
  BY CallKinds, GatherLast
<1>5. Gather(HandlerCall, Append(q, hd)) = Gather(HandlerCall, q) \o EventCall[ev]
  BY <1>1, CallKinds, GatherLast, SMTT(30)
<1>6. CallsOf(W, Append(q, hd)) = CallsOf(W, q) \o EventCall[ev]
  <2>1. (Gather(EventCall, W) \o Gather(HandlerCall, q)) \o EventCall[ev]
            = Gather(EventCall, W) \o (Gather(HandlerCall, q) \o EventCall[ev])
    BY <1>1, <1>2, CallsAssociate
  <2> QED BY <1>5, <2>1 DEF CallsOf
<1>7. ASSUME W # <<>> PROVE CallsOf(W, q) = EventCall[Head(W)] \o CallsOf(Tail(W), q)
  <2>1. Tail(W) \in Seq(Event) /\ Head(W) \in Event
    BY <1>7
  <2>2. Gather(EventCall, W) = EventCall[Head(W)] \o Gather(EventCall, Tail(W))
    BY <1>7, CallKinds, GatherFirst
  <2>3. EventCall[Head(W)] \in Seq(Promise!Call)
    BY <2>1, CallKinds DEF Lists
  <2>4. Gather(EventCall, Tail(W)) \in Seq(Promise!Call)
    BY <2>1, CallsTyped
  <2>5. (EventCall[Head(W)] \o Gather(EventCall, Tail(W))) \o Gather(HandlerCall, q)
            = EventCall[Head(W)] \o (Gather(EventCall, Tail(W)) \o Gather(HandlerCall, q))
    BY <1>2, <2>3, <2>4, CallsAssociate
  <2> QED BY <2>2, <2>5 DEF CallsOf
<1>8. ASSUME q # <<>>, Head(q) = hd PROVE CallsOf(W, q) = CallsOf(Append(W, ev), Tail(q))
  <2>1. Gather(HandlerCall, q) = EventCall[ev] \o Gather(HandlerCall, Tail(q))
    <3>1. q \in Seq(Handler) /\ q # <<>> /\ Lists(HandlerCall, Handler, Promise!Call)
      BY <1>8, CallKinds
    <3>2. Gather(HandlerCall, q) = HandlerCall[Head(q)] \o Gather(HandlerCall, Tail(q))
      BY <3>1, GatherFirst
    <3> QED BY <1>1, <1>8, <3>2
  <2>2. Gather(HandlerCall, Tail(q)) \in Seq(Promise!Call)
    <3>1. Tail(q) \in Seq(Handler)
      BY <1>8
    <3> QED BY <3>1, CallsTyped
  <2>3. (Gather(EventCall, W) \o EventCall[ev]) \o Gather(HandlerCall, Tail(q))
            = Gather(EventCall, W) \o (EventCall[ev] \o Gather(HandlerCall, Tail(q)))
    BY <1>1, <1>2, <2>2, CallsAssociate
  <2> QED BY <1>4, <2>1, <2>3 DEF CallsOf
<1> QED BY <1>1, <1>4, <1>6, <1>7, <1>8 DEF CallsOf, hd

----------------------------------------------------------------------------
(* The client as the abstract specification sees it. *)

Seen(p, s, k, w, h) == [pool |-> p, st |-> s, calls |-> k, wanted |-> w, host |-> h]
ClientSeen == Seen(PoolSeen, st, PendingCalls, wanted, host)
PromiseStep ==
    [Promise!StartCalled \/ Promise!StopCalled \/ Promise!Callback \/ Promise!IoThread]_ClientSeen

LEMMA SeenAs ==
  ASSUME NEW p, NEW s, NEW k, NEW w, NEW h, NEW c, c = Seen(p, s, k, w, h)
  PROVE  /\ c.pool = p /\ c.st = s /\ c.calls = k /\ c.wanted = w /\ c.host = h
         /\ \A t : [c EXCEPT !.st = t] = Seen(p, t, k, w, h)
         /\ \A l : [c EXCEPT !.calls = l] = Seen(p, s, l, w, h)
         /\ \A r : [c EXCEPT !.pool = r] = Seen(r, s, k, w, h)
         /\ \A v : [c EXCEPT !.wanted = v] = Seen(p, s, k, v, h)
         /\ \A x : [c EXCEPT !.host = x] = Seen(p, s, k, w, x)
  BY DEF Seen

LEMMA SeenCalled ==
  ASSUME NEW p, NEW s, NEW k, NEW w, NEW h, NEW c, c = Seen(p, s, k, w, h)
  PROVE  /\ \A x : Promise!Started(c, x) = Seen("up", s, Append(k, [call |-> "start", to |-> x]), w, h)
         /\ p = "up" => Promise!Stopping(c) = Seen("ending", s, Append(k, [call |-> "stop"]), w, h)
<1>0. c.calls = k /\ c.pool = p
  BY DEF Seen
<1>1. ASSUME NEW x PROVE Promise!Started(c, x) = Seen("up", s, Append(k, [call |-> "start", to |-> x]), w, h)
  <2> DEFINE l == Append(k, [call |-> "start", to |-> x])
  <2>1. ASSUME NEW d, d = [c EXCEPT !.pool = "up"] PROVE [d EXCEPT !.calls = l] = Seen("up", s, l, w, h)
    <3>1. d = Seen("up", s, k, w, h)
      BY <2>1 DEF Seen
    <3> HIDE DEF l
    <3> QED BY <3>1 DEF Seen
  <2> HIDE DEF l
  <2>2. [c EXCEPT !.pool = "up", !.calls = l] = Seen("up", s, l, w, h)
    BY <2>1
  <2> QED BY <1>0, <2>2 DEF l, Promise!Started
<1>2. ASSUME p = "up" PROVE Promise!Stopping(c) = Seen("ending", s, Append(k, [call |-> "stop"]), w, h)
  <2> DEFINE l == Append(k, [call |-> "stop"])
  <2> HIDE DEF l
  <2>2. ASSUME NEW d, d = [c EXCEPT !.pool = "ending"] PROVE [d EXCEPT !.calls = l] = Seen("ending", s, l, w, h)
    <3>1. d = Seen("ending", s, k, w, h)
      BY <2>2 DEF Seen
    <3> QED BY <3>1 DEF Seen
  <2>1. [c EXCEPT !.pool = "ending", !.calls = l] = Seen("ending", s, l, w, h)
    BY <2>2
  <2> QED BY <1>0, <1>2, <2>1 DEF l, Promise!Stopping
<1> QED BY <1>1, <1>2

\* The call is put between those that wait in the queue and those on their way to it.
LEMMA SeenCutIn ==
  ASSUME NEW p, NEW s, NEW w, NEW h, NEW x \in Promise!Call,
         NEW a \in Seq(Promise!Call), NEW b \in Seq(Promise!Call), NEW c, c = Seen(p, s, a \o b, w, h)
  PROVE  Seen(p, s, (a \o <<x>>) \o b, w, h) \in Promise!CutIn(c, x)
<1>1. Len(a) \in 0..Len(a \o b) /\ SubSeq(a \o b, 1, Len(a)) = a /\ SubSeq(a \o b, Len(a) + 1, Len(a \o b)) = b
  OBVIOUS
<1>2. c.calls = a \o b /\ [c EXCEPT !.calls = (a \o <<x>>) \o b] = Seen(p, s, (a \o <<x>>) \o b, w, h)
  <2> DEFINE k == a \o b
             l == (a \o <<x>>) \o b
  <2> HIDE DEF k, l
  <2>1. c = Seen(p, s, k, w, h)
    BY DEF k
  <2>2. c.calls = k /\ [c EXCEPT !.calls = l] = Seen(p, s, l, w, h)
    BY <2>1, SeenAs
  <2> QED BY <2>2 DEF k, l
<1>3. [c EXCEPT !.calls = (SubSeq(c.calls, 1, Len(a)) \o <<x>>) \o SubSeq(c.calls, Len(a) + 1, Len(c.calls))]
          = Seen(p, s, (a \o <<x>>) \o b, w, h)
  BY <1>1, <1>2
<1> QED BY <1>1, <1>2, <1>3 DEF Promise!CutIn

BegunAs(c, t, v, x) == [c EXCEPT !.st = t, !.wanted = v, !.host = x]
StoppedAs(c, t, v)    == [c EXCEPT !.wanted = v, !.st = t]

LEMMA SeenBegun ==
  ASSUME NEW p, NEW s, NEW k, NEW w, NEW h, NEW c, c = Seen(p, s, k, w, h), NEW t, NEW v, NEW x
  PROVE  BegunAs(c, t, v, x) = Seen(p, t, k, v, x)
<1>1. ASSUME NEW d, d = [c EXCEPT !.st = t] PROVE [d EXCEPT !.wanted = v, !.host = x] = Seen(p, t, k, v, x)
  <2>1. d = Seen(p, t, k, w, h)
    BY <1>1 DEF Seen
  <2>2. ASSUME NEW e, e = [d EXCEPT !.wanted = v] PROVE [e EXCEPT !.host = x] = Seen(p, t, k, v, x)
    <3>1. e = Seen(p, t, k, v, h)
      BY <2>1, <2>2 DEF Seen
    <3> QED BY <3>1 DEF Seen
  <2> QED BY <2>2
<1> QED BY <1>1 DEF BegunAs

LEMMA SeenStopped ==
  ASSUME NEW p, NEW s, NEW k, NEW w, NEW h, NEW c, c = Seen(p, s, k, w, h), NEW t, NEW v
  PROVE  StoppedAs(c, t, v) = Seen(p, t, k, v, h)
<1>1. ASSUME NEW d, d = [c EXCEPT !.wanted = v] PROVE [d EXCEPT !.st = t] = Seen(p, t, k, v, h)
  <2>1. d = Seen(p, s, k, v, h)
    BY <1>1 DEF Seen
  <2> QED BY <2>1 DEF Seen
<1> QED BY <1>1 DEF StoppedAs

LEMMA SeenTaken ==
  ASSUME NEW p, NEW s, NEW l, NEW w, NEW h, NEW c, c = Seen(p, s, l, w, h), l # <<>>
  PROVE  /\ \A x : Head(l) = [call |-> "start", to |-> x] =>
                /\ s # "stopped" => Seen(p, s, Tail(l), w, h) \in Promise!Take(c)
                /\ s = "stopped" => Seen(p, "starting", Tail(l), TRUE, x) \in Promise!Take(c)
         /\ Head(l) = [call |-> "stop"] =>
                Seen(p, IF s \in {"starting", "started"} THEN "stopping" ELSE s, Tail(l), FALSE, h)
                    \in Promise!Take(c)
<1> DEFINE m == Tail(l)
           t == IF s \in {"starting", "started"} THEN "stopping" ELSE s
           r == Promise!Rest(c)
<1>1. c.calls = l /\ c.st = s
  BY DEF Seen
<1>2. r = Seen(p, s, m, w, h) /\ r.st = s
  <2>1. PICK n : n = m
    OBVIOUS
  <2>2. r = [c EXCEPT !.calls = n]
    BY <1>1, <2>1 DEF Promise!Rest
  <2> HIDE DEF m, r
  <2>3. r = Seen(p, s, n, w, h)
    BY <2>2 DEF Seen
  <2> QED BY <2>1, <2>3 DEF Seen
<1> HIDE DEF m, t, r
<1>3. ASSUME NEW x, Head(l) = [call |-> "start", to |-> x]
      PROVE  /\ s # "stopped" => Seen(p, s, m, w, h) \in Promise!TakeStart(c)
             /\ s = "stopped" => Seen(p, "starting", m, TRUE, x) \in Promise!TakeStart(c)
  <2>1. Head(l).call = "start" /\ Head(l).to = x
    BY <1>3
  <2>2. Promise!Comes(c, "start")
    BY <1>1, <2>1 DEF Promise!Comes
  <2>3. ASSUME s # "stopped" PROVE Promise!TakeStart(c) = {Seen(p, s, m, w, h)}
    BY <1>1, <1>2, <2>2, <2>3 DEF Promise!TakeStart, r
  <2>4. ASSUME s = "stopped" PROVE Promise!TakeStart(c) = {Seen(p, "starting", m, TRUE, x)}
    <3>1. BegunAs(r, "starting", TRUE, x) = Seen(p, "starting", m, TRUE, x)
      <4>1. \A v : BegunAs(r, "starting", v, x) = Seen(p, "starting", m, v, x)
        BY <1>2, SeenBegun
      <4> QED BY <4>1, Zenon
    <3>2. Promise!TakeStart(c) = {BegunAs(r, "starting", TRUE, Head(c.calls).to)}
      BY <1>1, <2>2, <2>4 DEF Promise!TakeStart, BegunAs, r
    <3> QED BY <1>1, <2>1, <3>1, <3>2
  <2> QED BY <2>3, <2>4
<1>4. ASSUME Head(l) = [call |-> "stop"] PROVE Seen(p, t, m, FALSE, h) \in Promise!TakeStop(c)
  <2>1. Promise!Comes(c, "stop")
    BY <1>1, <1>4 DEF Promise!Comes
  <2>2. StoppedAs(r, t, FALSE) = Seen(p, t, m, FALSE, h)
    <3>1. \A v : StoppedAs(r, t, v) = Seen(p, t, m, v, h)
      BY <1>2, SeenStopped
    <3> QED BY <3>1, Zenon
  <2>3. Promise!TakeStop(c) = {StoppedAs(r, t, FALSE)}
    BY <1>2, <2>1 DEF Promise!TakeStop, StoppedAs, r, t
  <2> QED BY <2>2, <2>3
<1> QED BY <1>3, <1>4 DEF m, t, Promise!Take

LEMMA SeenMoves ==
  ASSUME NEW p, NEW s, NEW k, NEW w, NEW h, NEW c, c = Seen(p, s, k, w, h)
  PROVE  /\ s = "starting" => \A t \in {"started", "stopping"} : Seen(p, t, k, w, h) \in Promise!Settle(c)
         /\ s = "started" => Seen(p, "stopping", k, w, h) \in Promise!Lose(c)
         /\ s = "stopping" => Seen(p, "stopped", k, w, h) \in Promise!Finish(c)
         /\ s = "stopped" /\ w => Seen(p, "starting", k, w, h) \in Promise!Redial(c)
         /\ p = "ending" /\ s = "stopped" /\ k = <<>> /\ ~w => Seen("down", s, k, w, h) \in Promise!End(c)
<1>1. /\ c.pool = p /\ c.st = s /\ c.calls = k /\ c.wanted = w /\ c.host = h
      /\ \A t : [c EXCEPT !.st = t] = Seen(p, t, k, w, h)
      /\ \A r : [c EXCEPT !.pool = r] = Seen(r, s, k, w, h)
  BY SeenAs
<1> QED BY <1>1 DEF Promise!Settle, Promise!Lose, Promise!Finish, Promise!Redial, Promise!End

----------------------------------------------------------------------------
(* Every step of the client is one that it promised, or none. *)

\* How the record the specification sees gets from one value to the next.
LEMMA SeenSteps ==
  /\ ClientSeen' = ClientSeen => PromiseStep
  /\ \A h \in 1..MaxStarts :
        ClientSeen.pool # "ending" /\ ClientSeen' = Promise!Started(ClientSeen, h) => PromiseStep
  /\ ClientSeen.pool = "up" /\ ClientSeen' = Promise!Stopping(ClientSeen) => PromiseStep
  /\ \A h \in 1..MaxStarts : ClientSeen' \in Promise!StartedInCallback(ClientSeen, h) => PromiseStep
  /\ ClientSeen' \in Promise!StoppedInCallback(ClientSeen) => PromiseStep
  /\ ClientSeen' \in Promise!Take(ClientSeen) => PromiseStep
  /\ ClientSeen' \in Promise!Settle(ClientSeen) => PromiseStep
  /\ ClientSeen' \in Promise!Lose(ClientSeen) => PromiseStep
  /\ ClientSeen' \in Promise!Finish(ClientSeen) => PromiseStep
  /\ ClientSeen' \in Promise!End(ClientSeen) => PromiseStep
  /\ AutoReconnect /\ ClientSeen' \in Promise!Redial(ClientSeen) => PromiseStep
<1>1. /\ Promise!StartCalled <=>
            ClientSeen.pool # "ending" /\ \E h \in 1..MaxStarts : ClientSeen' = Promise!Started(ClientSeen, h)
      /\ Promise!StopCalled <=> ClientSeen.pool = "up" /\ ClientSeen' = Promise!Stopping(ClientSeen)
  BY DEF Promise!StartCalled, Promise!StopCalled, ClientSeen, PoolSeen, Seen
<1>2. Promise!Callback <=> \/ \E h \in 1..MaxStarts : ClientSeen' \in Promise!StartedInCallback(ClientSeen, h)
                           \/ ClientSeen' \in Promise!StoppedInCallback(ClientSeen)
  BY DEF Promise!Callback, ClientSeen, PoolSeen, Seen
<1>3. Promise!IoThread <=>
        \/ ClientSeen' \in Promise!Take(ClientSeen) \/ ClientSeen' \in Promise!Settle(ClientSeen)
        \/ ClientSeen' \in Promise!Lose(ClientSeen) \/ ClientSeen' \in Promise!Finish(ClientSeen)
        \/ ClientSeen' \in Promise!End(ClientSeen)
        \/ AutoReconnect /\ ClientSeen' \in Promise!Redial(ClientSeen)
  BY DEF Promise!IoThread, ClientSeen, PoolSeen, Seen
<1> QED BY <1>1, <1>2, <1>3 DEF PromiseStep

LEMMA NoCalls == CallsOf(<<>>, <<>>) = <<>>
<1>1. <<>> \in Seq(Event) /\ <<>> \in Seq(Handler)
  OBVIOUS
<1>3. Gather(EventCall, <<>>) = <<>> /\ Gather(HandlerCall, <<>>) = <<>>
  BY GatherEmpty
<1>4. <<>> \o <<>> = <<>>
  OBVIOUS
<1> QED BY <1>3, <1>4 DEF CallsOf

LEMMA SeenNext ==
  /\ ClientSeen = Seen(PoolSeen, st, PendingCalls, wanted, host)
  /\ ClientSeen' = Seen(PoolSeen', st', PendingCalls', wanted', host')
  BY DEF ClientSeen, Seen

LEMMA PoolSeenMoves ==
  ASSUME OrderInv, [Next]_vars, ~Start, ~Stop, ~StopReturned PROVE PoolSeen' = PoolSeen
<1>1. CASE StartReturned
  BY <1>1 DEF PoolSeen, StartReturned
<1>2. CASE StopPool
  BY <1>2 DEF PoolSeen, StopPool, OrderInv
<1>3. CASE UNCHANGED <<game, pool>>
  BY <1>3 DEF PoolSeen
<1> QED BY <1>1, <1>2, <1>3, CallerMoves

\* Where no call is made or taken the state may change.
LEMMA OtherSteps ==
  ASSUME PromiseInv, ClientInv', [Next]_vars,
         ~Start, ~Stop, ~StopReturned, ~HandlePush, ~Recv, ~StartInCallback, ~RunConnect, ~RunStop
  PROVE  PromiseStep
<1>0. ClientInv /\ PushInv /\ ReconnectInv /\ OrderInv /\ RetryInv
  BY DEF PromiseInv, PhaseInv
<1>1. PendingCalls' = PendingCalls /\ wanted' = wanted /\ host' = host /\ PoolSeen' = PoolSeen
  BY <1>0, CallsWait, WantedMoves, PoolSeenMoves
<1>2. ClientSeen = Seen(PoolSeen, st, PendingCalls, wanted, host)
      /\ ClientSeen' = Seen(PoolSeen, st', PendingCalls, wanted, host)
  BY <1>1, SeenNext
<1>3. CASE st' = st
  BY <1>2, <1>3, SeenSteps
<1>4. st \in State /\ st' \in State
  BY <1>0 DEF ClientInv, TypeOK
<1>5. CASE st = "starting" /\ st' # st
  <2>1. st' \in {"started", "stopping"}
    BY <1>0, <1>4, <1>5, WhoStops DEF State
  <2>2. ClientSeen' \in Promise!Settle(ClientSeen)
    BY <1>2, <1>5, <2>1, SeenMoves
  <2> QED BY <2>2, SeenSteps
<1>6. CASE st = "started" /\ st' # st
  <2>1. st' = "stopping"
    BY <1>0, <1>6, WhoStops
  <2>2. ClientSeen' \in Promise!Lose(ClientSeen)
    BY <1>2, <1>6, <2>1, SeenMoves
  <2> QED BY <2>2, SeenSteps
<1>7. CASE st = "stopping" /\ st' # st
  <2>1. st' = "stopped"
    BY <1>0, <1>7, WhoStops DEF Disconnect
  <2>2. ClientSeen' \in Promise!Finish(ClientSeen)
    BY <1>2, <1>7, <2>1, SeenMoves
  <2> QED BY <2>2, SeenSteps
<1>8. CASE st = "stopped" /\ st' # st
  <2>1. st' # "stopping"
    BY <1>0, <1>8, WhoStops, EndInPlace DEF Connected
  <2>2. st' = "starting" /\ RunReconnect
    BY <1>0, <1>4, <1>8, <2>1, WhoStops DEF State
  <2>3. attempt' # attempt
    <3>1. attempt' = attempt + 1
      BY <1>8, <2>2 DEF RunReconnect, StartConnect
    <3>2. attempt \in Nat
      BY <1>0 DEF ClientInv, TypeOK, Attempt
    <3> QED BY <3>1, <3>2
  <2>4. wanted
    BY <1>0, <1>1, <2>3, ReconnectTimerKept
  <2>5. AutoReconnect
    <3>1. events # <<>> /\ Head(events) \in RetryEvent /\ events \in Seq(Event)
      BY <1>0, <2>2, RunEvent DEF RunReconnect, RetryEvent, ClientInv, TypeOK
    <3>2. ~NoneOf(events, RetryEvent)
      BY <3>1, FirstMark
    <3> QED BY <1>0, <3>2 DEF RetryInv
  <2>6. ClientSeen' \in Promise!Redial(ClientSeen)
    BY <1>2, <1>8, <2>2, <2>4, SeenMoves
  <2> QED BY <2>5, <2>6, SeenSteps
<1> QED BY <1>3, <1>4, <1>5, <1>6, <1>7, <1>8 DEF State

\* The calls of the game thread.
LEMMA StartSteps == ASSUME PromiseInv, ClientInv', [Next]_vars, Start PROVE PromiseStep
<1>0. ClientInv /\ events \in Seq(Event) /\ ioq \in Seq(Handler) /\ starts \in 0..MaxStarts /\ MaxStarts \in Nat
  BY ClientAssumption DEF PromiseInv, PhaseInv, ClientInv, TypeOK
<1> DEFINE ev == [e |-> "connect", by |-> "game", to |-> starts + 1]
           W  == Waiting(events, todo)
<1>1. UNCHANGED <<events, todo, st, wanted, host>> /\ ioq' = Append(ioq, [h |-> "push", ev |-> ev]) /\ pool' = "up"
      /\ game = "idle" /\ game' \in {"idle", "starting"}
  BY DEF Start, io, Posted
<1>2. starts + 1 \in 1..MaxStarts
  BY <1>0 DEF Start
<1>3. ev \in Event /\ EventCall[ev] = <<[call |-> "start", to |-> starts + 1]>>
  <2>1. ev \in Event
    BY <1>2, MakeEvent DEF Caller
  <2>2. CallOf(ev) = <<[call |-> "start", to |-> starts + 1]>>
    BY DEF CallOf
  <2> QED BY <2>1, <2>2 DEF EventCall
<1>4. W \in Seq(Event)
  BY <1>0 DEF Waiting
<1> HIDE DEF ev, W
<1>5. CallsOf(W, ioq') = CallsOf(W, ioq) \o EventCall[ev]
  BY <1>0, <1>1, <1>3, <1>4, CallSteps
<1>6. PendingCalls = CallsOf(W, ioq) /\ PendingCalls' = CallsOf(W, ioq')
  BY <1>0, <1>1, PendingAre DEF W
<1>7. CallsOf(W, ioq) \in Seq(Promise!Call)
  BY <1>0, <1>4, CallsTyped
<1>8. PendingCalls' = Append(PendingCalls, [call |-> "start", to |-> starts + 1])
  BY <1>3, <1>5, <1>6, <1>7
<1>9. ClientSeen' = Seen("up", st, Append(PendingCalls, [call |-> "start", to |-> starts + 1]), wanted, host)
  <2>1. PoolSeen' = "up"
    BY <1>1 DEF PoolSeen
  <2> QED BY <1>1, <1>8, <2>1, SeenNext
<1>10. ClientSeen' = Promise!Started(ClientSeen, starts + 1)
  BY <1>9, SeenNext, SeenCalled
<1>11. ClientSeen.pool # "ending"
  BY <1>1 DEF ClientSeen, Seen, PoolSeen
<1> QED BY <1>2, <1>10, <1>11, SeenSteps

LEMMA StopSteps == ASSUME PromiseInv, ClientInv', [Next]_vars, Stop PROVE PromiseStep
<1>0. ClientInv /\ events \in Seq(Event) /\ ioq \in Seq(Handler)
  BY DEF PromiseInv, PhaseInv, ClientInv, TypeOK
<1> DEFINE ev == [e |-> "stop", by |-> "game"]
           W  == Waiting(events, todo)
<1>1. /\ UNCHANGED <<events, todo, st, wanted, host, pool>> /\ ioq' = Append(ioq, [h |-> "push", ev |-> ev])
      /\ pool = "up" /\ game = "idle" /\ game' = "stopping"
  BY DEF Stop, io, Posted
<1>3. ev \in Event /\ EventCall[ev] = <<[call |-> "stop"]>>
  <2>1. ev \in Event
    BY MakeEvent DEF Caller
  <2>2. CallOf(ev) = <<[call |-> "stop"]>>
    BY DEF CallOf
  <2> QED BY <2>1, <2>2 DEF EventCall
<1>4. W \in Seq(Event)
  BY <1>0 DEF Waiting
<1> HIDE DEF ev, W
<1>5. CallsOf(W, ioq') = CallsOf(W, ioq) \o EventCall[ev]
  BY <1>0, <1>1, <1>3, <1>4, CallSteps
<1>6. PendingCalls = CallsOf(W, ioq) /\ PendingCalls' = CallsOf(W, ioq')
  BY <1>0, <1>1, PendingAre DEF W
<1>7. CallsOf(W, ioq) \in Seq(Promise!Call)
  BY <1>0, <1>4, CallsTyped
<1>8. PendingCalls' = Append(PendingCalls, [call |-> "stop"])
  BY <1>3, <1>5, <1>6, <1>7
<1>9. PoolSeen = "up" /\ PoolSeen' = "ending"
  BY <1>1 DEF PoolSeen
<1>10. ClientSeen' = Seen("ending", st, Append(PendingCalls, [call |-> "stop"]), wanted, host)
  BY <1>1, <1>8, <1>9, SeenNext
<1>11. ClientSeen = Seen("up", st, PendingCalls, wanted, host)
  BY <1>9, SeenNext
<1>12. ClientSeen.pool = "up" /\ ClientSeen' = Promise!Stopping(ClientSeen)
  BY <1>10, <1>11, SeenAs, SeenCalled
<1> QED BY <1>12, SeenSteps

\* A call that reaches the queue as an event.
LEMMA CallQueued ==
  ASSUME ClientInv, ClientInv', [Next]_vars, NEW ev \in Event, events' = Append(events, ev)
  PROVE  Waiting(events', todo') = Append(Waiting(events, todo), ev)
<1>1. events \in Seq(Event)
  BY DEF ClientInv, TypeOK
<1>2. Len(events') = Len(events) + 1 /\ Len(events) \in Nat
  BY <1>1
<1>3. events' # events
  BY <1>2
<1>4. ~(events # <<>> /\ events' = Tail(events))
  BY <1>1, <1>2
<1>5. ASSUME NEW other \in Event, events' = Append(events, other) PROVE other = ev
  <2>1. Append(events, other)[Len(events) + 1] = other /\ Append(events, ev)[Len(events) + 1] = ev
    BY <1>1
  <2> QED BY <1>5, <2>1
<1> QED BY <1>3, <1>4, <1>5, WaitingStep

\* On the io thread the call of the game thread joins the queue: nothing is seen of it.
LEMMA HandlePushSteps == ASSUME PromiseInv, ClientInv', [Next]_vars, HandlePush PROVE PromiseStep
<1>0. ClientInv /\ events \in Seq(Event) /\ ioq \in Seq(Handler) /\ OrderInv
  BY DEF PromiseInv, PhaseInv, ClientInv, TypeOK
<1> DEFINE ev == Head(ioq).ev
           W  == Waiting(events, todo)
<1>1. ioq # <<>> /\ Head(ioq).h = "push" /\ ioq' = Tail(ioq) /\ events' = Append(events, ev)
      /\ UNCHANGED <<st, pool, game, wanted, host>>
  BY DEF HandlePush, Ready, Handled, Push, caller
<1>2. Head(ioq) \in Handler
  BY <1>0, <1>1
<1>3. ev \in Event /\ Head(ioq) = [h |-> "push", ev |-> ev]
  <2>1. ev \in Event
    BY <1>1, <1>2, HandlerKinds
  <2>2. Head(ioq) \in [h : {"push"}, ev : Event]
    BY <1>1, <1>2 DEF Handler
  <2> QED BY <2>1, <2>2
<1>4. W \in Seq(Event)
  BY <1>0 DEF Waiting
<1>5. Waiting(events', todo') = Append(W, ev)
  BY <1>0, <1>1, <1>3, CallQueued
<1>6. PendingCalls = CallsOf(W, ioq) /\ PendingCalls' = CallsOf(Append(W, ev), Tail(ioq))
  BY <1>0, <1>1, <1>5, PendingAre
<1> HIDE DEF ev, W
<1>7. CallsOf(W, ioq) = CallsOf(Append(W, ev), Tail(ioq))
  BY <1>0, <1>1, <1>3, <1>4, CallSteps
<1>8. PoolSeen' = PoolSeen
  BY <1>1 DEF PoolSeen
<1>9. ClientSeen' = ClientSeen
  BY <1>1, <1>6, <1>7, <1>8, SeenNext
<1> QED BY <1>9, SeenSteps

\* The calls of the receive callback.
LEMMA CallbackCalls ==
  ASSUME ClientInv, ClientInv', [Next]_vars, NEW ev \in Event, events' = Append(events, ev),
         NEW x \in Promise!Call, EventCall[ev] = <<x>>, UNCHANGED <<st, ioq, pool, game, wanted, host>>, pool = "up"
  PROVE  ClientSeen.pool # "down" /\ ClientSeen' \in Promise!CutIn(ClientSeen, x)
<1>0. events \in Seq(Event) /\ ioq \in Seq(Handler)
  BY DEF ClientInv, TypeOK
<1> DEFINE W == Waiting(events, todo)
           a == Gather(EventCall, W)
           b == Gather(HandlerCall, ioq)
<1>1. W \in Seq(Event)
  BY <1>0 DEF Waiting
<1>2. a \in Seq(Promise!Call) /\ b \in Seq(Promise!Call)
  BY <1>0, <1>1, CallsTyped
<1>3. PendingCalls = a \o b
  BY PendingAre DEF CallsOf
<1>4. PendingCalls' = (a \o <<x>>) \o b
  <2>1. PendingCalls' = CallsOf(Append(W, ev), ioq)
    BY PendingAre, CallQueued
  <2> HIDE DEF W
  <2>2. CallsOf(Append(W, ev), ioq) = (a \o EventCall[ev]) \o b
    BY <1>0, <1>1, CallSteps
  <2> QED BY <2>1, <2>2
<1>5. PoolSeen # "down" /\ PoolSeen' = PoolSeen
  BY DEF PoolSeen
<1> HIDE DEF a, b, W
<1>6. ClientSeen = Seen(PoolSeen, st, a \o b, wanted, host)
      /\ ClientSeen' = Seen(PoolSeen, st, (a \o <<x>>) \o b, wanted, host)
  BY <1>3, <1>4, <1>5, SeenNext
<1>7. ClientSeen' \in Promise!CutIn(ClientSeen, x)
  BY <1>2, <1>6, SeenCutIn
<1>8. ClientSeen.pool # "down"
  BY <1>5, <1>6 DEF Seen
<1> QED BY <1>7, <1>8

LEMMA StartInCallbackSteps == ASSUME PromiseInv, ClientInv', [Next]_vars, StartInCallback PROVE PromiseStep
<1>0. ClientInv /\ starts \in 0..MaxStarts /\ MaxStarts \in Nat
  BY ClientAssumption DEF PromiseInv, PhaseInv, ClientInv, TypeOK
<1> DEFINE ev == [e |-> "connect", by |-> "io", to |-> starts + 1]
           x  == [call |-> "start", to |-> starts + 1]
<1>1. events' = Append(events, ev) /\ UNCHANGED <<st, ioq, pool, game, wanted, host>> /\ pool = "up"
  BY DEF StartInCallback, Push
<1>2. starts + 1 \in 1..MaxStarts
  BY <1>0 DEF StartInCallback
<1>3. ev \in Event /\ x \in Promise!Call /\ EventCall[ev] = <<x>>
  <2>1. ev \in Event
    BY <1>2, MakeEvent DEF Caller
  <2>2. CallOf(ev) = <<x>>
    BY DEF CallOf
  <2>3. x \in Promise!Call
    BY <1>2 DEF Promise!Call
  <2> QED BY <2>1, <2>2, <2>3 DEF EventCall
<1> HIDE DEF ev
<1>4. ClientSeen.pool # "down" /\ ClientSeen' \in Promise!CutIn(ClientSeen, x)
  <2> HIDE DEF x
  <2> QED BY <1>0, <1>1, <1>3, CallbackCalls
<1>5. ClientSeen' \in Promise!StartedInCallback(ClientSeen, starts + 1)
  BY <1>4 DEF Promise!StartedInCallback
<1> QED BY <1>2, <1>5, SeenSteps

LEMMA RecvSteps == ASSUME PromiseInv, ClientInv', [Next]_vars, Recv PROVE PromiseStep
<1>0. ClientInv /\ events \in Seq(Event) /\ todo # <<>> /\ Head(todo).f = "recv"
  BY DEF PromiseInv, PhaseInv, ClientInv, TypeOK, Recv, Top
<1>1. UNCHANGED <<st, ioq, pool, game, wanted, host>>
  BY DEF Recv, caller
<1>2. CASE StopOnRecv /\ pool = "up"
  <2> DEFINE ev == [e |-> "stop", by |-> "io"]
             x  == [call |-> "stop"]
  <2>1. events' = Append(events, ev)
    BY <1>2 DEF Recv, Push
  <2>2. ev \in Event /\ x \in Promise!Call /\ EventCall[ev] = <<x>>
    <3>1. ev \in Event
      BY MakeEvent DEF Caller
    <3>2. CallOf(ev) = <<x>>
      BY DEF CallOf
    <3>3. x \in Promise!Call
      BY DEF Promise!Call
    <3> QED BY <3>1, <3>2, <3>3 DEF EventCall
  <2> HIDE DEF ev
  <2>3. ClientSeen.pool # "down" /\ ClientSeen' \in Promise!CutIn(ClientSeen, x)
    <3> HIDE DEF x
    <3> QED BY <1>0, <1>1, <1>2, <2>1, <2>2, CallbackCalls
  <2>4. ClientSeen' \in Promise!StoppedInCallback(ClientSeen)
    BY <2>3 DEF Promise!StoppedInCallback
  <2> QED BY <2>4, SeenSteps
<1>3. CASE ~(StopOnRecv /\ pool = "up")
  <2>1. events' = events
    BY <1>3 DEF Recv
  <2>2. ASSUME NEW ev \in Event, events' = Append(events, ev) PROVE FALSE
    <3>1. Len(Append(events, ev)) = Len(events) + 1 /\ Len(events) \in Nat
      BY <1>0
    <3> QED BY <2>1, <2>2, <3>1
  <2>3. Waiting(events', todo') = Waiting(events, todo)
    BY <1>0, <2>2, WaitingStep
  <2>4. PendingCalls' = PendingCalls
    BY <1>0, <1>1, <2>3, PendingAre
  <2>5. ClientSeen' = ClientSeen
    BY <1>1, <2>4, SeenNext DEF PoolSeen
  <2> QED BY <2>5, SeenSteps
<1> QED BY <1>2, <1>3

\* The io thread takes a call.
LEMMA RunConnectSteps == ASSUME PromiseInv, ClientInv', [Next]_vars, RunConnect PROVE PromiseStep
<1>0. PhaseInv /\ ClientInv /\ events \in Seq(Event) /\ ioq \in Seq(Handler)
  BY DEF PromiseInv, PhaseInv, ClientInv, TypeOK
<1> DEFINE to == Head(events).to
           x  == [call |-> "start", to |-> to]
           m  == CallsOf(Tail(events), ioq)
<1>1. /\ events # <<>> /\ Head(events) \in Event /\ Head(events).e = "connect"
      /\ Waiting(events, todo) = events /\ Waiting(events', todo') = Tail(events)
  BY <1>0, RunConnectTakes
<1>2. /\ UNCHANGED <<ioq, pool, game>>
      /\ st = "stopped" => st' = "starting" /\ wanted' = TRUE /\ host' = to
      /\ st # "stopped" => UNCHANGED <<st, wanted, host>>
  BY DEF RunConnect, StartConnect, caller
<1>3. EventCall[Head(events)] = <<x>>
  BY <1>1 DEF EventCall, CallOf
<1>4. Tail(events) \in Seq(Event)
  BY <1>0, <1>1
<1>5. PendingCalls = CallsOf(events, ioq) /\ PendingCalls' = m
  BY <1>0, <1>1, <1>2, PendingAre
<1>6. m \in Seq(Promise!Call)
  BY <1>0, <1>4, CallsTyped
<1>7. CallsOf(events, ioq) = EventCall[Head(events)] \o m
  BY <1>0, <1>1, CallSteps
<1> HIDE DEF x, m, to
<1>8. PendingCalls = <<x>> \o m
  BY <1>3, <1>5, <1>7
<1>9. PendingCalls # <<>> /\ Head(PendingCalls) = x /\ Tail(PendingCalls) = m
  <2>1. x \in Promise!Call
    <3>1. to \in 1..MaxStarts
      BY <1>1, EventKinds DEF to
    <3> QED BY <3>1 DEF Promise!Call, x
  <2> HIDE DEF Promise!Call
  <2> QED BY <1>6, <1>8, <2>1
<1>10. PoolSeen' = PoolSeen
  BY <1>2 DEF PoolSeen
<1>11. ClientSeen = Seen(PoolSeen, st, PendingCalls, wanted, host)
       /\ ClientSeen' = Seen(PoolSeen, st', m, wanted', host')
  BY <1>5, <1>10, SeenNext
<1>12. ClientSeen' \in Promise!Take(ClientSeen)
  <2>1. Head(PendingCalls) = [call |-> "start", to |-> to]
    BY <1>9 DEF x
  <2>2. CASE st = "stopped"
    <3>1. Seen(PoolSeen, "starting", Tail(PendingCalls), TRUE, to) \in Promise!Take(ClientSeen)
      BY <1>9, <1>11, <2>1, <2>2, SeenTaken
    <3> QED BY <1>2, <1>9, <1>11, <2>2, <3>1
  <2>3. CASE st # "stopped"
    <3>1. Seen(PoolSeen, st, Tail(PendingCalls), wanted, host) \in Promise!Take(ClientSeen)
      BY <1>9, <1>11, <2>1, <2>3, SeenTaken
    <3> QED BY <1>2, <1>9, <1>11, <2>3, <3>1
  <2> QED BY <2>2, <2>3
<1> QED BY <1>12, SeenSteps

LEMMA RunStopTakes ==
  ASSUME ClientInv, RunStop
  PROVE  /\ events # <<>> /\ Head(events) \in Event /\ Head(events).e = "stop"
         /\ Waiting(events, todo) = events /\ Waiting(events', todo') = Tail(events)
<1>1. todo # <<>> /\ Head(todo).f = "run" /\ events # <<>> /\ Head(events) \in Event /\ Head(events).e = "stop"
  BY RunEvent DEF RunStop
<1>2. todo \in Seq(Frame) /\ Head(todo) \in Frame /\ Tail(todo) \in Seq(Frame) /\ events' = events
  BY <1>1, TopFrame DEF ClientInv, TypeOK, RunStop
<1>3. Waiting(events, todo) = events
  <2>1. Head(todo) = Run
    BY <1>1, <1>2 DEF Frame, Run
  <2>2. ~NoRun(todo)
    BY <1>1, <1>2, <2>1, FirstMark DEF NoRun
  <2> QED BY <2>2 DEF Waiting
<1>4. NoRun(Tail(todo))
  <2>1. Unheld(Tail(todo), ioq, op)
    BY <1>1, TopFrame DEF HoldingFrame
  <2> QED BY <2>1, UnheldNoRun DEF Unheld
<1>5. NoRun(todo')
  <2> DEFINE by   == Head(events).by
             stop == [f |-> "stopReturns", by |-> by]
  <2>1. by \in Caller /\ by \in Caller \cup {"none"}
    BY <1>1, EventKinds
  <2>2. stop \in Frame
    BY <2>1, MakeFrame
  <2>3. <<stop>> \in Seq(Frame) /\ NoRun(<<stop>>) /\ <<>> \in Seq(Frame) /\ NoRun(<<>>)
    BY <2>2, NoRunFrames
  <2>4. DisconnectInPlace(by, <<stop>>, <<>>)
    BY DEF RunStop
  <2> HIDE DEF by, stop
  <2>5. PICK gs \in Seq(Frame) : NoRun(gs) /\ Then(gs)
    BY <2>1, <2>3, <2>4, DisconnectInPlaceRests
  <2> QED BY <1>2, <1>4, <2>5, NoRunFrames DEF Then
<1> QED BY <1>1, <1>2, <1>3, <1>5 DEF Waiting

LEMMA RunStopSteps == ASSUME PromiseInv, ClientInv', [Next]_vars, RunStop PROVE PromiseStep
<1>0. ClientInv /\ events \in Seq(Event) /\ ioq \in Seq(Handler)
  BY DEF PromiseInv, PhaseInv, ClientInv, TypeOK
<1> DEFINE x == [call |-> "stop"]
           m == CallsOf(Tail(events), ioq)
           t == IF st \in {"starting", "started"} THEN "stopping" ELSE st
<1>1. /\ events # <<>> /\ Head(events) \in Event /\ Head(events).e = "stop"
      /\ Waiting(events, todo) = events /\ Waiting(events', todo') = Tail(events)
  BY <1>0, RunStopTakes
<1>2. UNCHANGED <<ioq, pool, game, host>> /\ wanted' = FALSE /\ st' = t
  BY DEF RunStop, DisconnectInPlace, Connected, caller
<1>3. EventCall[Head(events)] = <<x>>
  BY <1>1 DEF EventCall, CallOf
<1>4. Tail(events) \in Seq(Event)
  BY <1>0, <1>1
<1>5. PendingCalls = CallsOf(events, ioq) /\ PendingCalls' = m
  BY <1>0, <1>1, <1>2, PendingAre
<1>6. m \in Seq(Promise!Call)
  BY <1>0, <1>4, CallsTyped
<1>7. CallsOf(events, ioq) = EventCall[Head(events)] \o m
  BY <1>0, <1>1, CallSteps
<1>8. x \in Promise!Call
  BY DEF Promise!Call
<1> HIDE DEF x, m, t, Promise!Call
<1>9. PendingCalls = <<x>> \o m
  BY <1>3, <1>5, <1>7
<1>10. PendingCalls # <<>> /\ Head(PendingCalls) = x /\ Tail(PendingCalls) = m
  BY <1>6, <1>8, <1>9
<1>11. PoolSeen' = PoolSeen
  BY <1>2 DEF PoolSeen
<1>12. ClientSeen = Seen(PoolSeen, st, PendingCalls, wanted, host)
       /\ ClientSeen' = Seen(PoolSeen, t, m, FALSE, host)
  BY <1>2, <1>5, <1>11, SeenNext
<1>13. Seen(PoolSeen, t, Tail(PendingCalls), FALSE, host) \in Promise!Take(ClientSeen)
  <2>1. Head(PendingCalls) = [call |-> "stop"]
    BY <1>10 DEF x
  <2> QED BY <1>10, <1>12, <2>1, SeenTaken DEF t
<1>14. ClientSeen' \in Promise!Take(ClientSeen)
  BY <1>10, <1>12, <1>13
<1> QED BY <1>14, SeenSteps

\* The io thread is gone.
LEMMA StopReturnedSteps == ASSUME PromiseInv, ClientInv', [Next]_vars, StopReturned PROVE PromiseStep
<1>0. PhaseInv /\ ReadInv /\ LinkInv /\ OrderInv /\ CloseInv /\ ClientInv
  BY DEF PromiseInv, PhaseInv
<1>1. game = "joining" /\ NoWork /\ pool' = "down" /\ UNCHANGED <<st, events, todo, ioq, wanted, host>>
  BY DEF StopReturned, io
<1>2. st = "stopped" /\ events = <<>> /\ ioq = <<>>
  BY <1>0, <1>1, NoWorkIsIdle DEF NoWork
<1>3. ~wanted /\ wanted \in BOOLEAN
  BY <1>0, <1>1, <1>2 DEF CloseInv, Closing, ClientInv, TypeOK
<1>4. PoolSeen = "ending" /\ PoolSeen' = "down"
  BY <1>0, <1>1 DEF OrderInv, PoolSeen
<1>5. PendingCalls = CallsOf(<<>>, <<>>) /\ PendingCalls' = CallsOf(<<>>, <<>>)
  <2>1. Waiting(events, todo) = <<>> /\ Waiting(events', todo') = <<>>
    BY <1>1, <1>2 DEF Waiting
  <2> QED BY <1>0, <1>1, <1>2, <2>1, PendingAre
<1>6. CallsOf(<<>>, <<>>) = <<>>
  BY NoCalls
<1>7. ClientSeen = Seen("ending", st, <<>>, wanted, host) /\ ClientSeen' = Seen("down", st, <<>>, wanted, host)
  BY <1>1, <1>4, <1>5, <1>6, SeenNext
<1>8. ClientSeen' \in Promise!End(ClientSeen)
  BY <1>2, <1>3, <1>7, SeenMoves
<1> QED BY <1>8, SeenSteps

LEMMA EveryStep == ASSUME PromiseInv, ClientInv', [Next]_vars PROVE PromiseStep
  BY OtherSteps, StartSteps, StopSteps, HandlePushSteps, StartInCallbackSteps, RecvSteps,
     RunConnectSteps, RunStopSteps, StopReturnedSteps

LEMMA PromiseBegins == Init => Promise!Init
<1> SUFFICES ASSUME Init PROVE Promise!Init
  OBVIOUS
<1>1. pool = "down" /\ st = "stopped" /\ events = <<>> /\ ioq = <<>> /\ wanted = FALSE /\ host = 0
  BY DEF Init
<1>2. PendingCalls = <<>>
  <2>1. (IF Running THEN Tail(events) ELSE events) = <<>>
    BY <1>1 DEF Running
  <2>2. <<>> \in Seq(Event) /\ <<>> \in Seq(Handler)
    OBVIOUS
  <2>3. PendingCalls = CallsOf(<<>>, <<>>)
    BY <1>1, <2>1, <2>2, CallsJoined DEF PendingCalls
  <2> QED BY <2>3, NoCalls
<1>3. PoolSeen = "down"
  BY <1>1 DEF PoolSeen
<1> QED BY <1>1, <1>2, <1>3 DEF Promise!Init, Promise!NewClient

\* The client implements ClientPromise: it takes the calls of start and stop in
\* the order they were made, does not dial again once it was stopped, and stop
\* returns to find the io thread gone.  The callback of http_client that starts
\* a request again (SendAsync) also stops the client, after it.  One that only
\* started it could do so behind the stop the game thread waits for: stop would
\* come back, the io thread gone, with a start still in effect.
THEOREM ClientKeepsPromise == ASSUME StartOnRecv => StopOnRecv PROVE Spec => KeepsPromise
<1>1. Init => Promise!Init
  BY PromiseBegins
<1>2. PromiseInv /\ PromiseInv' /\ [Next]_vars
        => [Promise!StartCalled \/ Promise!StopCalled \/ Promise!Callback \/ Promise!IoThread]_ClientSeen
  BY EveryStep DEF PromiseStep, PromiseInv, PhaseInv
<1>3. Spec => []PromiseInv
  BY PromiseInductive
<1>4. (Promise!Init /\ [][Promise!StartCalled \/ Promise!StopCalled \/ Promise!Callback \/ Promise!IoThread]_ClientSeen)
        => KeepsPromise
  BY DEF KeepsPromise, Promise!Spec, ClientSeen, PoolSeen, Seen
<1> QED BY <1>1, <1>2, <1>3, <1>4, PTL DEF Spec
============================================================================
