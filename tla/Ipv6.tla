-------------------------------- MODULE Ipv6 --------------------------------
(***************************************************************************)
(* IPv6 addresses as src/src/common/url.cpp checks, decodes and rewrites   *)
(* them.                                                                   *)
(*                                                                         *)
(* A text is the sequence of what stands between its colons: a number for  *)
(* a group of hexadecimal digits, Blank for nothing, Dotted for a trailing *)
(* IPv4 address.  So "::1" is <<Blank, Blank, 1>>.  Groups are written     *)
(* without leading zeros and are not longer than five digits, or           *)
(* normalize_IPv6 takes them for an IPv4 address.                          *)
(***************************************************************************)
EXTENDS Integers, Sequences, FiniteSetsExt, SequencesExt

CONSTANTS
    FieldWord,  \* a field is a uint16_t: 2^16
    TailLength  \* the characters of a trailing IPv4 address

ASSUME FieldAssumption ==
    FieldWord \in Nat /\ 0 < FieldWord /\ FieldWord <= 65536 /\ TailLength \in 7..15

Blank  == -1
Dotted == -2
Invalid == <<>>     \* the result for a text that is no address

HasTail(t) == t # <<>> /\ Last(t) = Dotted
Zeros(n)   == [i \in 1..n |-> 0]
Groups(t)  ==
    LET upto[i \in 0..Len(t)] ==
            IF i = 0 THEN <<>>
            ELSE IF t[i] \in {Blank, Dotted} THEN upto[i - 1]
            ELSE Append(upto[i - 1], t[i])
    IN upto[Len(t)]

(***************************************************************************)
(* What the texts mean (RFC 4291): an address is its fields, and it may be *)
(* written out or with one run of zeros left out.                          *)
(***************************************************************************)
Address(Field) == [1..8 -> Field] \cup {a \o <<Dotted>> : a \in [1..6 -> Field]}

Shortened(a, p, n) ==
    (IF p = 0 THEN <<Blank>> ELSE SubSeq(a, 1, p))
        \o <<Blank>>
        \o (IF p + n = Len(a) THEN <<Blank>> ELSE SubSeq(a, p + n + 1, Len(a)))

ZeroRun(a, p, n) == p + n <= Len(a) /\ \A i \in p+1..p+n : a[i] = 0

Spellings(a) ==
    {a} \cup {Shortened(a, r[1], r[2]) : r \in {s \in (0..7) \X (1..8) : ZeroRun(a, s[1], s[2])}}

\* The one that RFC 5952 recommends: the first longest run of two or more.
Recommended(a) ==
    LET runs    == {s \in (0..7) \X (2..8) : ZeroRun(a, s[1], s[2])}
        longest == {r \in runs : \A s \in runs : s[2] <= r[2]}
    IN
    IF runs = {} THEN a
    ELSE LET r == CHOOSE s \in longest : \A q \in longest : s[1] <= q[1] IN Shortened(a, r[1], r[2])

(***************************************************************************)
(* is_valid_ipv6, the check of the host setter.  A double colon inside is  *)
(* one Blank, at an end two; a group has at most four digits, and the text *)
(* at most the 39 characters of eight groups: a longer text with a tail is *)
(* refused, be it right.                                                   *)
(***************************************************************************)
\* Mutant: eight groups and a double colon.
FieldsFitEight(n, tail, double) ==
    IF tail THEN (~double /\ n = 6) \/ (double /\ n < 7) ELSE n = 8 \/ (double /\ n < 8)

FieldsFit(n, tail, double) ==
    IF tail THEN (~double /\ n = 6) \/ (double /\ n < 7)
            ELSE (~double /\ n = 8) \/ (double /\ n < 8)

\* The colons, the digits of the groups, and the tail.
TextLength(t) ==
    LET atLeast(n) == Cardinality({i \in DOMAIN t : t[i] >= n}) IN
    Len(t) - 1 + atLeast(0) + atLeast(16) + atLeast(256) + atLeast(4096) + atLeast(65536)
        + (IF HasTail(t) THEN TailLength ELSE 0)

IsValidIpv6(t) ==
    LET blanks == {i \in DOMAIN t : t[i] = Blank} IN
    /\ Len(t) > 1 /\ TextLength(t) <= 39
    /\ \A i \in DOMAIN t : t[i] < FieldWord
    /\ \/ blanks = {}
       \/ \E i \in blanks : blanks = {i} /\ i \notin {1, Len(t)}
       \/ blanks \in {{1, 2}, {Len(t) - 1, Len(t)}} /\ Len(t) > 2
       \/ t = <<Blank, Blank, Blank>>
    /\ FieldsFit(Len(Groups(t)), HasTail(t), blanks # {})

(***************************************************************************)
(* normalize_IPv6.                                                         *)
(***************************************************************************)
\* The text without the first of two leading colons, the last of two trailing.
Trimmed(t) ==
    LET u == IF Head(t) = Blank THEN Tail(t) ELSE t IN
    IF Last(u) = Blank THEN Front(u) ELSE u

\* The text is split into tokens; behind the eighth colon the last is lost.
Kept(u) == IF Len(u) > 8 THEN Len(u) - 1 ELSE Len(u)

\* The tokens that are decoded, and the IPv4 address that is copied.
TailOf(u) == IF HasTail(u) THEN SubSeq(u, Kept(u), Len(u)) ELSE <<>>
Tokens(u) == SubSeq(u, 1, IF HasTail(u) THEN Kept(u) - 1 ELSE Kept(u))

\* Mutant: one token early.
NullPosEarly(k) ==
    IF Blank \in ToSet(k) THEN Max({0} \cup {i - 2 : i \in {j \in DOMAIN k : k[j] = Blank}}) ELSE 8

\* Counted in tokens from zero; 8 when there is no double colon.
NullPos(k) == IF Blank \in ToSet(k) THEN Max({i \in DOMAIN k : k[i] = Blank}) - 1 ELSE 8

\* A group is shifted into sixteen bits.
Decoded(k) == [i \in DOMAIN Groups(k) |-> Groups(k)[i] % FieldWord]

\* The zeros go where the double colon stood.
Expanded(f, at, n) ==
    IF Len(f) >= n THEN SubSeq(f, 1, n)
    ELSE SubSeq(f, 1, at) \o Zeros(n - Len(f)) \o SubSeq(f, at + 1, Len(f))

\* Mutant: the last of the longest runs.
LongestLast(f) ==
    LET n == Max({0} \cup {m \in 1..Len(f) : \E p \in 0..Len(f) : ZeroRun(f, p, m)}) IN
    IF n < 2 THEN <<Len(f), n>> ELSE <<Max({p \in 0..Len(f) : ZeroRun(f, p, n)}), n>>

\* The first longest run of zeros, its place counted from zero; a single zero
\* is not shortened.
Longest(f) ==
    LET n == Max({0} \cup {m \in 1..Len(f) : \E p \in 0..Len(f) : ZeroRun(f, p, m)}) IN
    IF n < 2 THEN <<Len(f), n>> ELSE <<Min({p \in 0..Len(f) : ZeroRun(f, p, n)}), n>>

\* Mutant: no second colon behind a run at the end.
EncodedOpen(f) ==
    LET p == Longest(f)[1]
        n == Longest(f)[2]
    IN
    (IF p = 0 THEN <<Blank, Blank>>
     ELSE SubSeq(f, 1, p) \o (IF p < Len(f) THEN <<Blank>> ELSE <<>>))
        \o SubSeq(f, p + n + 1, Len(f))

Encoded(f) ==
    LET p == Longest(f)[1]
        n == Longest(f)[2]
    IN
    (IF p = 0 THEN <<Blank, Blank>>
     ELSE SubSeq(f, 1, p)
            \o (IF p < Len(f) THEN <<Blank>> ELSE <<>>)
            \o (IF p + n = 8 /\ n # 0 THEN <<Blank>> ELSE <<>>))
        \o SubSeq(f, p + n + 1, Len(f))

NormalizeIpv6(t) ==
    LET u == Trimmed(t)
        k == Tokens(u)
        f == Decoded(k)
        n == IF HasTail(u) THEN 6 ELSE 8
    IN
    IF t = <<Blank, Blank, Blank>> THEN t
    ELSE IF Len(t) < 2 \/ t = <<Blank, Blank>> THEN Invalid   \* is_ipv6, or too few
    ELSE IF Len(u) > 10 \/ Len(f) > 8 THEN Invalid
    ELSE IF Len(f) < n /\ Len(f) < NullPos(k) THEN Invalid
    ELSE Encoded(Expanded(f, NullPos(k), n)) \o TailOf(u)
=============================================================================
