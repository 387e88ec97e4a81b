---------------------------- MODULE UrlRoundTrip ----------------------------
(***************************************************************************)
(* A plugin gives a WebSocket a URL, reads it back, and gives it the text  *)
(* it has read, again and again (SetURL and GetURL in                      *)
(* src/src/net/websocket/native.cpp).  What url.cpp makes of the text must *)
(* still mean what the plugin wrote.                                       *)
(***************************************************************************)
EXTENDS UrlText

CONSTANTS
    Field,      \* what the fields of an IPv6 address may be
    Written     \* the texts a plugin writes

\* What stands between the colons of an address, right or wrong.
IsLiteral(tok) ==
    /\ tok \in Seq(Int) /\ tok # <<>>
    /\ \A i \in DOMAIN tok : \/ tok[i] \in Field \cup {Blank} \/ tok[i] >= FieldWord
                             \/ tok[i] = Dotted /\ i = Len(tok)

IsHost(h) ==
    \/ h = NoHost
    \/ h \in [k : {"name", "ip4"}, x : STRING]
    \/ h \in [k : {"ip6"}, tok : Seq(Int)] /\ IsLiteral(h.tok)

\* Under version 6 the host is an address, under 0 and 4 an address is a host
\* with a colon like any other.
IsFuture(h) ==
    /\ h.k = "future" /\ h \in [k : {"future"}, v : Seq(0..15), h : {h.h}]
    /\ Len(h.v) \in 1..2
    /\ \/ IsHost(h.h) /\ (h.h.k = "ip6" => h.v \notin {<<0>>, <<4>>})
       \/ /\ h.h.k = "colon"
          /\ h.h \in [k : {"colon"}, h : {h.h.h}, n : Nat \cup {NotANumber}]
          /\ IsHost(h.h.h) /\ h.h.h.k # "ip6" /\ h.v # <<6>>

\* No delimiter stands where it ends a part: what is written of the parts can
\* only be read as these parts.
IsPath(p) == IF p.abs THEN p.segs # <<>> ELSE p.segs # <<>> => Head(p.segs) # ""
TwoSlashes(p) == p.abs /\ Len(p.segs) > 1 /\ Head(p.segs) = ""
PathDelimited(t) ==
    /\ IsPath(t.path)
    /\ IF t.auth
        THEN t.path.abs \/ t.path = NoPath
        ELSE /\ t.host = NoHost /\ t.user = "" /\ t.port = NoPort
             /\ ~TwoSlashes(t.path)
             /\ t.scheme = "" => ~ColonFirst(t.path)
Delimited(t) == t.host.k # "colon" /\ PathDelimited(t)

IsText(t) ==
    /\ DOMAIN t = DOMAIN EmptyText
    /\ t.scheme \in STRING /\ t.user \in STRING /\ t.frag \in STRING /\ t.auth \in BOOLEAN
    /\ IsHost(t.host) \/ IsFuture(t.host)
    /\ t.port \in Nat \cup {NoPort, NotANumber}
    /\ t.path \in [abs : BOOLEAN, segs : Seq(STRING)]
    /\ t.query \in Seq([key : STRING, val : STRING])
    /\ Delimited(t)

ASSUME RoundTripAssumption ==
    /\ Field \subseteq 0..FieldWord - 1 /\ 0 \in Field
    /\ \A t \in Written : t = Malformed \/ IsText(t)

VARIABLES
    text,       \* what the plugin sets next
    parts,      \* what its URL has been taken apart to
    written,    \* history: what it wrote at first
    trips       \* how often it has read the URL; 3: an exception has ended it

vars == <<text, parts, written, trips>>

Init ==
    /\ text \in Written /\ written = text
    /\ parts = Cleared /\ trips = 0

\* GetURL parses the text and builds it again.
Rewritten(t) == IF Parse(t) = ParseError THEN ParseError ELSE Build(Parse(t))

\* SetURL assigns the text unseen.
SetAndGet ==
    /\ trips < 2 /\ Rewritten(text) \notin {ParseError, BuildError}
    /\ parts' = Parse(text)
    /\ text' = Rewritten(text)
    /\ trips' = trips + 1
    /\ UNCHANGED written

\* Neither native catches what the URL throws.
Thrown ==
    /\ trips < 2 /\ Rewritten(text) \in {ParseError, BuildError}
    /\ trips' = 3
    /\ UNCHANGED <<text, parts, written>>

Next == SetAndGet \/ Thrown
Spec == Init /\ [][Next]_vars

(***************************************************************************)
(* Properties.                                                             *)
(***************************************************************************)
SpellingsOf == [a \in Address(Field) |-> Spellings(a)]
Spelled == UNION Range(SpellingsOf)
AddressOf(tok) == {a \in Address(Field) : tok \in SpellingsOf[a]}

\* A URL whose host is no address that can be misspelt, or is a right spelling
\* of one.  Three kinds do not come back as they were: "0::", "::0" and the like,
\* which normalize_IPv6 makes ":" of; "[v4.name]" or "[v0.1.2.3.4]", which are
\* written without the brackets and mean something else then; and "[v0.a:80]",
\* for the same reason a host and its port.
SpoiltZero(tok) == NormalizeIpv6(tok) = <<Blank, Blank>>
WellSpelled(h) == h.k = "ip6" => h.tok \in Spelled /\ ~SpoiltZero(h.tok)
Legal(t) ==
    /\ WellSpelled(t.host)
    /\ t.host.k = "future" =>
        CASE t.host.v = <<0>> -> t.host.h.k = "name"
          [] t.host.v = <<4>> -> t.host.h.k = "ip4"
          [] t.host.v = <<6>> -> WellSpelled(t.host.h)
          [] OTHER -> TRUE

\* url.cpp build_url: what it writes is a URL that parse_url takes apart to the
\* same parts again.  A default port is not written, and a host that is empty
\* has no version.
Rebuilt(p) ==
    [p EXCEPT !.port = IF DefaultPort(p.scheme, @) THEN NoPort ELSE @,
              !.ip = IF p.host = NoHost THEN -1 ELSE @]
RoundTrip ==
    trips \in 1..2 /\ Legal(written) => Parse(text) = Rebuilt(parts)

\* normalize_IPv6: however an address is spelled, it comes back in the one
\* spelling RFC 5952 recommends, and it is still the same address.
AddressKept ==
    trips \in 1..2 /\ written.host.k = "ip6" /\ ~SpoiltZero(written.host.tok) =>
        \A a \in AddressOf(written.host.tok) : text.host = Ip6(Recommended(a))

\* is_valid_ipv6 accepts the spellings of addresses and nothing else, but for a
\* double colon that stands for nothing between six fields and an IPv4 address,
\* which it accepts, and texts with an IPv4 address that are longer than 39
\* characters, which it refuses.
SixAndTail(tok) == HasTail(tok) /\ Len(Groups(tok)) = 6 /\ Blank \in ToSet(tok)
ValidExactly ==
    trips = 0 /\ text # Malformed /\ text.host.k = "ip6" /\ ~SixAndTail(text.host.tok)
        => (IsValidIpv6(text.host.tok) <=>
                /\ text.host.tok \in Spelled
                /\ HasTail(text.host.tok) => TextLength(text.host.tok) <= 39)

\* A URL that has been read once does not change any more.
Settles == [][trips = 1 /\ trips' = 2 /\ Legal(written) => text' = text]_vars
=============================================================================
