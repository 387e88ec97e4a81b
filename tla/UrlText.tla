------------------------------ MODULE UrlText ------------------------------
(***************************************************************************)
(* The texts and the parts of a URL (src/src/common/url.cpp): parse_url,   *)
(* build_url and the changes the setters make to the parts.                *)
(*                                                                         *)
(* A text is a record of the components between its delimiters, as they    *)
(* stand there; percent encoding is undone, since decode and encode are    *)
(* inverse to each other on what parse_url lets through.  Malformed stands *)
(* for every text parse_url rejects for its length or its characters.      *)
(* An IPv6 host and a port are checked and rewritten number by number.     *)
(***************************************************************************)
EXTENDS Ipv6

CONSTANTS
    MaxPort,    \* the largest port, 65535
    Word        \* is_uint counts in a uint32_t: 2^32

ASSUME UrlAssumption == MaxPort \in Nat /\ Word \in Nat /\ MaxPort < Word

NoPort == -1
NotANumber == -2

\* Hosts: a name, an IPv4 or IPv6 address, or, in a text, [vN.host] with the
\* hexadecimal digits of its version.  Such a host may have a colon in it: what
\* stands before it, and the number behind it, if it is one.
NoHost    == [k |-> "none"]
Name(x)   == [k |-> "name", x |-> x]
Ip4(x)    == [k |-> "ip4", x |-> x]
Ip6(t)    == [k |-> "ip6", tok |-> t]
Future(v, h) == [k |-> "future", v |-> v, h |-> h]
Coloned(h, n) == [k |-> "colon", h |-> h, n |-> n]

\* A path: does it begin with '/', and what stands between its slashes.
Path(abs, s) == [abs |-> abs, segs |-> s]
NoPath    == Path(FALSE, <<>>)
RootPath  == Path(TRUE, <<"">>)

EmptyText == [scheme |-> "", auth |-> FALSE, user |-> "", host |-> NoHost, port |-> NoPort,
              path |-> NoPath, query |-> <<>>, frag |-> ""]
Malformed == [malformed |-> TRUE]

Cleared   == [scheme |-> "", user |-> "", host |-> NoHost, ip |-> -1, port |-> NoPort,
              path |-> NoPath, query |-> <<>>, frag |-> ""]
ParseError == [error |-> "parse_error"]
BuildError == [error |-> "build_error"]
Done       == [done |-> TRUE]   \* a call that returns nothing of interest

----------------------------------------------------------------------------
(* Normalisation. *)

\* to_lower, on the words of the instances.
Lower(s) == CASE s = "HTTP" -> "http" [] s = "Host" -> "host" [] OTHER -> s

\* is_uint: a number counted modulo the word, then compared.
IsUint(n, max) == n # NotANumber /\ n % Word <= max

DefaultPort(scheme, n) == (scheme = "http" /\ n = 80) \/ (scheme = "https" /\ n = 443)

Up(elems) == IF elems = <<>> THEN elems ELSE Front(elems)

\* One segment more.
Step(elems, x) ==
    CASE x \in {"", "."} -> elems
      [] x = ".." -> Up(elems)
      [] OTHER -> Append(elems, x)
Walked(segs) ==
    LET upto[i \in 0..Len(segs)] == IF i = 0 THEN <<>> ELSE Step(upto[i - 1], segs[i])
    IN upto[Len(segs)]

\* normalize_path: empty and "." segments go, ".." takes the one before it
\* along; the last segment may be empty.
NormalizePath(p) ==
    LET inner == Walked(Front(p.segs))
        elems == CASE Last(p.segs) = "." -> Append(inner, "")
                   [] Last(p.segs) = ".." -> Up(inner)
                   [] OTHER -> Append(inner, Last(p.segs))
    IN
    IF p.segs = <<>> THEN p
    ELSE IF elems \in {<<>>, <<"">>} THEN (IF p.abs THEN RootPath ELSE NoPath)
    ELSE Path(p.abs, elems)

----------------------------------------------------------------------------
(* parse_url. *)

\* Where the brackets are missing, the host ends at its first colon.
Reread(t) ==
    IF t.host.k # "colon" THEN t
    ELSE [t EXCEPT !.host = t.host.h, !.port = IF @ = NoPort THEN t.host.n ELSE NotANumber]

IpVersion(t) ==
    CASE ~t.auth -> -1
      [] t.auth /\ t.host.k = "ip4" -> 4
      [] t.auth /\ t.host.k = "ip6" -> 6
      [] t.auth /\ t.host.k = "future" -> t.host.v[1]
      [] OTHER -> 0

LowerHost(h) == IF h.k = "name" THEN Name(Lower(h.x)) ELSE h

\* A host as it is kept under its version.
Normalized(h, ip) ==
    CASE h.k = "colon" /\ ip = 0 -> Coloned(LowerHost(h.h), h.n)
      [] ip = 0 -> LowerHost(h)
      [] ip = 6 -> Ip6(IF h.k = "ip6" THEN NormalizeIpv6(h.tok) ELSE Invalid)
      [] OTHER -> h

HostOf(t) == Normalized(IF t.host.k = "future" THEN t.host.h ELSE t.host, IpVersion(t))

\* A second digit of a version is looked at for the dot behind it.
BadVersion(h) == h.k = "future" /\ Len(h.v) # 1

\* The same, of a text whose parts are told apart.
ParseParts(t) ==
    IF BadVersion(t.host) THEN ParseError
    ELSE IF HostOf(t) = Ip6(Invalid) \/ (t.port # NoPort /\ ~IsUint(t.port, MaxPort)) THEN ParseError
    ELSE [scheme |-> Lower(t.scheme), user |-> t.user, host |-> HostOf(t), ip |-> IpVersion(t),
          port |-> t.port, path |-> NormalizePath(t.path), query |-> t.query, frag |-> t.frag]

Parse(t) ==
    IF t = EmptyText THEN Cleared
    ELSE IF t = Malformed THEN ParseError
    ELSE ParseParts(Reread(t))

----------------------------------------------------------------------------
(* build_url. *)

HasColon(segment) == segment = "c:d"
ColonFirst(path) == ~path.abs /\ path.segs # <<>> /\ HasColon(Head(path.segs))

\* Without brackets under version 0 and 4, whatever the host.
HostText(p) ==
    IF p.host = NoHost \/ p.ip \in {0, 4, 6} THEN p.host ELSE Future(<<p.ip>>, p.host)

Unbuildable(p) ==
    \/ p.host = NoHost /\ (p.user # "" \/ p.port # NoPort \/ ColonFirst(p.path))
    \/ p.host # NoHost /\ p.path # NoPath /\ ~p.path.abs
    \/ \E i \in DOMAIN p.query : p.query[i].key = ""

\* The default port is left out.
BuiltPort(p) == IF DefaultPort(p.scheme, p.port) THEN NoPort ELSE p.port

Build(p) ==
    IF Unbuildable(p) THEN BuildError
    ELSE [scheme |-> p.scheme, auth |-> p.host # NoHost, user |-> p.user, host |-> HostText(p),
          port |-> BuiltPort(p), path |-> p.path, query |-> p.query, frag |-> p.frag]

----------------------------------------------------------------------------
(* The setters, as functions of the parts. *)

WithScheme(p, s) ==
    LET o == Lower(s) IN
    IF o = p.scheme THEN p
    ELSE [p EXCEPT !.scheme = o, !.port = IF DefaultPort(o, @) THEN NoPort ELSE @]

\* host(h, ip_v): the version is found out again, but for one that is neither
\* 0, 4 nor 6.
WithHost(p, h) ==
    LET ip == CASE h = NoHost -> -1
                [] h.k = "ip4" -> 4
                [] h.k = "ip6" -> 6
                [] h.k = "future" -> h.v[1]
                [] OTHER -> 0
    IN [p EXCEPT !.host = Normalized(IF h.k = "future" THEN h.h ELSE h, ip), !.ip = ip]

WithPort(p, n) == [p EXCEPT !.port = IF DefaultPort(p.scheme, n) THEN NoPort ELSE n]

WithQuery(p, q) == [p EXCEPT !.query = q]

\* What a move leaves: strings and vectors that are empty.
Emptied(p) == IF p = ParseError THEN Cleared ELSE [Cleared EXCEPT !.ip = p.ip]

\* A setter call: which field, and its argument; "rejected" stands for one that
\* is too long or has characters the field may not have.
Valid(e) ==
    CASE e.f = "rejected" -> FALSE
      [] e.f = "host" ->
            /\ e.x.k = "ip6" => IsValidIpv6(e.x.tok)
            /\ e.x.k = "future" => e.x.h.k = "ip6"
      [] e.f = "port" -> IsUint(e.x, MaxPort)
      [] OTHER -> TRUE

Changed(p, e) ==
    CASE e.f = "scheme" -> WithScheme(p, e.x)
      [] e.f = "user" -> [p EXCEPT !.user = e.x]
      [] e.f = "host" -> WithHost(p, e.x)
      [] e.f = "port" -> WithPort(p, e.x)
      [] e.f = "path" -> [p EXCEPT !.path = NormalizePath(e.x)]
      [] e.f = "query" -> WithQuery(p, e.x)
      [] e.f = "fragment" -> [p EXCEPT !.frag = e.x]
============================================================================
