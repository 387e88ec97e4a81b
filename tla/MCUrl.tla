------------------------------- MODULE MCUrl -------------------------------
(***************************************************************************)
(* An instance of Url for TLC: texts and calls for every way through the   *)
(* parser, the builder and the setters.                                    *)
(***************************************************************************)
EXTENDS Url

Http == [EmptyText EXCEPT !.scheme = "http", !.auth = TRUE, !.host = Name("Host"),
                          !.path = RootPath]
KV(k, v) == [key |-> k, val |-> v]

MCTexts == {
    EmptyText, Malformed,
    [Http EXCEPT !.scheme = "HTTP", !.port = 80, !.query = <<KV("a", "1")>>],
    [Http EXCEPT !.query = <<KV("a", ""), KV("", "")>>],    \* "?a&"
    [EmptyText EXCEPT !.path = Path(FALSE, <<".", "c:d">>)] }

MCEdits == {
    [f |-> "rejected"],
    [f |-> "scheme", x |-> "https"],
    [f |-> "user", x |-> "u"],
    [f |-> "host", x |-> NoHost], [f |-> "host", x |-> Ip4("1.2.3.4")],
    [f |-> "host", x |-> Ip6(<<1, 2>>)],
    [f |-> "port", x |-> 443],
    [f |-> "path", x |-> Path(FALSE, <<"a", "..", "b">>)],
    [f |-> "query", x |-> <<KV("", "v")>>],
    [f |-> "fragment", x |-> "f"] }

MCQueries == {<<>>, <<KV("k", "v")>>}
MCEntries == {KV("k", "")}

Symmetry == Permutations(Obj)
============================================================================
