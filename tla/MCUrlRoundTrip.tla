-------------------------- MODULE MCUrlRoundTrip --------------------------
(***************************************************************************)
(* The texts of the round trip: every combination of a few components, and *)
(* IPv6 addresses of zeros and wide groups in every spelling, right and    *)
(* wrong.                                                                  *)
(***************************************************************************)
EXTENDS UrlRoundTrip

KV(k, v) == [key |-> k, val |-> v]

Wide == 43981   \* abcd

Paths == {NoPath, RootPath, Path(TRUE, <<"..">>), Path(TRUE, <<"a", "..", "b", "">>),
          Path(TRUE, <<"a", "", ".">>), Path(FALSE, <<"..", "a">>), Path(FALSE, <<"c:d", "b">>),
          Path(FALSE, <<".", "c:d">>)}
Hosts == {NoHost, Name("Host"), Ip4("1.2.3.4"), Ip6(<<Blank, Blank, 1>>),
          Future(<<1, 10>>, Name("Host")), Future(<<0>>, Name("Host")),
          Future(<<4>>, Name("Host")), Future(<<4>>, Ip4("1.2.3.4")), Future(<<0>>, Ip4("1.2.3.4")),
          Future(<<6>>, Name("Host")),
          Future(<<0>>, Coloned(Name("Host"), 80)), Future(<<0>>, Coloned(NoHost, NotANumber)),
          Future(<<4>>, Coloned(Ip4("1.2.3.4"), 8080)), Future(<<9>>, Coloned(Name("Host"), 80)),
          Future(<<6>>, Ip6(<<Wide, Blank, Blank>>)), Future(<<9>>, Ip6(<<1, Blank, Blank>>))}
Ports == {NoPort, NotANumber, 80, 443, 65536, 100080}

Plain ==
    [scheme : {"", "HTTP", "https"}, auth : BOOLEAN, user : {"", "u"}, host : Hosts, port : Ports,
     path : Paths, query : {<<>>, <<KV("a", "1")>>, <<KV("a", ""), KV("", "")>>}, frag : {"f"}]

Literal(tok) == [EmptyText EXCEPT !.scheme = "http", !.auth = TRUE, !.host = Ip6(tok)]

Scribbled == SeqOf({Blank, 0, Wide}, 5) \ {<<>>}
Wides(n) == [i \in 1..n |-> Wide]
Oversized ==
    {Wides(n) : n \in 9..11} \cup {<<65537>> \o Wides(7)}
        \cup {Wides(n) \o <<Blank>> \o Wides(4) : n \in 2..4}
        \cup {Wides(n) \o <<Blank, 0, 0, 0, 0>> : n \in 2..4}
        \cup {<<Blank, Blank>> \o Wides(2) \o [i \in 1..n |-> 0] : n \in 5..6}

MCWritten ==
    {Malformed, EmptyText}
        \cup {t \in Plain : IsText(t)}
        \cup {Literal(t) : t \in Spelled \cup Scribbled \cup Oversized}
        \cup {Literal(Append(t, Dotted)) : t \in Scribbled \cup Oversized}
============================================================================
