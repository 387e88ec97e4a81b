-------------------------------- MODULE Url --------------------------------
(***************************************************************************)
(* Class Url (src/src/common/url.hpp, url.cpp).  An object keeps its text  *)
(* and its parts and two flags.  m_parse: the parts are those of the text, *)
(* or newer; m_built: the text is that of the parts.  The text is parsed   *)
(* on the first look at a part and built when it is asked for.             *)
(*                                                                         *)
(* A caller may keep the reference that set_query() returns and write      *)
(* through it later, without the object hearing of it.  The vector is a    *)
(* member: clear() and the assignments leave the reference valid.  Only a  *)
(* caller's own care ends its use.                                         *)
(***************************************************************************)
EXTENDS UrlText

CONSTANTS
    Obj,        \* Url objects
    Texts,      \* the texts a caller assigns
    Edits,      \* the setter calls, see Changed
    Queries, Entries,   \* queries written through a reference; entries added
    KeepsReference,     \* callers go on writing through it when the object has
                        \* been cleared, assigned or moved; or ask for a new one
    MaxCalls    \* bound: calls made

ASSUME UrlObjAssumption == MaxCalls \in Nat /\ KeepsReference \in BOOLEAN

VARIABLES
    m_url, m_parse, m_built,
    part,       \* m_scheme ... m_fragment, m_ip_v
    held,       \* the objects whose query a caller may write through a reference
    out,        \* what the last call returned or threw
    calls       \* calls made, counted against the bound

vars == <<m_url, m_parse, m_built, part, held, out, calls>>

Init ==
    /\ m_url = [u \in Obj |-> EmptyText]
    /\ m_parse = [u \in Obj |-> TRUE]
    /\ m_built = [u \in Obj |-> TRUE]
    /\ part = [u \in Obj |-> Cleared]
    /\ held = {}
    /\ out = Done
    /\ calls = 0

(***************************************************************************)
(* lazy_parse.  parse_url assigns the members at its very end, so a text   *)
(* that is rejected leaves the object as it was.                           *)
(***************************************************************************)
\* What a look at the parts finds, or ParseError.
Seen(u) == IF m_parse[u] THEN part[u] ELSE Parse(m_url[u])

\* m_built after lazy_parse: parsing the empty text is clear().
BuiltThen(u) == IF m_parse[u] THEN m_built[u] ELSE m_url[u] = EmptyText

\* The object after lazy_parse and an assignment to its parts.
Parsed(u, p, built) ==
    /\ m_parse' = [m_parse EXCEPT ![u] = TRUE]
    /\ part' = [part EXCEPT ![u] = p]
    /\ m_built' = [m_built EXCEPT ![u] = built]

Unchanged == UNCHANGED <<m_url, m_parse, m_built, part>>

Throws(error) == out' = error /\ Unchanged /\ UNCHANGED held

\* The objects are no longer what the caller asked the reference of.
LetGo(us) == held' = IF KeepsReference THEN held ELSE held \ us

(***************************************************************************)
(* Whole objects.                                                          *)
(***************************************************************************)
\* str(url_str), operator=(string)
Set(u) ==
    /\ \E t \in Texts : m_url' = [m_url EXCEPT ![u] = t]
    /\ m_parse' = [m_parse EXCEPT ![u] = FALSE]
    /\ m_built' = [m_built EXCEPT ![u] = FALSE]
    /\ LetGo({u})
    /\ out' = Done
    /\ UNCHANGED part

Clear(u) ==
    /\ m_url' = [m_url EXCEPT ![u] = EmptyText]
    /\ Parsed(u, Cleared, TRUE)
    /\ LetGo({u})
    /\ out' = Done

\* assign: the parts when they are there, the text when the parts are not or
\* when it is theirs.
AssignFrom(u, w) ==
    /\ m_parse' = [m_parse EXCEPT ![u] = m_parse[w]]
    /\ m_built' = [m_built EXCEPT ![u] = m_built[w]]
    /\ part' = [part EXCEPT ![u] = IF m_parse[w] THEN part[w] ELSE @]
    /\ m_url' = [m_url EXCEPT ![u] = IF ~m_parse[w] \/ m_built[w] THEN m_url[w] ELSE @]

\* Mutant: the text is not copied.
CopyPartsOnly(u) ==
    \E w \in Obj \ {u} :
        /\ m_parse' = [m_parse EXCEPT ![u] = m_parse[w]]
        /\ m_built' = [m_built EXCEPT ![u] = m_built[w]]
        /\ part' = [part EXCEPT ![u] = IF m_parse[w] THEN part[w] ELSE @]
        /\ LetGo({u})
        /\ out' = Done
        /\ UNCHANGED m_url

Copy(u) ==
    \E w \in Obj \ {u} :
        /\ AssignFrom(u, w)
        /\ LetGo({u})
        /\ out' = Done

\* A string or a vector that was moved from is empty; the flags and m_ip_v stay.
Move(u) ==
    \E w \in Obj \ {u} :
        /\ m_parse' = [m_parse EXCEPT ![u] = m_parse[w]]
        /\ m_built' = [m_built EXCEPT ![u] = m_built[w]]
        /\ part' = IF m_parse[w]
                    THEN [part EXCEPT ![u] = part[w], ![w] = Emptied(part[w])]
                    ELSE part
        /\ m_url' = IF ~m_parse[w] \/ m_built[w]
                    THEN [m_url EXCEPT ![u] = m_url[w], ![w] = EmptyText]
                    ELSE m_url
        /\ LetGo({u, w})
        /\ out' = Done

(***************************************************************************)
(* Reading.                                                                *)
(***************************************************************************)
\* scheme(), host(), port() ...: one look at the parts.
Get(u) ==
    IF Seen(u) = ParseError THEN Throws(ParseError)
    ELSE /\ Parsed(u, Seen(u), BuiltThen(u))
         /\ out' = Seen(u)
         /\ UNCHANGED <<m_url, held>>

\* Mutant: m_built is set when the text has been built.
StrCached(u) ==
    LET built == IF Seen(u) = ParseError THEN ParseError ELSE Build(Seen(u)) IN
    IF m_built[u] THEN out' = m_url[u] /\ Unchanged /\ UNCHANGED held
    ELSE IF built = ParseError THEN Throws(ParseError)
    ELSE /\ m_parse' = [m_parse EXCEPT ![u] = TRUE]
         /\ part' = [part EXCEPT ![u] = Seen(u)]
         /\ out' = built
         /\ IF built = BuildError
             THEN m_built' = [m_built EXCEPT ![u] = BuiltThen(u)] /\ UNCHANGED m_url
             ELSE m_built' = [m_built EXCEPT ![u] = TRUE] /\ m_url' = [m_url EXCEPT ![u] = built]
         /\ UNCHANGED held

\* str(): build_url parses first, then throws or writes the text; it leaves
\* m_built FALSE, so that the next call builds again.
Str(u) ==
    LET built == IF Seen(u) = ParseError THEN ParseError ELSE Build(Seen(u)) IN
    IF m_built[u] THEN out' = m_url[u] /\ Unchanged /\ UNCHANGED held
    ELSE IF built = ParseError THEN Throws(ParseError)
    ELSE /\ out' = built
         /\ IF built = BuildError
             THEN Parsed(u, Seen(u), BuiltThen(u)) /\ UNCHANGED m_url
             ELSE Parsed(u, Seen(u), FALSE) /\ m_url' = [m_url EXCEPT ![u] = built]
         /\ UNCHANGED held

(***************************************************************************)
(* Writing.                                                                *)
(***************************************************************************)
\* The setters compare before they assign; host("") compares the int8_t -1 with
\* the uint8_t 255, and always finds a difference.
Same(u, e) == Changed(Seen(u), e) = Seen(u) /\ ~(e.f = "host" /\ e.x = NoHost)

\* Every setter: look at the argument, then lazy_parse, then assign, if the
\* part is not equal to it already.  host() parses before it looks.
Change(u) ==
    \E e \in Edits :
        IF Seen(u) = ParseError \/ (~Valid(e) /\ e.f # "host") THEN Throws(ParseError)
        ELSE IF ~Valid(e)
        THEN /\ Parsed(u, Seen(u), BuiltThen(u))
             /\ out' = ParseError
             /\ UNCHANGED <<m_url, held>>
        ELSE /\ Parsed(u, Changed(Seen(u), e), BuiltThen(u) /\ Same(u, e))
             /\ out' = Done
             /\ UNCHANGED <<m_url, held>>

AddQuery(u) ==
    \E kv \in Entries :
        IF Seen(u) = ParseError THEN Throws(ParseError)
        ELSE /\ Parsed(u, WithQuery(Seen(u), Append(Seen(u).query, kv)), FALSE)
             /\ out' = Done
             /\ UNCHANGED <<m_url, held>>

\* set_query(): a reference for writing.
Hold(u) ==
    IF Seen(u) = ParseError THEN Throws(ParseError)
    ELSE /\ Parsed(u, Seen(u), FALSE)
         /\ held' = held \cup {u}
         /\ out' = Done
         /\ UNCHANGED m_url

\* The caller writes through it.  What is written before a text that was assigned
\* is parsed is lost.
Write(u) ==
    /\ u \in held
    /\ \E q \in Queries : part' = [part EXCEPT ![u] = WithQuery(@, q)]
    /\ out' = Done
    /\ UNCHANGED <<m_url, m_parse, m_built, held>>

Next ==
    /\ calls < MaxCalls /\ calls' = calls + 1
    /\ \E u \in Obj :
        \/ Set(u) \/ Clear(u) \/ Copy(u) \/ Move(u) \/ Get(u) \/ Str(u)
        \/ Change(u) \/ AddQuery(u) \/ Hold(u) \/ Write(u)

Spec == Init /\ [][Next]_vars

(***************************************************************************)
(* Properties.                                                             *)
(***************************************************************************)
\* What url.hpp hides: the parts, or the failure to have any.
Eager == INSTANCE EagerUrl WITH value <- [u \in Obj |-> Seen(u)]

\* url.hpp: whatever the two flags say, in whichever order the object is set,
\* read, changed, copied and moved, nobody who asks for a new reference when he
\* should can tell it from one that parses and builds at once.
LooksEager == Eager!Spec

\* url.hpp str(), "Build Url if needed": the text that is handed out unbuilt is
\* that of the parts, also when they were written through a reference.
BuiltIsCurrent == \A u \in Obj : m_built[u] => m_parse[u] /\ m_url[u] = Build(part[u])
============================================================================
