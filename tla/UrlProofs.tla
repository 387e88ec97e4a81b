----------------------------- MODULE UrlProofs -----------------------------
(***************************************************************************)
(* Proofs about Url for every set of objects, texts and calls, and callers *)
(* who do not keep a reference to the query beyond clear() or an           *)
(* assignment: the text is never handed out stale, and the object with its *)
(* flags implements the value EagerUrl specifies.  What parse_url,         *)
(* build_url and the setters compute is left open, but for the empty text. *)
(***************************************************************************)
EXTENDS Url, TLAPS

----------------------------------------------------------------------------
(* The inductive invariant.  The text is said to be built only while the   *)
(* object is empty: parse_url and build_url both clear m_built.  And it is *)
(* parsed as long as a caller writes through a reference to its query.     *)

Shape ==
    /\ DOMAIN m_url = Obj /\ DOMAIN part = Obj
    /\ DOMAIN m_parse = Obj /\ DOMAIN m_built = Obj

EmptyAt(u) ==
    /\ m_parse[u] = TRUE /\ part[u] = Cleared /\ m_url[u] = EmptyText /\ u \notin held

BuiltOnlyEmpty == \A u \in Obj : m_built[u] => EmptyAt(u)
HeldParsed == \A u \in Obj : u \in held => m_parse[u]

IInv == Shape /\ BuiltOnlyEmpty /\ HeldParsed

----------------------------------------------------------------------------
(* The empty URL. *)

LEMMA ParseEmpty == Parse(EmptyText) = Cleared
BY DEF Parse

LEMMA BuildCleared == Build(Cleared) = EmptyText
<1>1. ~Unbuildable(Cleared)
    BY DEF Unbuildable, Cleared, ColonFirst, NoPath, Path, NoHost, NoPort
<1>2. HostText(Cleared) = NoHost /\ BuiltPort(Cleared) = NoPort
    BY DEF Cleared, HostText, BuiltPort, DefaultPort
<1> QED BY <1>1, <1>2 DEF Build, Cleared, EmptyText

LEMMA ClearedParsed == Cleared # ParseError
BY DEF Cleared, ParseError

LEMMA EmptiedCleared == Emptied(Cleared) = Cleared
BY ClearedParsed DEF Emptied, Cleared

----------------------------------------------------------------------------
(* The invariant is inductive. *)

LEMMA InitInv == Init => IInv
BY DEF Init, IInv, Shape, BuiltOnlyEmpty, HeldParsed, EmptyAt

\* A look at the parts does not make the text stale: it is said to be built
\* afterwards only if the object is empty.
LEMMA LookIsSafe ==
    ASSUME IInv, NEW u \in Obj, BuiltThen(u)
    PROVE  Seen(u) = Cleared /\ m_url[u] = EmptyText /\ u \notin held
BY ParseEmpty DEF IInv, BuiltOnlyEmpty, HeldParsed, EmptyAt, Seen, BuiltThen

LEMMA NextInv ==
    ASSUME ~KeepsReference, IInv, [Next]_vars
    PROVE  IInv'
<1> USE DEF Shape, BuiltOnlyEmpty, HeldParsed, EmptyAt, LetGo
<1>1. CASE UNCHANGED vars
    BY <1>1 DEF IInv, vars
<1>2. ASSUME NEW u \in Obj, Set(u) PROVE IInv'
    BY <1>2 DEF IInv, Set
<1>3. ASSUME NEW u \in Obj, Clear(u) PROVE IInv'
    BY <1>3 DEF IInv, Clear, Parsed
<1>4. ASSUME NEW u \in Obj, Copy(u) PROVE IInv'
    BY <1>4 DEF IInv, Copy, AssignFrom
<1>5. ASSUME NEW u \in Obj, Move(u) PROVE IInv'
    BY <1>5, EmptiedCleared DEF IInv, Move
<1>6. ASSUME NEW u \in Obj, Get(u) PROVE IInv'
    BY <1>6, LookIsSafe DEF IInv, Get, Throws, Unchanged, Parsed
<1>7. ASSUME NEW u \in Obj, Str(u) PROVE IInv'
    BY <1>7, LookIsSafe DEF IInv, Str, Throws, Unchanged, Parsed
<1>8. ASSUME NEW u \in Obj, Change(u) PROVE IInv'
    <2>1. \/ Unchanged /\ UNCHANGED held
          \/ Parsed(u, Seen(u), BuiltThen(u)) /\ UNCHANGED <<m_url, held>>
          \/ \E p, b : Parsed(u, p, BuiltThen(u) /\ p = Seen(u) /\ b) /\ UNCHANGED <<m_url, held>>
        BY <1>8 DEF Change, Throws, Same
    <2>2. CASE Unchanged /\ UNCHANGED held
        BY <2>2 DEF IInv, Unchanged
    <2>3. ASSUME NEW p, NEW b, Parsed(u, p, BuiltThen(u) /\ p = Seen(u) /\ b), UNCHANGED <<m_url, held>>
          PROVE  IInv'
        BY <2>3, LookIsSafe DEF IInv, Parsed
    <2>4. CASE Parsed(u, Seen(u), BuiltThen(u)) /\ UNCHANGED <<m_url, held>>
        BY <2>4, LookIsSafe DEF IInv, Parsed
    <2> QED BY <2>1, <2>2, <2>3, <2>4
<1>9. ASSUME NEW u \in Obj, AddQuery(u) PROVE IInv'
    BY <1>9 DEF IInv, AddQuery, Throws, Unchanged, Parsed
<1>10. ASSUME NEW u \in Obj, Hold(u) PROVE IInv'
    BY <1>10 DEF IInv, Hold, Throws, Unchanged, Parsed
<1>11. ASSUME NEW u \in Obj, Write(u) PROVE IInv'
    BY <1>11 DEF IInv, Write
<1> QED BY <1>1, <1>2, <1>3, <1>4, <1>5, <1>6, <1>7, <1>8, <1>9, <1>10, <1>11 DEF Next

LEMMA AlwaysInv ==
    ASSUME ~KeepsReference
    PROVE  Spec => []IInv
<1>1. IInv /\ [Next]_vars => IInv'
    BY NextInv
<1> QED BY <1>1, InitInv, PTL DEF Spec

\* url.hpp str(): in every execution a text that is handed out unbuilt is that
\* of the parts, whatever is written through references that were asked for
\* since the object was last assigned.
THEOREM NeverStale ==
    ASSUME ~KeepsReference
    PROVE  Spec => []BuiltIsCurrent
<1>1. IInv => BuiltIsCurrent
    BY BuildCleared DEF IInv, BuiltOnlyEmpty, EmptyAt, BuiltIsCurrent
<1> QED BY <1>1, AlwaysInv, PTL

----------------------------------------------------------------------------
(* The refinement. *)

value == [u \in Obj |-> Seen(u)]

LEMMA InitRefines == Init => Eager!Init
BY DEF Init, Eager!Init, Seen

\* An assignment to the parts is one to the value.
LEMMA ParsedValue ==
    ASSUME Shape, NEW u \in Obj, NEW p, NEW built, Parsed(u, p, built), UNCHANGED m_url
    PROVE  value' = [value EXCEPT ![u] = p]
BY DEF Shape, Parsed, Seen, value

LEMMA StepRefines ==
    ASSUME ~KeepsReference, IInv, [Next]_vars
    PROVE  [Eager!Next]_<<value, held, out>>
<1> USE DEF Shape, BuiltOnlyEmpty, HeldParsed, EmptyAt, value, LetGo, Eager!LetGo
<1> SUFFICES Eager!Next \/ UNCHANGED <<value, held, out>>
    OBVIOUS
<1>1. CASE UNCHANGED vars
    BY <1>1 DEF vars, Seen
<1>2. ASSUME NEW u \in Obj, Set(u) PROVE Eager!Set(u)
    BY <1>2 DEF IInv, Set, Seen, Eager!Set, Eager!Assign
<1>3. ASSUME NEW u \in Obj, Clear(u) PROVE Eager!Clear(u)
    BY <1>3 DEF IInv, Clear, Parsed, Seen, Eager!Clear, Eager!Assign
<1>4. ASSUME NEW u \in Obj, Copy(u) PROVE Eager!Copy(u)
    <2>1. PICK w \in Obj \ {u} : AssignFrom(u, w) /\ LetGo({u}) /\ out' = Done
        BY <1>4 DEF Copy
    <2>2. value' = [value EXCEPT ![u] = value[w]]
        BY <2>1 DEF IInv, AssignFrom, Seen
    <2> QED BY <2>1, <2>2 DEF Eager!Copy, Eager!Assign
<1>5. ASSUME NEW u \in Obj, Move(u) PROVE Eager!Move(u)
    <2>1. PICK w \in Obj \ {u} :
            /\ m_parse' = [m_parse EXCEPT ![u] = m_parse[w]]
            /\ part' = IF m_parse[w]
                        THEN [part EXCEPT ![u] = part[w], ![w] = Emptied(part[w])] ELSE part
            /\ m_url' = IF ~m_parse[w] \/ m_built[w]
                        THEN [m_url EXCEPT ![u] = m_url[w], ![w] = EmptyText] ELSE m_url
            /\ LetGo({u, w})
            /\ out' = Done
        BY <1>5 DEF Move
    <2>2. CASE m_parse[w]
        <3>1. value' = [value EXCEPT ![u] = value[w], ![w] = Emptied(value[w])]
            BY <2>1, <2>2 DEF IInv, Seen
        <3> QED BY <2>1, <3>1 DEF Eager!Move
    <2>3. CASE ~m_parse[w]
        <3>1. value' = [value EXCEPT ![u] = value[w], ![w] = Cleared]
            BY <2>1, <2>3, ParseEmpty DEF IInv, Seen
        <3> QED BY <2>1, <3>1 DEF Eager!Move
    <2> QED BY <2>2, <2>3
<1>6. ASSUME NEW u \in Obj, Get(u) PROVE Eager!Get(u)
    BY <1>6 DEF IInv, Get, Throws, Unchanged, Parsed, Seen, Eager!Get, Eager!Reads
<1>7. ASSUME NEW u \in Obj, Str(u) PROVE Eager!Str(u)
    BY <1>7, BuildCleared, ClearedParsed
    DEF IInv, Str, Throws, Unchanged, Parsed, Seen, Eager!Str, Eager!Reads
<1>8. ASSUME NEW u \in Obj, Change(u) PROVE Eager!Change(u)
    <2>1. PICK e \in Edits :
            IF Seen(u) = ParseError \/ (~Valid(e) /\ e.f # "host") THEN Throws(ParseError)
            ELSE IF ~Valid(e)
            THEN /\ Parsed(u, Seen(u), BuiltThen(u))
                 /\ out' = ParseError /\ UNCHANGED <<m_url, held>>
            ELSE /\ Parsed(u, Changed(Seen(u), e), BuiltThen(u) /\ Same(u, e))
                 /\ out' = Done /\ UNCHANGED <<m_url, held>>
        BY <1>8 DEF Change
    <2>2. value[u] = Seen(u)
        OBVIOUS
    <2>3. CASE Seen(u) = ParseError \/ (~Valid(e) /\ e.f # "host")
        BY <2>1, <2>2, <2>3 DEF Throws, Unchanged, Seen, Eager!Change
    <2>4. CASE Seen(u) # ParseError /\ ~Valid(e) /\ e.f = "host"
        <3>1. value' = [value EXCEPT ![u] = Seen(u)]
            BY <2>1, <2>4, ParsedValue DEF IInv
        <3> QED BY <2>1, <2>4, <3>1 DEF Eager!Change
    <2>5. CASE Seen(u) # ParseError /\ Valid(e)
        <3>1. value' = [value EXCEPT ![u] = Changed(value[u], e)]
            BY <2>1, <2>2, <2>5, ParsedValue DEF IInv
        <3> QED BY <2>1, <2>2, <2>5, <3>1 DEF Eager!Change
    <2> QED BY <2>3, <2>4, <2>5
<1>9. ASSUME NEW u \in Obj, AddQuery(u) PROVE Eager!AddQuery(u)
    <2>1. PICK kv \in Entries :
            IF Seen(u) = ParseError THEN Throws(ParseError)
            ELSE /\ Parsed(u, WithQuery(Seen(u), Append(Seen(u).query, kv)), FALSE)
                 /\ out' = Done /\ UNCHANGED <<m_url, held>>
        BY <1>9 DEF AddQuery
    <2>2. value[u] = Seen(u)
        OBVIOUS
    <2>3. CASE Seen(u) = ParseError
        BY <2>1, <2>2, <2>3 DEF Throws, Unchanged, Seen, Eager!AddQuery
    <2>4. CASE Seen(u) # ParseError
        <3>1. value' = [value EXCEPT ![u] = WithQuery(value[u], Append(value[u].query, kv))]
            BY <2>1, <2>2, <2>4, ParsedValue DEF IInv
        <3> QED BY <2>1, <2>2, <2>4, <3>1 DEF Eager!AddQuery
    <2> QED BY <2>3, <2>4
<1>10. ASSUME NEW u \in Obj, Hold(u) PROVE Eager!Hold(u)
    BY <1>10 DEF IInv, Hold, Throws, Unchanged, Parsed, Seen, Eager!Hold
<1>11. ASSUME NEW u \in Obj, Write(u) PROVE Eager!Write(u)
    <2>1. PICK q \in Queries : part' = [part EXCEPT ![u] = WithQuery(part[u], q)]
        BY <1>11 DEF Write
    <2>2. value' = [value EXCEPT ![u] = WithQuery(value[u], q)]
        BY <1>11, <2>1 DEF IInv, Write, Seen
    <2>3. WithQuery(ParseError, q) = ParseError
        BY DEF WithQuery, ParseError
    <2> QED BY <1>11, <2>2, <2>3 DEF Write, Eager!Write
<1> QED BY <1>1, <1>2, <1>3, <1>4, <1>5, <1>6, <1>7, <1>8, <1>9, <1>10, <1>11 DEF Next, Eager!Next

\* url.hpp: the flags are an optimisation; as long as nobody uses a reference
\* from before clear() or an assignment, the object looks like one that parses
\* at once and builds anew for every str().
THEOREM LazyIsEager ==
    ASSUME ~KeepsReference
    PROVE  Spec => LooksEager
<1>1. IInv /\ [Next]_vars => [Eager!Next]_<<value, held, out>>
    BY StepRefines
<1> QED BY <1>1, InitRefines, AlwaysInv, PTL DEF Spec, LooksEager, Eager!Spec, value
============================================================================
