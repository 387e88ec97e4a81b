------------------------------ MODULE EagerUrl ------------------------------
(***************************************************************************)
(* What url.hpp promises its users: a URL is a value, the parts of its     *)
(* text.  There are no flags; a text is taken apart when it is assigned,   *)
(* and put together when it is asked for.  A text that does not parse is a *)
(* value of its own, and every look at it throws.  What parsing, building  *)
(* and the setters compute is a parameter.                                 *)
(***************************************************************************)
EXTENDS Sequences

CONSTANTS
    Obj, Texts, Edits, Queries, Entries, KeepsReference,
    Parse(_), Build(_),         \* from a text to its parts, and back
    Valid(_), Changed(_, _),    \* setter calls
    WithQuery(_, _), Emptied(_),
    Cleared, ParseError, Done

VARIABLES
    value,  \* Obj -> the parts, or ParseError
    held,   \* the objects whose query a caller may write through a reference
    out     \* what the last call returned or threw

Init ==
    /\ value = [u \in Obj |-> Cleared]
    /\ held = {}
    /\ out = Done

\* A reference stays valid; a careful caller does not use it any more.
LetGo(us) == held' = IF KeepsReference THEN held ELSE held \ us

\* Whole-object assignment.
Assign(u, v) ==
    /\ value' = [value EXCEPT ![u] = v]
    /\ LetGo({u})
    /\ out' = Done

\* A call that reads the parts throws when there are none.
Reads(u, result) ==
    /\ out' = IF value[u] = ParseError THEN ParseError ELSE result
    /\ UNCHANGED <<value, held>>

Set(u)   == \E t \in Texts : Assign(u, Parse(t))
Clear(u) == Assign(u, Cleared)
Copy(u)  == \E w \in Obj \ {u} : Assign(u, value[w])
Get(u)   == Reads(u, value[u])
Str(u)   == Reads(u, Build(value[u]))

\* The source of a move is left empty, but maybe for its IP version.
Move(u) ==
    \E w \in Obj \ {u} :
        /\ \E left \in {Cleared, Emptied(value[w])} :
                value' = [value EXCEPT ![u] = value[w], ![w] = left]
        /\ LetGo({u, w})
        /\ out' = Done

\* A setter throws and changes nothing, or changes its part.
Change(u) ==
    \E e \in Edits :
        IF ~Valid(e) \/ value[u] = ParseError
            THEN out' = ParseError /\ UNCHANGED <<value, held>>
            ELSE /\ value' = [value EXCEPT ![u] = Changed(@, e)]
                 /\ out' = Done /\ UNCHANGED held

AddQuery(u) ==
    \E kv \in Entries :
        IF value[u] = ParseError
            THEN out' = ParseError /\ UNCHANGED <<value, held>>
            ELSE /\ value' = [value EXCEPT ![u] = WithQuery(@, Append(@.query, kv))]
                 /\ out' = Done /\ UNCHANGED held

Hold(u) ==
    IF value[u] = ParseError
        THEN out' = ParseError /\ UNCHANGED <<value, held>>
        ELSE held' = held \cup {u} /\ out' = Done /\ UNCHANGED value

\* Through the reference; a value without parts has no query to write.
Write(u) ==
    /\ u \in held
    /\ \E q \in Queries :
        value' = [value EXCEPT ![u] = IF @ = ParseError THEN @ ELSE WithQuery(@, q)]
    /\ out' = Done /\ UNCHANGED held

Next ==
    \E u \in Obj :
        \/ Set(u) \/ Clear(u) \/ Copy(u) \/ Move(u) \/ Get(u) \/ Str(u)
        \/ Change(u) \/ AddQuery(u) \/ Hold(u) \/ Write(u)

Spec == Init /\ [][Next]_<<value, held, out>>
=============================================================================
