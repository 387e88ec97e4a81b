----------------------------- MODULE HttpMessage -----------------------------
(***************************************************************************)
(* How an HTTP request is framed: the natives that edit a web_request,     *)
(* Prepare, and what Send and SendAsync put on the wire.  One request; no  *)
(* native looks at two.  A body is represented by its length.              *)
(***************************************************************************)
EXTENDS Integers

CONSTANTS
    Body,       \* lengths of bodies, and values of Content-Length (bound)
    NoLength    \* no Content-Length header

ASSUME MessageAssumption == Body \subseteq Nat /\ 0 \in Body /\ NoLength \notin Nat

VARIABLES
    message,    \* the request as the natives have left it
    prepared,   \* history: Prepare was called, and neither body nor header set since
    edits,      \* history: what was set since the last Prepare that it would have
                \* put right: a body "behind" a length, a "length", a "coding"
    onWire,     \* what went out: how, and the message as it was written
    died        \* Prepare threw out of its native

mvars == <<message, prepared, edits, onWire, died>>

\* POST stands for the methods whose empty body has a length: POST, PUT, OPTIONS.
Method  == {"GET", "POST", "TRACE"}
Coding  == {"none", "chunked", "other"}
Message == [method : Method, body : Body, length : Body \cup {NoLength}, coding : Coding]
Way     == {"Send", "SendAsync"}
NewMessage == [method |-> "GET", body |-> 0, length |-> NoLength, coding |-> "none"]
Nothing    == [by |-> "none"]

MessageTypeOK ==
    /\ message \in Message
    /\ prepared \in BOOLEAN /\ edits \subseteq {"behind", "length", "coding"}
    /\ onWire \in [by : Way, as : Message] \cup {Nothing}
    /\ died \in BOOLEAN

MessageInit ==
    /\ message = NewMessage
    /\ prepared = FALSE /\ edits = {}
    /\ onWire = Nothing /\ died = FALSE

Editing == onWire = Nothing /\ ~died /\ UNCHANGED <<onWire, died>>

SetMethod ==
    /\ Editing
    /\ \E m \in Method : message' = [message EXCEPT !.method = m]
    /\ UNCHANGED <<prepared, edits>>

\* SetHeader of the two headers that frame a message.
SetHeader ==
    /\ Editing
    /\ prepared' = FALSE
    /\ \/ /\ \E n \in Body : message' = [message EXCEPT !.length = n]
          /\ edits' = edits \cup {"length"}
       \/ /\ \E c \in {"chunked", "other"} : message' = [message EXCEPT !.coding = c]
          /\ edits' = edits \cup {"coding"}

\* The body changes; a Content-Length that is there does not.
SetBodyText ==
    /\ Editing
    /\ prepared' = FALSE
    /\ \E b \in Body : message' = [message EXCEPT !.body = b]
    /\ edits' = IF message.length = NoLength THEN edits ELSE edits \cup {"behind"}

\* prepare_payload throws for a TRACE with a body.
Refused(m) == m.method = "TRACE" /\ m.body > 0

\* prepare_payload: a length where there is a body or the method asks for one, and
\* no chunks.  Another coding stays.
Prepared(m) ==
    [m EXCEPT !.length = IF m.body > 0 \/ m.method = "POST" THEN m.body ELSE NoLength,
              !.coding = IF @ = "chunked" THEN "none" ELSE @]

\* No native catches what prepare_payload throws.
Prepare ==
    /\ onWire = Nothing /\ ~died /\ UNCHANGED onWire
    /\ IF Refused(message)
        THEN died' = TRUE /\ UNCHANGED <<message, prepared, edits>>
        ELSE /\ message' = Prepared(message)
             /\ prepared' = TRUE
             /\ edits' = IF message'.coding = "other" THEN edits \cap {"coding"} ELSE {}
             /\ UNCHANGED died

\* Mutant: a message goes out as it is.
CheckedNever(m) == m

\* _check_http_message, on the copy async_send has made: what prepare_payload
\* throws is swallowed.
Checked(m) ==
    IF m.coding # "chunked" /\ m.length = NoLength /\ ~Refused(m) THEN Prepared(m) ELSE m

\* execute writes the message as it is.
Execute ==
    /\ onWire = Nothing /\ ~died
    /\ onWire' = [by |-> "Send", as |-> message]
    /\ UNCHANGED <<message, prepared, edits, died>>

\* The connect listener's async_send.
AsyncSend ==
    /\ onWire = Nothing /\ ~died
    /\ onWire' = [by |-> "SendAsync", as |-> Checked(message)]
    /\ UNCHANGED <<message, prepared, edits, died>>

MessageNext == SetMethod \/ SetHeader \/ SetBodyText \/ Prepare \/ Execute \/ AsyncSend

MessageSpec == MessageInit /\ [][MessageNext]_mvars

(***************************************************************************)
(* Properties.                                                             *)
(***************************************************************************)
\* What a receiver can take apart: the chunks, or as many bytes as the length says.
Framed(m) ==
    \/ m.coding = "none" /\ m.length = m.body
    \/ m.coding = "none" /\ m.length = NoLength /\ m.body = 0
    \/ m.coding = "chunked" /\ m.length = NoLength

\* http_send_op.hpp: "If an http message header don't has neither Content-Length nor
\* Transfer-Encoding (chunk) then the receiver may not be able to parse the http
\* message normally."  What SendAsync writes can be taken apart, unless the plugin
\* set a length or a coding of its own, or a body behind a length, or gave a TRACE
\* a body.  What Send writes can be if Prepare was the last to see body and headers.
FramedOnWire ==
    onWire # Nothing /\ edits = {} =>
        /\ onWire.by = "SendAsync" => Framed(onWire.as) \/ Refused(onWire.as)
        /\ onWire.by = "Send" /\ prepared => Framed(onWire.as)
==============================================================================
