------------------------------ MODULE NetJson ------------------------------
(***************************************************************************)
(* The NetJSON, NetJSONObject, NetJSONArray and NetJSONObjectIterator      *)
(* natives (src/src/json): documents on the C++ heap, reached by plugins   *)
(* through SourceMod handles, and iterators that hold a bare reference to  *)
(* a document and a std::map iterator into it.                             *)
(*                                                                         *)
(* One action per native, or per family of natives whose bodies differ in  *)
(* the stored type only.  Natives run one at a time on the game thread; in *)
(* between, plugins clone and close handles and are unloaded, which frees  *)
(* the handles they own (SourceMod's handle system, external to src/).     *)
(* CreateHandle may fail at every call.                                    *)
(***************************************************************************)
EXTENDS JsonValue

CONSTANTS
    Plugin,     \* plugins, which own handles
    DocId,      \* addresses of heap documents (bound: how many exist at once)
    IterId,     \* addresses of iterator proxies (bound)
    HandleId,   \* handle values (bound)
    Path,       \* files named by ToFile and LoadFromFile
    Text,       \* the values of the strings and bodies parsed
    Index,      \* the array indices a plugin passes, negative ones included
    Stored,     \* bound: the values that become elements of a document
    Failing,    \* the natives whose creation step may fail
    MaxFaulty,  \* bound: how many of them do in one behaviour
    Careful,    \* TRUE: plugins keep to the discipline of the CareOver section
    NoDoc       \* the document of an iterator whose document was freed

CreatingNative ==
    {"ObjectCreate", "ArrayCreate", "LoadFromString", "LoadFromFile",
     "GetResponseBodyAsJSON", "Get", "CreateIterator"}

ASSUME NetJsonAssumption ==
    /\ Text \subseteq Doc
    /\ Index \subseteq Int
    /\ Stored \subseteq Element
    /\ Failing \subseteq CreatingNative
    /\ MaxFaulty \in Nat
    /\ Careful \in BOOLEAN
    /\ NoDoc \notin DocId

VARIABLES
    heap,       \* DocId -> the document there, or Free
    proxy,      \* IterId -> the ObjectIteratorProxy there, or NoProxy
    handle,     \* HandleId -> the handle-table entry, or NoHandle
    file,       \* Path -> what a parser would make of the file
    report,     \* "error" if the last native called ReportError, else "ok"
    ub,         \* the undefined behaviour reached, or "none"
    visit,      \* history, IterId -> keys the iterator stood on / must reach
    faulted     \* history: the natives in which a creation step has failed

vars == <<heap, proxy, handle, file, report, ub, visit, faulted>>

Free     == [t |-> "free"]
NoProxy  == [at |-> "none"]
NoHandle == [kind |-> "none"]
NoVisit  == [seen |-> {}, kept |-> {}]
Missing  == [t |-> "missing"]     \* the file does not exist
Torn     == [t |-> "torn"]        \* truncated, then not written to the end

JsonHandle == [kind : {"json"}, obj : DocId, owner : Plugin]
IterHandle == [kind : {"iterator"}, obj : IterId, owner : Plugin]

\* Where the wrapped iterator stands: on an element of an object, at end(), on
\* an element that is gone ("lost"), in an array, or nowhere, as the counter that
\* a null or a scalar document has for an iterator ("other").
Position == [at : {"key"}, key : Key] \cup [at : {"end", "lost", "array", "other"}]
Proxy    == [doc : DocId \cup {NoDoc}, pos : Position]

TypeOK ==
    /\ heap \in [DocId -> Doc \cup {Free}]
    /\ proxy \in [IterId -> Proxy \cup {NoProxy}]
    /\ handle \in [HandleId -> JsonHandle \cup IterHandle \cup {NoHandle}]
    /\ file \in [Path -> Doc \cup {Missing, Torn}]
    /\ report \in {"ok", "error"}
    /\ ub \in {"none", "iterator", "index", "parameter"}
    /\ visit \in [IterId -> [seen : SUBSET Key, kept : SUBSET Key]]
    /\ faulted \subseteq Failing

Init ==
    /\ heap = [d \in DocId |-> Free]
    /\ proxy = [i \in IterId |-> NoProxy]
    /\ handle = [h \in HandleId |-> NoHandle]
    /\ file = [p \in Path |-> Missing]
    /\ report = "ok"
    /\ ub = "none"
    /\ visit = [i \in IterId |-> NoVisit]
    /\ faulted = {}

----------------------------------------------------------------------------
(* The handle table. *)

IsJson(h) == handle[h].kind = "json"
IsIter(h) == handle[h].kind = "iterator"

\* The document behind a NetJSON handle.
DocOf(h) == heap[handle[h].obj]

\* The objects of one kind that some handle in hs refers to.
HeldBy(kind, hs) == {handle[h].obj : h \in {g \in hs : handle[g].kind = kind}}

Live(i) == proxy[i] # NoProxy
Reads(i, d) == Live(i) /\ proxy[i].doc = d
\* Iterator i refers to a document of type t.
Walks(i, t) == proxy[i].doc # NoDoc /\ heap[proxy[i].doc].t = t
MovedTo(i, pos) == [doc |-> proxy[i].doc, pos |-> pos]

Report(r) == report' = r

\* ReportError before anything was touched.
Reject ==
    /\ Report("error")
    /\ UNCHANGED <<heap, proxy, handle, file, ub, visit, faulted>>

\* A native that only reads, returning or throwing.
Answer(ok) ==
    /\ Report(IF ok THEN "ok" ELSE "error")
    /\ UNCHANGED <<heap, proxy, handle, file, ub, visit, faulted>>

\* CreateHandle succeeds for the object o of plugin p.
NewHandle(p, kind, o) ==
    \E h \in HandleId :
        /\ handle[h] = NoHandle
        /\ handle' = [handle EXCEPT ![h] = [kind |-> kind, obj |-> o, owner |-> p]]

\* A creation step of native n throws; nothing it allocated survives.
Fault(n) ==
    /\ n \in Failing /\ Cardinality(faulted \cup {n}) <= MaxFaulty
    /\ faulted' = faulted \cup {n}
    /\ Report("error")

----------------------------------------------------------------------------
(* What the discipline of a careful plugin demands of its calls: never     *)
(* change or free what a live iterator stands on, never ask an iterator    *)
(* for a key that is not there or walk an array with one, never index an   *)
(* array with -1, and hand Clear a second argument that is an address.     *)

CareOver(d, ks) == Careful => \A i \in IterId : Reads(i, d) => proxy[i].pos \notin [at : {"key"}, key : ks]
CareOverFree(ds, is) == Careful => \A i \in IterId \ is : Live(i) => proxy[i].doc \notin ds
CareOverKind(d) == Careful => (heap[d] = Null => \A i \in IterId : ~Reads(i, d))
CareOverIndex(i) == Careful => i # -1
CareOverEnd(i) == Careful => proxy[i].pos.at # "end"
CareOverArray(i) == Careful => ~Walks(i, "array")
CareOverParameter(readable) == Careful => readable

----------------------------------------------------------------------------
(* Documents: creation. *)

\* CreateHandle has accepted document v, allocated at d of heap hp.
Opened(p, hp, d, v) ==
    /\ heap' = [hp EXCEPT ![d] = v]
    /\ NewHandle(p, "json", d)
    /\ Report("ok")
    /\ UNCHANGED <<proxy, file, ub, visit, faulted>>

\* CreateHandle has refused it, and the native deletes it.
Deleted(n) ==
    /\ Fault(n)
    /\ UNCHANGED <<heap, proxy, handle, file, ub, visit>>

\* CreateHandle has refused it, and the native throws without deleting it.
Abandoned(n, hp, d, v) ==
    /\ heap' = [hp EXCEPT ![d] = v]
    /\ Fault(n)
    /\ UNCHANGED <<proxy, handle, file, ub, visit>>

ObjectCreate(p) ==
    \E d \in DocId :
        /\ heap[d] = Free
        /\ \/ Opened(p, heap, d, EmptyObject)
           \/ Deleted("ObjectCreate")

ArrayCreate(p) ==
    \E d \in DocId :
        /\ heap[d] = Free
        /\ \/ Opened(p, heap, d, EmptyArray)
           \/ Deleted("ArrayCreate")

\* Mutant: the document is not deleted when CreateHandle refuses it.
LoadFromStringKeeps(p) ==
    \/ Reject
    \/ \E d \in DocId, v \in Text :
        /\ heap[d] = Free
        /\ \/ Opened(p, heap, d, v)
           \/ Abandoned("LoadFromString", heap, d, v)

\* json::parse throws before `new` when the text is not JSON.
LoadFromString(p) ==
    \/ Reject
    \/ \E d \in DocId, v \in Text :
        /\ heap[d] = Free
        /\ \/ Opened(p, heap, d, v)
           \/ Deleted("LoadFromString")

\* Here the document is allocated first and parsed into afterwards.  A parse
\* error leaves it behind, as the null value the parser resets it to.
LoadFromFile(p, f) ==
    \E d \in DocId :
        /\ heap[d] = Free
        /\ IF file[f] \in {Missing, Torn}
           THEN Abandoned("LoadFromFile", heap, d, Null)
           ELSE \/ Opened(p, heap, d, file[f])
                \/ Deleted("LoadFromFile")

\* src/src/net/http/native.cpp: the body of a response, if it is a text and JSON.
\* It is not deleted when CreateHandle refuses it.
GetResponseBodyAsJSON(p) ==
    \/ Reject
    \/ \E d \in DocId, v \in Text :
        /\ heap[d] = Free
        /\ \/ Opened(p, heap, d, v)
           \/ Abandoned("GetResponseBodyAsJSON", heap, d, v)

----------------------------------------------------------------------------
(* Documents: what every kind of them offers. *)

\* ToString and PrintRaw.
Dump(h) ==
    \/ ~IsJson(h) /\ Reject
    \/ IsJson(h) /\ Answer(~Unprintable(DocOf(h)))

GetSize(h) == Answer(IsJson(h))

\* Mutant: the exception thrown by dump is swallowed.
ToFileSilent(h, f) ==
    \/ ~IsJson(h) /\ Reject
    \/ /\ IsJson(h)
       /\ \/ file' = [file EXCEPT ![f] = IF Unprintable(DocOf(h)) THEN Torn ELSE Printed(DocOf(h))]
          \/ file' = file
       /\ Report("ok")
       /\ UNCHANGED <<heap, proxy, handle, ub, visit, faulted>>

\* The stream truncates the file when it opens; dump then writes it, or
\* throws half-way.  A stream that did not open is not noticed.
ToFile(h, f) ==
    \/ ~IsJson(h) /\ Reject
    \/ /\ IsJson(h)
       /\ \/ /\ file' = [file EXCEPT ![f] = IF Unprintable(DocOf(h)) THEN Torn ELSE Printed(DocOf(h))]
             /\ Report(IF Unprintable(DocOf(h)) THEN "error" ELSE "ok")
          \/ /\ file' = file
             /\ Report(IF Unprintable(DocOf(h)) THEN "error" ELSE "ok")
       /\ UNCHANGED <<heap, proxy, handle, ub, visit, faulted>>

\* Mutant: the iterators keep standing on the elements that are gone.
DetachNone(d, ks) ==
    /\ proxy' = proxy
    /\ visit' = [i \in IterId |->
                    IF Reads(i, d) THEN [seen |-> visit[i].seen, kept |-> visit[i].kept \ ks] ELSE visit[i]]

\* Document d loses the elements of keys ks: std::map invalidates exactly the
\* iterators that stand on one of them.
Detach(d, ks) ==
    /\ proxy' = [i \in IterId |->
                    IF Reads(i, d) /\ proxy[i].pos.at = "key" /\ proxy[i].pos.key \in ks
                    THEN MovedTo(i, [at |-> "lost"]) ELSE proxy[i]]
    /\ visit' = [i \in IterId |->
                    IF Reads(i, d) THEN [seen |-> visit[i].seen, kept |-> visit[i].kept \ ks] ELSE visit[i]]

\* Undefined behaviour of the given cause has been reached.
Undefined(cause) ==
    /\ ub' = cause
    /\ UNCHANGED <<heap, proxy, handle, file, report, visit, faulted>>

\* LocalToString leaves its result unset when params[2], which clear() makes no
\* use of, is no address in the memory of the plugin; the result is read.
ReadsParameter(readable) == CareOverParameter(readable) /\ ~readable /\ Undefined("parameter")

Clear(h) ==
    \/ ~IsJson(h) /\ Reject
    \/ IsJson(h) /\ \E readable \in BOOLEAN : ReadsParameter(readable)
    \/ /\ IsJson(h)
       /\ LET d == handle[h].obj
          IN  /\ CareOver(d, Key)
              /\ heap' = [heap EXCEPT ![d] = Cleared(heap[d])]
              /\ Detach(d, Key)
       /\ Report("ok")
       /\ UNCHANGED <<handle, file, ub, faulted>>

----------------------------------------------------------------------------
(* Objects. *)

\* The bound on how large a document may grow.
Fits(v) == SizeOf(v) <= MaxSize

\* A native has left document d as v, and returned or thrown.
Wrote(d, v, ok) ==
    /\ Fits(v)
    /\ heap' = [heap EXCEPT ![d] = v]
    /\ Report(IF ok THEN "ok" ELSE "error")
    /\ UNCHANGED <<proxy, handle, file, ub, visit, faulted>>

\* The result is a deep copy in a document of its own.  It is not deleted when
\* CreateHandle refuses it.
ObjectGetValueJSON(p, h, k) ==
    \/ ~IsJson(h) /\ Reject
    \/ /\ IsJson(h)
       /\ LET v == DocOf(h)
          IN  \/ ~Contains(v, k) /\ Reject
              \/ /\ Contains(v, k)
                 /\ \E d \in DocId :
                        /\ heap[d] = Free
                        /\ \/ Opened(p, heap, d, AtKey(v, k).obj[k])
                           \/ Abandoned("Get", heap, d, AtKey(v, k).obj[k])

\* Mutant: contains() is not asked first.
ObjectGetValueUnasked(h, k, T) ==
    \/ ~IsJson(h) /\ Reject
    \/ /\ IsJson(h)
       /\ TakesKey(DocOf(h))
       /\ Wrote(handle[h].obj, AtKey(DocOf(h), k), GetAccepts(T, AtKey(DocOf(h), k).obj[k]))

\* GetBool, GetInt, GetInt64, GetFloat, GetString.
ObjectGetValue(h, k, T) ==
    \/ ~IsJson(h) /\ Reject
    \/ /\ IsJson(h)
       /\ LET v == DocOf(h)
          IN  \/ ~Contains(v, k) /\ Reject
              \/ /\ Contains(v, k)
                 /\ Wrote(handle[h].obj, AtKey(v, k), GetAccepts(T, AtKey(v, k).obj[k]))

ObjectIsValueNull(h, k) ==
    \/ ~IsJson(h) /\ Reject
    \/ /\ IsJson(h)
       /\ \/ ~Contains(DocOf(h), k) /\ Reject
          \/ Contains(DocOf(h), k) /\ Wrote(handle[h].obj, AtKey(DocOf(h), k), TRUE)

ObjectHasKey(h, k) == Answer(IsJson(h))

\* raw[key] = x: the copy of x is taken before operator[] is applied.
Assign(h, k, x) ==
    LET d == handle[h].obj
    IN  \/ ~TakesKey(heap[d]) /\ Reject
        \/ /\ TakesKey(heap[d])
           /\ x \in Stored
           /\ CareOverKind(d)
           /\ Wrote(d, PutKey(heap[d], k, x), TRUE)

\* Mutant: the target becomes an object before the second handle is read.
ObjectSetValueJSONEarly(h, k, g) ==
    \/ ~IsJson(h) /\ Reject
    \/ /\ IsJson(h) /\ ~IsJson(g)
       /\ IF TakesKey(DocOf(h)) THEN Wrote(handle[h].obj, AsObject(DocOf(h)), FALSE) ELSE Reject
    \/ IsJson(h) /\ IsJson(g) /\ Assign(h, k, DocOf(g))

ObjectSetValueJSON(h, k, g) ==
    \/ ~(IsJson(h) /\ IsJson(g)) /\ Reject
    \/ IsJson(h) /\ IsJson(g) /\ Assign(h, k, DocOf(g))

\* SetBool, SetInt, SetInt64, SetFloat, SetString, SetNull.
ObjectSetValue(h, k, x) ==
    \/ ~IsJson(h) /\ Reject
    \/ IsJson(h) /\ Assign(h, k, x)

ObjectRemoveKey(h, k) ==
    \/ ~IsJson(h) /\ Reject
    \/ /\ IsJson(h)
       /\ LET d == handle[h].obj
          IN  \/ heap[d].t # "object" /\ Reject
              \/ /\ heap[d].t = "object"
                 /\ CareOver(d, {k})
                 /\ heap' = [heap EXCEPT ![d] = WithoutKey(heap[d], k)]
                 /\ Detach(d, {k})
                 /\ Report("ok")
                 /\ UNCHANGED <<handle, file, ub, faulted>>

----------------------------------------------------------------------------
(* Object iterators. *)

\* The position of the least of the keys ks, or end().
FirstOf(ks) ==
    IF ks = {} THEN [at |-> "end"]
    ELSE [at |-> "key", key |-> CHOOSE k \in ks : \A j \in ks : k <= j]

\* Mutant: begin() of an empty object is taken for an element.
BeginUnchecked(v) ==
    CASE v.t = "object" /\ KeysOf(v) = {} -> [at |-> "key", key |-> 0]
      [] v.t = "object" /\ KeysOf(v) # {} -> FirstOf(KeysOf(v))
      [] v.t = "array"                     -> [at |-> "array"]
      [] OTHER                             -> [at |-> "other"]

\* begin() of a document.
Begin(v) ==
    CASE v.t = "object" -> FirstOf(KeysOf(v))
      [] v.t = "array"  -> [at |-> "array"]
      [] OTHER          -> [at |-> "other"]

\* Mutants: ++ steps over the next key; ++ starts again from the least key.
AfterSkips(v, k) == FirstOf({j \in KeysOf(v) : k + 1 < j})
AfterRestarts(v, k) == FirstOf(KeysOf(v) \ {k})

\* ++ from key k of a document.
After(v, k) == FirstOf({j \in KeysOf(v) : k < j})

Standing(pos) == IF pos.at = "key" THEN {pos.key} ELSE {}

ObjectCreateIterator(p, h) ==
    \/ ~IsJson(h) /\ Reject
    \/ /\ IsJson(h)
       /\ \E i \in IterId :
            /\ ~Live(i)
            /\ \/ /\ proxy' = [proxy EXCEPT ![i] = [doc |-> handle[h].obj, pos |-> Begin(DocOf(h))]]
                  /\ visit' = [visit EXCEPT ![i] = [seen |-> Standing(Begin(DocOf(h))),
                                                    kept |-> KeysOf(DocOf(h))]]
                  /\ NewHandle(p, "iterator", i)
                  /\ Report("ok")
                  /\ UNCHANGED <<heap, file, ub, faulted>>
               \/ Deleted("CreateIterator")

\* Mutant: key() does not ask for the type of the document.
ObjectIteratorKeyUnasked(h) ==
    \/ ~IsIter(h) /\ Reject
    \/ /\ IsIter(h)
       /\ LET i == handle[h].obj
          IN  /\ CareOverEnd(i)
              /\ IF proxy[i].doc # NoDoc /\ proxy[i].pos.at = "key" THEN Answer(TRUE)
                 ELSE Undefined("iterator")

\* key() throws invalid_iterator 207 unless the document is an object.
ObjectIteratorKey(h) ==
    \/ ~IsIter(h) /\ Reject
    \/ /\ IsIter(h)
       /\ LET i == handle[h].obj
          IN  /\ CareOverEnd(i)
              /\ IF proxy[i].doc = NoDoc THEN Undefined("iterator")
                 ELSE IF heap[proxy[i].doc].t # "object" THEN Reject
                 ELSE IF proxy[i].pos.at = "key" THEN Answer(TRUE)
                 ELSE Undefined("iterator")

\* The iterator may be compared or stepped as one of its document.  Of an array
\* it is not tracked how far the iterator has come and whether the elements have
\* moved since: both may be.
MayServe(i) ==
    /\ proxy[i].doc # NoDoc
    /\ Walks(i, "object") => proxy[i].pos.at \in {"key", "end"}
    /\ Walks(i, "array") => proxy[i].pos.at = "array"

\* It may be an iterator of a document that is gone, an invalidated one, or, made
\* when the document was null, one that was never set.
MayFail(i) ==
    \/ proxy[i].doc = NoDoc
    \/ Walks(i, "object") /\ proxy[i].pos.at \notin {"key", "end"}
    \/ Walks(i, "array")

\* More compares the iterator with end() of the document.
ObjectIteratorMore(h) ==
    \/ ~IsIter(h) /\ Reject
    \/ /\ IsIter(h)
       /\ CareOverArray(handle[h].obj)
       /\ \/ MayServe(handle[h].obj) /\ Answer(TRUE)
          \/ MayFail(handle[h].obj) /\ Undefined("iterator")

\* ++ on an element of an object.
StepOver(i) ==
    /\ Walks(i, "object") /\ proxy[i].pos.at = "key"
    /\ LET next == After(heap[proxy[i].doc], proxy[i].pos.key)
       IN  /\ proxy' = [proxy EXCEPT ![i] = MovedTo(i, next)]
           /\ visit' = [visit EXCEPT ![i] = [seen |-> @.seen \cup Standing(next), kept |-> @.kept]]
    /\ Report("ok")
    /\ UNCHANGED <<heap, handle, file, ub, faulted>>

ObjectIteratorNext(h) ==
    \/ ~IsIter(h) /\ Reject
    \/ /\ IsIter(h)
       /\ LET i == handle[h].obj
          IN  /\ CareOverEnd(i) /\ CareOverArray(i)
              /\ \/ StepOver(i)
                 \/ MayServe(i) /\ ~Walks(i, "object") /\ Answer(TRUE)
                 \/ MayFail(i) /\ Undefined("iterator")
                 \/ Walks(i, "object") /\ proxy[i].pos.at = "end" /\ Undefined("iterator")

----------------------------------------------------------------------------
(* Arrays. *)

GoodIndex(d, i) == TakesIndex(heap[d]) /\ i >= 0

\* operator[](index) with an index it cannot serve.  The int is converted to
\* size_t: -1 makes resize(idx + 1) a resize(0), and the element before the
\* first is accessed; any other negative index makes resize throw, after a
\* null document has become an array.
BadIndex(d, i) ==
    \/ ~TakesIndex(heap[d]) /\ Reject
    \/ TakesIndex(heap[d]) /\ i < -1 /\ Wrote(d, AsArray(heap[d]), FALSE)
    \/ /\ TakesIndex(heap[d])
       /\ i = -1
       /\ CareOverIndex(i)
       /\ heap' = [heap EXCEPT ![d] = EmptyArray]
       /\ ub' = "index"
       /\ UNCHANGED <<proxy, handle, file, report, visit, faulted>>

ArrayGetValueJSON(p, h, i) ==
    \/ ~IsJson(h) /\ Reject
    \/ IsJson(h) /\ BadIndex(handle[h].obj, i)
    \/ /\ IsJson(h)
       /\ GoodIndex(handle[h].obj, i)
       /\ LET w  == AtIndex(DocOf(h), i)
              hp == [heap EXCEPT ![handle[h].obj] = w]
          IN  /\ Fits(w)
              /\ \E d \in DocId :
                    /\ heap[d] = Free
                    /\ \/ Opened(p, hp, d, w.arr[i + 1])
                       \/ Abandoned("Get", hp, d, w.arr[i + 1])

\* GetBool, GetInt, GetInt64, GetFloat, GetString: get<T> may throw after
\* operator[] has grown the array.
ArrayGetValue(h, i, T) ==
    \/ ~IsJson(h) /\ Reject
    \/ IsJson(h) /\ BadIndex(handle[h].obj, i)
    \/ /\ IsJson(h)
       /\ GoodIndex(handle[h].obj, i)
       /\ LET w == AtIndex(DocOf(h), i)
          IN  Wrote(handle[h].obj, w, GetAccepts(T, w.arr[i + 1]))

ArrayIsValueNull(h, i) ==
    \/ ~IsJson(h) /\ Reject
    \/ IsJson(h) /\ BadIndex(handle[h].obj, i)
    \/ /\ IsJson(h)
       /\ GoodIndex(handle[h].obj, i)
       /\ Wrote(handle[h].obj, AtIndex(DocOf(h), i), TRUE)

\* raw[index] = x: the copy of x is taken before operator[] is applied.
AssignAt(h, i, x) ==
    \/ BadIndex(handle[h].obj, i)
    \/ /\ GoodIndex(handle[h].obj, i)
       /\ x \in Stored
       /\ Wrote(handle[h].obj, PutIndex(DocOf(h), i, x), TRUE)

ArraySetValueJSON(h, i, g) ==
    \/ ~(IsJson(h) /\ IsJson(g)) /\ Reject
    \/ IsJson(h) /\ IsJson(g) /\ AssignAt(h, i, DocOf(g))

\* SetBool, SetInt, SetInt64, SetFloat, SetString; SetNull has a body and no
\* entry in the native table, so no plugin can call it.
ArraySetValue(h, i, x) ==
    \/ ~IsJson(h) /\ Reject
    \/ IsJson(h) /\ AssignAt(h, i, x)

\* emplace_back throws 311 on anything but null and array.
EmplaceBack(h, x) ==
    \/ ~TakesIndex(DocOf(h)) /\ Reject
    \/ /\ TakesIndex(DocOf(h))
       /\ x \in Stored
       /\ Wrote(handle[h].obj, Pushed(DocOf(h), x), TRUE)

\* The reference to the pushed document is read after a null target has become
\* an array, which shows when a document is pushed into itself.
ArrayPushValueJSON(h, g) ==
    \/ ~(IsJson(h) /\ IsJson(g)) /\ Reject
    \/ /\ IsJson(h) /\ IsJson(g)
       /\ EmplaceBack(h, IF handle[g].obj = handle[h].obj THEN AsArray(DocOf(g)) ELSE DocOf(g))

\* PushBool, PushInt, PushInt64, PushFloat, PushString, PushNull.
ArrayPushValue(h, x) ==
    \/ ~IsJson(h) /\ Reject
    \/ IsJson(h) /\ EmplaceBack(h, x)

ArrayRemoveIndex(h, i) ==
    \/ ~IsJson(h) /\ Reject
    \/ /\ IsJson(h)
       /\ \/ ~HasIndex(DocOf(h), i) /\ Reject
          \/ HasIndex(DocOf(h), i) /\ Wrote(handle[h].obj, ErasedAt(DocOf(h), i), TRUE)

----------------------------------------------------------------------------
(* The handle system, between two natives.  A clone is a second handle to  *)
(* the same object; the type access lets every plugin close every handle   *)
(* (HandleAccess_Delete = 0); the last handle to go destroys the object    *)
(* through OnHandleDestroy.                                                *)

CloneHandle(p, h) ==
    /\ handle[h] # NoHandle
    /\ NewHandle(p, handle[h].kind, handle[h].obj)
    /\ Report("ok")
    /\ UNCHANGED <<heap, proxy, file, ub, visit, faulted>>

\* Mutant: the first handle to go destroys the object.
FirstHeldBy(kind, hs) == HeldBy(kind, hs)

\* The objects of a kind that only handles in hs refer to.
LastHeldBy(kind, hs) == HeldBy(kind, hs) \ HeldBy(kind, HandleId \ hs)

\* Handles hs are freed.  Deleting a document leaves the iterators into it
\* behind; deleting an iterator does not touch its document.
Release(hs) ==
    LET ds == LastHeldBy("json", hs)
        is == LastHeldBy("iterator", hs)
    IN  /\ CareOverFree(ds, is)
        /\ handle' = [h \in HandleId |-> IF h \in hs THEN NoHandle ELSE handle[h]]
        /\ heap' = [d \in DocId |-> IF d \in ds THEN Free ELSE heap[d]]
        /\ proxy' = [i \in IterId |->
                        IF i \in is THEN NoProxy
                        ELSE IF Live(i) /\ proxy[i].doc \in ds THEN [doc |-> NoDoc, pos |-> proxy[i].pos]
                        ELSE proxy[i]]
        /\ visit' = [i \in IterId |->
                        IF i \in is \/ (Live(i) /\ proxy[i].doc \in ds) THEN NoVisit ELSE visit[i]]
        /\ Report("ok")
        /\ UNCHANGED <<file, ub, faulted>>

CloseHandle(h) == handle[h] # NoHandle /\ Release({h})

\* The handles a plugin owns.
OwnedBy(p) == {h \in HandleId : handle[h] # NoHandle /\ handle[h].owner = p}

PluginUnload(p) == OwnedBy(p) # {} /\ Release(OwnedBy(p))

----------------------------------------------------------------------------

GetType == {"bool", "int", "int64", "float", "string"}

Creating(p) ==
    \/ ObjectCreate(p)
    \/ ArrayCreate(p)
    \/ LoadFromString(p)
    \/ GetResponseBodyAsJSON(p)
    \/ \E f \in Path : LoadFromFile(p, f)
    \/ \E h \in HandleId, k \in Key : ObjectGetValueJSON(p, h, k)
    \/ \E h \in HandleId : ObjectCreateIterator(p, h)
    \/ \E h \in HandleId, i \in Index : ArrayGetValueJSON(p, h, i)

Reading ==
    \/ \E h \in HandleId : Dump(h) \/ GetSize(h)
    \/ \E h \in HandleId, k \in Key : ObjectIsValueNull(h, k) \/ ObjectHasKey(h, k)
    \/ \E h \in HandleId, k \in Key, T \in GetType : ObjectGetValue(h, k, T)
    \/ \E h \in HandleId, i \in Index : ArrayIsValueNull(h, i)
    \/ \E h \in HandleId, i \in Index, T \in GetType : ArrayGetValue(h, i, T)

Iterating ==
    \/ \E h \in HandleId : ObjectIteratorKey(h) \/ ObjectIteratorMore(h) \/ ObjectIteratorNext(h)

Writing ==
    \/ \E h \in HandleId : Clear(h)
    \/ \E h \in HandleId, f \in Path : ToFile(h, f)
    \/ \E h, g \in HandleId, k \in Key : ObjectSetValueJSON(h, k, g)
    \/ \E h \in HandleId, k \in Key, x \in Leaf : ObjectSetValue(h, k, x)
    \/ \E h \in HandleId, k \in Key : ObjectRemoveKey(h, k)
    \/ \E h, g \in HandleId, i \in Index : ArraySetValueJSON(h, i, g)
    \/ \E h \in HandleId, i \in Index, x \in Scalar : ArraySetValue(h, i, x)
    \/ \E h, g \in HandleId : ArrayPushValueJSON(h, g)
    \/ \E h \in HandleId, x \in Leaf : ArrayPushValue(h, x)
    \/ \E h \in HandleId, i \in Index : ArrayRemoveIndex(h, i)

HandleSystem ==
    \/ \E p \in Plugin, h \in HandleId : CloneHandle(p, h)
    \/ \E h \in HandleId : CloseHandle(h)
    \/ \E p \in Plugin : PluginUnload(p)

\* Nothing is said of what follows undefined behaviour.
Next ==
    \/ /\ ub = "none"
       /\ \/ \E p \in Plugin : Creating(p)
          \/ Reading
          \/ Iterating
          \/ Writing
          \/ HandleSystem
    \/ ub # "none" /\ UNCHANGED vars

Spec == Init /\ [][Next]_vars

----------------------------------------------------------------------------
(* Properties. *)

\* The documents no handle refers to.
Orphans == {d \in DocId : heap[d] # Free} \ HeldBy("json", HandleId)

(***************************************************************************)
(* Every handle in the table refers to an object that is still allocated,  *)
(* and every iterator proxy is deleted with its last handle, whatever the  *)
(* order in which plugins clone, close and unload, and whichever creation  *)
(* steps fail.                                                             *)
(***************************************************************************)
HandlesResolve ==
    /\ \A h \in HandleId : IsJson(h) => DocOf(h) # Free
    /\ \A i \in IterId : Live(i) <=> i \in HeldBy("iterator", HandleId)

(***************************************************************************)
(* A document that no handle can reach is the result of a Get, of a        *)
(* GetResponseBodyAsJSON or of a LoadFromFile that failed after allocating *)
(* it: every other native gives its document to a handle or deletes it.    *)
(***************************************************************************)
LeakOnlyOnFault == Orphans # {} => faulted \cap {"Get", "GetResponseBodyAsJSON", "LoadFromFile"} # {}

(***************************************************************************)
(* An iterator of a document that still exists stands on an element the    *)
(* document has, unless that very element was removed: clearing, removing  *)
(* other keys, assigning and inserting never leave it on something stale.  *)
(* An iterator that refers to a document refers to one that exists.        *)
(***************************************************************************)
IteratorsStand ==
    \A i \in IterId : Live(i) /\ proxy[i].doc # NoDoc =>
        /\ heap[proxy[i].doc] # Free
        /\ proxy[i].pos.at = "key" => Contains(heap[proxy[i].doc], proxy[i].pos.key)
        /\ proxy[i].pos.at = "end" => heap[proxy[i].doc].t = "object"

(***************************************************************************)
(* A loop `while (it.More()) { it.Key(); it.Next(); }` that runs to the    *)
(* end has stood on every key that was in the object when the iterator was *)
(* created and was never removed since, whatever the loop body did to the  *)
(* other keys of the object meanwhile.                                     *)
(***************************************************************************)
IterationComplete ==
    \A i \in IterId : Live(i) /\ proxy[i].doc # NoDoc /\ proxy[i].pos.at = "end" =>
        visit[i].kept \subseteq visit[i].seen

(***************************************************************************)
(* No iterator stands on the same key twice, even when the key is removed  *)
(* behind it and inserted again.                                           *)
(***************************************************************************)
MovesOnto(i, k) ==
    /\ Live(i) /\ Live(i)'
    /\ proxy'[i].pos # proxy[i].pos
    /\ proxy'[i].pos = [at |-> "key", key |-> k]

NoRevisit ==
    [][\A i \in IterId, k \in Key : MovesOnto(i, k) => k \notin visit[i].seen]_vars

\* w is v, or the array v (or the null v) with nulls added at its end.
OnlyPadded(v, w) ==
    \/ w = v
    \/ /\ TakesIndex(v)
       /\ w.t = "array"
       /\ Len(w.arr) >= Len(AsArray(v).arr)
       /\ w.arr = PaddedTo(AsArray(v).arr, Len(w.arr))

(***************************************************************************)
(* A native that reports an error has not changed any document it could    *)
(* reach, except that an array index out of range has padded the array:    *)
(* no error is raised half-way through a change.                           *)
(***************************************************************************)
ErrorsOnlyPad ==
    [][report' = "error" /\ ub' = "none" =>
          \A d \in DocId : heap[d] # Free => OnlyPadded(heap[d], heap'[d])]_vars

(***************************************************************************)
(* The natives that read a document, HasKey, IsNull and the getters,       *)
(* change none, except that an array getter pads the array up to the index *)
(* it is asked for: no object getter inserts the key it looks up.          *)
(***************************************************************************)
ReadsOnlyPad ==
    [][(Reading \/ \E p \in Plugin : Creating(p)) /\ ub' = "none" =>
          \A d \in DocId : heap[d] # Free => OnlyPadded(heap[d], heap'[d])]_vars

(***************************************************************************)
(* Plugins that keep to the discipline of the CareOver guards never reach  *)
(* undefined behaviour: the discipline names every way of reaching it.     *)
(***************************************************************************)
CarefulIsDefined == Careful => ub = "none"

(***************************************************************************)
(* What LoadFromFile finds in a file that ToFile has written is a document *)
(* that prints: nothing in it, however deep, is a NaN or a string that is  *)
(* not UTF-8, whatever the document was that was written.                  *)
(***************************************************************************)
FilesReadBack ==
    \A f \in Path : file[f] \in Doc =>
        \A w \in Parts(file[f]) : w.t \in {"number", "string"} => w.x \notin {"nan", "invalid"}

(***************************************************************************)
(* A ToFile that reports no error leaves no torn file.                     *)
(***************************************************************************)
TornOnlyOnError ==
    [][\A f \in Path : file'[f] = Torn /\ file[f] # Torn => report' = "error"]_vars
============================================================================
