----------------------------- MODULE PackStream -----------------------------
(***************************************************************************)
(* The encoding of values (packstream.c) between values that are built,    *)
(* resized, copied and used again through the interface of values.c.       *)
(* A stream is a sequence of bytes and of payloads: the contents of a      *)
(* string, of bytes or of a float, which no step looks into.               *)
(***************************************************************************)
EXTENDS Values, Encoding

CONSTANTS
    FreshFormats,  \* what a new value may be formatted as
    Formats,       \* what a value that is used again may be formatted as
    NestedFormats, \* what a value in another may be formatted as
    Signatures,    \* codes of the structures that check_struct_type accepts
    MaxDepth,      \* bound: collections in collections
    MaxItems       \* bound: the size of a collection whose items are formatted

VARIABLES
    values,     \* values["sent"] and values["received"]
    allocation, \* __allocation: bytes allocated, the two BoltValues left out
    moved       \* what the last step did: <<>>, or whether it "copied", "loaded" and
                \* unloaded, or "unloaded" what a server sent or what a server says has a
                \* "negative" size, and with what result

vars == <<values, allocation, moved>>
-----------------------------------------------------------------------------
(* Loading. *)

Payload(data, size) == <<[data |-> data, size |-> size]>>
Loaded(ok, bytes) == [ok |-> ok, bytes |-> bytes]

\* load_structure_header, whose size is an int8_t
Int8(n) == ((n + 128) % 256) - 128
StructureFits(codes, v) == v.data \in codes /\ Int8(v.size) \in 0 .. 15

RECURSIVE Load(_, _), Joined(_)
\* What is written one after the other, by halves like Total.
Joined(streams) ==
    LET half == Len(streams) \div 2
    IN  IF Len(streams) < 2 THEN IF streams = <<>> THEN <<>> ELSE streams[1]
        ELSE Joined(SubSeq(streams, 1, half)) \o Joined(SubSeq(streams, half + 1, Len(streams)))

\* load; what has been loaded when it fails is rolled back by its caller.
Load(codes, v) ==
    LET items == [i \in DOMAIN v.items |-> Load(codes, v.items[i])]
        all == [ok |-> \A i \in DOMAIN items : items[i].ok,
                bytes |-> Joined([i \in DOMAIN items |-> items[i].bytes])]
    IN  CASE v.type = "null" -> Loaded(TRUE, <<192>>)
          [] v.type = "boolean" -> Loaded(TRUE, <<IF v.data THEN 195 ELSE 194>>)
          [] v.type = "integer" -> Loaded(TRUE, LoadInteger(v.data))
          [] v.type = "float" -> Loaded(TRUE, <<193>> \o Payload(v.data, 8))
          [] v.type \in {"string", "bytes"} ->
                 Loaded(TRUE, LoadHeader(v.type, v.size) \o Payload(v.data, v.size))
          [] v.type \in {"list", "dictionary"} ->
                 Loaded(all.ok, LoadHeader(v.type, v.size) \o all.bytes)
          [] v.type = "structure" ->
                 Loaded(StructureFits(codes, v) /\ all.ok, <<176 + Int8(v.size), v.data>> \o all.bytes)
-----------------------------------------------------------------------------
(* Unloading. *)

Unloaded(ok, made, rest) == [ok |-> ok, value |-> made.value, bytes |-> made.bytes, rest |-> rest]
Unreadable(v, rest) == Unloaded(FALSE, Made(v, 0), rest)

\* unload_integer
UnloadInteger(v, marker, rest) ==
    Unloaded(TRUE, Format(v, "integer", 1, Integer(marker, rest), 0), Drop(rest, IntegerBytes(marker)))

\* unload_null, unload_boolean, unload_float
UnloadScalar(v, type, marker, rest) ==
    CASE type = "null" -> Unloaded(TRUE, FormatNull(v), rest)
      [] type = "boolean" -> Unloaded(TRUE, Format(v, type, 1, marker = 195, 0), rest)
      [] type = "float" -> Unloaded(TRUE, Format(v, type, 1, Head(rest).data, 0), Tail(rest))

\* unload_string, unload_bytes
UnloadText(v, type, size, body) ==
    LET made == IF type = "string" THEN FormatString(v, Head(body).data, size)
                ELSE FormatBytes(v, Head(body).data, size)
    IN  Unloaded(TRUE, made, Tail(body))

RECURSIVE Unload(_, _), UnloadItems(_, _, _, _)

\* The loops of unload_list and unload_map, which end with the first error, and
\* the one of unload_structure, which does not look at errors.
UnloadItems(v, i, s, strict) ==
    IF i > Len(v.items) THEN Unloaded(TRUE, Made(v, 0), s)
    ELSE LET item == Unload(v.items[i], s)
             next == [v EXCEPT !.items[i] = item.value]
             others == IF strict /\ ~item.ok THEN Unloaded(FALSE, Made(next, 0), item.rest)
                       ELSE UnloadItems(next, i + 1, item.rest, strict)
         IN  [others EXCEPT !.bytes = @ + item.bytes]

\* A collection is formatted and its items are unloaded.
UnloadInto(made, s, strict) ==
    LET items == UnloadItems(made.value, 1, s, strict)
    IN  [items EXCEPT !.bytes = @ + made.bytes]
UnloadList(v, size, body) ==
    IF size < 0 THEN Unreadable(v, body) ELSE UnloadInto(FormatList(v, size), body, TRUE)
UnloadMap(v, size, body) ==
    IF size < 0 THEN Unreadable(v, body) ELSE UnloadInto(FormatDictionary(v, size), body, TRUE)
UnloadStructure(v, marker, rest) ==
    IF marker >= 192 THEN Unreadable(v, rest)
    ELSE IF Head(rest) \notin Signatures THEN Unreadable(v, Tail(rest))
    ELSE UnloadInto(FormatStructure(v, Head(rest), marker % 16), Tail(rest), FALSE)

\* unload; v is the value that is used again.  A payload is no marker.
Unload(v, s) ==
    IF s = <<>> \/ Head(s) \notin 0 .. 255 THEN Unreadable(v, s)
    ELSE
    LET marker == Head(s)
        type == MarkerType(marker)
        rest == Tail(s)
        size == HeaderSize(marker, rest)
        body == Drop(rest, SizeBytes(marker))
    IN  CASE type = "integer" -> UnloadInteger(v, marker, rest)
          [] type \in {"null", "boolean", "float"} -> UnloadScalar(v, type, marker, rest)
          [] type \in {"string", "bytes"} -> UnloadText(v, type, size, body)
          [] type = "list" -> UnloadList(v, size, body)
          [] type = "dictionary" -> UnloadMap(v, size, body)
          [] type = "structure" -> UnloadStructure(v, marker, rest)
          [] type = "reserved" -> Unreadable(v, s)
-----------------------------------------------------------------------------
(* The program: it builds a value, and sends, receives and copies values. *)

RECURSIVE At(_, _), Put(_, _, _), Paths(_)
At(v, path) == IF path = <<>> THEN v ELSE At(v.items[Head(path)], Tail(path))
Put(v, path, w) == IF path = <<>> THEN w ELSE [v EXCEPT !.items[Head(path)] = Put(@, Tail(path), w)]
Paths(v) == {<<>>} \cup UNION {{<<i>> \o path : path \in Paths(v.items[i])} : i \in DOMAIN v.items}

\* A key of a dictionary is set by BoltDictionary_set_key, to a string.
IsKey(v, path) ==
    path # <<>> /\ At(v, Front(path)).type = "dictionary" /\ Last(path) % 2 = 1
HasItems(f) == f.type \in {"list", "dictionary", "structure"} /\ f.size > 0

RECURSIVE KeysSet(_)
\* Loading a dictionary asserts that its keys are strings.
KeysSet(v) ==
    \A i \in DOMAIN v.items :
        /\ v.type = "dictionary" /\ i % 2 = 1 => v.items[i].type = "string"
        /\ KeysSet(v.items[i])

Init ==
    /\ values = [name \in {"sent", "received"} |-> Null]
    /\ allocation = 0
    /\ moved = <<>>

Becomes(name, made, how) ==
    /\ values' = [values EXCEPT ![name] = made.value]
    /\ allocation' = allocation + made.bytes
    /\ moved' = how

\* BoltValue_format_as_..., BoltDictionary_set_key, BoltList_resize
FormatAs(path, f) ==
    LET made == Apply(f, At(values["sent"], path))
    IN  /\ path # <<>> => At(values["sent"], Front(path)).size <= MaxItems
        /\ HasItems(f) => Len(path) < MaxDepth
        /\ IsKey(values["sent"], path) => f.type = "string"
        /\ Becomes("sent", Made(Put(values["sent"], path, made.value), made.bytes), <<>>)

\* BoltValue_copy, either way; BoltValue_duplicate copies to a new value.
CopyTo(from, to) == Becomes(to, Copy(values[to], values[from]), <<"copied", TRUE>>)

\* The value is loaded; a server sends it back and it is unloaded.
Echo ==
    /\ KeysSet(values["sent"])
    /\ LET loaded == Load(Signatures, values["sent"])
       IN  IF loaded.ok
           THEN LET unloaded == Unload(values["received"], loaded.bytes)
                IN  Becomes("received", unloaded, <<"loaded", unloaded.ok>>)
           ELSE moved' = <<"loaded", FALSE>> /\ UNCHANGED <<values, allocation>>

\* Structures that are too large, whose size as an int8_t looks small enough.
RECURSIVE Truncated(_)
Truncated(v) ==
    \/ v.type = "structure" /\ v.size > 15 /\ Int8(v.size) \in 0 .. 15
    \/ \E i \in DOMAIN v.items : Truncated(v.items[i])

\* A server sends a value that may have structures of other codes.
Serve ==
    /\ KeysSet(values["sent"]) /\ ~Truncated(values["sent"])
    /\ LET loaded == Load(0 .. 127, values["sent"])
           unloaded == Unload(values["received"], loaded.bytes)
       IN  /\ loaded.ok
           /\ Becomes("received", unloaded, <<"unloaded", unloaded.ok>>)

\* A server sends a list or a dictionary of a negative size.
ServeNegative(type) ==
    LET unloaded == Unload(values["received"], <<Sized[type] + 2, 255, 255, 255, 255>>)
    IN  Becomes("received", unloaded, <<"negative", unloaded.ok>>)

\* BoltValue_destroy, BoltValue_create
Renew(name) == values[name] # Null /\ Becomes(name, FormatNull(values[name]), <<>>)

Next ==
    \/ values["sent"] = Null /\ \E f \in FreshFormats : FormatAs(<<>>, f)
    \/ \E f \in Formats : FormatAs(<<>>, f)
    \/ \E path \in Paths(values["sent"]) \ {<<>>}, f \in NestedFormats : FormatAs(path, f)
    \/ CopyTo("sent", "received") \/ CopyTo("received", "sent")
    \/ Echo \/ Serve
    \/ \E type \in {"list", "dictionary"} : ServeNegative(type)
    \/ \E name \in DOMAIN values : Renew(name)
Spec == Init /\ [][Next]_vars
-----------------------------------------------------------------------------
(* Properties. *)

\* The bytes that are accounted as allocated are those that values own: no
\* reuse, cut, copy or failed unload leaves memory behind or frees it twice.
\* A value has as many nested values, and as much storage, as its type and
\* size ask for, whatever it was used for before (values.c, _resize, _format).
Accounted ==
    /\ allocation = Physical(values["sent"]) + Physical(values["received"])
    /\ \A name \in DOMAIN values : WellFormed(values[name])

\* Structures of other codes within structures: their errors go unnoticed.
RECURSIVE Swallowed(_, _)
Swallowed(v, inside) ==
    \/ v.type = "structure" /\ v.data \notin Signatures /\ inside
    \/ \E i \in DOMAIN v.items : Swallowed(v.items[i], inside \/ v.type = "structure")

\* A value that was loaded and unloaded arrives as it was sent, whatever the
\* receiving value was used for before, if no structure of it is Truncated; a
\* server's value does, or is refused (packstream.c, load and unload), if no
\* structure of it is Swallowed; a negative size is refused.  A copy is equal to
\* its original, nested values included (BoltValue_copy).
ArrivesAsSent ==
    /\ moved = <<"copied", TRUE>> => Same(values["sent"], values["received"])
    /\ moved = <<"loaded", TRUE>> /\ ~Truncated(values["sent"]) =>
         Same(values["sent"], values["received"])
    /\ moved # <<"negative", TRUE>>
    /\ moved = <<"unloaded", TRUE>> /\ ~Swallowed(values["sent"], FALSE) =>
         Same(values["sent"], values["received"])

\* A value that is loaded and unloaded without an error is the one that was sent:
\* a structure has the number of entries that it was formatted with (values.h).
LoadsAll == moved = <<"loaded", TRUE>> => Same(values["sent"], values["received"])

\* A value that is unloaded without an error is the one that was sent.
UnloadsAll == moved = <<"unloaded", TRUE>> => Same(values["sent"], values["received"])
=============================================================================
