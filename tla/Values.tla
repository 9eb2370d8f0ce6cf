------------------------------- MODULE Values -------------------------------
(***************************************************************************)
(* BoltValue (values.c): a value owns the memory of its data and is used   *)
(* again for data of any type and size.  Each operation on a value yields  *)
(* the value it leaves and the number of bytes by which the memory the     *)
(* process has allocated (mem.c) grows or shrinks.  Contents are opaque:   *)
(* what matters are types, sizes and who owns which memory.                *)
(***************************************************************************)
EXTENDS Integers, Sequences, SequencesExt

Inline == 16 \* sizeof(value->data): shorter strings and bytes are held in the value
Unit == 32   \* sizeof(struct BoltValue)

\* data is the contents of a scalar and the code of a structure; items are the
\* nested values, those of a dictionary being its keys and values in turn.
Value(type, size, data, data_size, items) ==
    [type |-> type, size |-> size, data |-> data, data_size |-> data_size, items |-> items]
Null == Value("null", 0, <<>>, 0, <<>>)
Nulls(n) == [i \in 1 .. n |-> Null]

\* What an operation leaves and allocates.
Made(value, bytes) == [value |-> value, bytes |-> bytes]

\* BoltMem_adjust
Adjust(old_size, new_size) == new_size - old_size

RECURSIVE Total(_)
\* The sum of a sequence of numbers, by halves, as a structure may be long.
Total(numbers) ==
    LET half == Len(numbers) \div 2
    IN  IF Len(numbers) < 2 THEN IF numbers = <<>> THEN 0 ELSE numbers[1]
        ELSE Total(SubSeq(numbers, 1, half)) + Total(SubSeq(numbers, half + 1, Len(numbers)))

SumBytes(made) == Total([i \in DOMAIN made |-> made[i].bytes])
SetItems(v, made) == [v EXCEPT !.items = [i \in DOMAIN made |-> made[i].value]]
-----------------------------------------------------------------------------
RECURSIVE FormatNull(_), Recycle(_), Format(_, _, _, _, _), Copy(_, _)

\* _recycle: nested values are set to null.
Recycle(v) ==
    LET nulls == [i \in DOMAIN v.items |-> FormatNull(v.items[i])]
    IN  Made(SetItems(v, nulls), SumBytes(nulls))

\* _format
Format(v, type, size, data, data_size) ==
    Made(Value(type, size, data, data_size, <<>>),
         Recycle(v).bytes + Adjust(v.data_size, data_size))

FormatNull(v) == IF v.type = "null" THEN Made(v, 0) ELSE Format(v, "null", 0, <<>>, 0)

\* A string that is too long for the value keeps the storage of a string.
FormatString(v, data, size) ==
    IF size <= Inline THEN Format(v, "string", size, data, 0)
    ELSE IF v.type = "string"
    THEN Made([v EXCEPT !.size = size, !.data = data, !.data_size = size], Adjust(v.data_size, size))
    ELSE Format(v, "string", size, data, size)

FormatBytes(v, data, size) ==
    Format(v, "bytes", size, data, IF size <= Inline THEN 0 ELSE size)

\* _resize: what is cut off is set to null first, what is new is null.
Resize_CutsOff(v, size, multiplier) == \* mutant: what is cut off keeps its memory
    LET n == multiplier * size
        kept == [i \in 1 .. n |-> IF i <= Len(v.items) THEN v.items[i] ELSE Null]
    IN  Made([v EXCEPT !.size = size, !.items = kept, !.data_size = Unit * n], Adjust(v.data_size, Unit * n))
Resize(v, size, multiplier) ==
    LET n == multiplier * size
        cut == [i \in 1 .. Len(v.items) - n |-> FormatNull(v.items[n + i])]
        kept == [i \in 1 .. n |-> IF i <= Len(v.items) THEN v.items[i] ELSE Null]
    IN  IF size = v.size THEN Made(v, 0)
        ELSE Made([v EXCEPT !.size = size, !.items = kept, !.data_size = Unit * n],
                  SumBytes(cut) + Adjust(v.data_size, Unit * n))

\* A value that changes its type, and every structure, begins with nulls.
Zeroed(v, type, size, data, n) ==
    Made(Value(type, size, data, Unit * n, Nulls(n)),
         Recycle(v).bytes + Adjust(v.data_size, Unit * n))
FormatDictionary(v, size) ==
    IF v.type = "dictionary" THEN Resize(v, size, 2) ELSE Zeroed(v, "dictionary", size, <<>>, 2 * size)
FormatList(v, size) == IF v.type = "list" THEN Resize(v, size, 1) ELSE Zeroed(v, "list", size, <<>>, size)
FormatStructure(v, code, size) == Zeroed(v, "structure", size, code, size)

\* Formats v for the contents of f, nested values left out.
Apply(f, v) ==
    CASE f.type = "null" -> FormatNull(v)
      [] f.type \in {"boolean", "integer", "float"} -> Format(v, f.type, 1, f.data, 0)
      [] f.type = "string" -> FormatString(v, f.data, f.size)
      [] f.type = "bytes" -> FormatBytes(v, f.data, f.size)
      [] f.type = "dictionary" -> FormatDictionary(v, f.size)
      [] f.type = "list" -> FormatList(v, f.size)
      [] f.type = "structure" -> FormatStructure(v, f.data, f.size)

\* BoltValue_copy
Copy(dest, src) ==
    LET recycled == Recycle(dest)
        formatted == Apply(src, recycled.value)
        items == [i \in DOMAIN src.items |-> Copy(formatted.value.items[i], src.items[i])]
    IN  Made(SetItems(formatted.value, items), recycled.bytes + formatted.bytes + SumBytes(items))
-----------------------------------------------------------------------------
(* What a value is, and what it takes. *)

RECURSIVE Same(_, _), Physical(_), WellFormed(_)

Same(v, w) ==
    /\ v.type = w.type /\ v.size = w.size /\ v.data = w.data
    /\ Len(v.items) = Len(w.items)
    /\ \A i \in DOMAIN v.items : Same(v.items[i], w.items[i])

\* The memory that v owns.
Physical(v) == v.data_size + Total([i \in DOMAIN v.items |-> Physical(v.items[i])])

WellFormed(v) ==
    /\ Len(v.items) = CASE v.type = "dictionary" -> 2 * v.size
                        [] v.type \in {"list", "structure"} -> v.size
                        [] OTHER -> 0
    /\ v.data_size = CASE v.type \in {"dictionary", "list", "structure"} -> Unit * Len(v.items)
                       [] v.type \in {"string", "bytes"} -> (IF v.size <= Inline THEN 0 ELSE v.size)
                       [] OTHER -> 0
    /\ \A i \in DOMAIN v.items : WellFormed(v.items[i])
=============================================================================
