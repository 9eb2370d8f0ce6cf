------------------------------ MODULE Encoding ------------------------------
(***************************************************************************)
(* The markers, sizes and integers of PackStream (packstream.c): how they  *)
(* are written to a stream and how they are read from one.  A stream is a  *)
(* sequence of bytes and of payloads that no step looks into.  An integer  *)
(* is the sequence of its eight bytes, two's complement, largest first.    *)
(***************************************************************************)
EXTENDS Integers, Sequences

Byte == 0 .. 255
Int64 == [1 .. 8 -> Byte]
Drop(s, n) == SubSeq(s, n + 1, Len(s))
-----------------------------------------------------------------------------
(* Loading. *)

U16(n) == <<n \div 256, n % 256>>
I32(n) == <<n \div 16777216, (n \div 65536) % 256, (n \div 256) % 256, n % 256>>

Tiny == [string |-> 128, list |-> 144, dictionary |-> 160]               \* 0x80, 0x90, 0xA0
Sized == [bytes |-> 204, string |-> 208, list |-> 212, dictionary |-> 216] \* 0xCC, 0xD0, 0xD4, 0xD8

\* load_bytes, load_string_header, load_list_header, load_map_header
LoadHeader_TinyToo(type, size) == \* mutant: 16 is taken for tiny
    IF type # "bytes" /\ size <= 16 THEN <<Tiny[type] + size>>
    ELSE IF size < 256 THEN <<Sized[type], size>>
    ELSE IF size < 65536 THEN <<Sized[type] + 1>> \o U16(size)
    ELSE <<Sized[type] + 2>> \o I32(size)
LoadHeader(type, size) ==
    IF type # "bytes" /\ size < 16 THEN <<Tiny[type] + size>>
    ELSE IF size < 256 THEN <<Sized[type], size>>
    ELSE IF size < 65536 THEN <<Sized[type] + 1>> \o U16(size)
    ELSE <<Sized[type] + 2>> \o I32(size)

\* Whether the integer is in the range of its last n bytes.
Fits(x, n) == \A i \in 1 .. 8 - n : x[i] = (IF x[9 - n] < 128 THEN 0 ELSE 255)
LastBytes(x, n) == SubSeq(x, 9 - n, 8)
LoadInteger(x) ==
    IF Fits(x, 1) /\ (x[8] < 128 \/ x[8] >= 240) THEN LastBytes(x, 1)
    ELSE IF Fits(x, 1) THEN <<200>> \o LastBytes(x, 1)
    ELSE IF Fits(x, 2) THEN <<201>> \o LastBytes(x, 2)
    ELSE IF Fits(x, 4) THEN <<202>> \o LastBytes(x, 4)
    ELSE <<203>> \o x
-----------------------------------------------------------------------------
(* Unloading. *)

MarkerType(marker) ==
    CASE marker < 128 \/ marker \in 200 .. 203 \/ marker >= 240 -> "integer"
      [] marker \in 128 .. 143 \cup 208 .. 210 -> "string"
      [] marker \in 144 .. 159 \cup 212 .. 214 -> "list"
      [] marker \in 160 .. 175 \cup 216 .. 218 -> "dictionary"
      [] marker \in 176 .. 191 \cup 220 .. 221 -> "structure"
      [] marker = 192 -> "null"
      [] marker = 193 -> "float"
      [] marker \in 194 .. 195 -> "boolean"
      [] marker \in 204 .. 206 -> "bytes"
      [] OTHER -> "reserved"

\* unload_integer: how many bytes follow the marker, and the sign extension of
\* what they hold, of the marker itself where none follows.
IntegerBytes(marker) == IF marker \in 200 .. 203 THEN <<1, 2, 4, 8>>[marker - 199] ELSE 0
Extended(bytes) ==
    [i \in 1 .. 8 |-> IF i > 8 - Len(bytes) THEN bytes[i - 8 + Len(bytes)]
                      ELSE IF bytes[1] < 128 THEN 0 ELSE 255]
Integer(marker, rest) ==
    LET n == IntegerBytes(marker)
    IN  Extended(IF n = 0 THEN <<marker>> ELSE SubSeq(rest, 1, n))

\* unload_string, unload_bytes, unload_list, unload_map: how many bytes of a size
\* follow the marker, and the size.  One in four bytes is a signed number.
SizeBytes(marker) == IF marker < 192 THEN 0 ELSE <<1, 2, 4>>[(marker % 4) + 1]
Signed(byte) == IF byte < 128 THEN byte ELSE byte - 256
SizeIn(bytes) ==
    IF Len(bytes) = 1 THEN bytes[1]
    ELSE IF Len(bytes) = 2 THEN 256 * bytes[1] + bytes[2]
    ELSE 16777216 * Signed(bytes[1]) + 65536 * bytes[2] + 256 * bytes[3] + bytes[4]
HeaderSize(marker, rest) ==
    IF marker < 192 THEN marker % 16 ELSE SizeIn(SubSeq(rest, 1, SizeBytes(marker)))
=============================================================================
