---------------------------- MODULE MCPackStream ----------------------------
(* Instances of PackStream: sizes and integers at the boundaries of their    *)
(* encodings, and small nested values.                                       *)
EXTENDS PackStream, FiniteSets

Scalar(type, size, data) == [type |-> type, size |-> size, data |-> data]
Collection(type, size, code) == [type |-> type, size |-> size, data |-> code]

\* The integers around -2^63, -2^31, -2^15, -2^7, -2^4, 0, 2^7, 2^15, 2^31 and 2^63,
\* by their sign and their last bytes.
I64(sign, bytes) == [i \in 1 .. 8 |-> IF i > 8 - Len(bytes) THEN bytes[i - 8 + Len(bytes)] ELSE sign]
Integers64 ==
    {I64(0, <<0>>), I64(0, <<127>>), I64(0, <<128>>), I64(0, <<255>>), I64(255, <<255>>), I64(255, <<240>>),
     I64(255, <<239>>), I64(255, <<128>>), I64(255, <<127>>),
     I64(0, <<127, 255>>), I64(0, <<128, 0>>), I64(255, <<128, 0>>), I64(255, <<127, 255>>),
     I64(0, <<127, 255, 255, 255>>), I64(0, <<128, 0, 0, 0>>), I64(255, <<128, 0, 0, 0>>),
     I64(255, <<127, 255, 255, 255>>),
     I64(0, <<127, 255, 255, 255, 255, 255, 255, 255>>), I64(0, <<128, 0, 0, 0, 0, 0, 0, 0>>)}

Sizes == {0, 15, 16, 17, 255, 256, 65535, 65536}
Known == 78
Unknown == 90

\* For values in values.
SmallFormats ==
    {Scalar("string", 17, "text"), Collection("list", 1, <<>>),
     Collection("dictionary", 1, <<>>),
     Collection("structure", 1, Known), Collection("structure", 1, Unknown)}
\* For values that are used again: each way to grow, to shrink and to change the type.
ReuseFormats ==
    SmallFormats \cup {Scalar("string", 16, "text"), Scalar("bytes", 17, "text"),
                       Collection("list", 2, <<>>)}
BoundaryFormats ==
    {Scalar("boolean", 1, b) : b \in BOOLEAN}
    \cup {Scalar("float", 1, "float")}
    \cup {Scalar("integer", 1, x) : x \in Integers64}
    \cup {Scalar(type, n, "text") : type \in {"string", "bytes"}, n \in Sizes}
    \cup {Collection("dictionary", n, <<>>) : n \in {0}}
    \cup {Collection("list", n, <<>>) : n \in {0, 15, 16}}
    \cup {Collection("structure", n, Known) : n \in {0, 15, 16, 127, 128, 255, 256}}
=============================================================================
