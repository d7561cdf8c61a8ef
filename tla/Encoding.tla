------------------------------ MODULE Encoding ------------------------------
(***************************************************************************)
(* Serializer.Serialize and Deserialize over the blueprints (schema.go,    *)
(* schema_gen.go, serializer.go): a value is written under one schema, and *)
(* read under one with the same signature, as the header of a file demands *)
(* (persistent.go:63).                                                     *)
(*                                                                         *)
(* A Go value is an integer, a Boolean, a pair of integers (complex), a    *)
(* sequence (slice, array, the fields of a struct, a tuple, the bytes of a *)
(* string), or for a pointer <<>> (nil) or <<what it points to>>.  Floats  *)
(* are the integers of their bits.  A byte is <<d>>, one of Base digits,   *)
(* or <<r, k>>, the k-th byte of the UTF-8 encoding of the rune r.         *)
(***************************************************************************)
EXTENDS Blueprints, FiniteSets

CONSTANTS Base,      \* how many numbers fit in a byte
          Runes,     \* names of runes, with RuneError among them
          Width,     \* the length of a rune's encoding
          RuneError, \* what an invalid encoding is read as: U+FFFD
          Texts,     \* the strings that occur
          Schemas    \* the blueprints that occur

ASSUME EncodingAssumption ==
    /\ Base \in Nat \ {0, 1}
    /\ RuneError \in Runes /\ Width \in [Runes -> 1 .. 4] /\ Width[RuneError] = 3

VARIABLES pc, writer, value, beyond, data, reader, result

encodingVars == <<pc, writer, value, beyond, data, reader, result>>

LOCAL SX == INSTANCE SequencesExt
Least(x, y) == IF x < y THEN x ELSE y

-----------------------------------------------------------------------------
(* Numbers, big-endian.                                                    *)

Digit(byte) == IF Len(byte) = 1 THEN byte[1] ELSE 1
\* Where a byte of a number of n bytes is shifted to.
Shift(n, byte) == Base ^ (n - byte)
fromUint(n, x) == [byte \in 1 .. n |-> <<(x \div Shift(n, byte)) % Base>>]
toUint(bytes) ==
    SX!FoldLeftDomain(LAMBDA sum, i : sum + Digit(bytes[i]) * Shift(Len(bytes), i), 0, bytes)

\* Signed numbers are in two's complement.
\* Mutant: the sign is lost.
Signed_Not(n, x) == x
Signed(n, x) == IF 2 * x >= Base ^ n THEN x - Base ^ n ELSE x

numberTo(bp, x) ==
    IF bp.kind = "complex" THEN fromUint(bp.bytes \div 2, x[1]) \o fromUint(bp.bytes \div 2, x[2])
    ELSE fromUint(bp.bytes, x % Base ^ bp.bytes)
numberFrom(bp, bytes) ==
    LET half == bp.bytes \div 2 IN
    CASE bp.kind = "complex" ->
           <<toUint(SubSeq(bytes, 1, half)), toUint(SubSeq(bytes, half + 1, bp.bytes))>>
      [] bp.kind = "int" -> Signed(bp.bytes, toUint(bytes))
      [] OTHER -> toUint(bytes)

-----------------------------------------------------------------------------
(* Strings.                                                                *)

Encoded(rune) == [k \in 1 .. Width[rune] |-> <<rune, k>>]
ReadRune(s) ==
    LET found == {r \in Runes : SX!IsPrefix(Encoded(r), s)} IN
    IF found = {} THEN [rune |-> RuneError, size |-> 1]
    ELSE LET r == CHOOSE r \in found : TRUE IN [rune |-> r, size |-> Width[r]]

\* What is stored of a string: its runes as long as the next one read fits.
TooLong(written, size, length) == written + size > length
RECURSIVE stringTo(_, _, _)
stringTo(s, written, length) ==
    LET read == ReadRune(s) IN
    IF s = <<>> \/ TooLong(written, read.size, length) THEN <<>>
    ELSE Encoded(read.rune)
         \o stringTo(SubSeq(s, read.size + 1, Len(s)), written + Width[read.rune], length)

-----------------------------------------------------------------------------
(* Blueprints made of parts, which lie one after the other.                *)

part(bp, v) == [blueprint |-> bp, value |-> v]
\* Mutant: a slice is stored whole.
persistedLen_Whole(bp, v) == Len(v)
persistedLen(bp, v) == Least(Len(v), bp.length)
Parts(bp, v) ==
    CASE bp.kind = "array" -> [i \in 1 .. bp.length |-> part(bp.element, v[i])]
      [] bp.kind = "slice" -> [i \in 1 .. persistedLen(bp, v) |-> part(bp.element, v[i])]
      [] bp.kind = "struct" ->
           [i \in DOMAIN bp.fields |-> part(bp.fields[i].blueprint, v[bp.fields[i].fieldIndex])]
      [] bp.kind = "tuple" -> <<part(bp.first, v[1]), part(bp.second, v[2])>>

Written(dest, offset, bytes) ==
    [i \in DOMAIN dest |-> IF i - offset \in DOMAIN bytes THEN bytes[i - offset] ELSE dest[i]]

\* blueprint.to: dest with the value written at the offset.
RECURSIVE to(_, _, _, _)
PartsTo(parts, dest, offset) ==
    SX!FoldLeft(LAMBDA at, p : [dest |-> to(p.blueprint, p.value, at.dest, at.offset),
                                offset |-> at.offset + Size(p.blueprint)],
                [dest |-> dest, offset |-> offset], parts).dest
to(bp, v, dest, offset) ==
    CASE bp.kind \in NumberKinds -> Written(dest, offset, numberTo(bp, v))
      [] bp.kind = "bool" -> Written(dest, offset, <<<<IF v THEN 1 ELSE 0>>>>)
      [] bp.kind = "string" ->
           LET text == stringTo(v, 0, bp.length) IN
           Written(Written(dest, offset + lengthSize, text), offset, fromUint(lengthSize, Len(text)))
      [] bp.kind = "pointer" ->
           IF v = <<>> THEN Written(dest, offset, <<<<0>>>>)
           ELSE to(bp.element, v[1], Written(dest, offset, <<<<1>>>>), offset + pointerSize)
      [] bp.kind = "slice" ->
           Written(PartsTo(Parts(bp, v), dest, offset + lengthSize), offset,
                   fromUint(lengthSize, persistedLen(bp, v)))
      [] OTHER -> PartsTo(Parts(bp, v), dest, offset)

Bytes(src, offset, n) == SubSeq(src, offset + 1, offset + n)

\* blueprint.from: the value at the offset.  Fields that were ignored are 0, the
\* zero value, here as in every value read.
RECURSIVE from(_, _, _)
FieldOffset(bp, i) ==
    SX!FoldLeft(LAMBDA sum, f : sum + Size(f.blueprint), 0, SubSeq(bp.fields, 1, i - 1))
ElementsFrom(bp, n, src, offset) ==
    [i \in 1 .. n |-> from(bp.element, src, offset + (i - 1) * Size(bp.element))]
from(bp, src, offset) ==
    CASE bp.kind \in NumberKinds -> numberFrom(bp, Bytes(src, offset, bp.bytes))
      [] bp.kind = "bool" -> src[offset + 1] # <<0>>
      [] bp.kind = "string" ->
           Bytes(src, offset + lengthSize, toUint(Bytes(src, offset, lengthSize)))
      [] bp.kind = "pointer" ->
           IF src[offset + 1] = <<0>> THEN <<>>
           ELSE <<from(bp.element, src, offset + pointerSize)>>
      [] bp.kind = "slice" ->
           ElementsFrom(bp, toUint(Bytes(src, offset, lengthSize)), src, offset + lengthSize)
      [] bp.kind = "array" -> ElementsFrom(bp, bp.length, src, offset)
      [] bp.kind = "struct" ->
           [index \in 1 .. bp.structType.numField |->
              LET at == {i \in DOMAIN bp.fields : bp.fields[i].fieldIndex = index} IN
              IF at = {} THEN 0
              ELSE LET i == CHOOSE i \in at : TRUE
                   IN from(bp.fields[i].blueprint, src, offset + FieldOffset(bp, i))]
      [] bp.kind = "tuple" ->
           <<from(bp.first, src, offset), from(bp.second, src, offset + Size(bp.first))>>

-----------------------------------------------------------------------------
(* The values a blueprint is given.  Slices may be one longer than it      *)
(* declares, and ignored fields are set.                                   *)

SeqsUpTo(S, n) == UNION {[1 .. m -> S] : m \in 0 .. n}
RECURSIVE ValuesOf(_)
ValuesOf(bp) ==
    CASE bp.kind \in {"uint", "float"} -> 0 .. Base ^ bp.bytes - 1
      [] bp.kind = "int" -> {x - Base ^ bp.bytes \div 2 : x \in 0 .. Base ^ bp.bytes - 1}
      [] bp.kind = "complex" -> [1 .. 2 -> 0 .. Base ^ (bp.bytes \div 2) - 1]
      [] bp.kind = "bool" -> BOOLEAN
      [] bp.kind = "string" -> Texts
      [] bp.kind = "pointer" -> SeqsUpTo(ValuesOf(bp.element), 1)
      [] bp.kind = "slice" -> SeqsUpTo(ValuesOf(bp.element), bp.length + 1)
      [] bp.kind = "array" -> [1 .. bp.length -> ValuesOf(bp.element)]
      [] bp.kind = "tuple" -> {<<x, y>> : x \in ValuesOf(bp.first), y \in ValuesOf(bp.second)}
      [] bp.kind = "struct" ->
           LET of(index) == {bp.fields[i].blueprint :
                               i \in {j \in DOMAIN bp.fields : bp.fields[j].fieldIndex = index}}
               values(index) == IF of(index) = {} THEN {1} ELSE UNION {ValuesOf(f) : f \in of(index)}
           IN SX!FoldLeftDomain(LAMBDA rows, index : {Append(row, x) : row \in rows, x \in values(index)},
                                {<<>>}, [index \in 1 .. bp.structType.numField |-> 1])

\* What is stored of a value: the first elements of a slice, the whole runes that
\* fit of a string, no ignored field.
RuneEnds(s) == {n \in 0 .. Len(s) : n = Len(s) \/ s[n + 1][2] = 1}
RECURSIVE Cut(_, _)
Cut(bp, v) ==
    CASE bp.kind = "string" ->
           SubSeq(v, 1, CHOOSE n \in RuneEnds(v) :
                          /\ n <= bp.length
                          /\ \A longer \in RuneEnds(v) : longer <= bp.length => longer <= n)
      [] bp.kind \in {"slice", "array"} ->
           [i \in 1 .. Least(Len(v), bp.length) |-> Cut(bp.element, v[i])]
      [] bp.kind = "pointer" -> [i \in DOMAIN v |-> Cut(bp.element, v[i])]
      [] bp.kind = "tuple" -> <<Cut(bp.first, v[1]), Cut(bp.second, v[2])>>
      [] bp.kind = "struct" ->
           [index \in DOMAIN v |->
              LET at == {i \in DOMAIN bp.fields : bp.fields[i].fieldIndex = index} IN
              IF at = {} THEN 0 ELSE Cut(bp.fields[CHOOSE i \in at : TRUE].blueprint, v[index])]
      [] OTHER -> v

\* The fields of a value in the order in which they are stored.
Fields(bp, v) ==
    IF bp.kind = "struct" THEN [i \in DOMAIN bp.fields |-> v[bp.fields[i].fieldIndex]] ELSE v

-----------------------------------------------------------------------------
(* The specification: what lies behind the value's bytes is anything.      *)

Beyond == {[i \in 1 .. 4 |-> <<d>>] : d \in {0, Base - 1}}
None == <<"none">>

EncodingInit ==
    /\ pc = "start" /\ data = <<>> /\ reader = None /\ result = None
    /\ writer \in Schemas /\ value \in ValuesOf(writer) /\ beyond \in Beyond

Serialize ==
    /\ pc = "start" /\ pc' = "written"
    /\ data' = to(writer, value, [i \in 1 .. Size(writer) |-> <<0>>] \o beyond, 0)
    /\ UNCHANGED <<writer, value, beyond, reader, result>>

\* The signature of the file is compared with the reader's.
Open(schema) ==
    /\ pc = "written" /\ pc' = "opened"
    /\ describe(schema) = describe(writer)
    /\ reader' = schema
    /\ UNCHANGED <<writer, value, beyond, data, result>>

Deserialize ==
    /\ pc = "opened" /\ pc' = "read"
    /\ result' = from(reader, data, 0)
    /\ UNCHANGED <<writer, value, beyond, data, reader>>

EncodingNext == Serialize \/ (\E schema \in Schemas : Open(schema)) \/ Deserialize

EncodingSpec == EncodingInit /\ [][EncodingNext]_encodingVars

-----------------------------------------------------------------------------
(* Properties.                                                             *)

\* A string is valid UTF-8 when all bytes of each of its runes follow each other.
ValidText(s) ==
    \A i \in DOMAIN s : LET rune == s[i][1]  k == s[i][2] IN
        /\ k > 1 => i > 1 /\ s[i - 1] = <<rune, k - 1>>
        /\ k < Width[rune] => i < Len(s) /\ s[i + 1] = <<rune, k + 1>>

\* The strings that are stored with a value.
RECURSIVE TextsIn(_, _)
TextsIn(bp, v) ==
    CASE bp.kind = "string" -> {v}
      [] bp.kind = "pointer" -> UNION {TextsIn(bp.element, v[i]) : i \in DOMAIN v}
      [] bp.kind \in {"slice", "array", "struct", "tuple"} ->
           LET parts == Parts(bp, v)
           IN UNION {TextsIn(parts[i].blueprint, parts[i].value) : i \in DOMAIN parts}
      [] OTHER -> {}
TextsValid == \A s \in TextsIn(writer, value) : ValidText(s)

\* A value whose strings are valid UTF-8, serialized and deserialized by one
\* serializer, is the value, with slices and strings cut to their declared size,
\* strings at the end of a rune ("trimming with respect to encoding",
\* schema_test.go), and ignored fields zero; whatever lies behind its bytes.
RoundTrip == pc = "read" /\ reader = writer /\ TextsValid => result = Cut(writer, value)

\* "method must write only upto size bytes" (schema.go:329) is kept by the values
\* whose strings are valid UTF-8, and by two bytes missed by the others, no more: an
\* invalid byte is checked as the one byte it is and written as the three of
\* RuneError (schema.go:157, 165), so that the end of its string lies at most two bytes
\* further back, and a part that follows is written over it.
OnlyInvalidTextOverruns ==
    pc = "written" =>
        \A i \in DOMAIN beyond :
            i > (IF TextsValid THEN 0 ELSE Width[RuneError] - 1)
                => data[Size(writer) + i] = beyond[i]

\* Two schemas with the same signature agree on the stored parts: the fields read
\* under the one are the fields stored under the other, one after the other.  Which
\* field of the struct each of them belongs to is another matter: HeaderGuardsData.
SignatureFixesParts ==
    pc = "read" /\ TextsValid => Fields(reader, result) = Fields(writer, Cut(writer, value))

\* describe "must uniquely describe given blueprint" (schema.go:333), and the header
\* is there to prevent data corruption when the serialization changes
\* (file_format.md): what is read from a file whose signature is accepted is the
\* value that was stored, field by field.
HeaderGuardsData == pc = "read" /\ TextsValid => result = Cut(writer, value)

=============================================================================
