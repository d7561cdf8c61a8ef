----------------------------- MODULE Blueprints -----------------------------
(***************************************************************************)
(* The blueprints of package encoding (schema.go, schema_gen.go): how a    *)
(* value of a type is laid out in a fixed number of bytes, and the text    *)
(* that a file's signature is computed from.                               *)
(***************************************************************************)
EXTENDS Integers, Sequences, TLC

LOCAL SX == INSTANCE SequencesExt

\* The blueprints.  Numbers are generated for every size (gen/numbers.go).
NumberKinds == {"uint", "int", "float", "complex"}
Number(kind, bytes) == [kind |-> kind, bytes |-> bytes]
Bool == [kind |-> "bool"]
String(length) == [kind |-> "string", length |-> length]
Slice(length, element) == [kind |-> "slice", length |-> length, element |-> element]
Array(length, element) == [kind |-> "array", length |-> length, element |-> element]
Tuple(first, second) == [kind |-> "tuple", first |-> first, second |-> second]

lengthSize == 4  \* of the uint32 in front of strings and slices
pointerSize == 1

\* The bytes a value takes.  Pointers and structs remember it.
RECURSIVE Size(_)
Size(bp) ==
    CASE bp.kind \in NumberKinds -> bp.bytes
      [] bp.kind = "bool" -> 1
      [] bp.kind = "string" -> bp.length + lengthSize
      [] bp.kind = "slice" -> bp.length * Size(bp.element) + lengthSize
      [] bp.kind = "array" -> bp.length * Size(bp.element)
      [] bp.kind = "pointer" -> bp.childSize + pointerSize
      [] bp.kind = "struct" -> bp.totalSize
      [] bp.kind = "tuple" -> Size(bp.first) + Size(bp.second)

Pointer(element) == [kind |-> "pointer", childSize |-> Size(element), element |-> element]

\* A struct has a blueprint for each field that is not ignored, with the field's
\* index in the type: fieldIndex.
Field(blueprint, fieldIndex) == [blueprint |-> blueprint, fieldIndex |-> fieldIndex]
Struct(structType, fields) ==
    [kind |-> "struct", structType |-> structType, fields |-> fields,
     totalSize |-> SX!FoldLeft(LAMBDA sum, f : sum + Size(f.blueprint), 0, fields)]

\* The description of a blueprint, which a file's signature is computed from.
Joined(texts) ==
    SX!FoldLeft(LAMBDA all, text : IF all = "" THEN text ELSE all \o "," \o text, "", texts)

\* Mutant: the length of a slice or an array is left out.
Bound_Left(bp) == ""
Bound(bp) == "length=" \o ToString(bp.length)

RECURSIVE describe(_)
describe(bp) ==
    CASE bp.kind \in NumberKinds -> bp.kind \o "(" \o ToString(8 * bp.bytes) \o ")"
      [] bp.kind = "bool" -> "bool"
      [] bp.kind = "string" -> "string(" \o ToString(Size(bp)) \o ")"
      [] bp.kind \in {"slice", "array"} ->
           bp.kind \o "(type=" \o describe(bp.element) \o Bound(bp) \o ")"
      [] bp.kind = "pointer" -> "pointer(" \o describe(bp.element) \o ")"
      [] bp.kind = "struct" ->
           "struct(type=" \o bp.structType.name \o "fields=["
           \o Joined([i \in DOMAIN bp.fields |-> describe(bp.fields[i].blueprint)]) \o "])"
      [] bp.kind = "tuple" ->
           "tuple(first=" \o describe(bp.first) \o ",second=" \o describe(bp.second) \o ")"

=============================================================================
