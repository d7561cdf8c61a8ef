---------------------------- MODULE MCEncoding ----------------------------
(***************************************************************************)
(* Small instances of Encoding for TLC.  A byte has two digits, so that    *)
(* every number of 8 bytes occurs; runes are "a" (1 byte), "c" (2) and the *)
(* error rune (3).                                                         *)
(***************************************************************************)
EXTENDS Encoding

a == <<"a", 1>>
c == <<<<"c", 1>>, <<"c", 2>>>>
RunesHere == {"a", "c", "error"}
Widths == [r \in RunesHere |-> CASE r = "a" -> 1 [] r = "c" -> 2 [] r = "error" -> 3]

Valid == {<<>>, <<a>>, c, <<a, a, a>>, <<a>> \o c, c \o <<a>>, c \o c, Encoded("error")}
\* Bytes of "c" that are not beside the other one.
Invalid == {<<c[1]>>, <<a, c[2]>>, <<c[1], a>>, c \o <<c[1]>>}
ValidAndInvalid == Valid \cup Invalid

Type(name, numField) == [name |-> name, numField |-> numField]
uint(n) == Number("uint", n)
int(n) == Number("int", n)

Numbers == {Number(kind, n) : kind \in {"uint", "int"}, n \in {1, 2, 4, 8}}
           \cup {Number("float", n) : n \in {4, 8}} \cup {Number("complex", 8)}
Inner == Struct(Type("Inner", 3), <<Field(int(2), 1), Field(Pointer(String(2)), 3)>>)
Composite ==
    {Bool, String(2), String(3), Pointer(Pointer(uint(1))),
     Slice(1, String(2)), Slice(2, uint(2)), Slice(1, Slice(1, uint(1))), Slice(1, Array(2, Bool)),
     Array(1, int(2)), Array(2, int(2)), Array(2, String(1)), Inner,
     Tuple(String(3), Slice(1, Pointer(Bool))),
     Struct(Type("Outer", 2), <<Field(Slice(1, Inner), 1), Field(String(2), 2)>>),
     Slice(1, Tuple(uint(1), Inner))}
\* Of the struct T { A, B int16 } one version ignores B, the next one A.
Versions == {Struct(Type("T", 2), <<Field(int(2), ignoring)>>) : ignoring \in {1, 2}}
AllSchemas == Numbers \cup Composite \cup Versions
=============================================================================
