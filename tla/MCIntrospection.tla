-------------------------- MODULE MCIntrospection --------------------------
(***************************************************************************)
(* Small instances of Introspection for TLC.                               *)
(***************************************************************************)
EXTENDS Introspection

Basic(kind) == [kind |-> kind]
Of(kind, elem) == [kind |-> kind, elem |-> elem]
Member(type, tag) == [type |-> type, tag |-> tag]
StructType(fields) == [kind |-> "struct", fields |-> fields]

NumeralsHere == [text \in {"1", "2", "4", "10", "11"} |->
                   CHOOSE n \in 1 .. 11 : ToString(n) = text]
size(n) == <<"size", "=", n>>
both(n, m) == size(n) \o <<";", "elementsize", "=", m>>
ignored == <<"ignored">>

\* Composed and Inner are those of introspect_test.go.  List refers to itself via a
\* pointer, Parent and Child to each other via a slice; Cut ignores the reference.
TypesHere == [
    int |-> Basic("int"), int32 |-> Basic("int32"), string |-> Basic("string"),
    reader |-> Basic("interface"), stringPointer |-> Of("pointer", "string"),
    strings |-> Of("slice", "string"), table |-> Of("slice", "strings"),
    ints |-> [kind |-> "array", elem |-> "int32", length |-> 3],
    Inner |-> StructType(<<Member("string", size("11")), Member("strings", both("2", "4"))>>),
    InnerPointer |-> Of("pointer", "Inner"), Inners |-> Of("slice", "Inner"),
    Composed |-> StructType(<<Member("stringPointer", size("10")), Member("ints", <<>>),
                              Member("reader", ignored), Member("Inner", <<>>)>>),
    Twice |-> StructType(<<Member("Inner", <<>>), Member("InnerPointer", <<>>)>>),
    List |-> StructType(<<Member("int", <<>>), Member("ListPointer", <<>>)>>),
    ListPointer |-> Of("pointer", "List"),
    Parent |-> StructType(<<Member("Inner", <<>>), Member("Children", size("2"))>>),
    Children |-> Of("slice", "Child"), ParentPointer |-> Of("pointer", "Parent"),
    Child |-> StructType(<<Member("Inner", <<>>), Member("ParentPointer", <<>>)>>),
    Cut |-> StructType(<<Member("Inner", <<>>), Member("CutPointer", ignored)>>),
    CutPointer |-> Of("pointer", "Cut"),
    NoBound |-> StructType(<<Member("Inner", <<>>), Member("table", both("2", "1"))>>),
    Streams |-> StructType(<<Member("int", <<";">>), Member("reader", <<>>)>>),
    Mistake |-> StructType(<<Member("string", <<"size", "=", "ten">>)>>),
    \* The tag as introspect.go:87 writes it: refused, its separator is another.
    Documented |->
        StructType(<<Member("strings", <<"size", "=", "10", ":", "elementsize", "=", "1">>)>>)]

Ask(type, conf) == [type |-> type, config |-> conf]
\* One caller asks for everything, the other for what shares structs with it.
Shared == {Ask(type, config(0, 0)) : type \in {"Twice", "List", "Parent", "Child"}}
RequestsHere == [
    c1 |-> {Ask(type, config(0, 0)) : type \in {"int", "Composed", "Cut", "NoBound", "Streams",
                                                "Mistake", "Documented"}}
           \cup {Ask("string", config(50, 0)), Ask("strings", config(2, 50)),
                 Ask("Inners", config(3, 0))}
           \cup Shared,
    c2 |-> Shared]
=============================================================================
