--------------------------- MODULE Introspection ---------------------------
(***************************************************************************)
(* Create and its like (introspect.go): handleType walks a Go type and     *)
(* makes its blueprint.  Callers run at the same time and share the cache  *)
(* parsedStructs, a sync.Map; each has a context of its own.               *)
(*                                                                         *)
(* A tag is a sequence of words, numerals and signs, its words in lower    *)
(* case.  A call of handleType is a frame on the caller's stack.           *)
(***************************************************************************)
EXTENDS Blueprints, FiniteSets

CONSTANTS Callers,
          Types,     \* the Go types that occur: from their names to what reflection tells
          Requests,  \* what each caller asks for: types, each with a config
          Numerals,  \* the words that are numerals: from their text to the number
          UintSize,  \* bits.UintSize
          MaxStack   \* bound: calls of handleType within each other

ASSUME IntrospectionAssumption == UintSize \in {32, 64}

VARIABLES parsedStructs, \* from names of struct types to their blueprints
          asked,         \* the request each caller is at
          stack, seen,   \* its calls of handleType, and seenStructTypes
          returned       \* what the last of them returned, until it is used

introspectionVars == <<parsedStructs, asked, stack, seen, returned>>

LOCAL SX == INSTANCE SequencesExt

Ok(blueprint) == [err |-> "", blueprint |-> blueprint]
Error(err) == [err |-> err, blueprint |-> [kind |-> "none"]]
None == Error("nothing yet")

-----------------------------------------------------------------------------
(* Tags.                                                                   *)

separator == ";"
valueSeparator == "="

config(length, elementLength) ==
    [length |-> length, elementLength |-> elementLength, ignore |-> FALSE]
Invalid == [length |-> 0, elementLength |-> 0, ignore |-> FALSE, invalid |-> TRUE]

Split(raw) ==
    SX!FoldLeft(LAMBDA parts, word : IF word = separator THEN Append(parts, <<>>)
                                     ELSE [parts EXCEPT ![Len(parts)] = Append(@, word)],
                <<<<>>>>, raw)

\* One property of a tag, with the config of those before it.
WithProperty(conf, property) ==
    LET sign == SX!SelectInSeq(property, LAMBDA word : word = valueSeparator)
        name == IF sign = 0 THEN property ELSE SubSeq(property, 1, sign - 1)
        value == SubSeq(property, Len(name) + 2, Len(property))
        isUint == Len(value) = 1 /\ value[1] \in DOMAIN Numerals
    IN CASE conf = Invalid -> Invalid
         [] name = <<"size">> /\ isUint -> [conf EXCEPT !.length = Numerals[value[1]]]
         [] name = <<"elementsize">> /\ isUint -> [conf EXCEPT !.elementLength = Numerals[value[1]]]
         [] name = <<"ignored">> -> [conf EXCEPT !.ignore = TRUE]
         [] name = <<>> -> conf
         [] OTHER -> Invalid

parseConfig(raw) == SX!FoldLeft(WithProperty, config(0, 0), Split(raw))

\* The config of every tag that occurs.
Tags == UNION {{Types[t].fields[i].tag : i \in DOMAIN Types[t].fields} :
               t \in {n \in DOMAIN Types : Types[n].kind = "struct"}}
Parsed == [tag \in Tags |-> parseConfig(tag)]

-----------------------------------------------------------------------------
(* One call of handleType.                                                 *)

Ints == {"int8", "int16", "int32", "int64"}
Uints == {"uint8", "uint16", "uint32", "uint64"}
Bytes == [int8 |-> 1, int16 |-> 2, int32 |-> 4, int64 |-> 8, uint8 |-> 1, uint16 |-> 2,
          uint32 |-> 4, uint64 |-> 8, float32 |-> 4, float64 |-> 8, complex64 |-> 8,
          complex128 |-> 16, int |-> UintSize \div 8, uint |-> UintSize \div 8]

\* The blueprint of a type that is made of no other, or the error.
Leaf(kind, conf) ==
    CASE kind = "bool" -> Ok(Bool)
      [] kind \in Ints \cup {"int"} -> Ok(Number("int", Bytes[kind]))
      [] kind \in Uints \cup {"uint"} -> Ok(Number("uint", Bytes[kind]))
      [] kind \in {"float32", "float64"} -> Ok(Number("float", Bytes[kind]))
      [] kind \in {"complex64", "complex128"} -> Ok(Number("complex", Bytes[kind]))
      [] kind \in {"string", "slice"} /\ conf.length = 0 -> Error("ErrLengthMustBeSet")
      [] kind = "string" -> Ok(String(conf.length))
      [] OTHER -> Error("ErrUnsupportedType")

\* Of the others but structs, the element's config and what becomes of its blueprint.
OfElement(type, conf) ==
    type.kind \in {"pointer", "array"} \/ (type.kind = "slice" /\ conf.length # 0)
ElementConfig(type, conf) ==
    IF type.kind = "pointer" THEN conf ELSE config(conf.elementLength, 0)
Wrapped(type, conf, inner) ==
    CASE inner.err # "" -> inner
      [] type.kind = "pointer" -> Ok(Pointer(inner.blueprint))
      [] type.kind = "array" -> Ok(Array(type.length, inner.blueprint))
      [] type.kind = "slice" -> Ok(Slice(conf.length, inner.blueprint))

NoRequest == [type |-> "", config |-> config(0, 0)]
Frame(name, conf) == [type |-> name, config |-> conf, fieldIndex |-> 0, fields |-> <<>>]
StructOf(name, fields) ==
    Struct([name |-> name, numField |-> Len(Types[name].fields)], fields)

-----------------------------------------------------------------------------
(* The callers.                                                            *)

Init ==
    /\ parsedStructs = <<>>
    /\ asked = [c \in Callers |-> NoRequest]
    /\ stack = [c \in Callers |-> <<>>]
    /\ seen = [c \in Callers |-> {}]
    /\ returned = [c \in Callers |-> None]

Create(c, request) ==
    /\ stack[c] = <<>>
    /\ asked' = [asked EXCEPT ![c] = request]
    /\ stack' = [stack EXCEPT ![c] = <<Frame(request.type, request.config)>>]
    /\ seen' = [seen EXCEPT ![c] = {}]
    /\ returned' = [returned EXCEPT ![c] = None]
    /\ UNCHANGED parsedStructs

Top(c) == SX!Last(stack[c])
TopType(c) == Types[Top(c).type]
Running(c, inner) == stack[c] # <<>> /\ (returned[c] # None <=> inner) /\ UNCHANGED asked

\* The innermost call returns, or calls handleType itself.
Returns(c, result) ==
    /\ returned' = [returned EXCEPT ![c] = result]
    /\ stack' = [stack EXCEPT ![c] = SX!Front(@)]
Calls(c, frame, name, conf) ==
    /\ Len(stack[c]) < MaxStack
    /\ stack' = [stack EXCEPT ![c] = Append([@ EXCEPT ![Len(@)] = frame], Frame(name, conf))]
    /\ UNCHANGED <<returned, seen, parsedStructs>>

\* Mutant: no type is found to contain itself.
Recursive_Never(c, name) == FALSE
Recursive(c, name) == name \in seen[c]
\* Mutant: a type stays in the context.
Leaving_Stay(c, name) == seen[c]
Leaving(c, name) == seen[c] \ {name}
\* Mutant: the struct is in the cache as soon as it is begun.
Begun_Stored(name) == (name :> StructOf(name, <<>>)) @@ parsedStructs
Begun(name) == parsedStructs

HandleLeaf(c) ==
    /\ Running(c, FALSE)
    /\ TopType(c).kind # "struct" /\ ~OfElement(TopType(c), Top(c).config)
    /\ Returns(c, Leaf(TopType(c).kind, Top(c).config))
    /\ UNCHANGED <<seen, parsedStructs>>

HandleElement(c) ==
    /\ Running(c, FALSE)
    /\ OfElement(TopType(c), Top(c).config)
    /\ Calls(c, Top(c), TopType(c).elem, ElementConfig(TopType(c), Top(c).config))

ElementHandled(c) ==
    /\ Running(c, TRUE)
    /\ TopType(c).kind # "struct"
    /\ Returns(c, Wrapped(TopType(c), Top(c).config, returned[c]))
    /\ UNCHANGED <<seen, parsedStructs>>

BeginStruct(c) ==
    /\ Running(c, FALSE)
    /\ TopType(c).kind = "struct" /\ Top(c).fieldIndex = 0
    /\ LET name == Top(c).type IN
       \/ /\ Recursive(c, name)
          /\ Returns(c, Error("ErrRecursiveStructDefinition"))
          /\ UNCHANGED <<seen, parsedStructs>>
       \/ /\ ~Recursive(c, name) /\ name \in DOMAIN parsedStructs
          /\ Returns(c, Ok(parsedStructs[name]))
          /\ UNCHANGED <<seen, parsedStructs>>
       \/ /\ ~Recursive(c, name) /\ name \notin DOMAIN parsedStructs
          /\ seen' = [seen EXCEPT ![c] = @ \cup {name}]
          /\ stack' = [stack EXCEPT ![c][Len(stack[c])].fieldIndex = 1]
          /\ parsedStructs' = Begun(name)
          /\ UNCHANGED returned

AtField(c) ==
    /\ TopType(c).kind = "struct"
    /\ Top(c).fieldIndex \in DOMAIN TopType(c).fields

\* The struct is left with a result: the deferred delete.
Leaves(c, result) ==
    /\ Returns(c, result)
    /\ seen' = [seen EXCEPT ![c] = Leaving(c, Top(c).type)]

HandleField(c) ==
    /\ Running(c, FALSE) /\ AtField(c)
    /\ LET field == TopType(c).fields[Top(c).fieldIndex]
           conf == Parsed[field.tag]
       IN \/ /\ conf = Invalid
             /\ Leaves(c, Error("ErrInvalidAnnotation"))
             /\ UNCHANGED parsedStructs
          \/ /\ conf.ignore
             /\ stack' = [stack EXCEPT ![c][Len(stack[c])].fieldIndex = @ + 1]
             /\ UNCHANGED <<seen, returned, parsedStructs>>
          \/ /\ conf # Invalid /\ ~conf.ignore
             /\ Calls(c, Top(c), field.type, conf)

FieldHandled(c) ==
    /\ Running(c, TRUE) /\ AtField(c)
    /\ \/ /\ returned[c].err # ""
          /\ Leaves(c, returned[c])
       \/ /\ returned[c].err = ""
          /\ stack' = [stack EXCEPT ![c][Len(stack[c])] =
                         [@ EXCEPT !.fieldIndex = @ + 1,
                                   !.fields = Append(@, Field(returned[c].blueprint,
                                                              Top(c).fieldIndex))]]
          /\ returned' = [returned EXCEPT ![c] = None]
          /\ UNCHANGED seen
    /\ UNCHANGED parsedStructs

StoreStruct(c) ==
    /\ Running(c, FALSE)
    /\ TopType(c).kind = "struct" /\ Top(c).fieldIndex > Len(TopType(c).fields)
    /\ LET blueprint == StructOf(Top(c).type, Top(c).fields) IN
       /\ parsedStructs' = (Top(c).type :> blueprint) @@ parsedStructs
       /\ Leaves(c, Ok(blueprint))

handleType(c) ==
    \/ HandleLeaf(c) \/ HandleElement(c) \/ ElementHandled(c)
    \/ BeginStruct(c) \/ HandleField(c) \/ FieldHandled(c) \/ StoreStruct(c)

Next == \E c \in Callers : handleType(c) \/ \E request \in Requests[c] : Create(c, request)

Spec == Init /\ [][Next]_introspectionVars
FairSpec == Spec /\ \A c \in Callers : WF_introspectionVars(handleType(c))

-----------------------------------------------------------------------------
(* Properties.                                                             *)

Done(c) == asked[c] # NoRequest /\ stack[c] = <<>>

\* What a type's blueprint is, whoever else asks and whatever was asked before.
RECURSIVE BlueprintOf(_, _, _)
BlueprintOf(name, conf, within) ==
    LET type == Types[name]
        used == SelectSeq([i \in DOMAIN type.fields |-> i],
                          LAMBDA i : ~Parsed[type.fields[i].tag].ignore)
        field(i) == LET fieldConf == Parsed[type.fields[i].tag] IN
                    IF fieldConf = Invalid THEN Error("ErrInvalidAnnotation")
                    ELSE BlueprintOf(type.fields[i].type, fieldConf, within \cup {name})
        all == [i \in DOMAIN used |-> field(used[i])]
        failed == {i \in DOMAIN all : all[i].err # ""}
    IN CASE type.kind = "struct" /\ name \in within -> Error("ErrRecursiveStructDefinition")
         [] type.kind = "struct" /\ name \notin within ->
              IF failed # {} THEN all[CHOOSE i \in failed : \A j \in failed : i <= j]
              ELSE Ok(StructOf(name, [i \in DOMAIN all |-> Field(all[i].blueprint, used[i])]))
         [] OfElement(type, conf) ->
              Wrapped(type, conf, BlueprintOf(type.elem, ElementConfig(type, conf), within))
         [] OTHER -> Leaf(type.kind, conf)

\* The result of Create depends on the type and the config alone: neither the cache,
\* nor what other goroutines are in the middle of, nor that a struct was met before
\* in the same type, shows in it.
ResultIsTheTypes ==
    \A c \in Callers :
        Done(c) => returned[c] = BlueprintOf(asked[c].type, asked[c].config, {})

\* "ErrRecursiveStructDefinition is from Create* methods if struct refers to itself
\* (even via pointer or transitively)" (introspect.go:21): no Create succeeds for a
\* type from which a struct is reached that reaches itself, at any later time either.
Parts(name) ==
    CASE Types[name].kind = "struct" ->
           {Types[name].fields[i].type :
              i \in {j \in DOMAIN Types[name].fields : ~Parsed[Types[name].fields[j].tag].ignore}}
      [] Types[name].kind \in {"pointer", "array", "slice"} -> {Types[name].elem}
      [] OTHER -> {}
RECURSIVE Reached(_)
Reached(names) ==
    LET more == names \cup UNION {Parts(name) : name \in names}
    IN IF more = names THEN names ELSE Reached(more)
RecursiveRefused ==
    \A c \in Callers :
        Done(c) /\ returned[c].err = "" =>
            \A name \in Reached({asked[c].type}) :
                Types[name].kind = "struct" => name \notin Reached(Parts(name))

\* Every Create returns, whatever the type's structs refer to.
CreatesReturn == \A c \in Callers : stack[c] # <<>> ~> stack[c] = <<>>
=============================================================================
