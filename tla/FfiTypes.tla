------------------------------- MODULE FfiTypes -------------------------------
(***************************************************************************)
(* The type conversion of the FFI code generator                           *)
(* (src/utils/ffigen/src/lib.rs).  convert_struct and convert_enum turn    *)
(* each field's syn type into text (ty.into_token_stream().to_string())    *)
(* and RustType::from_with_wrappers parses that text back: it strips the   *)
(* whitespace, looks the name up in the wrapper map and otherwise matches  *)
(* it against the builtin names and the prefixes Option<, HashSet<,        *)
(* BTreeSet<, Vec<, [, HashMap< and BTreeMap<, recursing on the text       *)
(* between the first '<' and the last character.                           *)
(*                                                                         *)
(* Text is a sequence of tokens: an identifier or a punctuation character. *)
(* With the whitespace gone, the string is the concatenation of the tokens *)
(* and the code's string operations act on whole tokens (find of a         *)
(* character, a prefix ending in '<', split at ',').  Dropping the last    *)
(* character is the one that may cut into an identifier: Chop names the    *)
(* identifier without its last character.  Field and type names are left  *)
(* out; the generators that print the RustTypes (csharp, rust) are not in  *)
(* this tree.                                                              *)
(***************************************************************************)
EXTENDS Naturals, Sequences, SequencesExt

CONSTANTS
  Idents,      \* identifiers used as field types (u8, bool, a struct, ...)
  MaxDepth,    \* bound: nesting of generic, array and slice types
  NestedSeps   \* may a map's key or value contain a ',', an array's element a ';'

-----------------------------------------------------------------------------
(* RustType                                                                 *)

\* A RustType: the builtin kind (or "struct", "enum", "wrapped"), the
\* contained types and the remaining data (int width, name).
Ty(b, args, info) == [b |-> b, arg |-> args, info |-> info]

\* panic!, or an unwrap of None, while converting.
Panicked == Ty("panic", <<>>, <<>>)

\* A builtin containing args; a panic in one of them is the panic.
Builtin(b, args) ==
  IF Panicked \in ToSet(args) THEN Panicked ELSE Ty(b, args, <<>>)

\* The wrapper map: struct MyId(u64) has wrappers["MyId"] = u64 wrapped.
WrapperTy == Ty("wrapped", <<Ty("int", <<>>, <<FALSE, 64>>)>>, <<"MyId">>)
Wrappers == <<"MyId">> :> WrapperTy

\* Identifiers of at least two characters, starting with 'u' or 'i', whose
\* rest parses as a u8 (signed, width); and those starting with 'f'.
IntTok == ("u8" :> <<FALSE, 8>>) @@ ("i32" :> <<TRUE, 32>>) @@ ("i3" :> <<TRUE, 3>>)
FloatTok == ("f32" :> 32) @@ ("f3" :> 3)

\* An identifier without its last character ("" when it had one).
Chop == ("u8" :> "u") @@ ("i32" :> "i3") @@ ("f32" :> "f3") @@ ("bool" :> "boo")
        @@ ("String" :> "Strin") @@ ("MyId" :> "MyI") @@ ("Foo" :> "Fo")
        @@ ("usize" :> "usiz") @@ ("str" :> "st") @@ ("u" :> "") @@ ("i3" :> "i")
        @@ ("f3" :> "f")

Punct == {"<", ">", ",", "[", "]", ";", "&", "(", ")"}

\* &n[..n.len() - 1] of the text.
DropLastChar(n) ==
  IF Last(n) \in Punct \/ Chop[Last(n)] = "" THEN Front(n)
  ELSE Front(n) \o <<Chop[Last(n)]>>

\* The index of the first token t (n.find), 0 when there is none.
Find(n, t) == SelectInSeq(n, LAMBDA c : c = t)

\* n.starts_with("<id><").
StartsWith(n, id) == Len(n) >= 2 /\ n[1] = id /\ n[2] = "<"

\* &n[n.find('<').unwrap() + 1..n.len() - 1].
Inner(n) == SubSeq(DropLastChar(n), Find(n, "<") + 1, Len(DropLastChar(n)))

\* The [ arm: end = n.find(';').unwrap_or(n.len() - 1); &n[1..end].
ArrayInnerNoSemi(n) == SubSeq(DropLastChar(n), 2, Len(DropLastChar(n)))
ArrayInner(n) ==
  IF Find(n, ";") # 0 THEN SubSeq(n, 2, Find(n, ";") - 1)
  ELSE SubSeq(DropLastChar(n), 2, Len(DropLastChar(n)))

\* The first two items of inner.split(','); only one when there is no ','.
SplitTwo(inner) ==
  LET c1 == Find(inner, ",")
      rest == SubSeq(inner, c1 + 1, Len(inner))
      c2 == Find(rest, ",")
  IN IF c1 = 0 THEN <<inner>>
     ELSE <<SubSeq(inner, 1, c1 - 1), IF c2 = 0 THEN rest ELSE SubSeq(rest, 1, c2 - 1)>>

\* RustType::from_with_wrappers of the whitespace-free text n.  For a map,
\* parts.next().unwrap() of the value panics when there is no ','.
RECURSIVE FromWithWrappers(_)
FromWithWrappers(n) ==
  IF n \in DOMAIN Wrappers THEN Wrappers[n]
  ELSE CASE n = <<"(", ")">> -> Builtin("nothing", <<>>)
         [] n = <<"bool">> -> Builtin("bool", <<>>)
         [] n = <<"char">> -> Builtin("char", <<>>)
         [] n = <<"String">> -> Builtin("string", <<>>)
         [] n \in {<<"str">>, <<"&", "str">>} -> Builtin("str", <<>>)
         [] Len(n) = 1 /\ n[1] \in DOMAIN IntTok -> Ty("int", <<>>, IntTok[n[1]])
         [] Len(n) = 1 /\ n[1] \in DOMAIN FloatTok -> Ty("float", <<>>, FloatTok[n[1]])
         [] StartsWith(n, "Option") ->
              Builtin("option", <<FromWithWrappers(Inner(n))>>)
         [] StartsWith(n, "HashSet") \/ StartsWith(n, "BTreeSet") ->
              Builtin("set", <<FromWithWrappers(Inner(n))>>)
         [] StartsWith(n, "Vec") ->
              Builtin("array", <<FromWithWrappers(Inner(n))>>)
         [] n # <<>> /\ n[1] = "[" ->
              Builtin("array", <<FromWithWrappers(ArrayInner(n))>>)
         [] StartsWith(n, "HashMap") \/ StartsWith(n, "BTreeMap") ->
              LET parts == SplitTwo(Inner(n))
              IN IF Len(parts) < 2 THEN Panicked
                 ELSE Builtin("map", <<FromWithWrappers(parts[1]),
                                       FromWithWrappers(parts[2])>>)
         [] OTHER -> Ty("struct", <<>>, n)

-----------------------------------------------------------------------------
(* syn types and their text                                                 *)

\* A field's syn type: a path, a generic path, an array [T; 4], a slice
\* [T], &str or ().
Syn(k, id, args) == [k |-> k, id |-> id, args |-> args]
Unary == {"Option", "Vec", "BTreeSet"}
Maps == {"HashMap"}

\* ty.into_token_stream().to_string() without its whitespace.
RECURSIVE Tokens(_)
Tokens(t) ==
  CASE t.k = "path" -> <<t.id>>
    [] t.k = "generic" ->
         <<t.id, "<">> \o Tokens(t.args[1])
           \o (IF Len(t.args) = 2 THEN <<",">> \o Tokens(t.args[2]) ELSE <<>>)
           \o <<">">>
    [] t.k = "array" -> <<"[">> \o Tokens(t.args[1]) \o <<";", "4", "]">>
    [] t.k = "slice" -> <<"[">> \o Tokens(t.args[1]) \o <<"]">>
    [] t.k = "ref" -> <<"&", "str">>
    [] t.k = "unit" -> <<"(", ")">>

\* A type whose text has no separator s (',' of a map, ';' of an array).
SepFree(t, s) == s \notin ToSet(Tokens(t))

\* The field types up to nesting d.
RECURSIVE SynTypes(_)
SynTypes(d) ==
  IF d = 0
  THEN {Syn("path", i, <<>>) : i \in Idents} \cup {Syn("ref", "", <<>>), Syn("unit", "", <<>>)}
  ELSE LET S == SynTypes(d - 1)
           Args(sep) == IF NestedSeps THEN S ELSE {t \in S : SepFree(t, sep)}
       IN S \cup {Syn("generic", g, <<t>>) : g \in Unary, t \in S}
            \cup {Syn(k, "", <<t>>) : k \in {"array", "slice"}, t \in Args(";")}
            \cup {Syn("generic", m, <<a, b>>) : m \in Maps, a \in Args(","), b \in Args(",")}

-----------------------------------------------------------------------------
(* The conversions                                                          *)

\* fields_to_struct: each field's type is parsed from its text.
FieldsToStruct(fields) ==
  [i \in DOMAIN fields |-> FromWithWrappers(Tokens(fields[i]))]

\* convert_struct and convert_enum (each variant's fields in order);
\* convert_derive / convert_item panic on anything else.
ConvertItem(item) ==
  CASE item.kind = "struct" -> Ty("struct", FieldsToStruct(item.fields), <<"S">>)
    [] item.kind = "enum" ->
         Ty("enum", [v \in DOMAIN item.variants |-> FieldsToStruct(item.variants[v])], <<"E">>)
    [] OTHER -> Panicked

\* Structs with one field and enums with one variant of one field.
Items ==
  {[kind |-> "struct", fields |-> <<t>>] : t \in SynTypes(MaxDepth)}
    \cup {[kind |-> "enum", variants |-> <<<<t>>>>] : t \in SynTypes(MaxDepth)}

VARIABLE item   \* the item converted

\* One call of convert_item on any of the items; the generator then stops.
FfiInit == item \in Items

-----------------------------------------------------------------------------
(* The reference                                                            *)

\* The RustType a field type denotes, by the definitions of lib.rs:
\* Int(signed, None) is isize/usize, Array is Vec or a slice, Map is
\* HashMap or BTreeMap, Set is HashSet or BTreeSet.
RECURSIVE Denotes(_)
Denotes(t) ==
  CASE t.k = "path" /\ <<t.id>> \in DOMAIN Wrappers -> Wrappers[<<t.id>>]
    [] t.k = "path" /\ t.id \in DOMAIN IntTok -> Ty("int", <<>>, IntTok[t.id])
    [] t.k = "path" /\ t.id = "usize" -> Ty("int", <<>>, <<FALSE, "none">>)
    [] t.k = "path" /\ t.id \in DOMAIN FloatTok -> Ty("float", <<>>, FloatTok[t.id])
    [] t.k = "path" /\ t.id = "bool" -> Ty("bool", <<>>, <<>>)
    [] t.k = "path" /\ t.id = "String" -> Ty("string", <<>>, <<>>)
    [] t.k = "path" -> Ty("struct", <<>>, <<t.id>>)
    [] t.k = "ref" -> Ty("str", <<>>, <<>>)
    [] t.k = "unit" -> Ty("nothing", <<>>, <<>>)
    [] t.k \in {"array", "slice"} \/ t.id = "Vec" -> Ty("array", <<Denotes(t.args[1])>>, <<>>)
    [] t.id = "Option" -> Ty("option", <<Denotes(t.args[1])>>, <<>>)
    [] t.id = "BTreeSet" -> Ty("set", <<Denotes(t.args[1])>>, <<>>)
    [] t.id = "HashMap" -> Ty("map", <<Denotes(t.args[1]), Denotes(t.args[2])>>, <<>>)

\* The field types of an item, and the RustTypes its conversion gave them.
FieldTypes(it) == IF it.kind = "struct" THEN it.fields ELSE it.variants[1]
Converted(it) ==
  IF it.kind = "struct" THEN ConvertItem(it).arg ELSE ConvertItem(it).arg[1]

\* Converting a struct or an enum keeps the type of every field: the text
\* printed from a syn type parses back, through every nested Option, Vec,
\* set, array, slice and map (split at its comma), to the RustType the
\* type denotes, wrapper types included.  (A map whose key or value has a
\* ',' of its own, and an array or slice whose element has a ';', are
\* bounded out by NestedSeps: the code takes the first separator.)
ConvertKeepsFieldTypes ==
  \A i \in DOMAIN FieldTypes(item) :
    Converted(item)[i] = Denotes(FieldTypes(item)[i])
====
