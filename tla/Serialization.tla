---------------------------- MODULE Serialization ----------------------------
(***************************************************************************)
(* serialize() and deserialize() (thinking_programming/serialization.py),  *)
(* and the JSON file between them.                                         *)
(*                                                                         *)
(* A value is a tuple of its kind and its content.  The content of a       *)
(* scalar is the text that JSON has for it.  A dict is a set of pairs of a *)
(* key and a value; the third element of an object is a set of pairs of a  *)
(* name and a value.  Values nest up to a given depth.                     *)
(***************************************************************************)
EXTENDS Naturals, Sequences

CONSTANTS
  Fields,   \* class |-> the hints of its fields
  TypeIds,  \* the classes that are polymorphic, and their type_id()
  Textual,  \* the Enums, and the CustomSerializables that are a text
  Hints,    \* the hints of values, and of their parts
  Numerals, \* the texts that int() takes
  Depth     \* how deep values nest

Native == {"none", "str", "int", "float", "bool"}

\* What has a text of its own: a key of a dict must be one of these, an Enum is not.
EasilySerializable == Native \union {"datetime", "uuid"}

None   == <<"none", "null">>
Raised == <<"raised", "">>

TypeIdField == <<"str", "__type_id__">>

Object(class, fields) == <<"object", class, {<<f, fields[f]>> : f \in DOMAIN fields}>>

\* serialize() of a scalar, an Enum or a CustomSerializable
Represented(kind) ==
  IF kind \in Native THEN kind ELSE IF kind = "datetime" THEN "float" ELSE "str"

-----------------------------------------------------------------------------
Scalars == (EasilySerializable \union Textual \union {"raised"}) \X STRING

\* The values with parts in V, and V
Nested(V) ==
  V \union ({"list"} \X Seq(V)) \union ({"dict"} \X SUBSET (Scalars \X V))
    \union ({"object"} \X (DOMAIN Fields) \X SUBSET (STRING \X V))

Values[n \in 0..Depth] == IF n = 0 THEN Scalars ELSE Nested(Values[n - 1])

Value == Values[Depth]

-----------------------------------------------------------------------------
\* SerializableMixin, and what PolymorphicSerializableMixin adds to it
Enhanced(class, fields) ==
  IF class \in DOMAIN TypeIds THEN fields \union {<<TypeIdField, <<"str", TypeIds[class]>>>>}
  ELSE fields

Serialized[v \in Value] ==
  CASE v[1] = "list"   -> <<"list", [i \in 1..Len(v[2]) |-> Serialized[v[2][i]]]>>
    [] v[1] = "dict"   ->
         IF \A p \in v[2] : p[1][1] \in EasilySerializable
         THEN <<"dict", {<<<<Represented(p[1][1]), p[1][2]>>, Serialized[p[2]]>> : p \in v[2]}>>
         ELSE Raised
    [] v[1] = "object" ->
         <<"dict", Enhanced(v[2], {<<<<"str", f[1]>>, Serialized[f[2]]>> : f \in v[3]})>>
    [] OTHER           -> <<Represented(v[1]), v[2]>>

\* The JSON file: the keys of a dict are strings.
Stored[r \in Value] ==
  CASE r[1] = "list" -> <<"list", [i \in 1..Len(r[2]) |-> Stored[r[2][i]]]>>
    [] r[1] = "dict" -> <<"dict", {<<<<"str", p[1][2]>>, Stored[p[2]]>> : p \in r[2]}>>
    [] OTHER         -> r

-----------------------------------------------------------------------------
\* A hint is a tuple, too: a kind, <<"list", hint>>, <<"dict", hint, hint>> with arguments,
\* or <<"class", class>>.
IsInstance(r, hint) ==
  /\ Len(hint) = 1
  /\ r[1] = hint[1] \/ (r[1] = "bool" /\ hint[1] = "int")

\* t(o) of a native type, where o is a text, or a number of another kind
Constructed(kind, r) ==
  CASE kind = "str"                      -> <<"str", r[2]>>
    [] kind = "bool"                     -> <<"bool", IF r[2] = "" \/ r = <<"int", "0">> THEN "false" ELSE "true">>
    [] kind = "int" /\ r[2] \in Numerals -> <<"int", r[2]>>
    [] kind = "float" /\ (r[2] \in Numerals \/ r[1] = "int") -> <<"float", r[2]>>
    [] OTHER                             -> Raised

\* Of a value that is no container: the DESERIALIZERS, then the native types.
OfScalar(r, kind) ==
  CASE kind = "datetime"     -> IF r[1] \in {"int", "float"} THEN <<"datetime", r[2]>> ELSE Raised
    [] kind \in Native       -> Constructed(kind, r)
    [] kind \in {"list", "dict"} -> Raised
    [] OTHER                 -> IF r[1] = "str" THEN <<kind, r[2]>> ELSE Raised

\* _choose_type: of a polymorphic class, the ones whose type_id() is in the data
ClassesOf(class, r) ==
  IF class \notin DOMAIN TypeIds THEN {class}
  ELSE {c \in DOMAIN TypeIds : <<TypeIdField, <<"str", TypeIds[c]>>>> \in r[2]}

\* _simplify: the fields without the type_id()
Simplified(class, r) == {p \in r[2] : class \in DOMAIN TypeIds => p[1] # TypeIdField}

\* Mutant of KeyRead: keys stay what JSON has made of them.
KeyAsStored(key, hint) == key

KeyRead(key, hint) == IF IsInstance(key, hint) THEN key ELSE OfScalar(key, hint[1])

\* An exception is the value Raised at its place, which no comparison takes for the value
\* that was to be read.
Deserialized[x \in Value \X Hints] ==
  LET r == x[1]  hint == x[2] IN
  IF r = None \/ IsInstance(r, hint) THEN r
  ELSE IF hint[1] = "class" /\ r[1] = "dict" THEN
    IF ClassesOf(hint[2], r) = {} THEN Raised
    ELSE LET class == CHOOSE c \in ClassesOf(hint[2], r) : TRUE IN
         <<"object", class,
           {<<p[1][2], IF p[1][2] \in DOMAIN Fields[class]
                       THEN Deserialized[<<p[2], Fields[class][p[1][2]]>>] ELSE Raised>>
              : p \in Simplified(hint[2], r)}>>
  ELSE IF hint[1] = "list" /\ r[1] = "list" THEN
    <<"list", [i \in 1..Len(r[2]) |-> Deserialized[<<r[2][i], hint[2]>>]]>>
  ELSE IF hint[1] = "dict" /\ r[1] = "dict" /\ hint[2][1] \in EasilySerializable THEN
    <<"dict", {<<KeyRead(p[1], hint[2]), Deserialized[<<p[2], hint[3]>>]>> : p \in r[2]}>>
  ELSE OfScalar(r, hint[1])

=============================================================================
