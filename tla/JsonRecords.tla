----------------------------- MODULE JsonRecords -----------------------------
(***************************************************************************)
(* What JsonSerializer makes of an object's properties, and of the JSON a  *)
(* server sends back: the client serialises an object with one set of      *)
(* flags, the server changes at most one place of the text, and a reader   *)
(* with its own flags deserialises it into a new object.                   *)
(*                                                                         *)
(* A value is a tuple that starts with its kind: <<"bool", b>>,            *)
(* <<"string", s>>, <<"bytes", s>>, <<"enum", n>>, <<"number", n>> of an   *)
(* integer type, <<"list", seq>>, <<"null">> (a pointer) and               *)
(* <<"object", class, fields>>.  A JSON value likewise; its objects are    *)
(* <<"object", fields>>.  A type is a tuple, too: <<"integer", t>>,        *)
(* <<"list", type>>, <<"gadget", class>>, <<"pointer", class>>.            *)
(* A class has properties of its own and, perhaps, a base.                 *)
(***************************************************************************)
EXTENDS JsonNumbers, Sequences

CONSTANTS
    Classes,    \* name -> [base, own : name -> [type, required, writable, initial]]
    EnumKey,    \* the enumerators: value -> key
    Objects     \* the objects that are serialised

NoClass == "none"
Flags   == {"IgnoreUnknownKeys", "EnumAsString", "ValidationEnabled"}

ASSUME JsonRecordsAssumption ==
    \A c \in DOMAIN Classes :
        /\ Classes[c].base \in DOMAIN Classes \cup {NoClass}
        /\ \A p \in DOMAIN Classes[c].own : Classes[c].own[p].required \in BOOLEAN

Thrown == <<"thrown">>
Null   == <<"null">>

\* The properties from propertyOffset() on, and all that indexOfProperty() finds.
Own(c) == Classes[c].own
Base(c) == IF Classes[c].base = NoClass THEN [p \in {} |-> Null]
           ELSE Classes[Classes[c].base].own
Names(c) == DOMAIN Own(c) \cup DOMAIN Base(c)
Initial(c, p) == IF p \in DOMAIN Own(c) THEN Own(c)[p].initial ELSE Base(c)[p].initial
Fresh(c) == <<"object", c, [p \in Names(c) |-> Initial(c, p)]>>
Integral(c) == \E p \in DOMAIN Own(c) : Own(c)[p].type[1] = "integer"

---------------------------------------------------------------------------
(* Writing.                                                                *)

\* Mutant: a value without enumerator is written as an empty key.
EnumJsonUnnamed(n, flags) ==
    IF "EnumAsString" \notin flags THEN <<"number", n>>
    ELSE <<"string", IF n \in DOMAIN EnumKey THEN EnumKey[n] ELSE "">>

EnumJson(n, flags) ==
    IF "EnumAsString" \in flags /\ n \in DOMAIN EnumKey
    THEN <<"string", EnumKey[n]>> ELSE <<"number", n>>

\* serializeQVariant; bytes that are no UTF-8 are replaced, a pointer is written
\* as an object of the class it points to.
RECURSIVE WriteValue(_, _, _)
WriteValue(v, type, flags) ==
    CASE v = Null           -> Null
      [] v[1] = "bool"      -> v
      [] v[1] = "string"    -> v
      [] v[1] = "bytes"     -> <<"string", IF v[2] = "binary" THEN "replaced" ELSE v[2]>>
      [] v[1] = "enum"      -> EnumJson(v[2], flags)
      [] v[1] = "number"    -> <<"number", Written(type[2], v[2])>>
      [] v[1] = "list"      -> <<"array", [i \in DOMAIN v[2] |->
                                             WriteValue(v[2][i], type[2], flags)]>>
      [] v[1] = "object"    -> <<"object", [p \in DOMAIN Own(v[2]) |->
                                   WriteValue(v[3][p], Own(v[2])[p].type, flags)]>>

---------------------------------------------------------------------------
(* Reading.                                                                *)

Default(type) ==
    CASE type[1] = "bool"    -> <<"bool", FALSE>>
      [] type[1] = "string"  -> <<"string", "">>
      [] type[1] = "bytes"   -> <<"bytes", "">>
      [] type[1] = "integer" -> <<"number", 0>>
      [] type[1] = "list"    -> <<"list", <<>>>>
      [] type[1] = "gadget"  -> Fresh(type[2])
      [] type[1] = "pointer" -> Null

NumberOr0(j) == IF j[1] = "number" THEN j[2] ELSE 0

\* Mutant: the string form of a truth value counts as true whenever it is there.
ReadBoolAnyString(j) ==
    CASE j[1] = "bool"   -> j[2]
      [] j[1] = "number" -> j[2] # 0
      [] j[1] = "string" -> j[2] # ""
      [] OTHER           -> FALSE

\* The tolerance for 0/1 and "true"/"false".
ReadBool(j) ==
    CASE j[1] = "bool"   -> j[2]
      [] j[1] = "number" -> j[2] # 0
      [] j[1] = "string" -> j[2] \in {"true", "1"}
      [] OTHER           -> FALSE

\* toInt() of a string is 0, unless the flag has it looked up.
ReadEnum(j, flags) ==
    IF j[1] = "string" /\ "EnumAsString" \in flags
    THEN IF \E n \in DOMAIN EnumKey : EnumKey[n] = j[2]
         THEN <<"enum", CHOOSE n \in DOMAIN EnumKey : EnumKey[n] = j[2]>>
         ELSE Thrown
    ELSE <<"enum", NumberOr0(j)>>

\* The nested types: an object, read as `nested', or null, which is a null pointer
\* or a new gadget.
ReadNested(j, type, nested) ==
    IF j = Null THEN Default(type)
    ELSE IF j[1] = "object" THEN nested ELSE Thrown

\* deserializeInternal into a new object of class c: what becomes of a property.
\* A missing key leaves it as the constructor made it, and so does a null pointer;
\* `value' is what the JSON of its key is read as.
ReadProperty(f, p, prop, flags, value) ==
    CASE ~prop.writable -> prop.initial
      [] prop.writable /\ p \notin DOMAIN f ->
            IF "ValidationEnabled" \in flags /\ prop.required THEN Thrown ELSE prop.initial
      [] prop.writable /\ p \in DOMAIN f ->
            IF f[p] = Null /\ prop.type[1] = "pointer" THEN prop.initial
            ELSE IF prop.type[1] = "enum" THEN ReadEnum(f[p], flags)
            ELSE value

\* Mutant: a key is known if any class has it.
UnknownToAll(f, c, flags) ==
    /\ "IgnoreUnknownKeys" \notin flags
    /\ ~(DOMAIN f \subseteq UNION {Names(d) : d \in DOMAIN Classes})

\* In strict mode; inherited properties are known, though they are not read.
Unknown(f, c, flags) == "IgnoreUnknownKeys" \notin flags /\ ~(DOMAIN f \subseteq Names(c))

\* deserializeQVariant and deserializeInternal.
RECURSIVE ReadValue(_, _, _, _), ReadObject(_, _, _, _)

ReadValue(j, type, flags, junk) ==
    LET nested == ReadObject(j[2], type[2], flags, junk)
        items == [i \in DOMAIN j[2] |-> ReadValue(j[2][i], type[2], flags, junk)]
    IN  CASE type[1] \in {"gadget", "pointer"} -> ReadNested(j, type, nested)
          [] j = Null /\ type[1] \notin {"gadget", "pointer"} -> Default(type)
          [] j # Null /\ type[1] = "bool"    -> <<"bool", ReadBool(j)>>
          [] j # Null /\ type[1] = "string"  ->
                <<"string", IF j[1] = "string" THEN j[2] ELSE "converted">>
          [] j # Null /\ type[1] = "bytes"   ->
                <<"bytes", IF j[1] = "string" THEN j[2] ELSE "">>
          [] j # Null /\ type[1] = "integer" ->
                <<"number", Read(type[2], NumberOr0(j), junk)>>
          [] j # Null /\ type[1] = "list"    ->
                IF j[1] # "array" \/ \E i \in DOMAIN items : items[i] = Thrown
                THEN Thrown ELSE <<"list", items>>

\* Mutant: a null pointer ends the loop over the properties.
ReadObjectUpToNull(f, c, flags, junk) ==
    LET Value(p) == ReadValue(f[p], Own(c)[p].type, flags, junk)
        ended == \E p \in DOMAIN f : f[p] = Null
        read == [p \in DOMAIN Own(c) |->
                    IF ended THEN Own(c)[p].initial
                    ELSE ReadProperty(f, p, Own(c)[p], flags, Value(p))]
    IN  IF Unknown(f, c, flags) \/ \E p \in DOMAIN read : read[p] = Thrown THEN Thrown
        ELSE <<"object", c, [p \in Names(c) |->
                                IF p \in DOMAIN read THEN read[p] ELSE Initial(c, p)]>>

ReadObject(f, c, flags, junk) ==
    LET Value(p) == ReadValue(f[p], Own(c)[p].type, flags, junk)
        read == [p \in DOMAIN Own(c) |-> ReadProperty(f, p, Own(c)[p], flags, Value(p))]
    IN  IF Unknown(f, c, flags) \/ \E p \in DOMAIN read : read[p] = Thrown THEN Thrown
        ELSE <<"object", c, [p \in Names(c) |->
                                IF p \in DOMAIN read THEN read[p] ELSE Initial(c, p)]>>

---------------------------------------------------------------------------
VARIABLES
    object,     \* what the client has
    writer, reader,     \* the flags of the two serialisers
    json,       \* the text: not there yet, or what it says
    edit,       \* what the server has changed
    back        \* not there yet, or what was read

vars == <<object, writer, reader, json, edit, back>>

None   == <<"none">>
Unedited == [at |-> <<>>, kind |-> "none"]

Init ==
    /\ object \in Objects
    /\ writer \in SUBSET {"EnumAsString"}
    /\ reader \in IF Integral(object[2]) THEN {{"IgnoreUnknownKeys"}} ELSE SUBSET Flags
    /\ json = None /\ edit = Unedited /\ back = None

Serialize ==
    /\ json = None
    /\ json' = WriteValue(object, <<"gadget", object[2]>>, writer)
    /\ UNCHANGED <<object, writer, reader, edit, back>>

\* Another way to write the same, or something else altogether.
Variants(j) ==
    {[kind |-> "null", json |-> Null]} \cup
    CASE j[1] = "bool"   -> {[kind |-> "same", json |-> <<"number", IF j[2] THEN 1 ELSE 0>>],
                             [kind |-> "same", json |-> <<"string", IF j[2] THEN "true" ELSE "false">>]}
      [] j[1] = "string" -> {[kind |-> "other", json |-> <<"string", "unheard of">>]}
      [] j[1] \in {"object", "array"} -> {[kind |-> "wrong", json |-> <<"number", 1>>]}
      [] OTHER           -> {}

\* The fields of an object with one place of it changed.
RECURSIVE EditsOf(_)
EditsOf(f) ==
    UNION {{[at |-> <<k>>, kind |-> e.kind, fields |-> [f EXCEPT ![k] = e.json]] :
                e \in Variants(f[k])} : k \in DOMAIN f}
    \cup {[at |-> <<k>>, kind |-> "missing", fields |-> [j \in DOMAIN f \ {k} |-> f[j]]] :
             k \in DOMAIN f}
    \cup {[at |-> <<x>>, kind |-> "unknown",
           fields |-> [k \in DOMAIN f \cup {x} |->
                          IF k \in DOMAIN f THEN f[k] ELSE <<"number", 1>>]] :
             x \in {"extra"} \ DOMAIN f}
    \cup UNION {{[at |-> <<k>> \o e.at, kind |-> e.kind,
                  fields |-> [f EXCEPT ![k] = <<"object", e.fields>>]] :
                     e \in EditsOf(f[k][2])} :
                k \in {k \in DOMAIN f : f[k][1] = "object"}}

Server ==
    /\ json # None /\ edit = Unedited /\ back = None /\ ~Integral(object[2])
    /\ \/ \E e \in EditsOf(json[2]) : /\ edit' = [at |-> e.at, kind |-> e.kind]
                                      /\ json' = <<"object", e.fields>>
       \/ /\ edit' = [at |-> <<>>, kind |-> "wrong"]
          /\ json' = <<"no object">>
    /\ UNCHANGED <<object, writer, reader, back>>

\* parseObject, then deserializeInternal into a new object.
Parsed(j, junk) ==
    IF j[1] # "object" THEN Thrown ELSE ReadObject(j[2], object[2], reader, junk)

Deserialize ==
    /\ json # None /\ back = None
    /\ \E junk \in IF Integral(object[2]) THEN Unsigned(LongBits) ELSE {0} :
          back' = Parsed(json, junk)
    /\ UNCHANGED <<object, writer, reader, json, edit>>

Next == Serialize \/ Server \/ Deserialize

Spec == Init /\ [][Next]_vars

---------------------------------------------------------------------------
HasRead   == back # None
AsSent  == HasRead /\ edit = Unedited
\* What the reader needs to know the enumerators by name.
Matched == "EnumAsString" \in writer => "EnumAsString" \in reader

\* What can survive: the properties the class itself declares and that can be
\* written.  Behind a pointer to a base only a new object of the base comes back.
RECURSIVE Kept(_, _)
Kept(v, type) ==
    IF v[1] = "bytes" THEN <<"bytes", IF v[2] = "binary" THEN "replaced" ELSE v[2]>>
    ELSE IF v[1] = "list" THEN <<"list", [i \in DOMAIN v[2] |-> Kept(v[2][i], type[2])]>>
    ELSE IF v[1] # "object" THEN v
    ELSE IF v[2] # type[2] THEN Fresh(type[2])
    ELSE <<"object", v[2], [p \in Names(v[2]) |->
              IF p \in DOMAIN Own(v[2]) /\ Own(v[2])[p].writable
              THEN Kept(v[3][p], Own(v[2])[p].type) ELSE Initial(v[2], p)]>>

RECURSIVE Monomorphic(_, _)
Monomorphic(v, type) ==
    v[1] = "object" =>
        /\ v[2] = type[2]
        /\ \A p \in DOMAIN Own(v[2]) : Monomorphic(v[3][p], Own(v[2])[p].type)

Whole == <<"gadget", object[2]>>

\* An object read back from its own JSON is what it was, in what the code means to
\* keep, under any flags of the reader that know its enumerators by name, strict
\* and validating ones included.  Only a derived object behind a pointer to its
\* base may be refused instead.
RoundTrip ==
    AsSent /\ Matched /\ ~Integral(object[2]) =>
        \/ back = Kept(object, Whole)
        \/ back = Thrown /\ ~Monomorphic(object, Whole)

RECURSIVE SameBut(_, _, _)
SameBut(a, b, at) ==
    a[1] = "object" /\ b[1] = "object" /\ at # <<>> =>
        \A p \in DOMAIN a[3] :
            IF p = Head(at) THEN SameBut(a[3][p], b[3][p], Tail(at)) ELSE a[3][p] = b[3][p]

\* Whatever the server changes in one place, a missing key or a null as much as a
\* value of another type: reading throws, or everything else is read as before.
\* A truth value written as a number or a string changes nothing at all
\* (JsonSerializer.cpp:225).
EditsAreLocal ==
    LET unedited == Parsed(WriteValue(object, Whole, writer), 0)
    IN  /\ HasRead /\ back # Thrown => SameBut(back, unedited, edit.at)
        /\ HasRead /\ edit.kind = "same" => back = unedited

\* The class whose property a place is, by the declared types.
RECURSIVE ClassAt(_, _)
ClassAt(c, at) ==
    IF Len(at) = 1 THEN c ELSE ClassAt(Own(c)[Head(at)].type[2], Tail(at))

RequiredAt(at) ==
    LET own == Own(ClassAt(object[2], at))  p == at[Len(at)]
    IN  p \in DOMAIN own /\ own[p].required

\* The checks hold all the way down: a key the class does not know is refused in
\* strict mode, a required key that is missing when validating, and always what is
\* neither an object nor null in place of an object.
ChecksReachDown ==
    /\ HasRead /\ edit.kind = "unknown" /\ "IgnoreUnknownKeys" \notin reader => back = Thrown
    /\ HasRead /\ edit.kind = "missing" /\ RequiredAt(edit.at) /\ "ValidationEnabled" \in reader
           => back = Thrown
    /\ HasRead /\ edit.kind = "wrong" => back = Thrown

Number(o) == o[3]["number"][2]
NumberType == Own(object[2])["number"].type[2]

\* JsonSerializer.cpp:83, 234: a property that is in an int, or a 64-bit one that a
\* double holds, is the same number in the JSON and after reading it back.  A long
\* beyond a double's precision comes back as near as a double can be, unless the
\* nearest one does not fit any more.
NumbersSurvive ==
    Integral(object[2]) =>
        LET v == Number(object) IN
        /\ json # None => KeptExactly(NumberType, v, json[2]["number"][2])
        /\ HasRead => /\ KeptExactly(NumberType, v, Number(back))
                      /\ KeptNearly(NumberType, v, Number(back))

=============================================================================
