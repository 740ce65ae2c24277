--------------------------- MODULE MCTypedRequest ---------------------------
(* The declarations and values that TLC tries. *)
EXTENDS TypedRequest

P(tag, key, type) == [tag |-> tag, key |-> key, type |-> type]

\* The groups interleaved in different orders, with a form, with a body, alone;
\* one placeholder's key declared twice, with two types; and one header's name, with
\* another header between.
Declared ==
    {<<P("form", "f", "string"), P("path", "id", "text"), P("query", "q", "float"),
       P("form", "g", "text"), P("path", "tag", "string")>>,
     <<P("body", "", "string"), P("header", "h", "text"), P("path", "tag", "text"),
       P("query", "q", "string"), P("path", "id", "text")>>,
     <<P("query", "q", "text"), P("query", "r", "text"), P("header", "h", "string")>>,
     <<P("path", "id", "text"), P("path", "tag", "string")>>,
     <<P("path", "id", "string"), P("path", "id", "text")>>,
     <<P("header", "h", "text"), P("header", "k", "string"), P("header", "h", "string")>>}

\* One placeholder occurs twice.
Place     == [id |-> "{id}", tag |-> "{tag}"]
IdTagId   == <<"{id}", "/", "{tag}", "/", "{id}">>
TypeTexts ==
    [string |-> {<<"x">>, <<"y">>, <<"{id}">>},
     text   |-> {<<"x">>, <<"z">>, <<"+">>, <<"%41">>, <<"?", "z">>, <<"{tag}">>},
     float  |-> {<<"1.5">>, <<"1.2345678">>}]
=============================================================================
