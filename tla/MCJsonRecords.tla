--------------------------- MODULE MCJsonRecords ---------------------------
(* The classes and objects that TLC reads and writes. *)
EXTENDS JsonRecords, TLC

Prop(type, initial) ==
    [type |-> type, required |-> FALSE, writable |-> TRUE, initial |-> initial]
Required(prop) == [prop EXCEPT !.required = TRUE]
ReadOnly(prop) == [prop EXCEPT !.writable = FALSE]

\* The value of an object's fields, in the classes below.
Leaf(on)      == <<"object", "Leaf", [on |-> <<"bool", on>>]>>
Node(on, raw) == <<"object", "Node", [leaf |-> Leaf(on), raw |-> <<"bytes", raw>>]>>
Derived(x)    == <<"object", "Derived", [extra |-> <<"bool", x>>, leaf |-> Leaf(TRUE),
                                         raw |-> <<"bytes", "utf8">>]>>

RecordClasses ==
    [Leaf    |-> [base |-> NoClass, own |-> [on |-> Prop(<<"bool">>, <<"bool", TRUE>>)]],
     Node    |-> [base |-> NoClass,
                  own |-> [leaf |-> Prop(<<"gadget", "Leaf">>, Leaf(TRUE)),
                           raw |-> Required(Prop(<<"bytes">>, <<"bytes", "">>))]],
     Derived |-> [base |-> "Node", own |-> [extra |-> Prop(<<"bool">>, <<"bool", FALSE>>)]],
     Root    |-> [base |-> NoClass,
                  own |-> [mode  |-> Prop(<<"enum">>, <<"enum", 2>>),
                           count |-> ReadOnly(Prop(<<"string">>, <<"string", "init">>)),
                           node  |-> Prop(<<"pointer", "Node">>, Null),
                           items |-> Prop(<<"list", <<"gadget", "Leaf">>>>, <<"list", <<>>>>)]]]

NumberClasses ==
    [t \in Types |-> [base |-> NoClass,
                      own |-> [number |-> Prop(<<"integer", t>>, <<"number", 0>>)]]]

AllClasses == RecordClasses @@ NumberClasses

TwoKeys == (0 :> "Red") @@ (2 :> "Blue")

Nodes == {Node(on, raw) : on \in BOOLEAN, raw \in {"utf8", "binary"}}

RecordObjects ==
    Nodes \cup {Derived(x) : x \in BOOLEAN} \cup
    {<<"object", "Root", [mode |-> <<"enum", m>>, count |-> <<"string", "now">>,
                          node |-> n, items |-> <<"list", items>>]>> :
        m \in {0, 2, 5}, n \in {Null} \cup Nodes \cup {Derived(TRUE)},
        items \in {<<>>, <<Leaf(FALSE)>>, <<Leaf(FALSE), Leaf(TRUE)>>}}

NumberObjects ==
    UNION {{<<"object", t, [number |-> <<"number", v>>]>> : v \in RangeOf[t]} : t \in Types}

AllObjects == RecordObjects \cup NumberObjects
=============================================================================
