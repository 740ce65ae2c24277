--------------------------- MODULE JsonOwnership ---------------------------
(***************************************************************************)
(* Who owns the QObjects JsonSerializer creates while it fills a response, *)
(* and what becomes of them when a later field makes it throw.             *)
(*                                                                         *)
(* deserializeInternal and deserializeQVariant call each other down the    *)
(* JSON tree; a frame of `stack' is one call that has not returned:        *)
(*   object  fills a QObject it created; a unique_ptr guards the object    *)
(*           until the call returns                                        *)
(*   gadget  fills a Q_GADGET, a value inside a QVariant                   *)
(*   list    appends to the QVariantList of a list property                *)
(* `ctx' is the contextParent the frame gives to the objects made in it    *)
(* (NoObject: nullptr).  What the JSON says is left open: any field may    *)
(* hold any of these or make the call throw.                               *)
(***************************************************************************)
EXTENDS Naturals, Sequences, FiniteSets

CONSTANTS
    MaxObjects,     \* bound on the QObjects created in one response
    MaxDepth        \* bound on the nesting of calls

ASSUME JsonAssumption ==
    MaxObjects \in Nat \ {0} /\ MaxDepth \in Nat \ {0}

NoObject == 0
Objects  == 1..MaxObjects

VARIABLES
    stack,      \* the calls that have not returned, the innermost last
    live,       \* the objects created and not deleted
    parent,     \* QObject::parent of each created object
    outcome,    \* "filling", "throwing", then "returned" or "thrown"
    root,       \* the object made for a response type T*, NoObject for a
                \* response type that is a Q_GADGET
    gadgets     \* history: a Q_GADGET was filled

vars == <<stack, live, parent, outcome, root, gadgets>>

Frame(kind, obj, ctx, items) ==
    [kind |-> kind, obj |-> obj, ctx |-> ctx, items |-> items]

Top   == stack[Len(stack)]
Below == SubSeq(stack, 1, Len(stack) - 1)
Outer == Below[Len(Below)]

Push(f) == stack' = Append(stack, f)
Nested  == Len(stack) > 1
Filling == outcome = "filling" /\ stack # <<>>

Created == DOMAIN parent
Fresh   == Cardinality(Created) + 1

\* The created object `o' and those below it that live: ~QObject deletes its children.
WithChildren(o) ==
    {x \in live : \A family \in SUBSET Created :
        o \in family /\ (\A c \in Created : parent[c] \in family => c \in family)
            => x \in family}

Deleted(os) == live \ UNION {WithChildren(o) : o \in os}

\* deserialize<T*> makes an object and guards it; deserialize<T> has a value.
ObjectRoot ==
    /\ root = 1 /\ gadgets = FALSE
    /\ stack = <<Frame("object", 1, 1, {})>>
    /\ live = {1}
    /\ parent = [o \in {1} |-> NoObject]

GadgetRoot ==
    /\ root = NoObject /\ gadgets = TRUE
    /\ stack = <<Frame("gadget", NoObject, NoObject, {})>>
    /\ live = {}
    /\ parent = [o \in {} |-> NoObject]

Init == (ObjectRoot \/ GadgetRoot) /\ outcome = "filling"

---------------------------------------------------------------------------
(* Going down.                                                             *)

\* Mutant: newInstance(Q_ARG(QObject*, nullptr)).
EnterObjectUnparented ==
    /\ Filling /\ Len(stack) < MaxDepth /\ Fresh \in Objects
    /\ Push(Frame("object", Fresh, Fresh, {}))
    /\ live' = live \cup {Fresh}
    /\ parent' = [o \in Created \cup {Fresh} |->
                     IF o = Fresh THEN NoObject ELSE parent[o]]
    /\ UNCHANGED <<outcome, root, gadgets>>

\* A QObject* property or list element: newInstance with the context parent.
EnterObject ==
    /\ Filling /\ Len(stack) < MaxDepth /\ Fresh \in Objects
    /\ Push(Frame("object", Fresh, Fresh, {}))
    /\ live' = live \cup {Fresh}
    /\ parent' = [o \in Created \cup {Fresh} |->
                     IF o = Fresh THEN Top.ctx ELSE parent[o]]
    /\ UNCHANGED <<outcome, root, gadgets>>

\* A Q_GADGET property or list element: a gadget is nobody's QObject parent.
EnterGadget ==
    /\ Filling /\ Len(stack) < MaxDepth
    /\ Push(Frame("gadget", NoObject, NoObject, {}))
    /\ gadgets' = TRUE
    /\ UNCHANGED <<live, parent, outcome, root>>

\* A list property: its elements get the context of the object that has it.
EnterList ==
    /\ Filling /\ Len(stack) < MaxDepth
    /\ Push(Frame("list", NoObject, Top.ctx, {}))
    /\ UNCHANGED <<live, parent, outcome, root, gadgets>>

---------------------------------------------------------------------------
(* Coming back.                                                            *)

\* The call below takes the value: a list remembers its pointer elements.
Return(o) ==
    stack' = IF Outer.kind = "list" /\ o # NoObject
             THEN [Below EXCEPT ![Len(Below)].items = @ \cup {o}] ELSE Below

\* Mutant: the guard is not released.
LeaveUnreleased ==
    /\ Filling /\ Nested /\ Top.kind = "object"
    /\ Return(Top.obj)
    /\ live' = Deleted({Top.obj})
    /\ UNCHANGED <<parent, outcome, root, gadgets>>

\* guard.release(), and the pointer is written to its property or appended.
LeaveObject ==
    /\ Filling /\ Nested /\ Top.kind = "object"
    /\ Return(Top.obj)
    /\ UNCHANGED <<live, parent, outcome, root, gadgets>>

\* property.write refused the pointer: it is deleted, and the call throws.
ObjectRefused ==
    /\ Filling /\ Nested /\ Top.kind = "object" /\ Outer.kind # "list"
    /\ stack' = Below
    /\ live' = Deleted({Top.obj})
    /\ outcome' = "throwing"
    /\ UNCHANGED <<parent, root, gadgets>>

\* The gadget or converted list is copied into its property or list.
LeaveValue ==
    /\ Filling /\ Nested /\ Top.kind # "object"
    /\ Return(NoObject)
    /\ UNCHANGED <<live, parent, outcome, root, gadgets>>

\* QVariant::convert to the list type fails: the pointer elements are deleted.
ListInconvertible ==
    /\ Filling /\ Nested /\ Top.kind = "list"
    /\ stack' = Below
    /\ live' = Deleted(Top.items)
    /\ outcome' = "throwing"
    /\ UNCHANGED <<parent, root, gadgets>>

\* A field of the wrong type, missing or unknown; an object that cannot be
\* constructed; a list or gadget its property refuses.
Throw ==
    /\ Filling
    /\ outcome' = "throwing"
    /\ UNCHANGED <<stack, live, parent, root, gadgets>>

\* Mutant: the object has no guard while it is filled.
UnwindUnguarded ==
    /\ outcome = "throwing" /\ stack # <<>>
    /\ stack' = Below
    /\ UNCHANGED <<live, parent, outcome, root, gadgets>>

\* The exception leaves a call; an object's guard deletes it.
Unwind ==
    /\ outcome = "throwing" /\ stack # <<>>
    /\ stack' = Below
    /\ live' = IF Top.kind = "object" THEN Deleted({Top.obj}) ELSE live
    /\ UNCHANGED <<parent, outcome, root, gadgets>>

\* deserialize<T> returns or throws to its caller.
Finish ==
    \/ /\ outcome = "filling" /\ Len(stack) = 1
       /\ stack' = <<>> /\ outcome' = "returned"
       /\ UNCHANGED <<live, parent, root, gadgets>>
    \/ /\ outcome = "throwing" /\ stack = <<>>
       /\ outcome' = "thrown"
       /\ UNCHANGED <<stack, live, parent, root, gadgets>>

Next ==
    \/ EnterObject \/ EnterGadget \/ EnterList
    \/ LeaveObject \/ ObjectRefused \/ LeaveValue \/ ListInconvertible
    \/ Throw \/ Unwind \/ Finish

Spec == Init /\ [][Next]_vars

---------------------------------------------------------------------------
\* Objects born without a parent below the root: those of a gadget.
Orphans == {o \in Created : parent[o] = NoObject /\ o # root}

OwnedBy(os) == UNION {WithChildren(o) : o \in os}

\* No guard, context or list element on the stack refers to a deleted object, also
\* while an exception unwinds, when each parent's guard comes after its children's:
\* neither the unwinding nor the deletion of list elements frees one twice.
NothingDangles ==
    \A n \in DOMAIN stack :
        /\ stack[n].obj \in live \cup {NoObject}
        /\ stack[n].ctx \in live \cup {NoObject}
        /\ stack[n].items \subseteq live

\* Whatever failed, only what a gadget held is left over, with what is below.  In a
\* response without gadgets everything has an owner: a failure releases all that was
\* made, lists half filled and values refused included, and who deletes the
\* returned root deletes all that was made for it.
OnlyGadgetsLeak ==
    /\ outcome = "thrown" => live \subseteq OwnedBy(Orphans)
    /\ ~gadgets /\ outcome = "thrown"   => live = {}
    /\ ~gadgets /\ outcome = "returned" => live \subseteq OwnedBy({root})

\* JsonSerializer.h:104, of a response type T*: a failed filling releases
\* everything by itself.
FailureReleasesAll == root # NoObject /\ outcome = "thrown" => live = {}
=============================================================================
