------------------------- MODULE JsonOwnershipProofs -------------------------
(***************************************************************************)
(* That nothing a call that has not returned refers to is deleted, and     *)
(* that only what a gadget held is left over, for any response.            *)
(*                                                                         *)
(* The invariant is that objects are numbered in the order they are made:  *)
(* a parent is older than its children, and what an inner call may delete  *)
(* is younger than all an outer call refers to.  A deletion takes only     *)
(* what is at least as young as the object deleted, so it never reaches    *)
(* what an outer call still needs.                                         *)
(*                                                                         *)
(* The second part is about the integers in a response (JsonNumbers): that *)
(* they are written and read as they are, whatever the widths.             *)
(***************************************************************************)
EXTENDS JsonOwnership, JsonNumbers, FiniteSetTheorems, SequenceTheorems,
        WellFoundedInduction, TLAPS

Frames ==
    [kind : {"object", "gadget", "list"}, obj : Nat, ctx : Nat, items : SUBSET (Nat \ {NoObject})]

\* What a call refers to, and what it may delete.
Refs(f)    == {f.obj, f.ctx} \cup f.items
Deletes(f) == ({f.obj} \ {NoObject}) \cup f.items

TypeOK ==
    /\ stack \in Seq(Frames)
    /\ outcome \in {"filling", "throwing", "returned", "thrown"}
    /\ root \in {NoObject, 1}
    /\ gadgets \in BOOLEAN

\* Parents are older, and live as long as their children.
Family ==
    /\ \E k \in Nat : Created = 1..k
    /\ live \subseteq Created
    /\ \A o \in Created : parent[o] \in Nat /\ parent[o] < o
    /\ \A o \in live : parent[o] \in live \cup {NoObject}

Referred ==
    \A n \in DOMAIN stack :
        /\ Refs(stack[n]) \subseteq live \cup {NoObject}
        /\ stack[n].kind = "object" => stack[n].obj # NoObject

Older ==
    \A n, m \in DOMAIN stack :
        n < m => \A x \in Refs(stack[n]), y \in Deletes(stack[m]) : x < y

\* The root, while it is filled and once its guard has deleted it.
RootHeld ==
    root # NoObject =>
        /\ 1 \in Created /\ parent[1] = NoObject
        /\ stack # <<>> => stack[1].kind = "object" /\ stack[1].obj = root
        /\ stack = <<>> /\ outcome # "returned" => WithChildren(root) = {}

Owners == Orphans \cup ({root} \ {NoObject})

\* Whatever lives is below an orphan or the root; orphans come from gadgets.
Accounted ==
    /\ \A x \in live : \E o \in Owners : x \in WithChildren(o)
    /\ ~gadgets => /\ root # NoObject /\ Orphans = {}
                   /\ \A n \in DOMAIN stack : stack[n].ctx # NoObject
    /\ stack # <<>> => outcome \in {"filling", "throwing"}

IInv == TypeOK /\ Family /\ Referred /\ Older /\ RootHeld /\ Accounted

---------------------------------------------------------------------------
(* Families.                                                               *)

\* A deletion takes the object, its children, and nothing older.
LEMMA Deletion ==
    ASSUME Family, NEW o \in Created
    PROVE  /\ o \in live => o \in WithChildren(o)
           /\ \A x \in live : parent[x] \in WithChildren(o) => x \in WithChildren(o)
           /\ \A x \in WithChildren(o) : x >= o /\ x \in live
<1>1. o \in live => o \in WithChildren(o)
  BY DEF WithChildren
<1>2. \A x \in live : parent[x] \in WithChildren(o) => x \in WithChildren(o)
  BY DEF WithChildren, Family
<1>3. ASSUME NEW x \in WithChildren(o) PROVE x >= o /\ x \in live
  <2>. DEFINE younger == {c \in Created : c >= o}
  <2>1. /\ \A c \in Created : c \in Nat /\ parent[c] \in Nat /\ parent[c] < c
        /\ x \in live /\ x \in Created
    BY DEF Family, WithChildren
  <2>2. o \in younger /\ \A c \in Created : parent[c] \in younger => c \in younger
    BY <2>1
  <2>3. younger \in SUBSET Created
    OBVIOUS
  <2>4. x \in younger
    BY <2>2, <2>3 DEF WithChildren
  <2>. QED
    BY <2>1, <2>4
<1>. QED
  BY <1>1, <1>2, <1>3

\* Who is younger than nothing that is deleted survives, and so do all parents.
LEMMA Survivors ==
    ASSUME Family, NEW os \in SUBSET Created, live' = Deleted(os), parent' = parent
    PROVE  /\ Family'
           /\ live' \subseteq live
           /\ \A x \in live : (\A o \in os : x < o) => x \in live'
           /\ \A o : WithChildren(o)' = WithChildren(o) \cap live'
           /\ \A o \in os : WithChildren(o)' = {}
<1>1. /\ live' \subseteq live /\ Created' = Created
      /\ \A x \in live : x \in live' <=> \A o \in os : x \notin WithChildren(o)
  BY DEF Deleted, Created
<1>2. \A x \in live' : parent[x] \in live' \cup {NoObject}
  BY <1>1, Deletion DEF Family
<1>3. Family'
  BY <1>1, <1>2 DEF Family
<1>4. \A x \in live : (\A o \in os : x < o) => x \in live'
  <2>1. SUFFICES ASSUME NEW x \in live, \A o \in os : x < o, NEW o \in os, x \in WithChildren(o)
                 PROVE  FALSE
    BY <1>1
  <2>2. x \in Nat /\ o \in Nat /\ o \in Created /\ x < o
    BY <2>1 DEF Family
  <2>3. x >= o
    BY <2>1, <2>2, Deletion
  <2>. QED
    BY <2>2, <2>3
<1>5. \A o : WithChildren(o)' = WithChildren(o) \cap live'
  BY <1>1 DEF WithChildren
<1>6. \A o \in os : WithChildren(o) \cap live' = {}
  BY <1>1
<1>. QED
  BY <1>1, <1>3, <1>4, <1>5, <1>6

\* A new object joins the family of its parent, and breaks up none.
LEMMA Birth ==
    ASSUME Family, NEW p \in live \cup {NoObject}, live' = live \cup {Fresh},
           parent' = [o \in Created \cup {Fresh} |-> IF o = Fresh THEN p ELSE parent[o]]
    PROVE  /\ Family'
           /\ Fresh \notin Created /\ Fresh # NoObject /\ Fresh \in Created'
           /\ \A o \in Created : o < Fresh
           /\ Created' = Created \cup {Fresh} /\ parent'[Fresh] = p
           /\ \A o \in Created : parent'[o] = parent[o]
           /\ \A o \in Created :
                 /\ WithChildren(o) \subseteq WithChildren(o)'
                 /\ p \in WithChildren(o) => Fresh \in WithChildren(o)'
           /\ \A o : o = Fresh => Fresh \in WithChildren(o)'
<1>1. PICK k \in Nat : Created = 1..k
  BY DEF Family
<1>2. Cardinality(1..k) = k
  BY FS_Interval
<1>3. Fresh = k + 1
  BY <1>1, <1>2 DEF Fresh
<1>4. /\ Created' = Created \cup {Fresh} /\ parent'[Fresh] = p
      /\ \A o \in Created : parent'[o] = parent[o]
      /\ Fresh \notin Created /\ Fresh # NoObject
      /\ \A o \in Created : o < Fresh
      /\ Created' = 1..(k + 1)
  BY <1>1, <1>3 DEF Created, NoObject
<1>5. live \subseteq Created /\ p \in Nat /\ p < Fresh
  BY <1>1, <1>3 DEF Family, NoObject
<1>6. Family'
  <2>1. k + 1 \in Nat
    BY <1>1
  <2>2. \A o \in Created' : parent'[o] \in Nat /\ parent'[o] < o
    BY <1>4, <1>5 DEF Family
  <2>3. \A o \in live' : parent'[o] \in live' \cup {NoObject}
    BY <1>4, <1>5 DEF Family
  <2>. QED
    BY <1>4, <1>5, <2>1, <2>2, <2>3 DEF Family
<1>7. ASSUME NEW o \in Created, NEW x \in WithChildren(o) PROVE x \in WithChildren(o)'
  <2>1. SUFFICES ASSUME NEW family \in SUBSET Created', o \in family,
                        \A c \in Created' : parent'[c] \in family => c \in family
                 PROVE  x \in family
    BY DEF WithChildren
  <2>. DEFINE before == family \cap Created
  <2>2. o \in before /\ \A c \in Created : parent[c] \in before => c \in before
    BY <1>4, <2>1
  <2>3. before \in SUBSET Created
    OBVIOUS
  <2>. HIDE DEF before
  <2>4. x \in before
    BY <1>7, <2>2, <2>3 DEF WithChildren
  <2>. QED
    BY <2>4 DEF before
<1>8. ASSUME NEW o \in Created, p \in WithChildren(o) PROVE Fresh \in WithChildren(o)'
  <2>1. p \in WithChildren(o)'
    BY <1>7, <1>8
  <2>. QED
    BY <1>4, <2>1 DEF WithChildren
<1>9. ASSUME NEW o, o = Fresh PROVE Fresh \in WithChildren(o)'
  BY <1>4, <1>9 DEF WithChildren
<1>. QED
  BY <1>4, <1>6, <1>7, <1>8, <1>9

---------------------------------------------------------------------------
(* Calls.                                                                  *)

\* A call begins.
LEMMA Began ==
    ASSUME TypeOK, NEW f \in Frames, Push(f)
    PROVE  /\ stack' \in Seq(Frames) /\ Len(stack) \in Nat /\ Len(stack') = Len(stack) + 1
           /\ DOMAIN stack = 1..Len(stack) /\ DOMAIN stack' = 1..(Len(stack) + 1)
           /\ \A n \in 1..Len(stack) : stack'[n] = stack[n]
           /\ stack'[Len(stack) + 1] = f /\ stack' # <<>>
  BY DEF TypeOK, Push

\* A call ends, and the call below may remember the object made in it.
Ended(o) ==
    LET k == Len(stack) - 1
    IN  /\ stack # <<>> /\ stack' \in Seq(Frames) /\ Len(stack') = k
        /\ \A n \in 1..k :
              /\ n < k => stack'[n] = stack[n]
              /\ stack'[n].kind = stack[n].kind /\ stack'[n].obj = stack[n].obj
              /\ stack'[n].ctx = stack[n].ctx
              /\ stack'[n].items \subseteq stack[n].items \cup ({o} \ {NoObject})

\* The stack without its top.
LEMMA BelowIs ==
    ASSUME TypeOK, stack # <<>>
    PROVE  LET k == Len(stack) - 1
           IN  /\ k \in Nat /\ Len(stack) \in Nat /\ Len(stack) = k + 1
               /\ Below \in Seq(Frames) /\ Len(Below) = k
               /\ \A n \in 1..k : Below[n] = stack[n] /\ stack[n] \in Frames
<1>. DEFINE k == Len(stack) - 1
<1>1. /\ k \in Nat /\ Len(stack) \in Nat /\ Len(stack) = k + 1
      /\ \A n \in 1..k : stack[n] \in Frames
  BY DEF TypeOK
<1>2. /\ SubSeq(stack, 1, k) \in Seq(Frames) /\ Len(SubSeq(stack, 1, k)) = k
      /\ \A n \in 1..k : SubSeq(stack, 1, k)[n] = stack[n]
  <2>. HIDE DEF k
  <2>1. /\ SubSeq(stack, 1, k) \in Seq(Frames)
        /\ Len(SubSeq(stack, 1, k)) = IF 1 <= k THEN k - 1 + 1 ELSE 0
        /\ \A n \in 1..(k - 1 + 1) : SubSeq(stack, 1, k)[n] = stack[1 + n - 1]
    BY <1>1, SubSeqProperties
  <2>. QED
    BY <1>1, <2>1
<1>. QED
  BY <1>1, <1>2 DEF Below

\* An inner call that throws leaves the outer ones as they were.
LEMMA EndedByThrowing ==
    ASSUME TypeOK, stack # <<>>, stack' = Below
    PROVE  Ended(NoObject)
  BY BelowIs DEF Ended

\* One that returns gives the outer one an object, or none.
LEMMA EndedByReturning ==
    ASSUME TypeOK, Nested, NEW o \in Nat, Return(o)
    PROVE  Ended(o)
<1>. DEFINE k == Len(stack) - 1
<1>1. /\ k \in Nat /\ k > 0 /\ Len(stack) \in Nat /\ stack # <<>>
      /\ Below \in Seq(Frames) /\ Len(Below) = k
      /\ \A n \in 1..k : Below[n] = stack[n] /\ stack[n] \in Frames
  <2>1. stack # <<>>
    BY DEF Nested
  <2>. QED
    BY <2>1, BelowIs DEF Nested
<1>2. CASE stack' = Below
  BY <1>1, <1>2 DEF Ended
<1>3. CASE o # NoObject /\ stack' = [Below EXCEPT ![k].items = @ \cup {o}]
  <2>. DEFINE f == [Below[k] EXCEPT !.items = @ \cup {o}]
  <2>1. /\ f \in Frames /\ f.kind = Below[k].kind /\ f.obj = Below[k].obj
        /\ f.ctx = Below[k].ctx /\ f.items = Below[k].items \cup {o}
    <3>1. Below[k] \in Frames
      BY <1>1
    <3>. QED
      BY <1>3, <3>1 DEF Frames
  <2>2. stack' = [Below EXCEPT ![k] = f]
    BY <1>1, <1>3
  <2>. HIDE DEF f
  <2>. QED
    BY <1>1, <1>3, <2>1, <2>2 DEF Ended
<1>. QED
  BY <1>1, <1>2, <1>3 DEF Return

\* The end of a call that deleted what it may, keeps the invariant.
LEMMA EndedStep ==
    ASSUME IInv, NEW o, Ended(o), NEW os \in SUBSET Deletes(Top), live' = Deleted(os),
           o = NoObject \/ (o = Top.obj /\ os = {}),
           outcome \in {"filling", "throwing"},
           outcome' \in {"filling", "throwing", "returned"},
           stack' # <<>> => outcome' \in {"filling", "throwing"},
           stack' = <<>> /\ Top.kind = "object" /\ outcome' # "returned" => Top.obj \in os,
           UNCHANGED <<parent, root, gadgets>>
    PROVE  IInv'
<1>. DEFINE k == Len(stack) - 1
<1>1. /\ k \in Nat /\ Len(stack) \in Nat /\ k + 1 = Len(stack) /\ DOMAIN stack = 1..(k + 1)
      /\ DOMAIN stack' = 1..k /\ Top = stack[k + 1] /\ Top \in Frames
      /\ stack' = <<>> <=> k = 0
  BY DEF Ended, IInv, TypeOK, Top
<1>2. os \subseteq live /\ NoObject \notin Deletes(Top) /\ os \subseteq Created
  BY <1>1 DEF IInv, Referred, Refs, Deletes, Frames, Family
<1>3. /\ Family' /\ live' \subseteq live /\ Created' = Created
      /\ \A x \in live : (\A y \in os : x < y) => x \in live'
      /\ \A x : WithChildren(x)' = WithChildren(x) \cap live'
      /\ \A x \in os : WithChildren(x)' = {}
  BY <1>2, Survivors DEF IInv, Created
<1>4. \A n \in 1..k : /\ Refs(stack'[n]) \subseteq Refs(stack[n]) \cup ({o} \ {NoObject})
                      /\ Deletes(stack'[n]) \subseteq Deletes(stack[n]) \cup ({o} \ {NoObject})
  BY DEF Ended, Refs, Deletes
<1>5. TypeOK'
  BY DEF IInv, TypeOK, Ended
<1>6. Referred'
  <2>1. SUFFICES ASSUME NEW n \in 1..k
                 PROVE  /\ Refs(stack'[n]) \subseteq live' \cup {NoObject}
                        /\ stack'[n].kind = "object" => stack'[n].obj # NoObject
    BY <1>1 DEF Referred
  <2>2. ASSUME NEW x \in Refs(stack[n]), x # NoObject PROVE x \in live'
    <3>1. x \in live /\ \A y \in Deletes(Top) : x < y
      BY <1>1, <2>2 DEF IInv, Referred, Older
    <3>. QED
      BY <1>3, <3>1
  <2>3. o # NoObject => o \in live'
    <3>1. o # NoObject => o \in live /\ os = {}
      BY <1>1 DEF IInv, Referred, Refs
    <3>. QED
      BY <1>3, <3>1
  <2>. QED
    BY <1>1, <1>4, <2>2, <2>3 DEF Ended, IInv, Referred
<1>7. Older'
  <2>1. SUFFICES ASSUME NEW n \in 1..k, NEW m \in 1..k, n < m,
                        NEW x \in Refs(stack'[n]), NEW y \in Deletes(stack'[m])
                 PROVE  x < y
    BY <1>1 DEF Older
  <2>2. x \in Refs(stack[n])
    BY <1>1, <2>1 DEF Ended
  <2>3. y \in Deletes(stack[m]) \/ y \in Deletes(Top)
    BY <1>4, <2>1 DEF Deletes
  <2>. QED
    BY <1>1, <2>1, <2>2, <2>3 DEF IInv, Older
<1>8. RootHeld'
  <2>1. SUFFICES ASSUME root # NoObject
                 PROVE  /\ 1 \in Created' /\ parent'[1] = NoObject
                        /\ stack' # <<>> => stack'[1].kind = "object" /\ stack'[1].obj = root
                        /\ stack' = <<>> /\ outcome' # "returned" => WithChildren(root)' = {}
    BY DEF RootHeld
  <2>2. /\ 1 \in Created /\ parent[1] = NoObject
        /\ stack[1].kind = "object" /\ stack[1].obj = root
    BY <2>1 DEF IInv, RootHeld, Ended
  <2>3. stack' # <<>> => stack'[1].kind = "object" /\ stack'[1].obj = root
    BY <1>1, <2>2 DEF Ended
  <2>4. stack' = <<>> /\ outcome' # "returned" => root \in os
    BY <1>1, <2>2
  <2>. QED
    BY <1>3, <2>2, <2>3, <2>4
<1>9. Accounted'
  <2>1. Orphans' = Orphans
    BY <1>3 DEF Orphans
  <2>2. \A x \in live' : \E w \in Owners' : x \in WithChildren(w)'
    BY <1>3, <2>1 DEF IInv, Accounted, Owners
  <2>3. ~gadgets => \A n \in DOMAIN stack' : stack'[n].ctx # NoObject
    BY <1>1 DEF IInv, Accounted, Ended
  <2>. QED
    BY <2>1, <2>2, <2>3 DEF IInv, Accounted
<1>. QED
  BY <1>3, <1>5, <1>6, <1>7, <1>8, <1>9 DEF IInv

\* A root object that deserialize guards, or a gadget.
LEMMA InitIInv == Init => IInv
<1>. SUFFICES ASSUME Init PROVE IInv
  OBVIOUS
<1>. USE DEF NoObject
<1>1. CASE ObjectRoot
  <2>1. /\ stack = <<[kind |-> "object", obj |-> 1, ctx |-> 1, items |-> {}]>>
        /\ live = {1} /\ Created = {1} /\ parent[1] = 0 /\ root = 1 /\ gadgets = FALSE
        /\ outcome = "filling" /\ Created = 1..1
    BY <1>1 DEF ObjectRoot, Frame, Created, Init
  <2>2. DOMAIN stack = {1} /\ stack[1] = [kind |-> "object", obj |-> 1, ctx |-> 1, items |-> {}]
    BY <2>1
  <2>7. TypeOK
    <3>1. [kind |-> "object", obj |-> 1, ctx |-> 1, items |-> {}] \in Frames
      BY DEF Frames
    <3>2. stack \in Seq(Frames)
      BY <2>1, <3>1
    <3>. QED
      BY <2>1, <3>2 DEF TypeOK
  <2>8. Family
    BY <2>1 DEF Family
  <2>9. Referred /\ Older
    BY <2>1, <2>2 DEF Referred, Older, Refs
  <2>3. RootHeld
    BY <2>1 DEF RootHeld
  <2>4. Orphans = {}
    BY <2>1 DEF Orphans
  <2>5. 1 \in WithChildren(1)
    BY <2>1, <2>8, Deletion
  <2>6. Accounted
    BY <2>1, <2>2, <2>4, <2>5 DEF Accounted, Owners
  <2>. QED
    BY <2>3, <2>6, <2>7, <2>8, <2>9 DEF IInv
<1>2. CASE GadgetRoot
  <2>1. /\ stack = <<[kind |-> "gadget", obj |-> 0, ctx |-> 0, items |-> {}]>>
        /\ live = {} /\ Created = {} /\ root = 0 /\ gadgets = TRUE
        /\ outcome = "filling" /\ Created = 1..0
    BY <1>2 DEF GadgetRoot, Frame, Created, Init
  <2>. QED
    BY <2>1 DEF IInv, TypeOK, Frames, Family, Referred, Older, Refs, Deletes, RootHeld, Accounted
<1>. QED
  BY <1>1, <1>2 DEF Init

\* What the innermost call refers to and will delete.
LEMMA TopIs ==
    ASSUME IInv, stack # <<>>
    PROVE  /\ Top \in Frames /\ Len(stack) \in DOMAIN stack
           /\ Refs(Top) \subseteq live \cup {NoObject}
           /\ Top.kind = "object" => Top.obj \in Deletes(Top) /\ Top.obj \in live
           /\ Top.items \subseteq Deletes(Top)
           /\ ~gadgets => Top.ctx # NoObject
           /\ outcome \in {"filling", "throwing"}
<1>1. Len(stack) \in DOMAIN stack /\ Top \in Frames
  BY DEF Top, IInv, TypeOK
<1>. QED
  BY <1>1 DEF Top, IInv, Referred, Accounted, Refs, Deletes

\* A call that makes no object refers to what its caller gave it.
LEMMA BeganStep ==
    ASSUME IInv, Filling, NEW f \in Frames, Push(f), f.kind # "object", f.obj = NoObject,
           f.items = {}, f.ctx \in {NoObject, Top.ctx}, f.ctx = NoObject => gadgets',
           gadgets => gadgets', gadgets' \in BOOLEAN,
           UNCHANGED <<live, parent, outcome, root>>
    PROVE  IInv'
<1>. DEFINE k == Len(stack)
<1>1. /\ stack' \in Seq(Frames) /\ k \in Nat /\ k > 0 /\ DOMAIN stack = 1..k
      /\ DOMAIN stack' = 1..(k + 1) /\ stack' # <<>> /\ stack # <<>>
      /\ \A n \in 1..k : stack'[n] = stack[n]
      /\ stack'[k + 1] = f
  <2>1. stack # <<>> /\ stack \in Seq(Frames)
    BY DEF Filling, IInv, TypeOK
  <2>. QED
    BY <2>1, Began DEF IInv
<1>2. Refs(f) \subseteq live \cup {NoObject} /\ Deletes(f) = {}
  BY <1>1, TopIs DEF Refs, Deletes
<1>3. TypeOK' /\ Family'
  BY <1>1 DEF IInv, TypeOK, Family, Created
<1>4. Referred'
  BY <1>1, <1>2 DEF IInv, Referred
<1>5. Older'
  BY <1>1, <1>2 DEF IInv, Older
<1>6. RootHeld'
  BY <1>1 DEF IInv, RootHeld, Created
<1>7. Accounted'
  <2>1. Orphans' = Orphans /\ Owners' = Owners /\ \A o : WithChildren(o)' = WithChildren(o)
    BY DEF Orphans, Owners, WithChildren, Created
  <2>2. ~gadgets => f.ctx # NoObject \/ gadgets'
    BY <1>1, TopIs
  <2>3. ~gadgets' => \A n \in 1..(k + 1) : stack'[n].ctx # NoObject
    BY <1>1, <2>2 DEF IInv, Accounted
  <2>. QED
    BY <1>1, <2>1, <2>3, TopIs DEF IInv, Accounted, Filling
<1>. QED
  BY <1>3, <1>4, <1>5, <1>6, <1>7 DEF IInv

\* A nested object is made, guarded and parented.
LEMMA EnterObjectStep == IInv /\ EnterObject => IInv'
<1>. SUFFICES ASSUME IInv, EnterObject PROVE IInv'
  OBVIOUS
<1>. DEFINE k == Len(stack)
            f == Frame("object", Fresh, Fresh, {})
<1>1. /\ Family' /\ Fresh \notin Created /\ Fresh # NoObject /\ Fresh \in Created'
      /\ \A o \in Created : o < Fresh
      /\ Created' = Created \cup {Fresh} /\ parent'[Fresh] = Top.ctx
      /\ \A o \in Created : parent'[o] = parent[o]
      /\ \A o \in Created :
            /\ WithChildren(o) \subseteq WithChildren(o)'
            /\ Top.ctx \in WithChildren(o) => Fresh \in WithChildren(o)'
      /\ \A o : o = Fresh => Fresh \in WithChildren(o)'
      /\ Top.ctx \in live \cup {NoObject}
  <2>1. Top.ctx \in live \cup {NoObject}
    BY TopIs DEF EnterObject, Filling, Refs
  <2>. QED
    BY <2>1, Birth DEF EnterObject, IInv
<1>2. /\ f \in Frames /\ f.kind = "object" /\ f.obj = Fresh /\ f.ctx = Fresh /\ f.items = {}
      /\ Fresh \in Nat
  BY <1>1 DEF Frame, Frames, Family
<1>3. /\ stack' \in Seq(Frames) /\ k \in Nat /\ k > 0 /\ DOMAIN stack = 1..k
      /\ DOMAIN stack' = 1..(k + 1) /\ stack' # <<>> /\ stack # <<>>
      /\ \A n \in 1..k : stack'[n] = stack[n]
      /\ stack'[k + 1] = f
  <2>1. stack # <<>> /\ stack \in Seq(Frames) /\ Push(f)
    BY DEF EnterObject, Filling, IInv, TypeOK
  <2>. HIDE DEF f
  <2>. QED
    BY <1>2, <2>1, Began DEF IInv
<1>4. live' = live \cup {Fresh} /\ UNCHANGED <<outcome, root, gadgets>> /\ outcome = "filling"
  BY DEF EnterObject, Filling
<1>. HIDE DEF f
<1>5. TypeOK'
  BY <1>3, <1>4 DEF IInv, TypeOK
<1>6. Referred'
  BY <1>1, <1>2, <1>3, <1>4 DEF IInv, Referred, Refs
<1>7. Older'
  <2>1. \A n \in 1..k : \A x \in Refs(stack[n]) : x < Fresh
    <3>1. \A n \in 1..k : Refs(stack[n]) \subseteq Created \cup {NoObject}
      BY <1>3 DEF IInv, Referred, Family
    <3>2. NoObject < Fresh
      BY <1>1, <1>2 DEF NoObject
    <3>. QED
      BY <1>1, <3>1, <3>2
  <2>2. Deletes(f) = {Fresh}
    BY <1>1, <1>2 DEF Deletes
  <2>. QED
    BY <1>3, <2>1, <2>2 DEF IInv, Older
<1>8. RootHeld'
  BY <1>1, <1>3, <1>4 DEF IInv, RootHeld
<1>9. Accounted'
  <2>1. Owners \subseteq Created
    BY DEF IInv, Orphans, Owners, RootHeld, TypeOK
  <2>2. /\ Owners \subseteq Owners'
        /\ Top.ctx = NoObject => Fresh \in Owners'
        /\ Top.ctx # NoObject => Orphans' = Orphans
    <3>1. root # Fresh
      BY <1>1 DEF IInv, RootHeld, TypeOK
    <3>. QED
      BY <1>1, <1>4, <3>1 DEF Orphans, Owners
  <2>3. \A x \in live : \E o \in Owners' : x \in WithChildren(o)'
    BY <1>1, <2>1, <2>2 DEF IInv, Accounted
  <2>4. \E o \in Owners' : Fresh \in WithChildren(o)'
    <3>1. CASE Top.ctx = NoObject
      BY <1>1, <2>2, <3>1
    <3>2. CASE Top.ctx # NoObject
      BY <1>1, <2>1, <2>2, <3>2 DEF IInv, Accounted
    <3>. QED
      BY <3>1, <3>2
  <2>5. ~gadgets => Top.ctx # NoObject
    BY <1>3, TopIs
  <2>6. ~gadgets' => \A n \in 1..(k + 1) : stack'[n].ctx # NoObject
    BY <1>1, <1>2, <1>3, <1>4 DEF IInv, Accounted
  <2>. QED
    BY <1>1, <1>3, <1>4, <2>2, <2>3, <2>4, <2>5, <2>6 DEF IInv, Accounted
<1>. QED
  BY <1>1, <1>5, <1>6, <1>7, <1>8, <1>9 DEF IInv

\* A nested gadget makes none.
LEMMA EnterGadgetStep == IInv /\ EnterGadget => IInv'
  BY BeganStep DEF EnterGadget, Frame, Frames, NoObject

\* Neither does a list.
LEMMA EnterListStep == IInv /\ EnterList => IInv'
<1>. SUFFICES ASSUME IInv, EnterList PROVE IInv'
  OBVIOUS
<1>1. stack # <<>> /\ Filling /\ gadgets' = gadgets /\ gadgets \in BOOLEAN
  BY DEF EnterList, Filling, IInv, TypeOK
<1>2. Top \in Frames /\ (~gadgets => Top.ctx # NoObject)
  BY <1>1, TopIs
<1>3. Frame("list", NoObject, Top.ctx, {}) \in Frames
  BY <1>2 DEF Frame, Frames, NoObject
<1>4. Push(Frame("list", NoObject, Top.ctx, {})) /\ UNCHANGED <<live, parent, outcome, root>>
  BY DEF EnterList
<1>. QED
  BY <1>1, <1>2, <1>3, <1>4, BeganStep DEF Frame

\* A call that ends deletes nothing, its object, or its list's elements.
LEMMA Kept ==
    ASSUME NEW o
    PROVE  Deleted({}) = live /\ Deleted({o}) = live \ WithChildren(o)
  BY DEF Deleted

\* The guard of a filled object lets go of it.
LEMMA LeaveObjectStep == IInv /\ LeaveObject => IInv'
<1>. SUFFICES ASSUME IInv, LeaveObject PROVE IInv'
  OBVIOUS
<1>1. /\ stack # <<>> /\ Nested /\ Return(Top.obj) /\ outcome = "filling"
      /\ UNCHANGED <<live, parent, outcome, root, gadgets>>
  BY DEF LeaveObject, Filling
<1>2. Top.obj \in Nat
  BY <1>1, TopIs DEF Frames
<1>3. Ended(Top.obj) /\ stack' # <<>>
  <2>1. Ended(Top.obj)
    BY <1>1, <1>2, EndedByReturning DEF IInv
  <2>2. Len(stack) \in Nat /\ Len(stack) > 1
    BY <1>1 DEF Nested, IInv, TypeOK
  <2>. QED
    BY <2>1, <2>2 DEF Ended
<1>4. live' = Deleted({}) /\ {} \in SUBSET Deletes(Top)
  BY <1>1, Kept
<1>. QED
  BY <1>1, <1>3, <1>4, EndedStep

\* A gadget or a list is done.
LEMMA LeaveValueStep == IInv /\ LeaveValue => IInv'
<1>. SUFFICES ASSUME IInv, LeaveValue PROVE IInv'
  OBVIOUS
<1>1. /\ stack # <<>> /\ Nested /\ Return(NoObject) /\ outcome = "filling"
      /\ UNCHANGED <<live, parent, outcome, root, gadgets>>
  BY DEF LeaveValue, Filling
<1>2. Ended(NoObject) /\ stack' # <<>>
  <2>1. Ended(NoObject)
    BY <1>1, EndedByReturning DEF IInv, NoObject
  <2>2. Len(stack) \in Nat /\ Len(stack) > 1
    BY <1>1 DEF Nested, IInv, TypeOK
  <2>. QED
    BY <2>1, <2>2 DEF Ended
<1>3. live' = Deleted({}) /\ {} \in SUBSET Deletes(Top)
  BY <1>1, Kept
<1>. QED
  BY <1>1, <1>2, <1>3, EndedStep

\* An object its property does not take is deleted.
LEMMA ObjectRefusedStep == IInv /\ ObjectRefused => IInv'
<1>. SUFFICES ASSUME IInv, ObjectRefused PROVE IInv'
  OBVIOUS
<1>1. /\ stack # <<>> /\ stack' = Below /\ outcome = "filling" /\ outcome' = "throwing"
      /\ live' = Deleted({Top.obj}) /\ Top.kind = "object" /\ UNCHANGED <<parent, root, gadgets>>
  BY DEF ObjectRefused, Filling
<1>2. Ended(NoObject)
  BY <1>1, EndedByThrowing DEF IInv
<1>3. {Top.obj} \in SUBSET Deletes(Top)
  BY <1>1, TopIs
<1>. QED
  BY <1>1, <1>2, <1>3, EndedStep

\* The elements of a list that cannot be converted are deleted.
LEMMA ListInconvertibleStep == IInv /\ ListInconvertible => IInv'
<1>. SUFFICES ASSUME IInv, ListInconvertible PROVE IInv'
  OBVIOUS
<1>1. /\ stack # <<>> /\ stack' = Below /\ outcome = "filling" /\ outcome' = "throwing"
      /\ live' = Deleted(Top.items) /\ Top.kind = "list" /\ UNCHANGED <<parent, root, gadgets>>
  BY DEF ListInconvertible, Filling
<1>2. Ended(NoObject)
  BY <1>1, EndedByThrowing DEF IInv
<1>3. Top.items \in SUBSET Deletes(Top)
  BY <1>1, TopIs
<1>. QED
  BY <1>1, <1>2, <1>3, EndedStep

\* An exception passes through a call, whose guard deletes its object.
LEMMA UnwindStep == IInv /\ Unwind => IInv'
<1>. SUFFICES ASSUME IInv, Unwind PROVE IInv'
  OBVIOUS
<1>1. /\ stack # <<>> /\ stack' = Below /\ outcome = "throwing"
      /\ UNCHANGED <<parent, outcome, root, gadgets>>
  BY DEF Unwind
<1>2. Ended(NoObject)
  BY <1>1, EndedByThrowing DEF IInv
<1>3. CASE Top.kind = "object"
  <2>1. live' = Deleted({Top.obj}) /\ {Top.obj} \in SUBSET Deletes(Top)
    BY <1>1, <1>3, TopIs DEF Unwind
  <2>. QED
    BY <1>1, <1>2, <2>1, EndedStep
<1>4. CASE Top.kind # "object"
  <2>1. live' = Deleted({}) /\ {} \in SUBSET Deletes(Top)
    BY <1>4, Kept DEF Unwind
  <2>. QED
    BY <1>1, <1>2, <1>4, <2>1, EndedStep
<1>. QED
  BY <1>3, <1>4

\* The outermost call returns: its value goes to the caller, nothing is deleted.
LEMMA FinishStep == IInv /\ Finish => IInv'
<1>. SUFFICES ASSUME IInv, Finish PROVE IInv'
  OBVIOUS
<1>1. CASE outcome = "filling"
  <2>1. /\ Len(stack) = 1 /\ stack' = <<>> /\ outcome' = "returned" /\ stack # <<>>
        /\ UNCHANGED <<live, parent, root, gadgets>>
    <3>1. stack = <<>> => Len(stack) = 0
      OBVIOUS
    <3>. QED
      BY <1>1, <3>1 DEF Finish
  <2>2. Ended(NoObject)
    BY <2>1 DEF Ended
  <2>3. live' = Deleted({}) /\ {} \in SUBSET Deletes(Top)
    BY <2>1, Kept
  <2>. QED
    BY <1>1, <2>1, <2>2, <2>3, EndedStep
<1>2. CASE outcome # "filling"
  <2>1. /\ stack = <<>> /\ outcome' = "thrown" /\ outcome = "throwing"
        /\ UNCHANGED <<stack, live, parent, root, gadgets>>
    BY <1>2 DEF Finish
  <2>. QED
    BY <2>1 DEF IInv, TypeOK, Family, Referred, Older, RootHeld, Accounted, Orphans, Owners,
                WithChildren, Created
<1>. QED
  BY <1>1, <1>2

\* A field is refused.
LEMMA ThrowStep == IInv /\ Throw => IInv'
<1>. SUFFICES ASSUME IInv, Throw PROVE IInv'
  OBVIOUS
<1>1. outcome' = "throwing" /\ stack # <<>> /\ UNCHANGED <<stack, live, parent, root, gadgets>>
  BY DEF Throw, Filling
<1>2. Created' = Created /\ Orphans' = Orphans /\ \A o : WithChildren(o)' = WithChildren(o)
  BY <1>1 DEF Created, Orphans, WithChildren
<1>3. TypeOK' /\ Family' /\ Referred'
  BY <1>1, <1>2 DEF IInv, TypeOK, Family, Referred
<1>4. Older' /\ RootHeld' /\ Accounted'
  BY <1>1, <1>2 DEF IInv, Older, RootHeld, Accounted, Owners
<1>. QED
  BY <1>3, <1>4 DEF IInv

\* A step that changes nothing.
LEMMA StutterStep == IInv /\ UNCHANGED vars => IInv'
<1>. SUFFICES ASSUME IInv, UNCHANGED vars PROVE IInv'
  OBVIOUS
<1>1. Created' = Created /\ Orphans' = Orphans /\ \A o : WithChildren(o)' = WithChildren(o)
  BY DEF vars, Created, Orphans, WithChildren
<1>2. TypeOK' /\ Family' /\ Referred'
  BY <1>1 DEF vars, IInv, TypeOK, Family, Referred
<1>3. Older' /\ RootHeld' /\ Accounted'
  BY <1>1 DEF vars, IInv, Older, RootHeld, Accounted, Owners
<1>. QED
  BY <1>2, <1>3 DEF IInv

\* The inductive invariant holds of every response.
THEOREM IInvHolds == Spec => []IInv
<1>1. Init => IInv
  BY InitIInv
<1>2. IInv /\ [Next]_vars => IInv'
  BY EnterObjectStep, EnterGadgetStep, EnterListStep, LeaveObjectStep, ObjectRefusedStep,
     LeaveValueStep, ListInconvertibleStep, ThrowStep, UnwindStep, FinishStep, StutterStep
     DEF Next
<1>. QED
  BY <1>1, <1>2, PTL DEF Spec

\* No guard, context or list element of a call that has not returned refers to a
\* deleted object, whatever threw.
THEOREM NothingDanglesHolds == Spec => []NothingDangles
<1>1. IInv => NothingDangles
  <2>. SUFFICES ASSUME IInv, NEW n \in DOMAIN stack
                PROVE  /\ stack[n].obj \in live \cup {NoObject}
                       /\ stack[n].ctx \in live \cup {NoObject}
                       /\ stack[n].items \subseteq live
    BY DEF NothingDangles
  <2>1. stack[n] \in Frames
    BY DEF IInv, TypeOK
  <2>2. stack[n].items \subseteq Nat \ {NoObject}
    BY <2>1 DEF Frames
  <2>. QED
    BY <2>2 DEF IInv, Referred, Refs
<1>. QED
  BY <1>1, IInvHolds, PTL

\* Whatever failed, only what a gadget held is left over, and what is below it.
THEOREM OnlyGadgetsLeakHolds == Spec => []OnlyGadgetsLeak
<1>1. IInv => OnlyGadgetsLeak
  <2>. SUFFICES ASSUME IInv PROVE OnlyGadgetsLeak
    OBVIOUS
  <2>1. ASSUME outcome = "thrown" PROVE \A x \in live : \E o \in Orphans : x \in WithChildren(o)
    <3>1. stack = <<>>
      BY <2>1 DEF IInv, Accounted
    <3>2. root # NoObject => WithChildren(root) = {}
      BY <2>1, <3>1 DEF IInv, RootHeld
    <3>. QED
      BY <3>2 DEF IInv, Accounted, Owners
  <2>2. ~gadgets => Orphans = {} /\ Owners \subseteq {root}
    BY DEF IInv, Accounted, Owners
  <2>3. ~gadgets => live \subseteq OwnedBy({root})
    BY <2>2 DEF IInv, Accounted, OwnedBy
  <2>. QED
    BY <2>1, <2>2, <2>3 DEF OnlyGadgetsLeak, OwnedBy
<1>. QED
  BY <1>1, IInvHolds, PTL

---------------------------------------------------------------------------
(* Integers.                                                               *)

\* The least number that is not in a set of numbers follows one that is.
LEMMA NaturalsAre ==
    ASSUME NEW S \in SUBSET Nat, 0 \in S, \A m \in S : m + 1 \in S
    PROVE  S = Nat
<1>. DEFINE less == {p \in Nat \X Nat : p[1] < p[2]}
            others == Nat \ S
<1>1. IsWellFoundedOn(less, Nat)
  BY NatLessThanWellFounded DEF OpToRel
<1>2. ASSUME others # {} PROVE FALSE
  <2>1. PICK x \in others : \A y \in others : <<y, x>> \notin less
    <3>1. others \subseteq Nat
      OBVIOUS
    <3>. HIDE DEF less, others
    <3>. QED
      BY <1>1, <1>2, <3>1, WFMin
  <2>2. x \in Nat /\ x # 0
    OBVIOUS
  <2>3. x - 1 \in Nat /\ x - 1 < x /\ (x - 1) + 1 = x
    BY <2>2
  <2>4. x - 1 \notin others
    <3>1. <<x - 1, x>> \in less
      BY <2>2, <2>3
    <3>. QED
      BY <2>1, <3>1
  <2>. QED
    BY <2>3, <2>4
<1>. QED
  BY <1>2

\* The powers of two up to the m-th.
PowersTo(m, f) == f = [n \in 0..m |-> IF n = 0 THEN 1 ELSE 2 * f[n - 1]]

\* For each m there is such a function.
LEMMA PowersExist == \A m \in Nat : \E f : PowersTo(m, f)
<1>. DEFINE has == {m \in Nat : \E f : PowersTo(m, f)}
<1>1. 0 \in has
  <2>1. PowersTo(0, [n \in 0..0 |-> 1])
    BY DEF PowersTo
  <2>. QED
    BY <2>1
<1>2. ASSUME NEW m \in has PROVE m + 1 \in has
  <2>1. PICK f : PowersTo(m, f)
    OBVIOUS
  <2>. DEFINE g == [n \in 0..(m + 1) |-> IF n <= m THEN f[n] ELSE 2 * f[m]]
  <2>2. /\ DOMAIN f = 0..m
        /\ \A n \in 0..m : f[n] = IF n = 0 THEN 1 ELSE 2 * f[n - 1]
    BY <2>1 DEF PowersTo
  <2>3. ASSUME NEW n \in 0..(m + 1) PROVE g[n] = IF n = 0 THEN 1 ELSE 2 * g[n - 1]
    <3>1. CASE n <= m
      <4>1. n \in 0..m /\ (n # 0 => n - 1 \in 0..(m + 1) /\ n - 1 <= m)
        BY <3>1
      <4>. QED
        BY <2>2, <3>1, <4>1
    <3>2. CASE ~(n <= m)
      <4>1. n = m + 1 /\ n # 0 /\ n - 1 = m /\ m \in 0..(m + 1) /\ m <= m
        BY <3>2
      <4>2. g[n] = 2 * f[m] /\ g[m] = f[m]
        BY <3>2, <4>1
      <4>. HIDE DEF g
      <4>. QED
        BY <4>1, <4>2
    <3>. QED
      BY <3>1, <3>2
  <2>4. PowersTo(m + 1, g)
    <3>1. g = [n \in 0..(m + 1) |-> g[n]]
      OBVIOUS
    <3>. HIDE DEF g
    <3>. QED
      BY <2>3, <3>1 DEF PowersTo
  <2>. QED
    BY <2>4
<1>. HIDE DEF has
<1>3. has = Nat
  <2>1. has \subseteq Nat
    BY DEF has
  <2>. QED
    BY <1>1, <1>2, <2>1, NaturalsAre
<1>. QED
  BY <1>3 DEF has

\* Two such functions agree.
LEMMA PowersAgree ==
    ASSUME NEW a \in Nat, NEW b \in Nat, NEW f, NEW g, PowersTo(a, f), PowersTo(b, g)
    PROVE  \A n \in Nat : n <= a /\ n <= b => f[n] = g[n]
<1>. DEFINE same == {n \in Nat : n <= a /\ n <= b => f[n] = g[n]}
<1>1. /\ \A n \in 0..a : f[n] = IF n = 0 THEN 1 ELSE 2 * f[n - 1]
      /\ \A n \in 0..b : g[n] = IF n = 0 THEN 1 ELSE 2 * g[n - 1]
  BY DEF PowersTo
<1>2. 0 \in same
  BY <1>1
<1>3. ASSUME NEW n \in same PROVE n + 1 \in same
  <2>1. CASE n + 1 <= a /\ n + 1 <= b
    <3>1. n + 1 \in 0..a /\ n + 1 \in 0..b /\ n + 1 # 0 /\ (n + 1) - 1 = n /\ f[n] = g[n]
      BY <2>1
    <3>. QED
      BY <1>1, <3>1
  <2>2. CASE ~(n + 1 <= a /\ n + 1 <= b)
    BY <2>2
  <2>. QED
    BY <2>1, <2>2
<1>. HIDE DEF same
<1>4. same = Nat
  <2>1. same \subseteq Nat
    BY DEF same
  <2>. QED
    BY <1>2, <1>3, <2>1, NaturalsAre
<1>. QED
  BY <1>4 DEF same

\* The powers of two are a function that exists.
LEMMA TwoToIs ==
    /\ TwoTo[0] = 1
    /\ \A n \in Nat : TwoTo[n + 1] = 2 * TwoTo[n]
<1>. DEFINE f == [n \in Nat |-> (CHOOSE g : PowersTo(n, g))[n]]
            Is(h) == h = [n \in Nat |-> IF n = 0 THEN 1 ELSE 2 * h[n - 1]]
<1>1. \A n \in Nat : PowersTo(n, CHOOSE g : PowersTo(n, g))
  BY PowersExist
<1>2. ASSUME NEW n \in Nat PROVE f[n] = IF n = 0 THEN 1 ELSE 2 * f[n - 1]
  <2>. DEFINE g == CHOOSE h : PowersTo(n, h)
  <2>1. PowersTo(n, g) /\ f[n] = g[n]
    BY <1>1
  <2>. HIDE DEF g
  <2>2. \A i \in 0..n : g[i] = IF i = 0 THEN 1 ELSE 2 * g[i - 1]
    BY <2>1 DEF PowersTo
  <2>3. CASE n = 0
    BY <2>1, <2>2, <2>3
  <2>4. CASE n # 0
    <3>. DEFINE e == CHOOSE h : PowersTo(n - 1, h)
    <3>1. n - 1 \in Nat /\ n - 1 <= n
      BY <2>4
    <3>2. PowersTo(n - 1, e) /\ f[n - 1] = e[n - 1]
      BY <1>1, <3>1
    <3>. HIDE DEF e, f
    <3>3. e[n - 1] = g[n - 1]
      BY <2>1, <3>1, <3>2, PowersAgree
    <3>4. g[n] = 2 * g[n - 1]
      BY <2>2, <2>4
    <3>. QED
      BY <2>1, <2>4, <3>2, <3>3, <3>4
  <2>. QED
    BY <2>3, <2>4
<1>3. Is(f)
  <2>1. f = [n \in Nat |-> f[n]]
    OBVIOUS
  <2>. HIDE DEF f
  <2>. QED
    BY <1>2, <2>1
<1>4. TwoTo = CHOOSE h : Is(h)
  BY DEF TwoTo
<1>. HIDE DEF f, Is
<1>5. Is(TwoTo)
  BY <1>3, <1>4
<1>6. \A n \in Nat : TwoTo[n] = IF n = 0 THEN 1 ELSE 2 * TwoTo[n - 1]
  BY <1>5 DEF Is
<1>. HIDE DEF TwoTo
<1>7. ASSUME NEW n \in Nat PROVE TwoTo[n + 1] = 2 * TwoTo[n]
  <2>1. n + 1 \in Nat /\ n + 1 # 0 /\ (n + 1) - 1 = n
    OBVIOUS
  <2>. QED
    BY <1>6, <2>1
<1>. QED
  BY <1>6, <1>7

\* They are positive, and each is at most half of those after it.
LEMMA TwoToGrows ==
    /\ \A n \in Nat : TwoTo[n] \in Nat \ {0}
    /\ \A m \in Nat : \A n \in Nat : m < n => 2 * TwoTo[m] <= TwoTo[n]
<1>. DEFINE some == {n \in Nat : TwoTo[n] \in Nat \ {0}}
            over == {n \in Nat : \A m \in Nat : m < n => 2 * TwoTo[m] <= TwoTo[n]}
<1>1. some = Nat
  <2>1. 0 \in some
    BY TwoToIs
  <2>2. ASSUME NEW n \in some PROVE n + 1 \in some
    <3>1. TwoTo[n] \in Nat \ {0} /\ TwoTo[n + 1] = 2 * TwoTo[n] /\ n + 1 \in Nat
      BY TwoToIs
    <3>. QED
      BY <3>1
  <2>3. some \subseteq Nat
    OBVIOUS
  <2>. HIDE DEF some
  <2>. QED
    BY <2>1, <2>2, <2>3, NaturalsAre
<1>2. over = Nat
  <2>1. 0 \in over
    OBVIOUS
  <2>2. ASSUME NEW n \in over PROVE n + 1 \in over
    <3>1. TwoTo[n + 1] = 2 * TwoTo[n] /\ n + 1 \in Nat /\ TwoTo[n] \in Nat
      BY <1>1, TwoToIs
    <3>2. ASSUME NEW m \in Nat, m < n + 1 PROVE 2 * TwoTo[m] <= TwoTo[n + 1]
      <4>1. CASE m = n
        BY <3>1, <4>1
      <4>2. CASE m < n
        <5>1. 2 * TwoTo[m] <= TwoTo[n] /\ TwoTo[m] \in Nat
          BY <1>1, <4>2
        <5>. QED
          BY <3>1, <5>1
      <4>. QED
        BY <3>2, <4>1, <4>2
    <3>. QED
      BY <3>1, <3>2
  <2>3. over \subseteq Nat
    OBVIOUS
  <2>. HIDE DEF over
  <2>. QED
    BY <2>1, <2>2, <2>3, NaturalsAre
<1>. QED
  BY <1>1, <1>2

\* As many bits and as many more.
LEMMA TwoToSum == \A a \in Nat : \A b \in Nat : TwoTo[a + b] = TwoTo[a] * TwoTo[b]
<1>. SUFFICES ASSUME NEW a \in Nat PROVE \A b \in Nat : TwoTo[a + b] = TwoTo[a] * TwoTo[b]
  OBVIOUS
<1>. DEFINE ok == {b \in Nat : TwoTo[a + b] = TwoTo[a] * TwoTo[b]}
<1>1. 0 \in ok
  BY TwoToIs, TwoToGrows
<1>2. ASSUME NEW b \in ok PROVE b + 1 \in ok
  <2>1. /\ TwoTo[b + 1] = 2 * TwoTo[b] /\ TwoTo[(a + b) + 1] = 2 * TwoTo[a + b]
        /\ TwoTo[a + b] = TwoTo[a] * TwoTo[b] /\ a + (b + 1) = (a + b) + 1 /\ b + 1 \in Nat
        /\ TwoTo[a] \in Nat /\ TwoTo[b] \in Nat
    <3>1. a + b \in Nat /\ b \in Nat
      OBVIOUS
    <3>. QED
      BY <3>1, TwoToIs, TwoToGrows
  <2>2. \A x \in Nat : \A y \in Nat : 2 * (x * y) = x * (2 * y)
    OBVIOUS
  <2>. QED
    BY <2>1, <2>2
<1>3. ok \subseteq Nat
  OBVIOUS
<1>. HIDE DEF ok
<1>4. ok = Nat
  BY <1>1, <1>2, <1>3, NaturalsAre
<1>. QED
  BY <1>4 DEF ok

\* Dividing by a natural number.
LEMMA DivMod ==
    ASSUME NEW d \in Nat \ {0}, NEW n \in Nat
    PROVE  /\ n \div d \in Nat /\ n % d \in 0..(d - 1)
           /\ n = (n \div d) * d + (n % d)
  OBVIOUS
\* What is below the divisor, and what is one divisor less.
LEMMA ModIs ==
    ASSUME NEW d \in Nat \ {0}, NEW n \in 0..(d - 1)
    PROVE  n % d = n /\ (n - d) % d = n
  OBVIOUS

\* Where the first `bits' significant digits of n end.
Ends(n, bits, k) ==
    /\ k \in 0..LongBits
    /\ Abs(n) < TwoTo[bits + k]
    /\ k > 0 => Abs(n) >= TwoTo[bits + k - 1]

\* They end in one place.
LEMMA EndsOnce ==
    ASSUME NEW bits \in Nat \ {0}, NEW n \in Int, NEW j, Ends(n, bits, j), NEW k, Ends(n, bits, k)
    PROVE  j = k
<1>1. LongBits \in Nat
  BY JsonNumbersAssumption
<1>2. ASSUME NEW i \in 0..LongBits, Ends(n, bits, i), NEW l \in 0..LongBits, Ends(n, bits, l), i < l
      PROVE  FALSE
  <2>1. /\ bits + i \in Nat /\ bits + l - 1 \in Nat /\ l > 0 /\ Abs(n) \in Nat
        /\ bits + i = bits + l - 1 \/ bits + i < bits + l - 1
    BY <1>1, <1>2 DEF Abs
  <2>2. /\ TwoTo[bits + i] \in Nat \ {0} /\ TwoTo[bits + l - 1] \in Nat \ {0}
        /\ bits + i < bits + l - 1 => 2 * TwoTo[bits + i] <= TwoTo[bits + l - 1]
    BY <2>1, TwoToGrows
  <2>3. TwoTo[bits + i] <= TwoTo[bits + l - 1]
    BY <2>1, <2>2
  <2>4. Abs(n) < TwoTo[bits + i] /\ Abs(n) >= TwoTo[bits + l - 1]
    BY <1>2, <2>1 DEF Ends
  <2>. QED
    BY <2>1, <2>2, <2>3, <2>4
<1>3. j \in 0..LongBits /\ k \in 0..LongBits
  BY DEF Ends
<1>4. ~(j < k) /\ ~(k < j)
  BY <1>2, <1>3
<1>. QED
  BY <1>1, <1>3, <1>4

\* Rounding is off by half the last digit at most, and not at all if nothing comes after it.
LEMMA RoundedIs ==
    ASSUME NEW bits \in Nat \ {0}, NEW n \in Int, NEW k, Ends(n, bits, k)
    PROVE  /\ 2 * Abs(Rounded(n, bits) - n) <= TwoTo[k]
           /\ Rounded(n, bits) \in Int
           /\ Abs(n) % TwoTo[k] = 0 => Rounded(n, bits) = n
<1>. DEFINE unit == TwoTo[k]
            a == Abs(n)
            q == a \div unit
            r == a % unit
            m == IF 2 * r > unit \/ (2 * r = unit /\ q % 2 = 1) THEN q + 1 ELSE q
<1>1. unit \in Nat \ {0} /\ a \in Nat
  <2>1. LongBits \in Nat /\ k \in Nat
    BY JsonNumbersAssumption DEF Ends
  <2>. QED
    BY <2>1, TwoToGrows DEF Abs
<1>2. Rounded(n, bits) = IF n < 0 THEN -(m * unit) ELSE m * unit
  <2>1. k = CHOOSE l \in 0..LongBits : /\ Abs(n) < TwoTo[bits + l]
                                       /\ l > 0 => Abs(n) >= TwoTo[bits + l - 1]
    <3>. DEFINE c == CHOOSE l \in 0..LongBits : /\ Abs(n) < TwoTo[bits + l]
                                                /\ l > 0 => Abs(n) >= TwoTo[bits + l - 1]
    <3>1. Ends(n, bits, c)
      BY DEF Ends
    <3>. HIDE DEF c
    <3>2. k = c
      BY <3>1, EndsOnce
    <3>. QED
      BY <3>2 DEF c
  <2>. QED
    BY <2>1 DEF Rounded
<1>3. /\ q \in Nat /\ r \in 0..(unit - 1) /\ a = q * unit + r
  BY <1>1, DivMod
<1>. HIDE DEF unit, a, q, r
<1>. DEFINE p == q * unit
<1>4. (q + 1) * unit = p + unit /\ p \in Nat
  BY <1>1, <1>3
<1>5. (m * unit = p /\ 2 * r <= unit) \/ (m * unit = p + unit /\ 2 * r >= unit)
  <2>1. CASE 2 * r > unit \/ (2 * r = unit /\ q % 2 = 1)
    <3>1. m = q + 1
      BY <2>1
    <3>2. 2 * r >= unit
      BY <1>1, <1>3, <2>1
    <3>. QED
      BY <1>4, <3>1, <3>2
  <2>2. CASE ~(2 * r > unit \/ (2 * r = unit /\ q % 2 = 1))
    <3>1. m = q
      BY <2>2
    <3>2. 2 * r <= unit
      BY <1>1, <1>3, <2>2
    <3>. QED
      BY <3>1, <3>2
  <2>. QED
    BY <2>1, <2>2
<1>6. a = p + r /\ a = IF n < 0 THEN -n ELSE n
  BY <1>3 DEF a, Abs
<1>. DEFINE s == m * unit
<1>7. (s = p /\ 2 * r <= unit) \/ (s = p + unit /\ 2 * r >= unit)
  BY <1>5
<1>8. Rounded(n, bits) = IF n < 0 THEN -s ELSE s
  BY <1>2
<1>. HIDE DEF s, p, m
<1>9. s \in Nat
  BY <1>1, <1>4, <1>7
<1>10. 2 * Abs(Rounded(n, bits) - n) <= unit
  <2>1. CASE n < 0
    <3>1. Rounded(n, bits) = -s /\ n = -(p + r)
      BY <1>1, <1>3, <1>4, <1>6, <1>8, <2>1
    <3>. QED
      BY <1>1, <1>3, <1>4, <1>7, <1>9, <3>1 DEF Abs
  <2>2. CASE ~(n < 0)
    <3>1. Rounded(n, bits) = s /\ n = p + r
      BY <1>1, <1>3, <1>4, <1>6, <1>8, <2>2
    <3>. QED
      BY <1>1, <1>3, <1>4, <1>7, <1>9, <3>1 DEF Abs
  <2>. QED
    BY <2>1, <2>2
<1>11. Rounded(n, bits) \in Int
  BY <1>8, <1>9
<1>12. r = 0 => Rounded(n, bits) = n
  BY <1>1, <1>3, <1>4, <1>6, <1>7, <1>8
<1>. QED
  BY <1>10, <1>11, <1>12 DEF unit, r, a

\* A number of up to DoubleBits digits is a double.
LEMMA DoublesExact ==
    ASSUME NEW n \in Int, Abs(n) <= TwoTo[DoubleBits]
    PROVE  ToDouble(n) = n
<1>1. /\ DoubleBits \in Nat \ {0} /\ LongBits \in Nat /\ LongBits >= 1
      /\ DoubleBits + 0 = DoubleBits /\ DoubleBits + 1 - 1 = DoubleBits
      /\ DoubleBits - 1 \in Nat /\ (DoubleBits - 1) + 1 = DoubleBits
  BY JsonNumbersAssumption
<1>2. /\ TwoTo[0] = 1 /\ TwoTo[1] = 2 /\ TwoTo[DoubleBits + 1] = 2 * TwoTo[DoubleBits]
      /\ TwoTo[DoubleBits] = 2 * TwoTo[DoubleBits - 1]
  <2>1. TwoTo[0 + 1] = 2 * TwoTo[0] /\ 0 + 1 = 1
    BY TwoToIs
  <2>2. TwoTo[(DoubleBits - 1) + 1] = 2 * TwoTo[DoubleBits - 1]
    BY <1>1, TwoToIs
  <2>. QED
    BY <1>1, <2>1, <2>2, TwoToIs
<1>3. TwoTo[DoubleBits] \in Nat \ {0} /\ TwoTo[DoubleBits - 1] \in Nat \ {0} /\ Abs(n) \in Nat
  BY <1>1, TwoToGrows DEF Abs
<1>4. CASE Abs(n) < TwoTo[DoubleBits]
  <2>1. Ends(n, DoubleBits, 0)
    BY <1>1, <1>4 DEF Ends
  <2>2. Abs(n) % TwoTo[0] = 0
    BY <1>2, <1>3
  <2>. QED
    BY <1>1, <2>1, <2>2, RoundedIs DEF ToDouble
<1>5. CASE Abs(n) = TwoTo[DoubleBits]
  <2>1. Ends(n, DoubleBits, 1)
    BY <1>1, <1>2, <1>3, <1>5 DEF Ends
  <2>2. Abs(n) % TwoTo[1] = 0
    BY <1>2, <1>3, <1>5
  <2>. QED
    BY <1>1, <2>1, <2>2, RoundedIs DEF ToDouble
<1>. QED
  BY <1>3, <1>4, <1>5

\* The ranges, and how they lie in one another.
LEMMA Widths ==
    LET s == TwoTo[ShortBits - 1]
        i == TwoTo[IntBits - 1]
        d == TwoTo[DoubleBits]
        l == TwoTo[LongBits - 1]
    IN  /\ {s, i, d, l} \subseteq Nat \ {0} /\ 2 * s <= i /\ 2 * i <= d /\ 2 * d <= l
        /\ TwoTo[ShortBits] = 2 * s /\ TwoTo[IntBits] = 2 * i /\ TwoTo[LongBits] = 2 * l
<1>1. /\ ShortBits \in Nat \ {0} /\ IntBits \in Nat \ {0} /\ DoubleBits \in Nat \ {0}
      /\ LongBits \in Nat \ {0}
      /\ ShortBits < IntBits /\ IntBits < DoubleBits /\ DoubleBits + 1 < LongBits
  BY JsonNumbersAssumption
<1>2. \A n \in Nat \ {0} : TwoTo[n] = 2 * TwoTo[n - 1] /\ TwoTo[n - 1] \in Nat \ {0}
  <2>. SUFFICES ASSUME NEW n \in Nat \ {0}
                PROVE  TwoTo[n] = 2 * TwoTo[n - 1] /\ TwoTo[n - 1] \in Nat \ {0}
    OBVIOUS
  <2>1. n - 1 \in Nat /\ (n - 1) + 1 = n
    OBVIOUS
  <2>2. TwoTo[(n - 1) + 1] = 2 * TwoTo[n - 1]
    BY <2>1, TwoToIs
  <2>. QED
    BY <2>1, <2>2, TwoToGrows
<1>3. 2 * TwoTo[ShortBits - 1] <= TwoTo[IntBits - 1]
  <2>1. ShortBits - 1 \in Nat /\ IntBits - 1 \in Nat /\ ShortBits - 1 < IntBits - 1
    BY <1>1
  <2>. QED
    BY <2>1, TwoToGrows
<1>4. 2 * TwoTo[IntBits - 1] <= TwoTo[DoubleBits]
  <2>1. IntBits - 1 \in Nat /\ DoubleBits \in Nat /\ IntBits - 1 < DoubleBits
    BY <1>1
  <2>. QED
    BY <2>1, TwoToGrows
<1>5. 2 * TwoTo[DoubleBits] <= TwoTo[LongBits - 1]
  <2>1. LongBits - 1 \in Nat /\ DoubleBits \in Nat /\ DoubleBits < LongBits - 1
    BY <1>1
  <2>. QED
    BY <2>1, TwoToGrows
<1>6. TwoTo[DoubleBits] \in Nat \ {0}
  BY <1>1, TwoToGrows
<1>. QED
  BY <1>1, <1>2, <1>3, <1>4, <1>5, <1>6

\* The bits of a number that fits are the number.
LEMMA SignedIs ==
    ASSUME NEW bits \in {ShortBits, IntBits, LongBits}, NEW v \in Signed(bits)
    PROVE  ToSigned(v, bits) = v
<1>. DEFINE h == TwoTo[bits - 1]
            t == TwoTo[bits]
<1>1. h \in Nat \ {0} /\ t = 2 * h /\ v \in -h..(h - 1)
  BY Widths DEF Signed
<1>2. ToSigned(v, bits) = IF v % t >= h THEN (v % t) - t ELSE v % t
  BY DEF ToSigned
<1>. HIDE DEF h, t
<1>3. CASE v >= 0
  <2>1. v % t = v
    BY <1>1, <1>3, ModIs
  <2>. QED
    BY <1>1, <1>2, <1>3, <2>1
<1>4. CASE v < 0
  <2>1. v + t \in 0..(t - 1) /\ (v + t) - t = v /\ t \in Nat \ {0}
    BY <1>1, <1>4
  <2>2. ((v + t) - t) % t = v + t
    BY <2>1, ModIs
  <2>3. v % t = v + t
    BY <2>1, <2>2
  <2>. QED
    BY <1>1, <1>2, <1>4, <2>1, <2>3
<1>. QED
  BY <1>1, <1>3, <1>4

\* The same of a number without a sign.
LEMMA UnsignedIs ==
    ASSUME NEW bits \in {ShortBits, IntBits, LongBits}, NEW v \in Unsigned(bits)
    PROVE  ToUnsigned(v, bits) = v
<1>. DEFINE t == TwoTo[bits]
<1>1. t \in Nat \ {0} /\ v \in 0..(t - 1)
  BY Widths DEF Unsigned
<1>2. ToUnsigned(v, bits) = v % t
  BY DEF ToUnsigned
<1>. HIDE DEF t
<1>. QED
  BY <1>1, <1>2, ModIs

\* What is in an int, or of 64 bits and in a double, is written and read as it is.
LEMMA Exactly ==
    ASSUME NEW type \in Types, NEW v \in RangeOf[type], NEW junk,
           v \in RangeOf["int"] \/ (type \in {"long", "ulong"} /\ Abs(v) <= TwoTo[DoubleBits])
    PROVE  Written(type, v) = v /\ Read(type, v, junk) = v
<1>. DEFINE s == TwoTo[ShortBits - 1]
            i == TwoTo[IntBits - 1]
            d == TwoTo[DoubleBits]
            l == TwoTo[LongBits - 1]
<1>1. /\ {s, i, d, l} \subseteq Nat \ {0} /\ 2 * s <= i /\ 2 * i <= d /\ 2 * d <= l
      /\ Signed(ShortBits) = -s..(s - 1) /\ Unsigned(ShortBits) = 0..(2 * s - 1)
      /\ Signed(IntBits) = -i..(i - 1) /\ Unsigned(IntBits) = 0..(2 * i - 1)
      /\ Signed(LongBits) = -l..(l - 1) /\ Unsigned(LongBits) = 0..(2 * l - 1)
  BY Widths DEF Signed, Unsigned
<1>2. /\ RangeOf["short"] = Signed(ShortBits) /\ RangeOf["ushort"] = Unsigned(ShortBits)
      /\ RangeOf["int"] = Signed(IntBits) /\ RangeOf["uint"] = Unsigned(IntBits)
      /\ RangeOf["long"] = Signed(LongBits) /\ RangeOf["ulong"] = Unsigned(LongBits)
      /\ Types = {"short", "ushort", "int", "uint", "long", "ulong"}
  BY DEF RangeOf, Types
<1>. HIDE DEF s, i, d, l
<1>3. v \in Int /\ Abs(v) <= d
  <2>1. v \in RangeOf["int"] => v \in Int /\ Abs(v) <= d
    BY <1>1, <1>2 DEF Abs
  <2>2. type = "long" => v \in Int
    BY <1>1, <1>2
  <2>3. type = "ulong" => v \in Int
    BY <1>1, <1>2
  <2>. QED
    BY <2>1, <2>2, <2>3 DEF d
<1>4. ToDouble(v) = v
  BY <1>3, DoublesExact DEF d
<1>5. v \in Signed(LongBits)
  BY <1>1, <1>3 DEF Abs
<1>6. type \notin {"long", "ulong"} => v \in Signed(IntBits)
  BY <1>2
<1>7. ToSigned(v, LongBits) = v
  BY <1>5, SignedIs
<1>8. v \in Signed(IntBits) => ToSigned(v, IntBits) = v /\ ToInt(v) = v
  BY <1>2, SignedIs DEF ToInt
<1>9. CASE type = "short"
  <2>1. ToSigned(v, ShortBits) = v
    BY <1>2, <1>9, SignedIs
  <2>. QED
    BY <1>6, <1>8, <1>9, <2>1 DEF Written, Read
<1>10. CASE type = "int"
  BY <1>6, <1>8, <1>10 DEF Written, Read
<1>11. CASE type = "ushort"
  <2>1. ToUnsigned(v, ShortBits) = v /\ v \in RangeOf["uint"]
    <3>1. v \in Unsigned(ShortBits)
      BY <1>2, <1>11
    <3>2. v \in Unsigned(IntBits)
      BY <1>1, <3>1
    <3>. QED
      BY <1>2, <3>1, <3>2, UnsignedIs
  <2>2. Cast(ToDouble(v), "uint", junk) = v
    BY <1>4, <2>1 DEF Cast
  <2>. QED
    BY <1>6, <1>8, <1>11, <2>1, <2>2 DEF Written, Read
<1>12. CASE type = "uint"
  <2>1. Cast(ToDouble(v), "uint", junk) = v
    BY <1>4, <1>12 DEF Cast
  <2>. QED
    BY <1>6, <1>8, <1>12, <2>1 DEF Written, Read
<1>13. CASE type = "long"
  <2>1. Cast(ToDouble(v), "long", junk) = v
    BY <1>4, <1>13 DEF Cast
  <2>. QED
    BY <1>13, <2>1 DEF Written, Read
<1>14. CASE type = "ulong"
  <2>1. Cast(ToDouble(v), "ulong", junk) = v
    BY <1>4, <1>14 DEF Cast
  <2>. QED
    BY <1>7, <1>14, <2>1 DEF Written, Read
<1>. QED
  BY <1>2, <1>9, <1>10, <1>11, <1>12, <1>13, <1>14

\* A long is read as near as a double is, if that is a long.
LEMMA Nearly ==
    ASSUME NEW v \in RangeOf["long"], NEW junk, Rounded(v, DoubleBits) \in RangeOf["long"]
    PROVE  2 * Abs(Read("long", v, junk) - v) <= TwoTo[LongBits - 1 - DoubleBits]
<1>. DEFINE l == TwoTo[LongBits - 1]
            far == {k \in Nat : Abs(v) < TwoTo[DoubleBits + k]}
            rest == LongBits - 1 - DoubleBits
<1>1. l \in Nat \ {0} /\ v \in -l..(l - 1) /\ v \in Int /\ Abs(v) \in Nat /\ Abs(v) <= l
  <2>1. l \in Nat \ {0}
    BY Widths
  <2>2. v \in -l..(l - 1)
    BY DEF RangeOf, Signed
  <2>. QED
    BY <2>1, <2>2 DEF Abs
<1>2. /\ rest \in Nat \ {0} /\ DoubleBits \in Nat \ {0} /\ LongBits \in Nat
      /\ DoubleBits + rest = LongBits - 1 /\ rest + 1 <= LongBits
  BY JsonNumbersAssumption
<1>3. Read("long", v, junk) = Rounded(v, DoubleBits)
  BY DEF Read, Cast, ToDouble
<1>4. PICK k \in 0..(rest + 1) : Ends(v, DoubleBits, k)
  <2>1. rest + 1 \in far
    <3>1. DoubleBits + (rest + 1) = LongBits /\ TwoTo[LongBits] = 2 * l
      BY <1>2, Widths
    <3>. QED
      BY <1>1, <1>2, <3>1
  <2>2. PICK k \in Nat : k \in far /\ (k = 0 \/ k - 1 \notin far)
    <3>1. ASSUME \A k \in Nat : k \in far => k # 0 /\ k - 1 \in far PROVE FALSE
      <4>. DEFINE not == {k \in Nat : k \notin far}
      <4>1. 0 \in not
        BY <3>1
      <4>2. ASSUME NEW k \in not PROVE k + 1 \in not
        <5>1. k + 1 \in Nat /\ (k + 1) - 1 = k /\ k \notin far
          OBVIOUS
        <5>. HIDE DEF far
        <5>. QED
          BY <3>1, <5>1
      <4>3. not \subseteq Nat
        OBVIOUS
      <4>. HIDE DEF not
      <4>4. not = Nat
        BY <4>1, <4>2, <4>3, NaturalsAre
      <4>. QED
        BY <1>2, <2>1, <4>4 DEF not
    <3>. QED
      BY <3>1
  <2>3. k > 0 => Abs(v) >= TwoTo[DoubleBits + k - 1]
    <3>1. ASSUME k > 0 PROVE Abs(v) >= TwoTo[DoubleBits + k - 1]
      <4>1. k - 1 \in Nat /\ DoubleBits + (k - 1) = DoubleBits + k - 1 /\ k - 1 \notin far
        BY <1>2, <2>2, <3>1
      <4>2. TwoTo[DoubleBits + (k - 1)] \in Nat
        BY <1>2, <4>1, TwoToGrows
      <4>. QED
        BY <1>1, <4>1, <4>2
    <3>. QED
      BY <3>1
  <2>4. k <= rest + 1
    <3>1. ASSUME k > rest + 1 PROVE FALSE
      <4>1. /\ DoubleBits + k - 1 \in Nat /\ LongBits - 1 \in Nat
            /\ LongBits - 1 < DoubleBits + k - 1
        BY <1>2, <3>1
      <4>2. 2 * l <= TwoTo[DoubleBits + k - 1]
        BY <4>1, TwoToGrows
      <4>3. TwoTo[DoubleBits + k - 1] \in Nat
        BY <4>1, TwoToGrows
      <4>. QED
        BY <1>1, <1>2, <2>3, <3>1, <4>2, <4>3
    <3>. QED
      BY <1>2, <3>1
  <2>. QED
    BY <1>2, <2>2, <2>3, <2>4 DEF Ends
<1>. HIDE DEF rest
<1>5. CASE k = rest + 1
  <2>1. Abs(v) = l
    <3>1. k > 0 /\ DoubleBits + k - 1 = LongBits - 1
      BY <1>2, <1>5
    <3>2. Abs(v) >= l
      BY <1>4, <3>1 DEF Ends
    <3>. QED
      BY <1>1, <3>2
  <2>2. Abs(v) % TwoTo[k] = 0
    <3>1. DoubleBits - 1 \in Nat /\ (DoubleBits - 1) + k = LongBits - 1 /\ k \in Nat
      BY <1>2, <1>5
    <3>2. l = TwoTo[DoubleBits - 1] * TwoTo[k]
      <4>1. TwoTo[(DoubleBits - 1) + k] = TwoTo[DoubleBits - 1] * TwoTo[k]
        BY <3>1, TwoToSum
      <4>. QED
        BY <3>1, <4>1
    <3>3. TwoTo[DoubleBits - 1] \in Nat /\ TwoTo[k] \in Nat \ {0}
      BY <3>1, TwoToGrows
    <3>4. \A x \in Nat : \A y \in Nat \ {0} : (x * y) % y = 0
      OBVIOUS
    <3>. QED
      BY <2>1, <3>2, <3>3, <3>4
  <2>3. Rounded(v, DoubleBits) = v
    BY <1>1, <1>2, <1>4, <2>2, RoundedIs
  <2>4. Abs(v - v) = 0 /\ TwoTo[rest] \in Nat
    BY <1>1, <1>2, TwoToGrows DEF Abs
  <2>. QED
    BY <1>3, <2>3, <2>4 DEF rest
<1>6. CASE k # rest + 1
  <2>1. k \in Nat /\ (k = rest \/ k < rest)
    BY <1>2, <1>6
  <2>2. TwoTo[k] \in Nat /\ TwoTo[rest] \in Nat /\ (k < rest => 2 * TwoTo[k] <= TwoTo[rest])
    BY <1>2, <2>1, TwoToGrows
  <2>3. TwoTo[k] <= TwoTo[rest]
    BY <2>1, <2>2
  <2>4. 2 * Abs(Rounded(v, DoubleBits) - v) <= TwoTo[k] /\ Rounded(v, DoubleBits) \in Int
    BY <1>1, <1>2, <1>4, RoundedIs
  <2>5. Abs(Rounded(v, DoubleBits) - v) \in Nat
    BY <1>1, <2>4 DEF Abs
  <2>6. 2 * Abs(Rounded(v, DoubleBits) - v) <= TwoTo[rest]
    BY <2>2, <2>3, <2>4, <2>5
  <2>. QED
    BY <1>3, <2>6 DEF rest
<1>. QED
  BY <1>5, <1>6

\* JsonSerializer.cpp:83, 234: whatever the widths, an integer property that is in an int, or
\* a 64-bit one that a double holds, is the same number in the JSON and after reading it
\* back; a longer one comes back as near as a double can be, unless that fits no more.
THEOREM IntegersSurvive ==
    \A type \in Types : \A v \in RangeOf[type] : \A junk :
        LET n == Written(type, v)
            w == Read(type, n, junk)
        IN  KeptExactly(type, v, n) /\ KeptExactly(type, v, w) /\ KeptNearly(type, v, w)
<1>. SUFFICES ASSUME NEW type \in Types, NEW v \in RangeOf[type], NEW junk
              PROVE  LET n == Written(type, v)
                         w == Read(type, n, junk)
                     IN  /\ KeptExactly(type, v, n) /\ KeptExactly(type, v, w)
                         /\ KeptNearly(type, v, w)
  OBVIOUS
<1>1. KeptExactly(type, v, Written(type, v))
  BY Exactly DEF KeptExactly
<1>2. KeptExactly(type, v, Read(type, Written(type, v), junk))
  BY Exactly DEF KeptExactly
<1>3. KeptNearly(type, v, Read(type, Written(type, v), junk))
  <2>1. type = "long" => Written(type, v) = v
    BY DEF Written
  <2>. QED
    BY <2>1, Nearly DEF KeptNearly
<1>. QED
  BY <1>1, <1>2, <1>3
=============================================================================
