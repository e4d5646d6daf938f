----------------------------- MODULE ModuleHeap -----------------------------
(***************************************************************************)
(* The values of a module's machine (src/src/module.rs lines 35-133 and 871-945).   *)
(* A value is a scalar or refers to an object of the heap, which is text,  *)
(* a list or a map; bytes behave as text does.  An object carries the      *)
(* charge it was made with and its depth.  An owned value, which crosses   *)
(* the machine's border, is given as the objects import makes of it,       *)
(* parts first, and the value that stands for the whole; a reference in it *)
(* is a position in that list.                                             *)
(***************************************************************************)
EXTENDS Integers, Sequences, FiniteSets, SequencesExt, FiniteSetsExt

CONSTANTS
    Names,         \* keys of maps, all of the same length
    MinInt, MaxInt,\* the width of an integer
    ObjectCharge,  \* HEAP_OBJECT_CHARGE
    ValueCharge,   \* size_of::<Value>()
    EntryCharge,   \* MAP_ENTRY_CHARGE with a key's length
    MaxValueDepth, \* MAX_VALUE_DEPTH
    Ids            \* bound of the model: the numbers objects are told apart by

ASSUME HeapAssumption ==
    /\ MinInt \in Int /\ MaxInt \in Int
    /\ {ObjectCharge, ValueCharge, EntryCharge, MaxValueDepth} \subseteq Nat
    /\ Ids \subseteq Nat \ {0} /\ IsFiniteSet(Ids)

Integer(n) == [kind |-> "integer", of |-> n]
Bool(b) == [kind |-> "bool", of |-> IF b THEN 1 ELSE 0]
Reference(id) == [kind |-> "heap", of |-> id]
None == [kind |-> "none", of |-> 0]

IsHeap(v) == v.kind = "heap"

Free == [kind |-> "free", text |-> "", items |-> <<>>, entries |-> <<>>, charge |-> 0, depth |-> 0]

\* A value of the machine, an object, and an owned value, whose references are
\* positions of parts that come first.
HeapValues(ids) == [kind : {"integer", "bool"}, of : Int] \cup [kind : {"heap"}, of : ids]

HeapObjects(ids) ==
    [kind : {"text", "list", "map"}, text : Names \cup {""}, items : Seq(HeapValues(ids)),
     entries : Seq([key : Names \cup {""}, value : HeapValues(ids)]), charge : Nat, depth : Nat]

\* What an object holds: a map is a sequence of entries in no particular order.
Parts(o) == Range(o.items) \cup {o.entries[e].value : e \in DOMAIN o.entries}

PartIds(o) == {v.of : v \in {p \in Parts(o) : IsHeap(p)}}

OwnedValues == [objects : Seq(HeapObjects(Nat)), value : HeapValues(Nat)]

PartsFirst(owned) ==
    /\ \A k \in DOMAIN owned.objects : PartIds(owned.objects[k]) \subseteq 1..(k - 1)
    /\ IsHeap(owned.value) => owned.value.of \in DOMAIN owned.objects

\* import and value_charge count alike.
ChargeOf(o) ==
    ObjectCharge + CASE o.kind = "text" -> 1
                     [] o.kind = "list" -> ValueCharge * Len(o.items)
                     [] o.kind = "map" -> EntryCharge * Len(o.entries)

DepthIn(h, v) == IF IsHeap(v) THEN h[v.of].depth ELSE 0

\* One deeper than the deepest part.
DepthOf(h, o) == IF Parts(o) = {} THEN 0 ELSE Max({DepthIn(h, v) + 1 : v \in Parts(o)})

----------------------------------------------------------------------------
NewId(h) == Min({id \in Ids : h[id] = Free})
HasRoom(h, n) == Cardinality({id \in Ids : h[id] = Free}) >= n

\* allocate: a new object, with the charge and depth its maker gives it.
Allocated(h, o, charge, depth) ==
    [h EXCEPT ![NewId(h)] = [o EXCEPT !.charge = charge, !.depth = depth]]

Text(name) == [Free EXCEPT !.kind = "text", !.text = name]
List(items) == [Free EXCEPT !.kind = "list", !.items = items]
Map(entries) == [Free EXCEPT !.kind = "map", !.entries = entries]

\* What all objects of an owned value will be charged.
OwnedCharge(owned) == FoldLeft(LAMBDA n, o : n + ChargeOf(o), 0, owned.objects)

\* How deep an owned value is; a value deeper than the limit is not let in.
OwnedDepth(owned) ==
    LET depths == FoldLeft(LAMBDA d, o :
                     Append(d, IF Parts(o) = {} THEN 0
                               ELSE Max({(IF IsHeap(v) THEN d[v.of] ELSE 0) + 1 : v \in Parts(o)})),
                     <<>>, owned.objects)
    IN  IF IsHeap(owned.value) THEN depths[owned.value.of] ELSE 0

\* import: the objects of an owned value, each placed where there is room.
Placed(acc, o) ==
    LET at(v) == IF IsHeap(v) THEN Reference(acc.ids[v.of]) ELSE v
        placed == [o EXCEPT !.items = [i \in DOMAIN @ |-> at(@[i])],
                            !.entries = [e \in DOMAIN @ |-> [key |-> @[e].key, value |-> at(@[e].value)]]]
    IN  [heap |-> Allocated(acc.heap, placed, ChargeOf(placed), DepthOf(acc.heap, placed)),
         ids  |-> Append(acc.ids, NewId(acc.heap))]

Imported(h, owned) == FoldLeft(Placed, [heap |-> h, ids |-> <<>>], owned.objects)

ImportedValue(h, owned) ==
    IF IsHeap(owned.value) THEN Reference(Imported(h, owned).ids[owned.value.of]) ELSE owned.value

----------------------------------------------------------------------------
\* The objects that can be reached from a set of values: what Rc keeps alive.
Reach(h, values) ==
    FoldSet(LAMBDA id, found : found \cup UNION {PartIds(h[j]) : j \in found},
            {v.of : v \in {x \in values : IsHeap(x)}}, Ids)

Charges(h, ids) == FoldSet(LAMBDA id, n : n + h[id].charge, 0, ids)

InUse(h) == {id \in Ids : h[id] # Free}

Collected(h, values) == [id \in Ids |-> IF id \in Reach(h, values) THEN h[id] ELSE Free]

----------------------------------------------------------------------------
\* How list_push and map_insert find the depth of what they make.
PushedDepth(h, list, value) ==
    Max({DepthIn(h, list), DepthIn(h, value) + 1})

Entry(o, name) == {e \in DOMAIN o.entries : o.entries[e].key = name}

\* Mutant: a map never becomes shallower.
InsertedDepth_Max(h, o, name, value) == Max({o.depth, DepthIn(h, value) + 1})

InsertedDepth(h, o, name, value) ==
    LET new == DepthIn(h, value) + 1
        others == {DepthIn(h, o.entries[e].value) + 1 : e \in DOMAIN o.entries \ Entry(o, name)}
    IN  IF /\ \E e \in Entry(o, name) : DepthIn(h, o.entries[e].value) + 1 = o.depth
           /\ new < o.depth
        THEN Max(others \cup {0, new})
        ELSE Max({o.depth, new})

Inserted(o, name, value) ==
    IF Entry(o, name) = {}
    THEN [o EXCEPT !.entries = Append(@, [key |-> name, value |-> value])]
    ELSE [o EXCEPT !.entries = [e \in DOMAIN @ |->
            IF e \in Entry(o, name) THEN [key |-> name, value |-> value] ELSE @[e]]]

InsertCharge(o, name) == IF Entry(o, name) = {} THEN EntryCharge ELSE 0
==============================================================================
