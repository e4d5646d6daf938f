----------------------------- MODULE ModuleCheck -----------------------------
(***************************************************************************)
(* What Module::with_imports accepts (src/src/module.rs): the structure of *)
(* a module and, for each of its functions, the walk of validate_function  *)
(* over stack depths and initialized locals.                               *)
(*                                                                         *)
(* A module is a record: its functions (arity, number of locals, code),    *)
(* the entry, its constants, the number of its inputs and its imports.     *)
(* An instruction is an operation with an argument n, which counts from 1  *)
(* where it is an index.                                                   *)
(***************************************************************************)
EXTENDS ModuleHeap

CONSTANTS
    MaxOperands,  \* MAX_OPERAND_STACK
    MaxLocals,    \* MAX_LOCALS_PER_FUNCTION
    MaxCode,      \* MAX_MODULE_INSTRUCTIONS
    MaxConstants, \* MAX_MODULE_CONSTANT_BYTES
    MaxVisits     \* MAX_MODULE_VALIDATION_VISITS

ASSUME CheckAssumption ==
    /\ MaxOperands \in Nat
    /\ MaxLocals \in Nat
    /\ MaxCode \in Nat
    /\ MaxConstants \in Nat
    /\ MaxVisits \in Nat

Op(op, n) == [op |-> op, n |-> n]

Pushing == {"Const", "ConstValue", "Input", "LocalGet", "LocalTake", "ListNew", "MapNew"}
Binary == {"Add", "Sub", "Mul", "Div", "Eq", "Lt", "ListPush", "ListGet", "MapGet"}

Ops == Pushing \cup Binary \cup
       {"LocalSet", "Jump", "JumpIfZero", "Call", "Import", "Return", "ListLen", "MapInsert"}

Instructions == [op : Ops, n : Int]
Functions == [arity : Nat, locals : Nat, code : Seq(Instructions)]
Imports == [name : STRING, arity : Nat]

Candidates ==
    [functions : Seq(Functions), entry : Nat, constants : Seq(OwnedValues), inputs : Nat,
     imports : Seq(Imports)]

\* How many operands an instruction takes off the stack, and what it leaves.
Required(m, i) ==
    CASE i.op \in Pushing \cup {"Jump"} -> 0
      [] i.op \in {"LocalSet", "JumpIfZero", "Return", "ListLen"} -> 1
      [] i.op \in Binary -> 2
      [] i.op = "MapInsert" -> 3
      [] i.op = "Call" -> m.functions[i.n].arity
      [] i.op = "Import" -> m.imports[i.n].arity

NextDepth(m, i, depth) ==
    CASE i.op \in Pushing -> depth + 1
      [] i.op \in {"LocalSet", "JumpIfZero"} \cup Binary -> depth - 1
      [] i.op = "MapInsert" -> depth - 2
      [] i.op \in {"Call", "Import"} -> depth - Required(m, i) + 1
      [] i.op \in {"ListLen", "Jump", "Return"} -> depth

Initializes(i, init) ==
    CASE i.op = "LocalSet" -> init \cup {i.n}
      [] i.op = "LocalTake" -> init \ {i.n}
      [] OTHER -> init

\* Where an instruction at ip goes, in the order the walk puts them down.
Successors(i, ip) ==
    CASE i.op = "Return" -> <<>>
      [] i.op = "Jump" -> <<i.n>>
      [] i.op = "JumpIfZero" -> <<i.n, ip + 1>>
      [] OTHER -> <<ip + 1>>

----------------------------------------------------------------------------
\* The part of with_imports before the walk: every index is in range, every
\* function ends with RETURN and has room for its parameters.
InRange(m, f, i) ==
    /\ i.op = "ConstValue" => i.n \in DOMAIN m.constants
    /\ i.op = "Input" => i.n \in 1..m.inputs
    /\ i.op \in {"LocalGet", "LocalTake", "LocalSet"} => i.n \in 1..f.locals
    /\ i.op \in {"Jump", "JumpIfZero"} => i.n \in DOMAIN f.code
    /\ i.op = "Call" => i.n \in DOMAIN m.functions
    /\ i.op = "Import" => i.n \in DOMAIN m.imports

FunctionFits(m, f) ==
    /\ f.locals <= MaxLocals /\ f.arity <= f.locals
    /\ f.code # <<>> /\ Last(f.code).op = "Return"
    /\ \A ip \in DOMAIN f.code : InRange(m, f, f.code[ip])

WellFormed(m) ==
    /\ m.entry \in DOMAIN m.functions
    /\ m.functions[m.entry].arity = 0
    /\ m.inputs <= MaxLocals
    /\ \A i \in DOMAIN m.imports : m.imports[i].arity <= MaxOperands
    /\ \A i, j \in DOMAIN m.imports : m.imports[i].name = m.imports[j].name => i = j
    /\ \A c \in DOMAIN m.constants : OwnedDepth(m.constants[c]) <= MaxValueDepth
    /\ FoldLeft(LAMBDA n, c : n + OwnedCharge(c), 0, m.constants) <= MaxConstants
    /\ FoldLeft(LAMBDA n, f : n + Len(f.code), 0, m.functions) <= MaxCode
    /\ \A f \in Range(m.functions) : FunctionFits(m, f)

----------------------------------------------------------------------------
Unseen == [depth |-> -1, init |-> {}]

StartWalk(f, visits) ==
    [states |-> [ip \in DOMAIN f.code |-> Unseen],
     work   |-> <<[ip |-> 1, depth |-> 0, init |-> 1..f.arity]>>,
     visits |-> visits,
     max    |-> 0,
     ok     |-> TRUE]

\* What stops the walk at an instruction reached with these operands and locals.
Rejects(m, i, depth, init) ==
    \/ depth < Required(m, i)
    \/ i.op \in {"LocalGet", "LocalTake"} /\ i.n \notin init
    \/ i.op = "Return" /\ depth # 1
    \/ NextDepth(m, i, depth) > MaxOperands

\* Mutant: an instruction that was seen is not looked at again.
Merged_First(known, incoming) == IF known = Unseen THEN incoming.init ELSE known.init

\* Mutant: the way an instruction was reached last decides.
Merged_Latest(known, incoming) == incoming.init

\* A join keeps the locals that are initialized on every way that leads to it.
Merged(known, incoming) == IF known = Unseen THEN incoming.init ELSE known.init \cap incoming.init

\* One turn of the loop: the walk takes what was put down last.
Visit(m, f, w) ==
    LET top    == Last(w.work)
        rest   == [w EXCEPT !.work = Front(@), !.visits = @ - 1]
        known  == w.states[top.ip]
        init   == Merged(known, top)
        i      == f.code[top.ip]
        next   == NextDepth(m, i, top.depth)
        pushed == [j \in DOMAIN Successors(i, top.ip) |->
                     [ip |-> Successors(i, top.ip)[j], depth |-> next, init |-> Initializes(i, init)]]
    IN  IF w.visits = 0 \/ (known # Unseen /\ known.depth # top.depth)
        THEN [w EXCEPT !.ok = FALSE]
        ELSE IF known # Unseen /\ init = known.init THEN rest
        ELSE IF Rejects(m, i, top.depth, init) THEN [w EXCEPT !.ok = FALSE]
        ELSE [rest EXCEPT !.states[top.ip] = [depth |-> top.depth, init |-> init],
                          !.max = IF next > @ THEN next ELSE @,
                          !.work = @ \o pushed]

\* validate_function: turns until nothing is left to do or the walk is stopped,
\* one more at most than there are visits left.
Walk(m, f, visits) ==
    LET turn[n \in 0..(visits + 1)] ==
          IF n = 0 THEN StartWalk(f, visits)
          ELSE LET w == turn[n - 1] IN IF w.work = <<>> \/ ~w.ok THEN w ELSE Visit(m, f, w)
    IN  turn[visits + 1]

\* The functions are walked in order and share the budget of visits.
WalkOf(m, k) ==
    LET walk[j \in 1..k] == Walk(m, m.functions[j], IF j = 1 THEN MaxVisits ELSE walk[j - 1].visits)
    IN  walk[k]

Accepted(m) ==
    /\ WellFormed(m)
    /\ \A k \in DOMAIN m.functions : LET w == WalkOf(m, k) IN w.ok /\ w.work = <<>>

----------------------------------------------------------------------------
\* What a function can be at when values are ignored: instruction, depth and
\* initialized locals along every path.
Follow(m, f, c) ==
    LET i == f.code[c.ip] IN
    IF Rejects(m, i, c.depth, c.init) THEN {}
    ELSE {[ip |-> s, depth |-> NextDepth(m, i, c.depth), init |-> Initializes(i, c.init)] :
            s \in Range(Successors(i, c.ip))}

Paths(m, f) ==
    LET seen[n \in 0..(2 * Len(f.code))] ==
          IF n = 0 THEN {[ip |-> 1, depth |-> 0, init |-> 1..f.arity]}
          ELSE LET s == seen[n - 1] IN s \cup UNION {Follow(m, f, c) : c \in s}
    IN  seen[2 * Len(f.code)]

\* Some path comes to an instruction it must not come to, or two disagree on the depth.
HasCause(m, f) ==
    \E c, d \in Paths(m, f) :
        \/ Rejects(m, f.code[c.ip], c.depth, c.init)
        \/ c.ip = d.ip /\ c.depth # d.depth
==============================================================================
