---------------------------- MODULE ModuleMachine ----------------------------
(***************************************************************************)
(* A machine that runs an accepted module (ModuleVm in src/src/module.rs): *)
(* frames with locals and an operand stack, a heap whose objects are freed *)
(* when the last reference to them goes, and imports that suspend the      *)
(* machine until its host answers.                                         *)
(***************************************************************************)
EXTENDS ModuleCheck

CONSTANTS
    Modules,     \* the modules that are tried
    InputLists,  \* the owned values a host may pass in
    Answers,     \* the owned values a host may answer an import with
    Granted,     \* names of the imports the host grants
    HeapLimit,   \* the host's limit on the heap
    MaxFrames,   \* MAX_CALL_FRAMES
    MaxLive,     \* MAX_LIVE_SLOTS
    MaxSteps     \* MAX_MODULE_STEPS

ASSUME MachineAssumption ==
    /\ \A m \in Modules : m \in Candidates /\ \A c \in DOMAIN m.constants : PartsFirst(m.constants[c])
    /\ \A given \in InputLists :
         given \in Seq(OwnedValues) /\ \A k \in DOMAIN given : PartsFirst(given[k])
    /\ \A answer \in Answers : answer \in OwnedValues /\ PartsFirst(answer)
    /\ {HeapLimit, MaxFrames, MaxLive, MaxSteps} \subseteq Nat

VARIABLES
    module,      \* the module the machine was made for
    phase,       \* new, refused, running, pending, done, or fault: the host gave up
    frames,      \* the call frames, the running one last
    heap,        \* the objects by their number
    heapBytes,   \* heap_bytes
    steps,
    inputs,
    result       \* the sequence that holds the result once there is one

moduleVars == <<module, phase, frames, heap, heapBytes, steps, inputs, result>>

FrameOf(k, locals) == [function |-> k, ip |-> 1, locals |-> locals, stack |-> <<>>]

Frame == Last(frames)
Stack == Frame.stack
Instruction == module.functions[Frame.function].code[Frame.ip]

\* The k-th operand from the top.
Operand(k) == Stack[Len(Stack) + 1 - k]
KindOf(v) == IF IsHeap(v) THEN heap[v.of].kind ELSE v.kind
ObjectAt(k) == heap[Operand(k).of]

LiveSlots(fs) == FoldLeft(LAMBDA n, f : n + Len(f.locals) + Len(f.stack), 0, fs)

\* Everything that holds a value outside the heap, and how often a value is held.
Places(fs) == FoldLeft(LAMBDA s, f : s \o f.locals \o f.stack, <<>>, fs)
Holds(seq, v) == Cardinality({k \in DOMAIN seq : seq[k] = v})

StrongCount(v) ==
    FoldSet(LAMBDA id, n : n + Holds(heap[id].items, v)
                             + Cardinality({e \in DOMAIN heap[id].entries : heap[id].entries[e].value = v}),
            Holds(Places(frames) \o inputs \o result, v), Ids)

\* Mutant: a collection is changed in place while others still hold it.
IsUnique_Always(v) == TRUE

IsUnique(v) == StrongCount(v) = 1

----------------------------------------------------------------------------
\* The machine after an instruction: what nothing refers to any more is dropped
\* and its charge given back.
Becomes(fs, h, bytes, res) ==
    LET live == Range(Places(fs) \o inputs' \o res) IN
    /\ frames' = fs
    /\ result' = res
    /\ heap' = Collected(h, live)
    /\ heapBytes' = bytes - Charges(h, InUse(h) \ Reach(h, live))

\* The running frame with its top n operands replaced by a value, and the next instruction.
Replaced(n, v) ==
    [frames EXCEPT ![Len(frames)].stack = Append(SubSeq(@, 1, Len(@) - n), v),
                   ![Len(frames)].ip = @ + 1]

Fits(charge) == heapBytes + charge <= HeapLimit

\* What an instruction asks of the heap before it does anything.
Reserves(i) ==
    CASE i.op = "ConstValue" -> OwnedCharge(module.constants[i.n])
      [] i.op \in {"ListNew", "MapNew"} -> ObjectCharge
      [] i.op = "ListPush" -> ValueCharge + IF IsUnique(Operand(2)) THEN 0 ELSE ChargeOf(ObjectAt(2))
      [] i.op = "MapInsert" ->
           InsertCharge(ObjectAt(3), ObjectAt(2).text) + IF IsUnique(Operand(3)) THEN 0 ELSE ObjectAt(3).charge
      [] OTHER -> 0

\* How deep the value an instruction makes is.
Deepens(i) ==
    CASE i.op = "ConstValue" -> OwnedDepth(module.constants[i.n])
      [] i.op = "ListPush" -> PushedDepth(heap, Operand(2), Operand(1))
      [] i.op = "MapInsert" -> InsertedDepth(heap, ObjectAt(3), ObjectAt(2).text, Operand(1))
      [] OTHER -> 0

Arithmetic(op, a, b) ==
    CASE op = "Add" -> a + b
      [] op = "Sub" -> a - b
      [] op = "Mul" -> a * b
      [] op = "Div" -> IF b = 0 THEN MaxInt + 1
                       ELSE IF (a >= 0) = (b > 0) THEN (IF a < 0 THEN -a ELSE a) \div (IF b < 0 THEN -b ELSE b)
                       ELSE -((IF a < 0 THEN -a ELSE a) \div (IF b < 0 THEN -b ELSE b))

\* The errors a module that was accepted cannot run into.
Malformed(i) ==
    \/ Len(Stack) < Required(module, i)
    \/ i.op \in {"LocalGet", "LocalTake"} /\ Frame.locals[i.n] = None
    \/ i.op \in Pushing /\ Len(Stack) >= MaxOperands
    \/ i.op = "Return" /\ Len(frames) > 1 /\ Len(frames[Len(frames) - 1].stack) >= MaxOperands

\* The errors that depend on the values.
Integers2 == KindOf(Operand(1)) = "integer" /\ KindOf(Operand(2)) = "integer"

Mistyped(i) ==
    CASE i.op \in {"Add", "Sub", "Mul", "Div"} ->
           ~Integers2 \/ Arithmetic(i.op, Operand(2).of, Operand(1).of) \notin MinInt..MaxInt
      [] i.op = "Lt" -> ~Integers2
      [] i.op = "Eq" -> IsHeap(Operand(1)) \/ IsHeap(Operand(2))
      [] i.op = "JumpIfZero" -> KindOf(Operand(1)) \notin {"integer", "bool"}
      [] i.op = "ListPush" -> KindOf(Operand(2)) # "list"
      [] i.op = "ListLen" -> KindOf(Operand(1)) # "list"
      [] i.op = "ListGet" ->
           \/ KindOf(Operand(1)) # "integer" \/ KindOf(Operand(2)) # "list"
           \/ Operand(1).of \notin 0..(Len(ObjectAt(2).items) - 1)
      [] i.op = "MapInsert" -> KindOf(Operand(2)) # "text" \/ KindOf(Operand(3)) # "map"
      [] i.op = "MapGet" ->
           \/ KindOf(Operand(1)) # "text" \/ KindOf(Operand(2)) # "map"
           \/ Entry(ObjectAt(2), ObjectAt(1).text) = {}
      [] i.op = "Input" -> i.n \notin DOMAIN inputs
      [] i.op = "Import" -> module.imports[i.n].name \notin Granted
      [] OTHER -> FALSE

\* The errors of a limit.
Exhausted(i) ==
    \/ steps >= MaxSteps
    \/ i.op \in Pushing /\ LiveSlots(frames) >= MaxLive
    \/ Deepens(i) > MaxValueDepth
    \/ ~Fits(Reserves(i))
    \/ /\ i.op = "Call"
       /\ \/ Len(frames) >= MaxFrames
          \/ LiveSlots(frames) - Required(module, i) + module.functions[i.n].locals > MaxLive

Fails(i) == IF Malformed(i) THEN TRUE ELSE IF Mistyped(i) THEN TRUE ELSE Exhausted(i)

----------------------------------------------------------------------------
ModuleInit ==
    /\ module \in Modules
    /\ phase = "new" /\ frames = <<>> /\ heap = [id \in Ids |-> Free] /\ heapBytes = 0
    /\ steps = 0 /\ inputs = <<>> /\ result = <<>>

RefuseModule ==
    /\ phase = "new" /\ ~Accepted(module)
    /\ phase' = "refused"
    /\ UNCHANGED <<module, frames, heap, heapBytes, steps, inputs, result>>

EntryFrame == FrameOf(module.entry, [l \in 1..module.functions[module.entry].locals |-> None])

\* ModuleVm::new: no inputs and no grants; the default limit is the host's here.
StartBare ==
    /\ phase = "new" /\ Accepted(module)
    /\ phase' = "running" /\ frames' = <<EntryFrame>>
    /\ UNCHANGED <<module, heap, heapBytes, steps, inputs, result>>

LetIn(acc, o) ==
    [heap |-> Imported(acc.heap, o).heap, values |-> Append(acc.values, ImportedValue(acc.heap, o))]

\* with_inputs_and_imports: all inputs are charged before any is let in.
StartWithInputs ==
    \E given \in InputLists :
        LET all == FoldLeft(LetIn, [heap |-> heap, values |-> <<>>], given)
            charge == FoldLeft(LAMBDA n, o : n + OwnedCharge(o), 0, given)
        IN  /\ phase = "new" /\ Accepted(module)
            /\ Len(given) = module.inputs /\ given # <<>>
            /\ \A k \in DOMAIN given : OwnedDepth(given[k]) <= MaxValueDepth
            /\ Fits(charge) /\ HasRoom(heap, FoldLeft(LAMBDA n, o : n + Len(o.objects), 0, given))
            /\ phase' = "running" /\ frames' = <<EntryFrame>>
            /\ inputs' = all.values /\ heap' = all.heap /\ heapBytes' = charge
            /\ UNCHANGED <<module, steps, result>>

Runs(ops) ==
    /\ phase = "running" /\ Instruction.op \in ops /\ ~Fails(Instruction)
    /\ UNCHANGED <<module, inputs>>

Counts == steps' = steps + 1 /\ UNCHANGED phase

\* An instruction whose result replaces its operands and makes no object.
Pure(v) == Becomes(Replaced(Required(module, Instruction), v), heap, heapBytes, result) /\ Counts

Push ==
    /\ Runs({"Const", "Input", "LocalGet"})
    /\ Pure(CASE Instruction.op = "Const" -> Integer(Instruction.n)
              [] Instruction.op = "Input" -> inputs[Instruction.n]
              [] Instruction.op = "LocalGet" -> Frame.locals[Instruction.n])

LocalTake ==
    /\ Runs({"LocalTake"})
    /\ Becomes([Replaced(0, Frame.locals[Instruction.n])
                  EXCEPT ![Len(frames)].locals[Instruction.n] = None], heap, heapBytes, result)
    /\ Counts

LocalSet ==
    /\ Runs({"LocalSet"})
    /\ Becomes([frames EXCEPT ![Len(frames)].locals[Instruction.n] = Operand(1),
                              ![Len(frames)].stack = Front(@),
                              ![Len(frames)].ip = @ + 1], heap, heapBytes, result)
    /\ Counts

Compute ==
    /\ Runs({"Add", "Sub", "Mul", "Div", "Eq", "Lt"})
    /\ Pure(CASE Instruction.op = "Eq" -> Bool(Operand(2) = Operand(1))
              [] Instruction.op = "Lt" -> Bool(Operand(2).of < Operand(1).of)
              [] OTHER -> Integer(Arithmetic(Instruction.op, Operand(2).of, Operand(1).of)))

\* ConstValue: the constant is let in anew each time.
PushConstant ==
    /\ Runs({"ConstValue"})
    /\ LET owned == module.constants[Instruction.n] IN
       /\ HasRoom(heap, Len(owned.objects))
       /\ Becomes(Replaced(0, ImportedValue(heap, owned)), Imported(heap, owned).heap,
                  heapBytes + OwnedCharge(owned), result)
    /\ Counts

NewCollection ==
    /\ Runs({"ListNew", "MapNew"})
    /\ HasRoom(heap, 1)
    /\ Becomes(Replaced(0, Reference(NewId(heap))),
               Allocated(heap, IF Instruction.op = "ListNew" THEN List(<<>>) ELSE Map(<<>>), ObjectCharge, 0),
               heapBytes + ObjectCharge, result)
    /\ Counts

\* The collection that is changed in place when the instruction holds the only
\* reference to it, and is copied otherwise.
Changes(v, changed, charge, depth) ==
    IF IsUnique(v)
    THEN Becomes(Replaced(Required(module, Instruction), v),
                 [heap EXCEPT ![v.of] = [changed EXCEPT !.charge = charge, !.depth = depth]],
                 heapBytes + charge - heap[v.of].charge, result)
    ELSE /\ HasRoom(heap, 1)
         /\ Becomes(Replaced(Required(module, Instruction), Reference(NewId(heap))),
                    Allocated(heap, changed, charge, depth), heapBytes + charge, result)

\* A list that is changed adds to its charge; a copy's is counted from its items.
ListPush ==
    /\ Runs({"ListPush"})
    /\ Changes(Operand(2), [ObjectAt(2) EXCEPT !.items = Append(@, Operand(1))],
               ValueCharge + IF IsUnique(Operand(2)) THEN ObjectAt(2).charge ELSE ChargeOf(ObjectAt(2)),
               Deepens(Instruction))
    /\ Counts

MapInsert ==
    /\ Runs({"MapInsert"})
    /\ Changes(Operand(3), Inserted(ObjectAt(3), ObjectAt(2).text, Operand(1)),
               ObjectAt(3).charge + InsertCharge(ObjectAt(3), ObjectAt(2).text), Deepens(Instruction))
    /\ Counts

Lookup ==
    /\ Runs({"ListGet", "ListLen", "MapGet"})
    /\ Pure(CASE Instruction.op = "ListGet" -> ObjectAt(2).items[Operand(1).of + 1]
              [] Instruction.op = "ListLen" -> Integer(Len(ObjectAt(1).items))
              [] Instruction.op = "MapGet" ->
                   ObjectAt(2).entries[CHOOSE e \in Entry(ObjectAt(2), ObjectAt(1).text) : TRUE].value)
    /\ Counts

Jump ==
    /\ Runs({"Jump", "JumpIfZero"})
    /\ Becomes([frames EXCEPT
                  ![Len(frames)].stack = IF Instruction.op = "Jump" THEN @ ELSE Front(@),
                  ![Len(frames)].ip = IF Instruction.op = "Jump" \/ Operand(1).of = 0
                                      THEN Instruction.n ELSE @ + 1], heap, heapBytes, result)
    /\ Counts

Call ==
    /\ Runs({"Call"})
    /\ LET callee == module.functions[Instruction.n]
           base   == Len(Stack) - callee.arity
           locals == [l \in 1..callee.locals |-> IF l <= callee.arity THEN Stack[base + l] ELSE None]
       IN  Becomes(Append([frames EXCEPT ![Len(frames)].stack = SubSeq(@, 1, base),
                                         ![Len(frames)].ip = @ + 1],
                          FrameOf(Instruction.n, locals)), heap, heapBytes, result)
    /\ Counts

Return ==
    /\ Runs({"Return"})
    /\ IF Len(frames) = 1
       THEN Becomes(frames, heap, heapBytes, <<Operand(1)>>) /\ phase' = "done"
       ELSE /\ Becomes([Front(frames) EXCEPT ![Len(frames) - 1].stack = Append(@, Operand(1))],
                       heap, heapBytes, result)
            /\ UNCHANGED phase
    /\ steps' = steps + 1

\* An import the host granted suspends the machine; the step is not counted yet.
Import ==
    /\ Runs({"Import"})
    /\ phase' = "pending"
    /\ UNCHANGED <<frames, heap, heapBytes, steps, result>>

\* resume_import with an answer that is within the limits.
Resume ==
    \E answer \in Answers :
        LET arity == module.imports[Instruction.n].arity IN
        /\ phase = "pending"
        /\ arity = 0 => Len(Stack) < MaxOperands /\ LiveSlots(frames) < MaxLive
        /\ OwnedDepth(answer) <= MaxValueDepth /\ Fits(OwnedCharge(answer))
        /\ HasRoom(heap, Len(answer.objects))
        /\ phase' = "running" /\ steps' = steps + 1
        /\ UNCHANGED <<module, inputs>>
        /\ Becomes(Replaced(arity, ImportedValue(heap, answer)), Imported(heap, answer).heap,
                   heapBytes + OwnedCharge(answer), result)

\* A step that fails leaves the machine as it was; the host stops.
Fail ==
    /\ phase = "running" /\ Fails(Instruction)
    /\ phase' = "fault"
    /\ UNCHANGED <<module, frames, heap, heapBytes, steps, inputs, result>>

ModuleNext ==
    \/ RefuseModule \/ StartBare \/ StartWithInputs
    \/ Push \/ LocalTake \/ LocalSet \/ Compute \/ PushConstant \/ NewCollection
    \/ ListPush \/ MapInsert \/ Lookup \/ Jump \/ Call \/ Return
    \/ Import \/ Resume \/ Fail

ModuleSpec == ModuleInit /\ [][ModuleNext]_moduleVars

----------------------------------------------------------------------------
\* A module that was accepted never takes an operand that is not there, reads a
\* local that is not initialized or overflows an operand stack, whatever its
\* loops, calls and imports do (the errors ModuleVm keeps for what validation
\* must have excluded).
ValidatedNeverMalformed == phase = "running" => ~Malformed(Instruction)

\* Validation refuses a well-formed module only for cause: in some function a path
\* leads to an instruction it must not lead to, or two paths to the same instruction
\* bring different depths; revisiting and merging lose nothing and always end.
RefusedForCause ==
    (phase = "refused" /\ WellFormed(module)) =>
        \E f \in Range(module.functions) : HasCause(module, f)

\* The counter of heap bytes is what the live objects would be charged if they
\* were made now, within the limit, and the recorded depth of each is its real
\* depth, through copies, changes in place, dropped references and failed steps.
HeapAccounted ==
    /\ heapBytes = FoldSet(LAMBDA id, n : n + ChargeOf(heap[id]), 0, InUse(heap))
    /\ heapBytes <= HeapLimit
    /\ \A id \in InUse(heap) :
         /\ heap[id].charge = ChargeOf(heap[id])
         /\ heap[id].depth = DepthOf(heap, heap[id])
         /\ heap[id].depth <= MaxValueDepth

\* The position of the collection that a changing instruction takes.
Target == CASE Instruction.op = "ListPush" -> {Len(Stack) - 1}
            [] Instruction.op = "MapInsert" -> {Len(Stack) - 2}
            [] OTHER -> {}

Others == Range(Places(Front(frames)) \o Frame.locals \o inputs)
            \cup {Stack[k] : k \in DOMAIN Stack \ Target}

\* Values are values: an object that anything but the consumed operand still
\* reaches is never changed by a push or an insertion.
SharedValuesNeverChange ==
    [][phase = "running" =>
         \A id \in Reach(heap, Others) : heap'[id] \in {heap[id], Free}]_moduleVars
==============================================================================
