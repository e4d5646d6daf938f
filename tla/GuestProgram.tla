---------------------------- MODULE GuestProgram ----------------------------
(***************************************************************************)
(* A flat A/RVM program from its input boundary to its result: the         *)
(* validator Program::new (src/src/program.rs) and the stack machine Vm    *)
(* (src/src/lib.rs) that runs what the validator accepted, or, through     *)
(* Vm::run, instructions nobody validated.                                 *)
(*                                                                         *)
(* Instructions are numbered from 0 as in the code: instruction i is       *)
(* prog[i + 1].  The i32 range is a parameter, so that overflow is within  *)
(* reach of a small instance.                                              *)
(***************************************************************************)
EXTENDS Integers, Sequences

CONSTANTS
    Half,            \* 2^31: the range of i32 is -Half..(Half - 1)
    Programs,        \* the instruction sequences callers hand over
    MaxInstructions, \* MAX_PROGRAM_INSTRUCTIONS
    MaxDepth,        \* MAX_STACK_DEPTH
    MaxSteps,        \* MAX_VM_STEPS
    MaxRuns          \* bound of the model: runs of one Vm

I32 == -Half..(Half - 1)

Binary == {"ADD", "SUB", "MUL", "DIV", "EQ", "LT"}
Plain == Binary \cup {"DUP", "POP", "SWAP", "OVER", "NEG", "NOT", "HALT"}
Ops == Plain \cup {"PUSH", "JMP", "JZ"}

\* PUSH carries an i32, a jump its target.
Instruction ==
    [op: {"PUSH"}, arg: I32] \cup [op: {"JMP", "JZ"}, arg: Nat]
    \cup [op: Plain, arg: {0}]

ASSUME ProgramAssumption ==
    /\ Half \in Nat /\ Half >= 2
    /\ Programs \subseteq Seq(Instruction)
    /\ MaxInstructions \in Nat /\ MaxDepth \in Nat
    /\ MaxSteps \in Nat /\ MaxRuns \in Nat

VARIABLES
    prog,    \* the instructions
    phase,   \* how far they have come
    valid,   \* whether Program::new accepted them
    at,      \* depth_at of the validator, Unknown for None
    work,    \* its worklist, the next entry last
    high,    \* its max_stack_depth
    stack, ip, halted,  \* the Vm
    steps,   \* instructions executed by the current call of run
    last,    \* what the last step returned
    results  \* what each call of run returned

vars == <<prog, phase, valid, at, work, high, stack, ip, halted, steps, last, results>>

Unknown == -1
Indices == 0..(Len(prog) - 1)
Phases == {"new", "walking", "rejected", "running", "done"}

Faults == {"StackUnderflow", "DivisionByZero", "IntegerOverflow", "MissingHalt",
           "EmptyStack", "InvalidJump", "StackDepthExceeded", "AlreadyHalted"}
Outcomes == Faults \cup {"none", "Executed", "Halted"}

TypeOK ==
    /\ prog \in Seq(Instruction)
    /\ phase \in Phases
    /\ valid \in BOOLEAN
    /\ at \in [Indices -> Nat \cup {Unknown}]
    /\ work \in Seq([index: Indices, depth: Nat])
    /\ high \in Nat
    /\ stack \in Seq(I32)
    /\ ip \in Nat
    /\ halted \in BOOLEAN
    /\ steps \in 0..MaxSteps
    /\ last \in Outcomes
    /\ results \in Seq(I32 \X {"Halted"} \cup {0} \X (Faults \cup {"StepLimitExceeded"}))

Init ==
    /\ prog \in Programs
    /\ phase = "new"
    /\ valid = FALSE
    /\ at = [i \in Indices |-> Unknown]
    /\ work = <<>>
    /\ high = 0
    /\ stack = <<>> /\ ip = 0 /\ halted = FALSE
    /\ steps = 0
    /\ last = "none"
    /\ results = <<>>

machine == <<stack, ip, halted, steps, last, results>>
checker == <<at, work, high>>

----------------------------------------------------------------------------
(* The validator. *)

\* The checks before the walk, unreachable instructions included.
WellFormed ==
    /\ Len(prog) \in 1..MaxInstructions
    /\ \A i \in Indices :
          /\ prog[i + 1].op = "HALT" => i + 1 = Len(prog)
          /\ prog[i + 1].op \in {"JMP", "JZ"} => prog[i + 1].arg < Len(prog)
    /\ prog[Len(prog)].op = "HALT"

\* The depth the validator asks for before an instruction...
Required(i) ==
    IF i.op \in {"PUSH", "JMP"} THEN 0
    ELSE IF i.op \in {"DUP", "POP", "JZ", "NEG", "NOT", "HALT"} THEN 1
    ELSE 2

\* Mutant: JZ keeps its condition.
NextDepth_JzKeeps(i, d) ==
    IF i.op \in {"PUSH", "DUP", "OVER"} THEN d + 1
    ELSE IF i.op \in {"POP"} \cup Binary THEN d - 1
    ELSE d

\* ... and the depth it computes after it.
NextDepth(i, d) ==
    IF i.op \in {"PUSH", "DUP", "OVER"} THEN d + 1
    ELSE IF i.op \in {"POP", "JZ"} \cup Binary THEN d - 1
    ELSE d

\* Where control can go after instruction i, in the order pushed.
Successors(i) ==
    LET ins == prog[i + 1]
    IN  CASE ins.op = "HALT" -> <<>>
          [] ins.op = "JMP"  -> <<ins.arg>>
          [] ins.op = "JZ"   -> <<ins.arg, i + 1>>
          [] OTHER           -> <<i + 1>>

Entries(i, d) == [k \in 1..Len(Successors(i)) |->
                    [index |-> Successors(i)[k], depth |-> d]]

Check ==
    /\ phase = "new"
    /\ IF WellFormed
         THEN phase' = "walking" /\ work' = <<[index |-> 0, depth |-> 0]>>
         ELSE phase' = "rejected" /\ UNCHANGED work
    /\ UNCHANGED <<prog, valid, at, high, machine>>

Entry == work[Len(work)]
Rest == SubSeq(work, 1, Len(work) - 1)

\* An instruction reached again at the depth already recorded.
Rejoin ==
    /\ phase = "walking" /\ work # <<>>
    /\ at[Entry.index] = Entry.depth
    /\ work' = Rest
    /\ UNCHANGED <<prog, phase, valid, at, high, machine>>

\* Mutant: reaching an instruction twice is an error.
FlowError_NoLoops ==
    \/ at[Entry.index] # Unknown
    \/ at[Entry.index] = Unknown /\ Entry.depth < Required(prog[Entry.index + 1])

FlowError ==
    \/ at[Entry.index] # Unknown /\ at[Entry.index] # Entry.depth
    \/ at[Entry.index] = Unknown /\ Entry.depth < Required(prog[Entry.index + 1])

RejectFlow ==
    /\ phase = "walking" /\ work # <<>>
    /\ FlowError
    /\ phase' = "rejected"
    /\ UNCHANGED <<prog, valid, checker, machine>>

Visit ==
    /\ phase = "walking" /\ work # <<>>
    /\ at[Entry.index] = Unknown
    /\ Entry.depth >= Required(prog[Entry.index + 1])
    /\ LET d == NextDepth(prog[Entry.index + 1], Entry.depth)
       IN  /\ at' = [at EXCEPT ![Entry.index] = Entry.depth]
           /\ high' = IF d > high THEN d ELSE high
           /\ work' = Rest \o Entries(Entry.index, d)
    /\ UNCHANGED <<prog, phase, valid, machine>>

Fits == high <= MaxDepth

\* The worklist is empty: the depth bound decides, and a Vm starts.
Conclude ==
    /\ phase = "walking" /\ work = <<>>
    /\ phase' = IF Fits THEN "running" ELSE "rejected"
    /\ valid' = Fits
    /\ UNCHANGED <<prog, checker, machine>>

\* Vm::run takes any slice of instructions.
RunRaw ==
    /\ phase = "new"
    /\ phase' = "running"
    /\ UNCHANGED <<prog, valid, checker, machine>>

----------------------------------------------------------------------------
(* The machine. *)

Top == stack[Len(stack)]
Second == stack[Len(stack) - 1]

Abs(n) == IF n < 0 THEN -n ELSE n

\* i32 division rounds towards zero.
Quotient(a, b) == LET q == Abs(a) \div Abs(b) IN IF (a < 0) = (b < 0) THEN q ELSE -q

Truth(b) == IF b THEN 1 ELSE 0

\* The mathematical value of an instruction that computes one.
Value(i) ==
    CASE i.op = "ADD" -> Second + Top
      [] i.op = "SUB" -> Second - Top
      [] i.op = "MUL" -> Second * Top
      [] i.op = "DIV" -> Quotient(Second, Top)
      [] i.op = "EQ"  -> Truth(Second = Top)
      [] i.op = "LT"  -> Truth(Second < Top)
      [] i.op = "NEG" -> -Top
      [] i.op = "NOT" -> Truth(Top = 0)

\* The operands each instruction looks for at run time.
Operands(i) ==
    IF i.op \in {"PUSH", "JMP"} THEN 0
    ELSE IF i.op \in {"DUP", "POP", "JZ", "NEG", "NOT", "HALT"} THEN 1
    ELSE 2

Growing == {"PUSH", "DUP", "OVER"}
Computing == Binary \cup {"NEG", "NOT"}

\* The check an instruction fails first: all of them precede its effect.
Fault(i) ==
    IF i.op \in {"JMP", "JZ"} /\ i.arg >= Len(prog) THEN "InvalidJump"
    ELSE IF Len(stack) < Operands(i)
      THEN IF i.op = "HALT" THEN "EmptyStack" ELSE "StackUnderflow"
    ELSE IF i.op \in Growing /\ Len(stack) >= MaxDepth THEN "StackDepthExceeded"
    ELSE IF i.op = "DIV" /\ Top = 0 THEN "DivisionByZero"
    ELSE IF i.op \in Computing /\ Value(i) \notin I32 THEN "IntegerOverflow"
    ELSE "none"

Drop(n) == SubSeq(stack, 1, Len(stack) - n)

\* The stack an instruction that passed its checks leaves behind.
Effect(i) ==
    CASE i.op = "PUSH" -> Append(stack, i.arg)
      [] i.op = "DUP"  -> Append(stack, Top)
      [] i.op = "OVER" -> Append(stack, Second)
      [] i.op = "SWAP" -> Append(Append(Drop(2), Top), Second)
      [] i.op \in {"POP", "JZ"} -> Drop(1)
      [] i.op \in {"NEG", "NOT"} -> Append(Drop(1), Value(i))
      [] i.op \in Binary -> Append(Drop(2), Value(i))
      [] i.op \in {"JMP", "HALT"} -> stack

\* step advances first, a jump overrides it, a fault puts it back.
IpAfter(i, fault) ==
    IF fault # "none" THEN ip
    ELSE IF i.op = "JMP" \/ (i.op = "JZ" /\ Top = 0) THEN i.arg
    ELSE ip + 1

\* Vm::step: one instruction, or a fault that changes nothing.
StepVm ==
    IF halted THEN last' = "AlreadyHalted" /\ UNCHANGED <<stack, ip, halted>>
    ELSE IF ip >= Len(prog) THEN last' = "MissingHalt" /\ UNCHANGED <<stack, ip, halted>>
    ELSE LET ins == prog[ip + 1]
             fault == Fault(ins)
         IN  /\ last' = IF fault # "none" THEN fault
                        ELSE IF ins.op = "HALT" THEN "Halted" ELSE "Executed"
             /\ stack' = IF fault = "none" THEN Effect(ins) ELSE stack
             /\ ip' = IpAfter(ins, fault)
             /\ halted' = (fault = "none" /\ ins.op = "HALT")

Spend == steps' = steps + 1

\* One turn of the loop of run and trace.
Execute ==
    /\ phase = "running" /\ steps < MaxSteps
    /\ StepVm
    /\ Spend
    /\ IF last' = "Executed"
         THEN UNCHANGED <<phase, results>>
         ELSE /\ phase' = "done"
              /\ results' = Append(results,
                    <<IF last' = "Halted" THEN Top ELSE 0, last'>>)
    /\ UNCHANGED <<prog, valid, checker>>

RunOut ==
    /\ phase = "running" /\ steps = MaxSteps
    /\ phase' = "done"
    /\ results' = Append(results, <<0, "StepLimitExceeded">>)
    /\ UNCHANGED <<prog, valid, checker, stack, ip, halted, steps, last>>

\* The debugger steps a Vm that already stopped.
StepAgain ==
    /\ phase = "done" /\ last # "Executed"
    /\ StepVm
    /\ UNCHANGED <<prog, phase, valid, checker, steps, results>>

Reset == stack' = <<>> /\ ip' = 0 /\ halted' = FALSE

\* A Vm is used for another call of run.
Rerun ==
    /\ phase = "done" /\ Len(results) < MaxRuns
    /\ Reset
    /\ phase' = "running" /\ steps' = 0 /\ last' = "none"
    /\ UNCHANGED <<prog, valid, checker, results>>

Next ==
    \/ Check \/ Rejoin \/ RejectFlow \/ Visit \/ Conclude \/ RunRaw
    \/ Execute \/ RunOut \/ StepAgain \/ Rerun

Spec == Init /\ [][Next]_vars

----------------------------------------------------------------------------
(* Properties. *)

\* What may still go wrong when a validated program runs: src/program.rs
\* leaves only data-dependent faults (and AlreadyHalted, for a caller that
\* steps a stopped Vm) to the machine.
ValidatedNeverUnderflows ==
    valid => last \notin {"StackUnderflow", "EmptyStack", "MissingHalt",
                          "InvalidJump", "StackDepthExceeded"}

\* max_stack_depth of an accepted program bounds the stack of every run.
DepthIsBounded == valid => Len(stack) <= high /\ high <= MaxDepth

\* A program is refused for its flow only if there is no way to give its
\* reachable instructions one depth each (join disagreement, underflow):
\* the verdict does not depend on the order of the walk.
Consistent(d) ==
    /\ d[0] = 0
    /\ \A i \in Indices : d[i] # Unknown =>
          /\ d[i] >= Required(prog[i + 1])
          /\ \A k \in 1..Len(Successors(i)) :
                d[Successors(i)[k]] = NextDepth(prog[i + 1], d[i])

RefusedHasNoDepths ==
    (phase = "rejected" /\ WellFormed /\ Fits) =>
        ~\E d \in [Indices -> Unknown..Len(prog)] : Consistent(d)

----------------------------------------------------------------------------
(* The invariant that explains ValidatedNeverUnderflows and DepthIsBounded. *)

\* An entry of the worklist waits for instruction i at depth d.
Pending(i, d) == \E k \in 1..Len(work) : work[k] = [index |-> i, depth |-> d]

\* Recorded, or still to be looked at.
Covered(i, d) == at[i] = d \/ Pending(i, d)

Walked == phase = "walking" \/ valid

\* Nothing runs before the validator is done.
Fresh ==
    /\ phase \in {"new", "walking", "rejected"} =>
          stack = <<>> /\ ip = 0 /\ ~halted /\ last = "none" /\ ~valid
    /\ phase = "new" => \A i \in Indices : at[i] = Unknown

Structure == Walked => WellFormed

\* Every recorded instruction has its operands, respects the bound and
\* has its successors covered.
DepthsCover == Walked =>
    /\ Covered(0, 0)
    /\ \A i \in Indices : at[i] # Unknown =>
          /\ at[i] >= Required(prog[i + 1])
          /\ NextDepth(prog[i + 1], at[i]) <= high
          /\ \A k \in 1..Len(Successors(i)) :
                Covered(Successors(i)[k], NextDepth(prog[i + 1], at[i]))

Concluded == valid => work = <<>> /\ high <= MaxDepth

\* The machine is where the validator expected it, as deep as it expected.
OnTrack == valid /\ ~halted => ip \in Indices /\ at[ip] = Len(stack)

SafeInv == /\ TypeOK /\ Fresh /\ Structure /\ DepthsCover /\ Concluded
           /\ OnTrack /\ DepthIsBounded /\ ValidatedNeverUnderflows
=============================================================================
