------------------------- MODULE GuestProgramProofs -------------------------
(***************************************************************************)
(* Theorems about GuestProgram and the Debugger over it, for every         *)
(* program, every word width and every bound: what the validator accepts   *)
(* runs within the bounds it declared and only fails for its data, what it *)
(* refuses for its flow has no consistent depths, and the page lists the   *)
(* program its session holds.                                              *)
(***************************************************************************)
EXTENDS Debugger, SequenceTheorems, TLAPS

USE ProgramAssumption DEF ProgramAssumption

\* Instruction i of the program is an instruction of the machine.
LEMMA InstructionAt ==
    ASSUME TypeOK, NEW i \in Indices
    PROVE  prog[i + 1] \in Instruction /\ Len(prog) \in Nat /\ i \in Nat
  BY DEF TypeOK, Indices

\* In a well-formed program control never leaves the program.
LEMMA SuccessorsInside ==
    ASSUME TypeOK, WellFormed, NEW i \in Indices, NEW k \in 1..Len(Successors(i))
    PROVE  Successors(i)[k] \in Indices
<1> DEFINE ins == prog[i + 1]
<1>0. /\ ins \in Instruction /\ Len(prog) \in Nat /\ i \in Nat
      /\ i < Len(prog) /\ Len(prog) > 0
  BY InstructionAt DEF WellFormed, Indices
<1>1. CASE ins.op = "HALT"
  <2>1. Successors(i) = <<>>
    BY <1>1 DEF Successors
  <2> QED BY <2>1
<1>2. CASE ins.op \in {"JMP", "JZ"}
  <2>1. ins.arg \in 0..(Len(prog) - 1)
    <3>1. ins.arg < Len(prog)
      BY <1>2 DEF WellFormed
    <3>2. ins.arg \in Nat
      BY <1>0, <1>2 DEF Instruction, Plain, Binary
    <3> QED BY <3>1, <3>2, <1>0
  <2>2. ins.op = "JZ" => i + 1 \in 0..(Len(prog) - 1)
    BY <1>0 DEF WellFormed, Indices
  <2>3. \/ ins.op = "JMP" /\ Successors(i) = <<ins.arg>>
        \/ ins.op = "JZ" /\ Successors(i) = <<ins.arg, i + 1>>
    BY <1>2 DEF Successors
  <2> QED BY <2>1, <2>2, <2>3 DEF Indices
<1>3. CASE ins.op \notin {"HALT", "JMP", "JZ"}
  <2>1. Successors(i) = <<i + 1>>
    BY <1>3 DEF Successors
  <2>2. i + 1 # Len(prog)
    BY <1>3 DEF WellFormed
  <2> QED BY <1>0, <2>1, <2>2 DEF Indices
<1> QED BY <1>1, <1>2, <1>3

\* Enough operands keep the depth a natural number.
LEMMA NextDepthNat ==
    ASSUME NEW i \in Instruction, NEW d \in Nat, d >= Required(i)
    PROVE  NextDepth(i, d) \in Nat
  BY DEF Required, NextDepth, Instruction, Plain, Binary

\* The stack after an instruction has the depth the validator computes.
LEMMA EffectDepth ==
    ASSUME NEW i \in Instruction, stack \in Seq(I32), Len(stack) >= Operands(i)
    PROVE  Len(Effect(i)) = NextDepth(i, Len(stack))
<1>1. Len(stack) \in Nat
  OBVIOUS
<1>2. ASSUME NEW n \in 0..2, n <= Len(stack)
      PROVE  Drop(n) \in Seq(I32) /\ Len(Drop(n)) = Len(stack) - n
  BY <1>2 DEF Drop
<1>3. CASE i.op \in {"PUSH", "DUP", "OVER"}
  BY <1>3 DEF Effect, NextDepth, Binary
<1>4. CASE i.op = "SWAP"
  <2>1. Len(stack) >= 2
    BY <1>4 DEF Operands
  <2>2. Effect(i) = Append(Append(Drop(2), Top), Second)
    BY <1>4 DEF Effect, Binary
  <2>3. Drop(2) \in Seq(I32) /\ Len(Drop(2)) = Len(stack) - 2
    BY <1>2, <2>1
  <2>4. Top \in I32 /\ Second \in I32
    BY <2>1 DEF Top, Second
  <2>5. NextDepth(i, Len(stack)) = Len(stack)
    BY <1>4 DEF NextDepth, Binary
  <2> QED BY <2>1, <2>2, <2>3, <2>4, <2>5
<1>5. CASE i.op \in {"POP", "JZ"}
  <2>1. Len(stack) >= 1
    BY <1>5 DEF Operands
  <2> QED BY <1>2, <1>5, <2>1 DEF Effect, NextDepth, Binary
<1>6. CASE i.op \in {"NEG", "NOT"}
  <2>1. Len(stack) >= 1
    BY <1>6 DEF Operands
  <2>2. Effect(i) = Append(Drop(1), Value(i))
    BY <1>6 DEF Effect, Binary
  <2>3. Drop(1) \in Seq(I32) /\ Len(Drop(1)) = Len(stack) - 1
    BY <1>2, <2>1
  <2>4. NextDepth(i, Len(stack)) = Len(stack)
    BY <1>6 DEF NextDepth, Binary
  <2> QED BY <2>1, <2>2, <2>3, <2>4
<1>7. CASE i.op \in Binary
  <2>1. Len(stack) >= 2
    BY <1>7 DEF Operands, Binary
  <2>2. Effect(i) = Append(Drop(2), Value(i))
    BY <1>7 DEF Effect, Binary
  <2>3. Drop(2) \in Seq(I32) /\ Len(Drop(2)) = Len(stack) - 2
    BY <1>2, <2>1
  <2>4. NextDepth(i, Len(stack)) = Len(stack) - 1
    BY <1>7 DEF NextDepth, Binary
  <2> QED BY <2>1, <2>2, <2>3, <2>4
<1>8. CASE i.op \in {"JMP", "HALT"}
  BY <1>8 DEF Effect, NextDepth, Binary
<1> QED BY <1>3, <1>4, <1>5, <1>6, <1>7, <1>8 DEF Instruction, Plain

\* An instruction that passes its checks leaves a stack of i32 values.
LEMMA EffectTyped ==
    ASSUME NEW i \in Instruction, stack \in Seq(I32), Fault(i) = "none"
    PROVE  Effect(i) \in Seq(I32)
<1>0. Len(stack) \in Nat
  OBVIOUS
<1>1. Len(stack) >= Operands(i)
  BY DEF Fault, Operands
<1>2. ASSUME NEW n \in 0..2, n <= Len(stack) PROVE Drop(n) \in Seq(I32)
  BY <1>2 DEF Drop
<1>3. CASE i.op \in {"PUSH", "DUP", "OVER"}
  <2>1. i.op = "PUSH" => i.arg \in I32
    BY DEF Instruction, Plain, Binary
  <2>2. i.op = "DUP" => Top \in I32
    BY <1>0, <1>1 DEF Operands, Top
  <2>3. i.op = "OVER" => Second \in I32
    BY <1>0, <1>1 DEF Operands, Second
  <2>4. \/ i.op = "PUSH" /\ Effect(i) = Append(stack, i.arg)
        \/ i.op = "DUP" /\ Effect(i) = Append(stack, Top)
        \/ i.op = "OVER" /\ Effect(i) = Append(stack, Second)
    BY <1>3 DEF Effect, Binary
  <2> QED BY <2>1, <2>2, <2>3, <2>4
<1>4. CASE i.op = "SWAP"
  <2>1. Len(stack) >= 2
    BY <1>1, <1>4 DEF Operands
  <2>2. Effect(i) = Append(Append(Drop(2), Top), Second)
    BY <1>4 DEF Effect, Binary
  <2>3. Drop(2) \in Seq(I32)
    BY <1>0, <1>2, <2>1
  <2>4. Top \in I32 /\ Second \in I32
    BY <1>0, <2>1 DEF Top, Second
  <2> QED BY <2>2, <2>3, <2>4
<1>5. CASE i.op \in {"POP", "JZ"}
  <2>1. Len(stack) >= 1
    BY <1>1, <1>5 DEF Operands
  <2>2. Effect(i) = Drop(1)
    BY <1>5 DEF Effect, Binary
  <2> QED BY <1>0, <1>2, <2>1, <2>2
<1>6. CASE i.op \in Computing
  <2>1. Value(i) \in I32
    BY <1>6 DEF Fault
  <2>2. CASE i.op \in {"NEG", "NOT"}
    <3>1. Len(stack) >= 1
      BY <1>1, <2>2 DEF Operands
    <3>2. Effect(i) = Append(Drop(1), Value(i))
      BY <2>2 DEF Effect, Binary
    <3>3. Drop(1) \in Seq(I32)
      BY <1>0, <1>2, <3>1
    <3> QED BY <2>1, <3>2, <3>3
  <2>3. CASE i.op \in Binary
    <3>1. Len(stack) >= 2
      BY <1>1, <2>3 DEF Operands, Binary
    <3>2. Effect(i) = Append(Drop(2), Value(i))
      BY <2>3 DEF Effect, Binary
    <3>3. Drop(2) \in Seq(I32)
      BY <1>0, <1>2, <3>1
    <3> QED BY <2>1, <3>2, <3>3
  <2> QED BY <1>6, <2>2, <2>3 DEF Computing
<1>7. CASE i.op \in {"JMP", "HALT"}
  BY <1>7 DEF Effect, Binary
<1> QED BY <1>3, <1>4, <1>5, <1>6, <1>7 DEF Instruction, Plain, Computing

\* Faults are what Fault says they are.
LEMMA FaultTyped == \A i : Fault(i) \in Faults \cup {"none"}
  BY DEF Fault, Faults

\* A step of the machine keeps its type.
LEMMA StepVmTyped ==
    ASSUME TypeOK, StepVm
    PROVE  stack' \in Seq(I32) /\ ip' \in Nat /\ halted' \in BOOLEAN /\ last' \in Outcomes
<1>1. CASE halted \/ ip >= Len(prog)
  BY <1>1 DEF StepVm, TypeOK, Outcomes, Faults
<1>2. CASE ~halted /\ ~(ip >= Len(prog))
  <2> DEFINE ins == prog[ip + 1]
  <2>1. ins \in Instruction /\ Len(prog) \in Nat /\ ip \in Nat
    <3>1. ip \in Indices
      BY <1>2 DEF TypeOK, Indices
    <3> QED BY <3>1, InstructionAt
  <2>2. last' \in Outcomes
    <3>1. Fault(ins) \in Faults \cup {"none"}
      BY FaultTyped
    <3>2. last' = IF Fault(ins) # "none" THEN Fault(ins)
                  ELSE IF ins.op = "HALT" THEN "Halted" ELSE "Executed"
      BY <1>2 DEF StepVm
    <3> QED BY <3>1, <3>2 DEF Outcomes
  <2>3. stack' \in Seq(I32)
    <3>1. CASE Fault(ins) = "none"
      <4>1. stack' = Effect(ins)
        BY <1>2, <3>1 DEF StepVm
      <4>2. stack \in Seq(I32)
        BY DEF TypeOK
      <4> QED BY <2>1, <3>1, <4>1, <4>2, EffectTyped
    <3>2. CASE Fault(ins) # "none"
      BY <1>2, <3>2 DEF StepVm, TypeOK
    <3> QED BY <3>1, <3>2
  <2>4. ip' \in Nat
    <3>1. ip' = IpAfter(ins, Fault(ins))
      BY <1>2 DEF StepVm
    <3>2. ins.op \in {"JMP", "JZ"} => ins.arg \in Nat
      BY <2>1 DEF Instruction, Plain, Binary
    <3> QED BY <2>1, <3>1, <3>2 DEF IpAfter
  <2>5. halted' \in BOOLEAN
    BY <1>2 DEF StepVm
  <2> QED BY <2>2, <2>3, <2>4, <2>5
<1> QED BY <1>1, <1>2

\* The front of the worklist keeps every entry but the last.
LEMMA RestKeeps ==
    ASSUME TypeOK, work # <<>>
    PROVE  /\ Rest \in Seq([index: Indices, depth: Nat])
           /\ Len(Rest) = Len(work) - 1 /\ Len(work) \in Nat \ {0}
           /\ \A k \in 1..Len(Rest) : Rest[k] = work[k]
           /\ Entry \in [index: Indices, depth: Nat]
<1> DEFINE E == [index: Indices, depth: Nat]
<1> HIDE DEF E
<1>1. work \in Seq(E)
  BY DEF TypeOK, E
<1>2. Len(work) \in Nat \ {0}
  BY <1>1
<1>3. Rest \in Seq(E) /\ Len(Rest) = Len(work) - 1
  <2>1. \A k \in 1..(Len(work) - 1) : work[k] \in E
    BY <1>1, <1>2
  <2>2. 1 \in Int /\ Len(work) - 1 \in Int /\ Len(work) >= 1
    BY <1>2
  <2>3. /\ SubSeq(work, 1, Len(work) - 1) \in Seq(E)
        /\ Len(SubSeq(work, 1, Len(work) - 1)) =
              IF 1 <= Len(work) - 1 THEN Len(work) - 1 - 1 + 1 ELSE 0
    BY <2>1, <2>2, SubSeqProperties
  <2>4. \A n \in Nat \ {0} : (IF 1 <= n - 1 THEN n - 1 - 1 + 1 ELSE 0) = n - 1
    OBVIOUS
  <2> QED BY <1>2, <2>3, <2>4, Zenon DEF Rest
<1>4. \A k \in 1..Len(Rest) : Rest[k] = work[k]
  BY <1>1, <1>2, <1>3 DEF Rest
<1>5. Entry \in E
  BY <1>1, <1>2 DEF Entry
<1> QED BY <1>2, <1>3, <1>4, <1>5 DEF E

\* The entries the validator pushes are well typed and hold every successor.
LEMMA EntriesTyped ==
    ASSUME TypeOK, WellFormed, NEW i \in Indices, NEW d \in Nat
    PROVE  /\ Entries(i, d) \in Seq([index: Indices, depth: Nat])
           /\ Len(Entries(i, d)) = Len(Successors(i))
           /\ Len(Successors(i)) \in Nat
           /\ \A k \in 1..Len(Successors(i)) :
                 Entries(i, d)[k] = [index |-> Successors(i)[k], depth |-> d]
<1>1. Len(Successors(i)) \in Nat
  BY DEF Successors
<1>2. \A k \in 1..Len(Successors(i)) : Successors(i)[k] \in Indices
  BY SuccessorsInside
<1>3. \A k \in 1..Len(Successors(i)) :
         [index |-> Successors(i)[k], depth |-> d] \in [index: Indices, depth: Nat]
  BY <1>2
<1> QED BY <1>1, <1>3 DEF Entries

\* The first state has its type.
LEMMA TypesInit == Init => TypeOK /\ Structure
<1> SUFFICES ASSUME Init PROVE TypeOK /\ Structure
  OBVIOUS
<1>1. prog \in Seq(Instruction) /\ at \in [Indices -> Nat \cup {Unknown}]
  BY DEF Init
<1>2. phase \in Phases /\ last \in Outcomes /\ steps \in 0..MaxSteps
  BY DEF Init, Phases, Outcomes
<1>3. /\ stack \in Seq(I32)
      /\ work \in Seq([index: Indices, depth: Nat])
      /\ results \in Seq(I32 \X {"Halted"} \cup {0} \X (Faults \cup {"StepLimitExceeded"}))
  BY DEF Init
<1>4. Structure
  BY DEF Init, Structure, Walked
<1> QED BY <1>1, <1>2, <1>3, <1>4 DEF Init, TypeOK

\* The walk stays inside the program because only well-formed programs are
\* walked: TypeOK needs Structure to be inductive.
LEMMA TypesPreserved ==
    ASSUME TypeOK, Structure, [Next]_vars
    PROVE  TypeOK' /\ Structure'
<1>1. Structure'
  <2>1. prog' = prog
    BY DEF Next, Check, Rejoin, RejectFlow, Visit, Conclude, RunRaw, Execute, RunOut,
           StepAgain, Rerun, vars
  <2>2. WellFormed => WellFormed'
    BY <2>1 DEF WellFormed, Indices
  <2>3. Walked' => Walked \/ WellFormed
    BY DEF Walked, Next, Check, Rejoin, RejectFlow, Visit, Conclude, RunRaw, Execute,
           RunOut, StepAgain, Rerun, vars
  <2> QED BY <2>2, <2>3 DEF Structure
<1>2. TypeOK'
  <2> DEFINE Returned == I32 \X {"Halted"} \cup {0} \X (Faults \cup {"StepLimitExceeded"})
  <2>1. CASE Check
    <3>1. WellFormed => <<[index |-> 0, depth |-> 0]>> \in Seq([index: Indices, depth: Nat])
      <4>1. WellFormed => 0 \in Indices
        BY DEF WellFormed, Indices, TypeOK
      <4> QED BY <4>1
    <3>2. work' \in Seq([index: Indices, depth: Nat]) /\ phase' \in Phases
      BY <2>1, <3>1 DEF Check, TypeOK, Phases
    <3> QED BY <2>1, <3>2 DEF Check, TypeOK, machine, Indices
  <2>2. CASE Rejoin
    BY <2>2, RestKeeps DEF Rejoin, TypeOK, machine, Indices
  <2>3. CASE RejectFlow
    BY <2>3 DEF RejectFlow, TypeOK, machine, checker, Phases, Indices
  <2>4. CASE Conclude
    BY <2>4 DEF Conclude, TypeOK, machine, checker, Phases, Indices, Fits
  <2>5. CASE RunRaw
    BY <2>5 DEF RunRaw, TypeOK, machine, checker, Phases, Indices
  <2>6. CASE Execute
    <3>1. StepVm /\ steps' = steps + 1 /\ steps < MaxSteps
      BY <2>6 DEF Execute, Spend
    <3>2. steps' \in 0..MaxSteps
      BY <3>1 DEF TypeOK
    <3>3. results' \in Seq(Returned)
      <4>1. CASE last' = "Executed"
        BY <2>6, <4>1 DEF Execute, TypeOK
      <4>2. CASE last' = "Halted"
        <5>1. Top \in I32
          <6>1. ~halted /\ ip < Len(prog)
            BY <3>1, <4>2 DEF StepVm, TypeOK
          <6>2. prog[ip + 1] \in Instruction
            <7>1. ip \in Indices
              BY <6>1 DEF TypeOK, Indices
            <7> QED BY <7>1, InstructionAt
          <6>3. Fault(prog[ip + 1]) = "none" /\ prog[ip + 1].op = "HALT"
            BY <3>1, <4>2, <6>1 DEF StepVm, TypeOK, Fault
          <6>4. Len(stack) >= 1
            BY <6>3 DEF Fault, Operands, TypeOK
          <6> QED BY <6>4 DEF TypeOK, Top
        <5>2. <<Top, "Halted">> \in Returned
          BY <5>1
        <5>3. results' = Append(results, <<Top, "Halted">>)
          BY <2>6, <4>2 DEF Execute
        <5> QED BY <5>2, <5>3 DEF TypeOK
      <4>3. CASE last' \notin {"Executed", "Halted"}
        <5>1. last' \in Faults
          BY <3>1, <4>3, FaultTyped DEF StepVm, Faults
        <5>2. <<0, last'>> \in Returned
          BY <5>1
        <5>3. results' = Append(results, <<0, last'>>)
          BY <2>6, <4>3 DEF Execute
        <5> QED BY <5>2, <5>3 DEF TypeOK
      <4> QED BY <4>1, <4>2, <4>3
    <3>4. phase' \in Phases
      BY <2>6 DEF Execute, TypeOK, Phases
    <3> QED BY <2>6, <3>1, <3>2, <3>3, <3>4, StepVmTyped DEF Execute, TypeOK, checker, Indices
  <2>7. CASE RunOut
    <3>1. <<0, "StepLimitExceeded">> \in Returned
      OBVIOUS
    <3>2. results' \in Seq(Returned)
      BY <2>7, <3>1 DEF RunOut, TypeOK
    <3> QED BY <2>7, <3>2 DEF RunOut, TypeOK, checker, Phases, Indices
  <2>8. CASE StepAgain
    BY <2>8, StepVmTyped DEF StepAgain, TypeOK, checker, Indices
  <2>9. CASE Rerun
    <3>1. stack' = <<>> /\ ip' = 0 /\ halted' = FALSE
      BY <2>9 DEF Rerun, Reset
    <3>2. phase' \in Phases /\ last' \in Outcomes /\ steps' \in 0..MaxSteps
      BY <2>9 DEF Rerun, Phases, Outcomes
    <3>3. stack' \in Seq(I32)
      BY <3>1, EmptySeq, Zenon
    <3> QED BY <2>9, <3>1, <3>2, <3>3 DEF Rerun, TypeOK, checker, Indices
  <2>10. CASE Visit
    <3> DEFINE ins == prog[Entry.index + 1]
               d == NextDepth(ins, Entry.depth)
    <3>1. Entry \in [index: Indices, depth: Nat]
          /\ Rest \in Seq([index: Indices, depth: Nat])
      BY <2>10, RestKeeps DEF Visit
    <3>2. d \in Nat
      <4>1. ins \in Instruction /\ Entry.depth \in Nat /\ Entry.depth >= Required(ins)
        BY <2>10, <3>1, InstructionAt DEF Visit
      <4> QED BY <4>1, NextDepthNat
    <3>3. high' \in Nat /\ at' \in [Indices -> Nat \cup {Unknown}]
      BY <2>10, <3>1, <3>2 DEF Visit, TypeOK
    <3>4. WellFormed /\ Entry.index \in Indices
      BY <2>10, <3>1 DEF Visit, Structure, Walked
    <3>5. work' \in Seq([index: Indices, depth: Nat])
      <4>1. work' = Rest \o Entries(Entry.index, d)
        BY <2>10 DEF Visit
      <4>2. Entries(Entry.index, d) \in Seq([index: Indices, depth: Nat])
        BY <3>2, <3>4, EntriesTyped
      <4> QED BY <3>1, <4>1, <4>2
    <3> QED BY <2>10, <3>3, <3>5 DEF Visit, TypeOK, machine, Indices
  <2>11. CASE UNCHANGED vars
    BY <2>11 DEF vars, TypeOK, Indices
  <2> QED BY <2>1, <2>2, <2>3, <2>4, <2>5, <2>6, <2>7, <2>8, <2>9, <2>10, <2>11 DEF Next
<1> QED BY <1>1, <1>2

\* Type correctness of the validator's walk and of the machine
\* (Program::new and Vm), for every program.
THEOREM ProgramTypes == Spec => []TypeOK
<1>1. Init => TypeOK /\ Structure
  BY TypesInit
<1>2. TypeOK /\ Structure /\ [Next]_vars => TypeOK' /\ Structure'
  BY TypesPreserved
<1> QED BY <1>1, <1>2, PTL DEF Spec

\* A step of the machine on a validated program stays on the validator's
\* track: the heart of the argument.
LEMMA MachineOnTrack ==
    ASSUME SafeInv, valid, StepVm, UNCHANGED <<prog, valid, at, work, high>>
    PROVE  OnTrack' /\ DepthIsBounded' /\ ValidatedNeverUnderflows'
<1> USE DEF SafeInv
<1>1. CASE halted
  BY <1>1 DEF StepVm, OnTrack, DepthIsBounded, ValidatedNeverUnderflows
<1>2. CASE ~halted
  <2> DEFINE ins == prog[ip + 1]
             d == Len(stack)
  <2>1. ip \in Indices /\ at[ip] = d
    BY <1>2 DEF OnTrack
  <2>2. ins \in Instruction /\ Len(prog) \in Nat /\ ip \in Nat /\ ip < Len(prog)
    <3>1. ip < Len(prog) /\ ip \in Nat /\ Len(prog) \in Nat
      BY <2>1 DEF TypeOK, Indices
    <3> QED BY <2>1, <3>1, InstructionAt
  <2>3. d \in Nat /\ stack \in Seq(I32) /\ high \in Nat
    BY DEF TypeOK
  <2>4. /\ d >= Required(ins)
        /\ NextDepth(ins, d) <= high
        /\ \A k \in 1..Len(Successors(ip)) : Covered(Successors(ip)[k], NextDepth(ins, d))
    <3>1. at[ip] # Unknown
      BY <2>1, <2>3 DEF Unknown
    <3> QED BY <2>1, <3>1 DEF DepthsCover, Walked
  <2>5. d >= Operands(ins)
    BY <2>4 DEF Required, Operands
  <2>6. work = <<>> /\ high <= MaxDepth
    BY DEF Concluded
  <2>7. \A k \in 1..Len(Successors(ip)) : at[Successors(ip)[k]] = NextDepth(ins, d)
    BY <2>4, <2>6 DEF Covered, Pending
  <2>8. Fault(ins) \notin {"StackUnderflow", "EmptyStack", "InvalidJump", "StackDepthExceeded",
                           "MissingHalt"}
    <3>1. ins.op \in {"JMP", "JZ"} => ins.arg < Len(prog)
      BY <2>1 DEF Structure, Walked, WellFormed
    <3>2. ins.op \in {"JMP", "JZ"} => ins.arg \in Nat
      BY <2>2 DEF Instruction, Plain, Binary
    <3>3. ins.op \in Growing => d < MaxDepth
      <4>1. ins.op \in Growing => NextDepth(ins, d) = d + 1
        BY DEF Growing, NextDepth
      <4> QED BY <2>3, <2>4, <2>6, <4>1
    <3>4. Operands(ins) \in Nat
      BY DEF Operands
    <3> QED BY <2>2, <2>3, <2>5, <3>1, <3>2, <3>3, <3>4 DEF Fault
  <2>9. last' = IF Fault(ins) # "none" THEN Fault(ins)
                ELSE IF ins.op = "HALT" THEN "Halted" ELSE "Executed"
    BY <1>2, <2>2 DEF StepVm
  <2>10. ValidatedNeverUnderflows'
    BY <2>8, <2>9 DEF ValidatedNeverUnderflows
  <2>11. CASE Fault(ins) # "none"
    <3>1. stack' = stack /\ ip' = ip
      BY <1>2, <2>2, <2>11 DEF StepVm, IpAfter
    <3> QED BY <2>1, <2>10, <3>1 DEF OnTrack, DepthIsBounded, Indices
  <2>12. CASE Fault(ins) = "none"
    <3>1. stack' = Effect(ins) /\ Len(stack') = NextDepth(ins, d)
      <4>1. stack' = Effect(ins)
        BY <1>2, <2>2, <2>12 DEF StepVm
      <4> QED BY <2>2, <2>3, <2>5, <4>1, EffectDepth
    <3>2. DepthIsBounded'
      BY <2>4, <2>6, <3>1 DEF DepthIsBounded
    <3>3. CASE ins.op = "HALT"
      <4>1. halted'
        <5>1. ~(ip >= Len(prog))
          BY <2>2
        <5>2. halted' = (Fault(ins) = "none" /\ ins.op = "HALT")
          BY <1>2, <5>1, Zenon DEF StepVm
        <5> QED BY <2>12, <3>3, <5>2, Zenon
      <4>2. OnTrack'
        BY <4>1 DEF OnTrack
      <4> QED BY <2>10, <3>2, <4>2
    <3>4. CASE ins.op # "HALT"
      <4>1. PICK k \in 1..Len(Successors(ip)) : ip' = Successors(ip)[k]
        <5>1. ip' = IpAfter(ins, "none")
          BY <1>2, <2>2, <2>12 DEF StepVm
        <5>2. CASE ins.op = "JMP"
          <6>1. Successors(ip) = <<ins.arg>> /\ ip' = ins.arg
            BY <5>1, <5>2 DEF Successors, IpAfter
          <6> QED BY <6>1
        <5>3. CASE ins.op = "JZ"
          <6>1. Successors(ip) = <<ins.arg, ip + 1>>
            BY <5>3 DEF Successors
          <6>2. ip' = ins.arg \/ ip' = ip + 1
            BY <5>1, <5>3 DEF IpAfter
          <6> QED BY <6>1, <6>2
        <5>4. CASE ins.op \notin {"JMP", "JZ"}
          <6>1. Successors(ip) = <<ip + 1>> /\ ip' = ip + 1
            BY <3>4, <5>1, <5>4 DEF Successors, IpAfter
          <6> QED BY <6>1
        <5> QED BY <5>2, <5>3, <5>4
      <4>2. ip' \in Indices
        <5>1. WellFormed
          BY DEF Structure, Walked
        <5> QED BY <2>1, <4>1, <5>1, SuccessorsInside
      <4>3. at[ip'] = Len(stack')
        BY <2>7, <3>1, <4>1
      <4> QED BY <2>10, <3>2, <4>2, <4>3 DEF OnTrack, Indices
    <3> QED BY <3>3, <3>4
  <2> QED BY <2>11, <2>12
<1> QED BY <1>1, <1>2

\* Taking the last entry off the worklist uncovers nothing else.
LEMMA PendingInRest ==
    ASSUME TypeOK, work # <<>>, NEW i, NEW d, Pending(i, d),
           ~(i = Entry.index /\ d = Entry.depth)
    PROVE  \E k \in 1..Len(Rest) : Rest[k] = [index |-> i, depth |-> d]
<1>1. PICK k \in 1..Len(work) : work[k] = [index |-> i, depth |-> d]
  BY DEF Pending
<1>2. k # Len(work)
  BY <1>1 DEF Entry
<1>3. k \in 1..Len(Rest) /\ Rest[k] = work[k]
  <2>1. Len(Rest) = Len(work) - 1 /\ Len(work) \in Nat \ {0}
    BY RestKeeps
  <2>2. k \in 1..Len(Rest)
    BY <1>2, <2>1
  <2> QED BY <2>2, RestKeeps
<1> QED BY <1>1, <1>3

\* Covered after the step, with the arguments read before it.
CoveredNext(i, d) ==
    \/ at'[i] = d
    \/ \E k \in 1..Len(work') : work'[k] = [index |-> i, depth |-> d]

\* DepthsCover after a step of the walk, with its program read before it.
LEMMA CoverNext ==
    ASSUME prog' = prog,
           CoveredNext(0, 0),
           \A i \in Indices : at'[i] # Unknown =>
              /\ at'[i] >= Required(prog[i + 1])
              /\ NextDepth(prog[i + 1], at'[i]) <= high'
              /\ \A k \in 1..Len(Successors(i)) :
                    CoveredNext(Successors(i)[k], NextDepth(prog[i + 1], at'[i]))
    PROVE  DepthsCover'
<1>1. Indices' = Indices
  BY DEF Indices
<1>2. \A i : Successors(i)' = Successors(i)
  BY DEF Successors
<1> QED BY <1>1, <1>2 DEF DepthsCover, CoveredNext, Covered, Pending

\* A joined path that agrees with the recorded depth loses no cover.
LEMMA RejoinCovers == ASSUME SafeInv, Rejoin PROVE DepthsCover'
<1> USE DEF SafeInv
<1>1. /\ work' = Rest /\ work # <<>> /\ at[Entry.index] = Entry.depth
      /\ UNCHANGED <<prog, phase, valid, at, high>>
  BY DEF Rejoin
<1>2. ASSUME NEW i, NEW d, Covered(i, d) PROVE CoveredNext(i, d)
  <2>1. CASE at[i] = d
    BY <1>1, <2>1 DEF CoveredNext
  <2>2. CASE Pending(i, d) /\ ~(at[i] = d)
    <3>1. ~(i = Entry.index /\ d = Entry.depth)
      BY <1>1, <2>2
    <3>2. \E k \in 1..Len(Rest) : Rest[k] = [index |-> i, depth |-> d]
      BY <1>1, <2>2, <3>1, PendingInRest
    <3> QED BY <1>1, <3>2 DEF CoveredNext
  <2> QED BY <1>2, <2>1, <2>2 DEF Covered
<1>3. Walked
  BY DEF Rejoin, Walked
<1>4. CoveredNext(0, 0)
  BY <1>2, <1>3 DEF DepthsCover
<1>5. \A i \in Indices : at[i] # Unknown =>
         /\ at[i] >= Required(prog[i + 1])
         /\ NextDepth(prog[i + 1], at[i]) <= high
         /\ \A k \in 1..Len(Successors(i)) :
               CoveredNext(Successors(i)[k], NextDepth(prog[i + 1], at[i]))
  BY <1>2, <1>3, Zenon DEF DepthsCover
<1> QED BY <1>1, <1>4, <1>5, CoverNext

\* A first visit records the instruction and queues what follows it.
LEMMA VisitCovers == ASSUME SafeInv, Visit PROVE DepthsCover'
<1> USE DEF SafeInv
<1> DEFINE e == Entry.index
           ins == prog[e + 1]
           d == NextDepth(ins, Entry.depth)
           E == Entries(e, d)
           Item == [index: Indices, depth: Nat]
<1>1. /\ work # <<>> /\ at[e] = Unknown /\ Entry.depth >= Required(ins)
      /\ at' = [at EXCEPT ![e] = Entry.depth]
      /\ high' = IF d > high THEN d ELSE high
      /\ work' = Rest \o E
      /\ UNCHANGED <<prog, phase, valid>>
  BY DEF Visit
<1>2. Walked /\ WellFormed
  BY DEF Visit, Walked, Structure
<1>3. e \in Indices /\ Entry.depth \in Nat
  BY <1>1, RestKeeps
<1>4. d \in Nat
  BY <1>1, <1>3, InstructionAt, NextDepthNat
<1>5. high \in Nat /\ high' \in Nat /\ high <= high' /\ d <= high'
  BY <1>1, <1>4 DEF TypeOK
<1>6. /\ Rest \in Seq(Item)
      /\ E \in Seq(Item)
      /\ Len(E) = Len(Successors(e)) /\ Len(Successors(e)) \in Nat
      /\ \A k \in 1..Len(Successors(e)) : E[k] = [index |-> Successors(e)[k], depth |-> d]
  BY <1>1, <1>2, <1>3, <1>4, RestKeeps, EntriesTyped
<1>7. /\ Len(work') = Len(Rest) + Len(E) /\ Len(Rest) \in Nat
      /\ \A k \in 1..Len(Rest) : work'[k] = Rest[k]
      /\ \A k \in 1..Len(E) : work'[Len(Rest) + k] = E[k]
  <2> HIDE DEF E, Item
  <2>1. /\ Len(Rest \o E) = Len(Rest) + Len(E)
        /\ \A k \in 1..(Len(Rest) + Len(E)) :
              (Rest \o E)[k] = IF k <= Len(Rest) THEN Rest[k] ELSE E[k - Len(Rest)]
    BY <1>6, ConcatProperties
  <2>2. Len(Rest) \in Nat /\ Len(E) \in Nat
    BY <1>6
  <2>3. \A k \in 1..Len(Rest) : (Rest \o E)[k] = Rest[k]
    BY <2>1, <2>2
  <2>4. ASSUME NEW k \in 1..Len(E) PROVE (Rest \o E)[Len(Rest) + k] = E[k]
    <3>1. /\ Len(Rest) + k \in 1..(Len(Rest) + Len(E))
          /\ ~(Len(Rest) + k <= Len(Rest)) /\ Len(Rest) + k - Len(Rest) = k
      BY <2>2
    <3> QED BY <2>1, <3>1
  <2> QED BY <1>1, <2>1, <2>2, <2>3, <2>4
<1>8. ASSUME NEW i \in Indices, NEW n \in Nat, Covered(i, n) PROVE CoveredNext(i, n)
  <2>1. CASE at[i] = n
    <3>1. i # e
      BY <1>1, <1>8, <2>1 DEF Unknown
    <3> QED BY <1>1, <2>1, <3>1 DEF CoveredNext, TypeOK
  <2>2. CASE i = e /\ n = Entry.depth
    BY <1>1, <1>3, <2>2 DEF CoveredNext, TypeOK
  <2>3. CASE Pending(i, n) /\ ~(i = e /\ n = Entry.depth)
    <3>1. PICK k \in 1..Len(Rest) : Rest[k] = [index |-> i, depth |-> n]
      BY <1>1, <2>3, PendingInRest
    <3>2. work'[k] = [index |-> i, depth |-> n]
      BY <1>7, <3>1
    <3>3. Len(E) \in Nat
      BY <1>6
    <3>4. k \in 1..Len(work')
      <4> HIDE DEF E
      <4> QED BY <1>7, <3>3
    <3> QED BY <3>2, <3>4 DEF CoveredNext
  <2> QED BY <1>8, <2>1, <2>2, <2>3 DEF Covered
<1>9. 0 \in Indices
  BY <1>2 DEF WellFormed, Indices, TypeOK
<1>10. CoveredNext(0, 0)
  BY <1>2, <1>8, <1>9 DEF DepthsCover
<1>11. ASSUME NEW i \in Indices, at'[i] # Unknown
       PROVE  /\ at'[i] >= Required(prog[i + 1])
              /\ NextDepth(prog[i + 1], at'[i]) <= high'
              /\ \A k \in 1..Len(Successors(i)) :
                    CoveredNext(Successors(i)[k], NextDepth(prog[i + 1], at'[i]))
  <2>1. CASE i = e
    <3>1. at'[i] = Entry.depth
      BY <1>1, <1>3, <2>1 DEF TypeOK
    <3>2. ASSUME NEW k \in 1..Len(Successors(e)) PROVE CoveredNext(Successors(e)[k], d)
      <4> HIDE DEF E, d, e
      <4>1. Len(Rest) + k \in 1..Len(work')
        BY <1>6, <1>7
      <4>2. work'[Len(Rest) + k] = [index |-> Successors(e)[k], depth |-> d]
        BY <1>6, <1>7
      <4> QED BY <4>1, <4>2 DEF CoveredNext
    <3> QED BY <1>1, <1>5, <2>1, <3>1, <3>2
  <2>2. CASE i # e
    <3>1. at'[i] = at[i] /\ at[i] \in Nat
      BY <1>1, <1>11, <2>2 DEF TypeOK
    <3>2. /\ at[i] >= Required(prog[i + 1])
          /\ NextDepth(prog[i + 1], at[i]) <= high
          /\ \A k \in 1..Len(Successors(i)) :
                Covered(Successors(i)[k], NextDepth(prog[i + 1], at[i]))
      BY <1>2, <1>11, <3>1 DEF DepthsCover
    <3>3. NextDepth(prog[i + 1], at[i]) \in Nat
      BY <3>1, <3>2, InstructionAt, NextDepthNat
    <3>4. \A k \in 1..Len(Successors(i)) : Successors(i)[k] \in Indices
      BY <1>2, SuccessorsInside
    <3>5. \A k \in 1..Len(Successors(i)) :
             CoveredNext(Successors(i)[k], NextDepth(prog[i + 1], at[i]))
      BY <1>8, <3>2, <3>3, <3>4
    <3>6. NextDepth(prog[i + 1], at[i]) <= high'
      <4> DEFINE m == NextDepth(prog[i + 1], at[i])
      <4> HIDE DEF m
      <4>1. m \in Nat /\ m <= high
        BY <3>2, <3>3 DEF m
      <4> QED BY <1>5, <4>1 DEF m
    <3> QED BY <3>1, <3>2, <3>5, <3>6
  <2> QED BY <2>1, <2>2
<1> QED BY <1>1, <1>10, <1>11, CoverNext

\* The invariant holds at first and every step keeps it.
LEMMA SafeInvInit == Init => SafeInv
<1> SUFFICES ASSUME Init PROVE SafeInv
  OBVIOUS
<1>1. TypeOK /\ Structure
  BY TypesInit
<1>2. Fresh
  BY DEF Init, Fresh
<1>3. DepthsCover /\ Concluded /\ OnTrack /\ DepthIsBounded /\ ValidatedNeverUnderflows
  BY DEF Init, DepthsCover, Walked, Concluded, OnTrack, DepthIsBounded,
         ValidatedNeverUnderflows
<1> QED BY <1>1, <1>2, <1>3 DEF SafeInv

LEMMA SafeInvStep == SafeInv /\ [Next]_vars => SafeInv'
<1> SUFFICES ASSUME SafeInv, [Next]_vars PROVE SafeInv'
  OBVIOUS
<1> DEFINE Onwards == OnTrack /\ DepthIsBounded /\ ValidatedNeverUnderflows
<1>0. TypeOK' /\ Structure'
  BY TypesPreserved DEF SafeInv
<1>q. ASSUME UNCHANGED <<prog, at, work, high>>, Walked' => Walked PROVE DepthsCover'
  <2>1. Indices' = Indices /\ \A i : Successors(i)' = Successors(i)
    BY <1>q DEF Indices, Successors
  <2> QED BY <1>q, <2>1 DEF SafeInv, DepthsCover, Covered, Pending
<1>i. ASSUME ~valid' PROVE Concluded' /\ Onwards'
  BY <1>i DEF Concluded, OnTrack, DepthIsBounded, ValidatedNeverUnderflows
<1>1. CASE Check
  <2>1. ~valid /\ valid' = valid /\ UNCHANGED <<prog, at, high, stack, ip, halted, last>>
    BY <1>1 DEF Check, machine, SafeInv, Fresh
  <2>2. Fresh'
    BY <1>1, <2>1 DEF Check, SafeInv, Fresh
  <2>3. DepthsCover'
    <3>1. CASE WellFormed
      <4>1. work' = <<[index |-> 0, depth |-> 0]>>
        BY <1>1, <3>1 DEF Check
      <4>2. CoveredNext(0, 0)
        BY <4>1 DEF CoveredNext
      <4>3. \A i \in Indices : at'[i] = Unknown
        BY <1>1, <2>1 DEF Check, SafeInv, Fresh
      <4> QED BY <2>1, <4>2, <4>3, CoverNext
    <3>2. CASE ~WellFormed
      BY <1>1, <2>1, <3>2 DEF Check, DepthsCover, Walked
    <3> QED BY <3>1, <3>2
  <2> QED BY <1>0, <1>i, <2>1, <2>2, <2>3 DEF SafeInv
<1>2. CASE Rejoin
  <2>1. ~valid' /\ Fresh'
    BY <1>2 DEF Rejoin, machine, SafeInv, Fresh
  <2> QED BY <1>0, <1>2, <1>i, <2>1, RejoinCovers DEF SafeInv
<1>3. CASE RejectFlow
  <2>1. ~valid' /\ Fresh'
    BY <1>3 DEF RejectFlow, machine, checker, SafeInv, Fresh
  <2>2. DepthsCover'
    BY <1>3, <1>q DEF RejectFlow, checker, Walked
  <2> QED BY <1>0, <1>i, <2>1, <2>2 DEF SafeInv
<1>4. CASE Visit
  <2>1. ~valid' /\ Fresh'
    BY <1>4 DEF Visit, machine, SafeInv, Fresh
  <2> QED BY <1>0, <1>4, <1>i, <2>1, VisitCovers DEF SafeInv
<1>5. CASE Conclude
  <2>1. /\ stack = <<>> /\ ip = 0 /\ ~halted /\ last = "none" /\ ~valid
        /\ UNCHANGED <<prog, at, work, high, stack, ip, halted, last>>
        /\ work = <<>> /\ phase = "walking"
    BY <1>5 DEF Conclude, machine, checker, SafeInv, Fresh
  <2>2. DepthsCover'
    BY <1>5, <1>q, <2>1 DEF Walked
  <2>3. CASE ~Fits
    BY <1>0, <1>5, <1>i, <2>1, <2>2, <2>3 DEF Conclude, SafeInv, Fresh
  <2>4. CASE Fits
    <3>1. phase' = "running" /\ high <= MaxDepth
      BY <1>5, <2>4 DEF Conclude, Fits
    <3>2. at[0] = 0
      BY <2>1 DEF SafeInv, DepthsCover, Walked, Covered, Pending
    <3>3. 0 \in Indices
      BY <2>1 DEF SafeInv, Structure, Walked, WellFormed, Indices, TypeOK
    <3>4. Len(stack) = 0 /\ high >= 0
      BY <2>1 DEF SafeInv, TypeOK
    <3>5. OnTrack' /\ DepthIsBounded' /\ ValidatedNeverUnderflows' /\ Concluded' /\ Fresh'
      BY <2>1, <3>1, <3>2, <3>3, <3>4
         DEF OnTrack, DepthIsBounded, ValidatedNeverUnderflows, Concluded, Fresh, Indices
    <3> QED BY <1>0, <2>2, <3>5 DEF SafeInv
  <2> QED BY <2>3, <2>4
<1>6. CASE RunRaw
  <2>1. ~valid' /\ Fresh'
    BY <1>6 DEF RunRaw, SafeInv, Fresh
  <2>2. DepthsCover'
    BY <1>6, <2>1 DEF RunRaw, DepthsCover, Walked
  <2> QED BY <1>0, <1>i, <2>1, <2>2 DEF SafeInv
<1>7. CASE Execute \/ StepAgain
  <2>1. /\ UNCHANGED <<prog, valid, at, work, high>> /\ StepVm
        /\ phase \in {"running", "done"} /\ phase' \in {"running", "done"}
    BY <1>7 DEF Execute, StepAgain, checker
  <2>2. Fresh' /\ DepthsCover'
    BY <1>q, <2>1 DEF Fresh, Walked
  <2>3. Concluded'
    BY <2>1 DEF SafeInv, Concluded
  <2>4. CASE valid
    BY <1>0, <2>1, <2>2, <2>3, <2>4, MachineOnTrack DEF SafeInv
  <2>5. CASE ~valid
    BY <1>0, <1>i, <2>1, <2>2, <2>5 DEF SafeInv
  <2> QED BY <2>4, <2>5
<1>8. CASE RunOut
  <2>1. /\ UNCHANGED <<prog, valid, at, work, high, stack, ip, halted, last>>
        /\ phase' = "done" /\ phase = "running"
    BY <1>8 DEF RunOut, checker
  <2>2. Fresh' /\ DepthsCover'
    BY <1>q, <2>1 DEF Fresh, Walked
  <2>3. Concluded' /\ Onwards'
    BY <2>1 DEF SafeInv, Concluded, OnTrack, DepthIsBounded, ValidatedNeverUnderflows, Indices
  <2> QED BY <1>0, <2>2, <2>3 DEF SafeInv
<1>9. CASE Rerun
  <2>1. /\ UNCHANGED <<prog, valid, at, work, high>>
        /\ stack' = <<>> /\ ip' = 0 /\ ~halted' /\ last' = "none"
        /\ phase' = "running" /\ phase = "done"
    BY <1>9 DEF Rerun, Reset, checker
  <2>2. Fresh' /\ DepthsCover'
    BY <1>q, <2>1 DEF Fresh, Walked
  <2>3. CASE valid
    <3>1. at[0] = 0
      BY <2>3 DEF SafeInv, DepthsCover, Walked, Covered, Pending, Concluded
    <3>2. 0 \in Indices
      BY <2>3 DEF SafeInv, Structure, Walked, WellFormed, Indices, TypeOK
    <3>3. Len(stack') = 0 /\ high >= 0
      BY <2>1 DEF SafeInv, TypeOK
    <3>4. Concluded' /\ Onwards'
      BY <2>1, <2>3, <3>1, <3>2, <3>3
         DEF SafeInv, OnTrack, DepthIsBounded, ValidatedNeverUnderflows, Concluded, Indices
    <3> QED BY <1>0, <2>2, <3>4 DEF SafeInv
  <2>4. CASE ~valid
    BY <1>0, <1>i, <2>1, <2>2, <2>4 DEF SafeInv
  <2> QED BY <2>3, <2>4
<1>10. CASE UNCHANGED vars
  <2>1. UNCHANGED <<prog, phase, valid, at, work, high, stack, ip, halted, last>>
    BY <1>10 DEF vars
  <2>2. Fresh' /\ DepthsCover'
    BY <1>q, <2>1 DEF SafeInv, Fresh, Walked, Indices
  <2>3. Concluded' /\ Onwards'
    BY <2>1 DEF SafeInv, Concluded, OnTrack, DepthIsBounded, ValidatedNeverUnderflows, Indices
  <2> QED BY <1>0, <2>2, <2>3 DEF SafeInv
<1> QED BY <1>1, <1>2, <1>3, <1>4, <1>5, <1>6, <1>7, <1>8, <1>9, <1>10 DEF Next

\* What Program::new accepts, Vm::step never fails for want of operands, of
\* room, of a HALT or of a jump target: only its data can fail it.
THEOREM ValidatedRunsSafely == Spec => []ValidatedNeverUnderflows
<1>1. Spec => []SafeInv
  BY SafeInvInit, SafeInvStep, PTL DEF Spec
<1>2. SafeInv => ValidatedNeverUnderflows
  BY DEF SafeInv
<1> QED BY <1>1, <1>2, PTL

\* max_stack_depth of Program::new bounds the stack of every run, and is
\* itself within MAX_STACK_DEPTH.
THEOREM DeclaredDepthHolds == Spec => []DepthIsBounded
<1>1. Spec => []SafeInv
  BY SafeInvInit, SafeInvStep, PTL DEF Spec
<1>2. SafeInv => DepthIsBounded
  BY DEF SafeInv
<1> QED BY <1>1, <1>2, PTL
----------------------------------------------------------------------------
(* What is refused for its flow has no depths. *)

\* Depths that are consistent are those the walk has found so far: its verdict
\* does not depend on its order.
Forced ==
    \A d \in [Indices -> Int] : Consistent(d) =>
        /\ \A i \in Indices : at[i] # Unknown => at[i] = d[i]
        /\ \A k \in 1..Len(work) : work[k].depth = d[work[k].index]

\* No depths at all, of any size: RefusedHasNoDepths without TLC's bound on them.
NoDepths == ~\E d \in [Indices -> Int] : Consistent(d)

VerdictInv ==
    /\ TypeOK /\ Structure
    /\ phase = "new" => \A i \in Indices : at[i] = Unknown
    /\ phase = "walking" => Forced
    /\ phase = "rejected" /\ WellFormed /\ Fits => NoDepths

\* Depths are consistent in the next state if they are in this one: they are
\* about the program.
LEMMA ConsistentStays ==
    ASSUME prog' = prog
    PROVE  /\ Indices' = Indices /\ (WellFormed <=> WellFormed')
           /\ \A d : Consistent(d) <=> Consistent(d)'
<1>1. Indices' = Indices
  BY DEF Indices
<1>2. \A i : Successors(i)' = Successors(i)
  BY DEF Successors
<1> QED BY <1>1, <1>2 DEF Consistent, WellFormed

\* A first visit extends the depths found, and only to what they force.
LEMMA VisitForces ==
    ASSUME TypeOK, Structure, Forced, Visit
    PROVE  Forced'
<1> DEFINE e == Entry.index
           ins == prog[e + 1]
           n == NextDepth(ins, Entry.depth)
           E == Entries(e, n)
           Item == [index: Indices, depth: Nat]
<1>1. /\ work # <<>> /\ at[e] = Unknown /\ Entry.depth >= Required(ins)
      /\ at' = [at EXCEPT ![e] = Entry.depth]
      /\ work' = Rest \o E
      /\ prog' = prog
  BY DEF Visit
<1>2. WellFormed
  BY DEF Visit, Walked, Structure
<1>3. e \in Indices /\ Entry.depth \in Nat
  BY <1>1, RestKeeps
<1>4. n \in Nat
  BY <1>1, <1>3, InstructionAt, NextDepthNat
<1>5. /\ Rest \in Seq(Item) /\ E \in Seq(Item)
      /\ Len(E) = Len(Successors(e)) /\ Len(Successors(e)) \in Nat
      /\ \A k \in 1..Len(Successors(e)) : E[k] = [index |-> Successors(e)[k], depth |-> n]
  BY <1>1, <1>2, <1>3, <1>4, RestKeeps, EntriesTyped
<1>6. ASSUME NEW k \in 1..Len(work')
      PROVE  \/ k \in 1..Len(Rest) /\ work'[k] = Rest[k]
             \/ \E j \in 1..Len(E) : work'[k] = E[j]
  <2> HIDE DEF E, Item
  <2>1. /\ Len(Rest \o E) = Len(Rest) + Len(E)
        /\ \A j \in 1..(Len(Rest) + Len(E)) :
              (Rest \o E)[j] = IF j <= Len(Rest) THEN Rest[j] ELSE E[j - Len(Rest)]
    BY <1>5, ConcatProperties
  <2>2. Len(Rest) \in Nat /\ Len(E) \in Nat
    BY <1>5
  <2>3. k \in 1..(Len(Rest) + Len(E))
    BY <1>1, <2>1
  <2>4. CASE k <= Len(Rest)
    BY <1>1, <2>1, <2>2, <2>3, <2>4
  <2>5. CASE ~(k <= Len(Rest))
    <3>1. k - Len(Rest) \in 1..Len(E)
      BY <2>2, <2>3, <2>5
    <3> QED BY <1>1, <2>1, <2>3, <2>5, <3>1
  <2> QED BY <2>4, <2>5
<1>7. \A k \in 1..Len(Rest) : k \in 1..Len(work) /\ Rest[k] = work[k]
  BY <1>1, RestKeeps
<1> HIDE DEF E
<1>8. ASSUME NEW d \in [Indices -> Int], Consistent(d)
      PROVE  /\ \A i \in Indices : at'[i] # Unknown => at'[i] = d[i]
             /\ \A k \in 1..Len(work') : work'[k].depth = d[work'[k].index]
  <2>1. /\ \A i \in Indices : at[i] # Unknown => at[i] = d[i]
        /\ \A k \in 1..Len(work) : work[k].depth = d[work[k].index]
    BY <1>8 DEF Forced
  <2>2. d[e] = Entry.depth
    <3>1. Len(work) \in 1..Len(work)
      BY <1>1, RestKeeps
    <3> QED BY <2>1, <3>1 DEF Entry
  <2>3. \A i \in Indices : at'[i] # Unknown => at'[i] = d[i]
    BY <1>1, <1>3, <2>1, <2>2 DEF TypeOK
  <2>4. \A k \in 1..Len(Successors(e)) : d[Successors(e)[k]] = n
    <3>1. d[e] # Unknown
      BY <1>3, <2>2 DEF Unknown
    <3> QED BY <1>3, <1>8, <2>2, <3>1 DEF Consistent
  <2>5. ASSUME NEW k \in 1..Len(work') PROVE work'[k].depth = d[work'[k].index]
    <3>1. CASE k \in 1..Len(Rest) /\ work'[k] = Rest[k]
      BY <1>7, <2>1, <3>1
    <3>2. CASE \E j \in 1..Len(E) : work'[k] = E[j]
      <4>1. PICK j \in 1..Len(E) : work'[k] = E[j]
        BY <3>2
      <4>2. j \in 1..Len(Successors(e)) /\ E[j] = [index |-> Successors(e)[j], depth |-> n]
        BY <1>5
      <4> HIDE DEF n, e
      <4>3. work'[k].depth = n /\ work'[k].index = Successors(e)[j]
        BY <4>1, <4>2
      <4> QED BY <2>4, <4>2, <4>3
    <3> QED BY <1>6, <3>1, <3>2
  <2> QED BY <2>3, <2>5
<1> QED BY <1>1, <1>8, ConsistentStays DEF Forced

\* Two paths that disagree, or an instruction without its operands, leave no depths.
LEMMA FlowErrorRefutes ==
    ASSUME TypeOK, Structure, Forced, RejectFlow
    PROVE  NoDepths
<1> SUFFICES ASSUME NEW d \in [Indices -> Int], Consistent(d) PROVE FALSE
  BY DEF NoDepths
<1>1. Entry.index \in Indices /\ Entry.depth \in Nat /\ Len(work) \in 1..Len(work)
  BY RestKeeps DEF RejectFlow
<1>2. d[Entry.index] = Entry.depth
  BY <1>1 DEF Forced, Entry
<1>3. at[Entry.index] # Unknown => at[Entry.index] = Entry.depth
  BY <1>1, <1>2 DEF Forced
<1>4. Entry.depth >= Required(prog[Entry.index + 1])
  BY <1>1, <1>2 DEF Consistent, Unknown
<1>5. Required(prog[Entry.index + 1]) \in Nat
  BY DEF Required
<1> QED BY <1>1, <1>3, <1>4, <1>5 DEF RejectFlow, FlowError

LEMMA VerdictInit == Init => VerdictInv
<1> SUFFICES ASSUME Init PROVE VerdictInv
  OBVIOUS
<1>1. TypeOK /\ Structure
  BY TypesInit
<1> QED BY <1>1 DEF Init, VerdictInv

LEMMA VerdictStep == VerdictInv /\ [Next]_vars => VerdictInv'
<1> SUFFICES ASSUME VerdictInv, [Next]_vars PROVE VerdictInv'
  OBVIOUS
<1>0. TypeOK' /\ Structure'
  BY TypesPreserved DEF VerdictInv
<1>p. prog' = prog
  BY DEF Next, Check, Rejoin, RejectFlow, Visit, Conclude, RunRaw, Execute, RunOut,
         StepAgain, Rerun, vars
<1>c. Indices' = Indices /\ (WellFormed <=> WellFormed') /\ \A d : Consistent(d) <=> Consistent(d)'
  BY <1>p, ConsistentStays
<1>n. NoDepths => NoDepths'
  BY <1>c DEF NoDepths
<1>e. ASSUME phase' \in {"running", "done"} PROVE VerdictInv'
  BY <1>0, <1>e DEF VerdictInv
<1>1. CASE Check
  <2>1. CASE WellFormed
    <3>1. phase' = "walking" /\ at' = at /\ work' = <<[index |-> 0, depth |-> 0]>>
      BY <1>1, <2>1 DEF Check
    <3>2. \A i \in Indices : at[i] = Unknown
      BY <1>1 DEF Check, VerdictInv
    <3>3. Forced'
      BY <1>c, <3>1, <3>2 DEF Forced, Consistent
    <3> QED BY <1>0, <3>1, <3>3 DEF VerdictInv
  <2>2. CASE ~WellFormed
    <3>1. phase' = "rejected"
      BY <1>1, <2>2 DEF Check
    <3> QED BY <1>0, <1>c, <2>2, <3>1 DEF VerdictInv
  <2> QED BY <2>1, <2>2
<1>2. CASE Rejoin
  <2>1. /\ phase = "walking" /\ phase' = "walking" /\ work # <<>>
        /\ at' = at /\ work' = Rest
    BY <1>2 DEF Rejoin
  <2>2. /\ \A k \in 1..Len(Rest) : Rest[k] = work[k] /\ k \in 1..Len(work)
    BY <2>1, RestKeeps DEF VerdictInv
  <2>3. Forced'
    BY <1>c, <2>1, <2>2 DEF Forced, VerdictInv
  <2> QED BY <1>0, <2>1, <2>3 DEF VerdictInv
<1>3. CASE RejectFlow
  <2>1. phase' = "rejected" /\ NoDepths
    BY <1>3, FlowErrorRefutes DEF RejectFlow, VerdictInv
  <2> QED BY <1>0, <1>n, <2>1 DEF VerdictInv
<1>4. CASE Visit
  <2>1. phase' = "walking" /\ Forced'
    BY <1>4, VisitForces DEF Visit, VerdictInv
  <2> QED BY <1>0, <2>1 DEF VerdictInv
<1>5. CASE Conclude
  <2>1. phase' = (IF Fits THEN "running" ELSE "rejected") /\ high' = high
    BY <1>5 DEF Conclude, checker
  <2>2. Fits' <=> Fits
    BY <2>1 DEF Fits
  <2> QED BY <1>0, <1>e, <2>1, <2>2 DEF VerdictInv
<1>6. CASE RunRaw \/ Execute \/ RunOut \/ StepAgain \/ Rerun
  <2>1. phase' \in {"running", "done"}
    BY <1>6 DEF RunRaw, Execute, RunOut, StepAgain, Rerun
  <2> QED BY <1>e, <2>1
<1>7. CASE UNCHANGED vars
  <2>1. UNCHANGED <<phase, at, work, high>>
    BY <1>7 DEF vars
  <2>2. (Forced <=> Forced') /\ (Fits <=> Fits')
    BY <1>c, <2>1 DEF Forced, Fits
  <2> QED BY <1>0, <1>c, <1>n, <2>1, <2>2 DEF VerdictInv
<1> QED BY <1>1, <1>2, <1>3, <1>4, <1>5, <1>6, <1>7 DEF Next

\* Program::new refuses a program for its flow only if its instructions cannot be
\* given one depth each, of any size, whatever the order of the walk.
THEOREM RefusedForItsFlow == Spec => []RefusedHasNoDepths
<1>1. VerdictInv => RefusedHasNoDepths
  <2>1. Unknown..Len(prog) \subseteq Int
    BY DEF Unknown
  <2> QED BY <2>1 DEF VerdictInv, RefusedHasNoDepths, NoDepths
<1> QED BY VerdictInit, VerdictStep, <1>1, PTL DEF Spec

----------------------------------------------------------------------------
(* The page and its session.  The validator is walked in several steps in  *)
(* the variables of the session, so the invariant speaks of the session    *)
(* put aside while it walks, and of what is being handed over: the builder *)
(* holds the lines typed so far.                                           *)

\* The lines of a program, as they are handed over.
Handed(lines) == [k \in DOMAIN lines |-> Sent(lines[k])]

\* A session and a listing that agree.
Agrees(program, stage) ==
    /\ stage \in Sessions \cup {"none"}
    /\ (listing = <<>>) <=> (stage = "none")
    /\ program = Handed(listing)

\* The lines that were accepted by the page and by the builder.
Building ==
    /\ typed \in Seq([op: Ops, arg: Int])
    /\ builder \in Seq([op: Ops, arg: Int])
    /\ Len(builder) <= Len(typed)
    /\ \A k \in 1..Len(builder) : builder[k] = Sent(typed[k])

\* What the validator walks is the typed program, and it accepts no empty one.
Walking ==
    /\ prog = Handed(typed)
    /\ phase \in {"new", "walking", "rejected", "running"}
    /\ phase \in {"walking", "running"} => typed # <<>>
    /\ Agrees(kept.prog, kept.phase)

PageInv ==
    /\ page \in {"native", "prompt", "pushing", "validating", "running"}
    /\ listing \in Seq([op: Ops, arg: Int])
    /\ page \in {"prompt", "running"} => Agrees(prog, phase)
    /\ page = "pushing" => Building /\ Agrees(prog, phase)
    /\ page = "running" => phase = "looping"
    /\ page = "validating" => typed \in Seq([op: Ops, arg: Int]) /\ Walking

LEMMA SentTyped ==
    ASSUME NEW line \in [op: Ops, arg: Int]
    PROVE  Sent(line) \in [op: Ops, arg: Int]
<1>1. Half \in Nat /\ Half >= 2  BY ProgramAssumption
<1>2. ToI32(line.arg) \in Int  BY <1>1 DEF ToI32
<1> QED  BY <1>2 DEF Sent

\* The four lines of an expression the page accepts come through as they are.
LEMMA ExpressionAgrees ==
    ASSUME NEW e \in Expressions, Loadable(e)
    PROVE  /\ Listed(e) \in Seq([op: Ops, arg: Int]) /\ Listed(e) # <<>>
           /\ Compiled(e) = Handed(Listed(e))
<1>1. e.left \in Int /\ e.right \in Int /\ e.op \in {"ADD", "SUB", "MUL", "DIV"}
  BY DebuggerAssumption
<1>2. Half \in Nat /\ Half >= 2  BY ProgramAssumption
<1>3. ToI32(0) = 0  BY <1>2 DEF ToI32
<1>4. Listed(e) \in Seq([op: Ops, arg: Int]) /\ Listed(e) # <<>>
  BY <1>1 DEF Listed, Ops, Plain, Binary
<1>5. DOMAIN Listed(e) = 1..4 /\ DOMAIN Compiled(e) = 1..4  BY DEF Listed, Compiled
<1>6. \A k \in 1..4 : Compiled(e)[k] = Sent(Listed(e)[k])
  BY <1>1, <1>3 DEF Listed, Compiled, Sent
<1>7. Compiled(e) = [k \in 1..4 |-> Compiled(e)[k]]  BY <1>5 DEF Compiled
<1>8. Compiled(e) = [k \in 1..4 |-> Sent(Listed(e)[k])]  BY <1>6, <1>7
<1> QED  BY <1>4, <1>5, <1>8 DEF Handed

LEMMA PageInvInit == DebuggerInit => PageInv
<1>1. ASSUME NativeInit PROVE PageInv  BY <1>1 DEF NativeInit, PageInv
<1>2. ASSUME PageInit PROVE PageInv
  <2>1. prog = Handed(listing)  BY <1>2 DEF PageInit, Handed
  <2> QED  BY <1>2, <2>1 DEF PageInit, PageInv, Agrees
<1> QED  BY <1>1, <1>2 DEF DebuggerInit

LEMMA PageInvStep == PageInv /\ [DebuggerNext]_allVars => PageInv'
<1> SUFFICES ASSUME PageInv, [DebuggerNext]_allVars PROVE PageInv'  OBVIOUS
<1>1. CASE NativeStep
  BY <1>1 DEF PageInv, NativeStep, debugger
<1>2. CASE TypeAssembly
  <2>1. PICK source \in Sources : typed' = source  BY <1>2 DEF TypeAssembly
  <2>2. typed' \in Seq([op: Ops, arg: Int])  BY <2>1, DebuggerAssumption
  <2>3. page' = "pushing" /\ builder' = <<>> /\ UNCHANGED <<vars, listing>>
    BY <1>2 DEF TypeAssembly
  <2>4. Building'  BY <2>2, <2>3 DEF Building
  <2>5. Agrees(prog, phase)'  BY <1>2, <2>3 DEF TypeAssembly, PageInv, Agrees, vars, Handed
  <2> QED  BY <2>3, <2>4, <2>5 DEF PageInv
<1>3. CASE PushLine
  <2>1. page = "pushing" /\ Len(builder) < Len(typed) /\ Building /\ Agrees(prog, phase)
    BY <1>3 DEF PushLine, PageInv
  <2>2. UNCHANGED <<prog, phase, listing, typed>>  BY <1>3 DEF PushLine, vars
  <2>3. Agrees(prog, phase)'  BY <2>1, <2>2 DEF Agrees, Handed
  <2>4. CASE PushRefused
    BY <1>3, <2>2, <2>3, <2>4 DEF PushLine, PageInv
  <2>5. CASE ~PushRefused
    <3>1. builder' = Append(builder, NextLine) /\ page' = "pushing"
      BY <1>3, <2>1, <2>5 DEF PushLine
    <3>2. NextLine = Sent(typed[Len(builder) + 1]) /\ NextLine \in [op: Ops, arg: Int]
      <4>1. ASSUME NEW S, NEW t \in Seq(S), NEW b \in Nat, b < Len(t)
            PROVE  t[b + 1] \in S
        BY <4>1
      <4>2. typed \in Seq([op: Ops, arg: Int]) /\ Len(builder) \in Nat /\ Len(builder) < Len(typed)
        BY <2>1 DEF Building
      <4>3. typed[Len(builder) + 1] \in [op: Ops, arg: Int]  BY <4>1, <4>2, Zenon
      <4>4. Sent(typed[Len(builder) + 1]) \in [op: Ops, arg: Int]
        BY <4>3, SentTyped, Zenon
      <4> QED  BY <4>4, Zenon DEF NextLine
    <3>3. Building'
      BY <2>1, <2>2, <3>1, <3>2 DEF Building
    <3> QED  BY <2>2, <2>3, <3>1, <3>3 DEF PageInv
  <2> QED  BY <2>4, <2>5
<1>4. CASE Finish
  <2>1. page = "pushing" /\ Building /\ Agrees(prog, phase) /\ Len(builder) = Len(typed)
    BY <1>4 DEF Finish, PageInv
  <2>2. builder = Handed(typed)
    <3>1. builder = [k \in 1..Len(builder) |-> builder[k]]  BY <2>1 DEF Building
    <3>2. builder = [k \in 1..Len(typed) |-> Sent(typed[k])]  BY <2>1, <3>1 DEF Building
    <3> QED  BY <2>1, <3>2 DEF Handed, Building
  <2>3. kept'.prog = prog /\ kept'.phase = phase  BY <1>4 DEF Finish, Session
  <2>4. UNCHANGED <<listing, typed>> /\ prog' = builder /\ phase' = "new" /\ page' = "validating"
    BY <1>4 DEF Finish
  <2>5. Agrees(kept.prog, kept.phase)'  BY <2>1, <2>3, <2>4 DEF Agrees, Handed
  <2>6. Walking'  BY <2>2, <2>4, <2>5 DEF Walking, Handed
  <2> QED  BY <2>1, <2>4, <2>6 DEF PageInv, Building
<1>5. CASE Validate
  <2>1. page = "validating" /\ Walking /\ UNCHANGED debugger  BY <1>5 DEF Validate, PageInv
  <2>2. prog' = prog
    BY <1>5 DEF Validate, Check, Rejoin, RejectFlow, Visit, Conclude
  <2>3. /\ phase' \in {"new", "walking", "rejected", "running"}
        /\ phase' \in {"walking", "running"} => typed # <<>>
    <3>1. ASSUME Check PROVE <2>3!1 /\ <2>3!2
      <4>1. WellFormed => typed # <<>>
        <5>1. WellFormed => Len(prog) >= 1  BY DEF WellFormed
        <5>2. typed = <<>> => prog = <<>>  BY <2>1 DEF Walking, Handed
        <5> QED  BY <5>1, <5>2
      <4> QED  BY <2>1, <3>1, <4>1 DEF Check, Walking
    <3>2. ASSUME Rejoin PROVE <2>3!1 /\ <2>3!2  BY <2>1, <3>2 DEF Rejoin, Walking
    <3>3. ASSUME RejectFlow PROVE <2>3!1 /\ <2>3!2  BY <2>1, <3>3 DEF RejectFlow, Walking
    <3>4. ASSUME Visit PROVE <2>3!1 /\ <2>3!2  BY <2>1, <3>4 DEF Visit, Walking
    <3>5. ASSUME Conclude PROVE <2>3!1 /\ <2>3!2  BY <2>1, <3>5 DEF Conclude, Walking
    <3> QED  BY <1>5, <3>1, <3>2, <3>3, <3>4, <3>5 DEF Validate
  <2>4. Walking'
    BY <2>1, <2>2, <2>3 DEF Walking, Agrees, Handed, debugger
  <2> QED  BY <2>1, <2>4 DEF PageInv, debugger
<1>6. CASE Install
  <2>1. page = "validating" /\ Walking /\ phase = "running" /\ typed \in Seq([op: Ops, arg: Int])
    BY <1>6 DEF Install, PageInv
  <2>2. page' = "prompt" /\ phase' = "loaded" /\ listing' = typed /\ prog' = prog
    BY <1>6 DEF Install
  <2>3. Agrees(prog, phase)'  BY <2>1, <2>2 DEF Agrees, Walking, Handed, Sessions
  <2> QED  BY <2>1, <2>2, <2>3 DEF PageInv
<1>7. CASE Refuse
  <2>1. page = "validating" /\ Agrees(kept.prog, kept.phase)  BY <1>7 DEF Refuse, PageInv, Walking
  <2>2. page' = "prompt" /\ prog' = kept.prog /\ phase' = kept.phase /\ listing' = listing
    BY <1>7 DEF Refuse
  <2>3. Agrees(prog, phase)'  BY <2>1, <2>2 DEF Agrees, Handed
  <2> QED  BY <2>2, <2>3 DEF PageInv
<1>8. CASE LoadBinary
  <2>1. PICK e \in Expressions : Loadable(e) /\ prog' = Compiled(e) /\ listing' = Listed(e)
    BY <1>8 DEF LoadBinary
  <2>2. \/ page' = "prompt" /\ phase' = "loaded"
        \/ page' = "running" /\ phase' = "looping"
    BY <1>8 DEF LoadBinary
  <2>3. /\ listing' \in Seq([op: Ops, arg: Int]) /\ listing' # <<>>
        /\ prog' = Handed(listing')
    BY <2>1, ExpressionAgrees
  <2>4. Agrees(prog, phase)'  BY <2>2, <2>3 DEF Agrees, Sessions, Handed
  <2> QED  BY <2>2, <2>3, <2>4 DEF PageInv
<1>9. CASE StartRun
  <2>1. /\ page = "prompt" /\ listing # <<>> /\ page' = "running" /\ phase' = "looping"
        /\ UNCHANGED <<prog, listing>>
    BY <1>9 DEF StartRun
  <2>2. Agrees(prog, phase)'  BY <2>1 DEF PageInv, Agrees, Handed, Sessions
  <2> QED  BY <2>1, <2>2 DEF PageInv
<1>10. CASE RunStep
  <2>1. page = "running" /\ Agrees(prog, phase) /\ UNCHANGED <<prog, listing>>
    BY <1>10 DEF RunStep, PageInv
  <2>2. phase \in Sessions  BY <1>10 DEF RunStep, DebugStep
  <2>3. \/ page' = "running" /\ phase' = "looping"
        \/ page' = "prompt" /\ phase' = "stopped"
    BY <2>1, <1>10 DEF RunStep, PageInv
  <2>4. Agrees(prog, phase)'  BY <2>1, <2>2, <2>3 DEF Agrees, Handed, Sessions
  <2> QED  BY <2>1, <2>3, <2>4 DEF PageInv
<1>11. CASE RunStops
  <2>1. /\ phase = "looping" /\ Agrees(prog, phase)
        /\ page' = "prompt" /\ phase' = "stopped" /\ UNCHANGED <<prog, listing>>
    BY <1>11 DEF RunStops, PageInv
  <2>2. Agrees(prog, phase)'  BY <2>1 DEF Agrees, Handed, Sessions
  <2> QED  BY <2>1, <2>2 DEF PageInv
<1>12. CASE StepOnce
  <2>1. /\ page = "prompt" /\ listing # <<>> /\ phase' = "stopped"
        /\ UNCHANGED <<page, prog, listing>>
    BY <1>12 DEF StepOnce, debugger
  <2>2. Agrees(prog, phase)'  BY <2>1 DEF PageInv, Agrees, Handed, Sessions
  <2> QED  BY <2>1, <2>2 DEF PageInv
<1>13. CASE ResetVm
  <2>1. /\ page = "prompt" /\ phase \in Sessions /\ phase' = "loaded"
        /\ UNCHANGED <<page, prog, listing>>
    BY <1>13 DEF ResetVm, DebugReset, debugger
  <2>2. Agrees(prog, phase)'  BY <2>1 DEF PageInv, Agrees, Handed, Sessions
  <2> QED  BY <2>1, <2>2 DEF PageInv
<1>14. CASE UNCHANGED allVars
  BY <1>14 DEF PageInv, Building, Walking, Agrees, Handed, allVars, vars, debugger
<1> QED
  BY <1>1, <1>2, <1>3, <1>4, <1>5, <1>6, <1>7, <1>8, <1>9, <1>10, <1>11, <1>12, <1>13, <1>14
  DEF DebuggerNext, PageStep

\* The page lists the program its session runs, after any sequence of loads,
\* refusals, runs, steps and resets (src/web/main.js, loadAssembly and
\* loadProgram over debug_program_finish and debug_load_binary).
THEOREM PageListsItsSession == DebuggerSpec => []ListingIsSession
<1>1. PageInv => ListingIsSession  BY DEF PageInv, Agrees, Handed, ListingIsSession
<1> QED  BY PageInvInit, PageInvStep, <1>1, PTL DEF DebuggerSpec
=============================================================================
