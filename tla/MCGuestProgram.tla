--------------------------- MODULE MCGuestProgram ---------------------------
(***************************************************************************)
(* Programs for TLC: every control flow of three instructions before a     *)
(* HALT, straight-line arithmetic on every pair of operands, and the        *)
(* programs a user of the page loads one after the other.                   *)
(***************************************************************************)
EXTENDS Debugger, SequencesExt

Bare(S) == {[op |-> o, arg |-> 0] : o \in S}
Halt == [op |-> "HALT", arg |-> 0]
Pushes(V) == {[op |-> "PUSH", arg |-> v] : v \in V}

Flow == Pushes({0, 1}) \cup Bare({"DUP", "ADD", "POP", "HALT"})
        \cup {[op |-> o, arg |-> t] : o \in {"JMP", "JZ"}, t \in 0..4}
FlowPrograms ==
    BoundedSeq(Flow, 3) \cup {Append(p, Halt) : p \in BoundedSeq(Flow, 3)}


Operators == Bare(Plain \ {"HALT"})
ArithmeticPrograms ==
    {<<a, b, c, d, Halt>> : a \in Pushes(I32), b \in Pushes(I32),
                            c \in Operators, d \in Operators}
AllPrograms == FlowPrograms \cup ArithmeticPrograms

\* Assembly as it is typed: with a line the page refuses, a jump that wraps to
\* a negative number and one that wraps to the start, too many lines, a refused
\* join, operands that are missing, and programs that run, fault and loop.
Line(o, a) == [op |-> o, arg |-> a]
Typed == {
    <<Line("PUSH", 2), Halt>>,
    <<Line("PUSH", 1), Line("JMP", 2), Halt>>,
    <<Line("PUSH", 1), Line("JZ", 4), Line("PUSH", 0), Halt>>,
    [k \in 1..6 |-> Line("PUSH", 0)],
    <<Line("PUSH", 1), Line("JMP", 0), Halt>>,
    <<Line("ADD", 0), Halt>>,
    <<Line("PUSH", 1), Line("PUSH", 0), Line("DIV", 0), Halt>>,
    <<Line("JMP", 0), Halt>> }

Loaded == {[left |-> 1, right |-> 0, op |-> "DIV"], [left |-> -2, right |-> -1, op |-> "DIV"],
           [left |-> 1, right |-> 1, op |-> "SUB"], [left |-> 2, right |-> 1, op |-> "SUB"]}
=============================================================================
