------------------------------ MODULE Debugger ------------------------------
(***************************************************************************)
(* The browser's debugger of flat programs: the terminal of the page       *)
(* (src/web/main.js) over the functions the WebAssembly build exports      *)
(* (src/src/lib.rs), which keep one program under construction and one     *)
(* session, a program with its Vm.  The validator and the machine are      *)
(* those of GuestProgram, in the variables of GuestProgram: prog is the    *)
(* session's program, and the program under validation while one is.  The  *)
(* page also keeps a listing, which it shows for the session's program.    *)
(*                                                                         *)
(* A behaviour is either that of a caller of Program::new and Vm::run, or  *)
(* that of a page.                                                         *)
(***************************************************************************)
EXTENDS GuestProgram

CONSTANTS
    Sources,    \* the assembly programs a user types, lines of [op, arg]
    Expressions \* the expressions a user loads: [left, right, op]

ASSUME DebuggerAssumption ==
    /\ \A s \in Sources : s \in Seq([op: Ops, arg: Int])
    /\ Expressions \subseteq [left: Int, right: Int, op: {"ADD", "SUB", "MUL", "DIV"}]

VARIABLES
    page,    \* whether a page drives the machine, and what it is doing
    listing, \* state.program: the lines of the loaded program, <<>> for null
    builder, \* PROGRAM_BUILDER
    typed,   \* the assembly being loaded
    kept     \* the session while another program is validated

debugger == <<page, listing, builder, typed, kept>>
allVars == <<vars, debugger>>

\* Phases of a session: none, a Vm not stepped since its reset, a Vm inside
\* the loop of /run, and a Vm that was stepped.
Sessions == {"loaded", "looping", "stopped"}

\* No session, and nothing loaded, or no page at all.
PageInit ==
    /\ page = "prompt" /\ listing = <<>> /\ builder = <<>> /\ typed = <<>> /\ kept = <<>>
    /\ prog = <<>> /\ phase = "none" /\ valid = FALSE
    /\ at = [i \in Indices |-> Unknown] /\ work = <<>> /\ high = 0
    /\ stack = <<>> /\ ip = 0 /\ halted = FALSE
    /\ steps = 0 /\ last = "none" /\ results = <<>>

NativeInit ==
    /\ Init
    /\ page = "native" /\ listing = <<>> /\ builder = <<>> /\ typed = <<>> /\ kept = <<>>

NativeStep == page = "native" /\ Next /\ UNCHANGED debugger

----------------------------------------------------------------------------
(* Loading assembly. *)

\* The lines the page accepts: PUSH with an i32, a jump with any natural.
Accepted(line) ==
    /\ line.op = "PUSH" => line.arg \in I32
    /\ line.op \in {"JMP", "JZ"} => line.arg >= 0

\* A number of the page as an i32 parameter of an exported function.
ToI32(n) == ((n + Half) % (2 * Half)) - Half
Sent(line) == [op |-> line.op, arg |-> ToI32(line.arg)]

\* A program is typed; lines the page refuses leave everything as it was.
TypeAssembly ==
    /\ page = "prompt"
    /\ \E source \in Sources :
          /\ \A k \in 1..Len(source) : Accepted(source[k])
          /\ typed' = source
    /\ builder' = <<>>
    /\ page' = "pushing"
    /\ UNCHANGED <<vars, listing, kept>>

NextLine == Sent(typed[Len(builder) + 1])

\* What debug_program_push refuses: a negative target, and one line too many.
PushRefused ==
    \/ NextLine.op \in {"JMP", "JZ"} /\ NextLine.arg < 0
    \/ Len(builder) >= MaxInstructions

\* The lines are handed over one by one, until one is refused.
PushLine ==
    /\ page = "pushing" /\ Len(builder) < Len(typed)
    /\ IF PushRefused
         THEN page' = "prompt" /\ UNCHANGED builder
         ELSE builder' = Append(builder, NextLine) /\ UNCHANGED page
    /\ UNCHANGED <<vars, listing, typed, kept>>

\* The session as it is put aside, and a new one.
Session == [prog |-> prog, phase |-> phase, valid |-> valid, stack |-> stack, ip |-> ip,
            halted |-> halted, results |-> results]
NewVm == stack' = <<>> /\ ip' = 0 /\ halted' = FALSE /\ last' = "none"

\* debug_program_finish hands the instructions to Program::new ...
Finish ==
    /\ page = "pushing" /\ Len(builder) = Len(typed)
    /\ page' = "validating" /\ kept' = Session
    /\ prog' = builder /\ phase' = "new" /\ valid' = FALSE
    /\ at' = [i \in 0..(Len(builder) - 1) |-> Unknown] /\ work' = <<>> /\ high' = 0
    /\ NewVm /\ steps' = 0 /\ results' = <<>>
    /\ UNCHANGED <<listing, builder, typed>>

Validate ==
    /\ page = "validating"
    /\ Check \/ Rejoin \/ RejectFlow \/ Visit \/ Conclude
    /\ UNCHANGED debugger

\* ... installs what it accepts, with a new Vm, and the page lists it,
Install ==
    /\ page = "validating" /\ phase = "running"
    /\ page' = "prompt" /\ phase' = "loaded"
    /\ listing' = typed
    /\ UNCHANGED <<prog, valid, checker, machine, builder, typed, kept>>

\* Mutant: the refused program replaces the session.
Refuse_Installs ==
    /\ page = "validating" /\ phase = "rejected"
    /\ page' = "prompt" /\ phase' = "loaded"
    /\ UNCHANGED <<prog, valid, checker, machine, listing, builder, typed, kept>>

\* ... and leaves session and listing alone when it refuses.
Refuse ==
    /\ page = "validating" /\ phase = "rejected"
    /\ page' = "prompt"
    /\ prog' = kept.prog /\ phase' = kept.phase /\ valid' = kept.valid
    /\ stack' = kept.stack /\ ip' = kept.ip /\ halted' = kept.halted
    /\ results' = kept.results /\ last' = "none"
    /\ UNCHANGED <<checker, steps, listing, builder, typed, kept>>

----------------------------------------------------------------------------
(* The other commands. *)

\* validateProgram of the page.
Loadable(e) == {e.left, e.right} \subseteq I32 /\ ~(e.op = "DIV" /\ e.right = 0)

\* The four instructions the build makes of an expression, which nothing
\* validates, and the four lines the page lists for it.
Compiled(e) == <<[op |-> "PUSH", arg |-> ToI32(e.left)], [op |-> "PUSH", arg |-> ToI32(e.right)],
                 [op |-> e.op, arg |-> 0], [op |-> "HALT", arg |-> 0]>>
Listed(e) == <<[op |-> "PUSH", arg |-> e.left], [op |-> "PUSH", arg |-> e.right],
               [op |-> e.op, arg |-> 0], [op |-> "HALT", arg |-> 0]>>

\* An expression is loaded, and run at once unless it came with /load.
LoadBinary ==
    /\ page = "prompt"
    /\ \E e \in Expressions :
          /\ Loadable(e)
          /\ prog' = Compiled(e) /\ listing' = Listed(e)
    /\ \/ page' = "prompt" /\ phase' = "loaded"
       \/ page' = "running" /\ phase' = "looping"
    /\ valid' = FALSE
    /\ NewVm /\ steps' = 0 /\ results' = <<>>
    /\ UNCHANGED <<checker, builder, typed, kept>>

\* debug_step and debug_reset, which want a session.
DebugStep == phase \in Sessions /\ StepVm
DebugReset == phase \in Sessions /\ Reset /\ last' = "none"

\* /run resets the Vm, and steps it until it stops or the page's own budget,
\* the native one, is spent.
StartRun ==
    /\ page = "prompt" /\ listing # <<>> /\ Len(results) < MaxRuns
    /\ page' = "running" /\ phase' = "looping"
    /\ DebugReset /\ steps' = 0
    /\ UNCHANGED <<prog, valid, checker, results, listing, builder, typed, kept>>

RunStep ==
    /\ page = "running" /\ steps < MaxSteps
    /\ DebugStep
    /\ Spend
    /\ IF last' = "Executed"
         THEN UNCHANGED <<page, phase, results>>
         ELSE /\ page' = "prompt" /\ phase' = "stopped"
              /\ results' = Append(results, <<IF last' = "Halted" THEN Top ELSE 0, last'>>)
    /\ UNCHANGED <<prog, valid, checker, listing, builder, typed, kept>>

RunStops ==
    /\ page = "running" /\ steps = MaxSteps
    /\ page' = "prompt" /\ phase' = "stopped"
    /\ results' = Append(results, <<0, "StepLimitExceeded">>)
    /\ UNCHANGED <<prog, valid, checker, stack, ip, halted, steps, last,
                   listing, builder, typed, kept>>

\* /step executes one instruction.
StepOnce ==
    /\ page = "prompt" /\ listing # <<>>
    /\ DebugStep
    /\ phase' = "stopped"
    /\ UNCHANGED <<prog, valid, checker, steps, results, debugger>>

\* /reset, which an absent session refuses.
ResetVm ==
    /\ page = "prompt"
    /\ DebugReset /\ phase' = "loaded"
    /\ UNCHANGED <<prog, valid, checker, steps, results, debugger>>

PageStep ==
    \/ TypeAssembly \/ PushLine \/ Finish \/ Validate \/ Install \/ Refuse
    \/ LoadBinary \/ StartRun \/ RunStep \/ RunStops \/ StepOnce \/ ResetVm

DebuggerInit == NativeInit \/ PageInit
DebuggerNext == NativeStep \/ PageStep

DebuggerSpec == DebuggerInit /\ [][DebuggerNext]_allVars

----------------------------------------------------------------------------
(* Properties. *)

\* The lines the page labels its steps with, and lists for /disassemble, are
\* those of the session's program, up to the i32 its jumps came out as, after
\* any sequence of loads, refused at any stage or not.  (A jump to 2^32 + k is
\* listed so and goes to k: the page bounds a target only from below.)
ListingIsSession ==
    page \in {"prompt", "running"} =>
        /\ (listing = <<>>) <=> (phase = "none")
        /\ prog = [k \in DOMAIN listing |-> Sent(listing[k])]

=============================================================================
