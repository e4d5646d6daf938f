--------------------------- MODULE MCModuleMachine ---------------------------
(***************************************************************************)
(* Modules for ModuleMachine: every short function over a few instructions *)
(* (most are refused), and longer ones that share, copy, nest and free     *)
(* collections, call, recurse and ask their host.                          *)
(***************************************************************************)
EXTENDS ModuleMachine

Smallest == -2

Fn(arity, locals, code) == [arity |-> arity, locals |-> locals, code |-> code]

Constants == <<[objects |-> <<Text("k")>>, value |-> Reference(1)],
               [objects |-> <<List(<<Integer(1)>>), List(<<Reference(1)>>)>>, value |-> Reference(2)],
               [objects |-> <<Text("l")>>, value |-> Reference(1)]>>

Module(fs, n) ==
    [functions |-> fs, entry |-> 1, constants |-> Constants, inputs |-> n,
     imports |-> <<[name |-> "read", arity |-> 1], [name |-> "clock", arity |-> 0],
                   [name |-> "exec", arity |-> 0]>>]

Alphabet ==
    {Op("Const", 0), Op("LocalGet", 1), Op("LocalSet", 1), Op("LocalTake", 1), Op("ListNew", 1),
     Op("ListPush", 1), Op("Jump", 1), Op("JumpIfZero", 1), Op("JumpIfZero", 4), Op("Return", 1)}

\* Up to four instructions before RETURN.
Short ==
    {Module(<<Fn(0, 1, Append(code, Op("Return", 1)))>>, 0) :
        code \in UNION {[1..n -> Alphabet] : n \in 3..4}}

\* A list in a local grows while it is shared, and grows again when it is not.
Sharing == Fn(0, 2, <<
    Op("ListNew", 1), Op("LocalSet", 1), Op("LocalGet", 1), Op("LocalGet", 1), Op("ListPush", 1),
    Op("LocalSet", 2), Op("LocalTake", 1), Op("Const", 2), Op("ListPush", 1), Op("LocalTake", 2),
    Op("ListPush", 1), Op("LocalSet", 1), Op("LocalGet", 1), Op("ListLen", 1), Op("Return", 1)>>)

\* A map whose deep entry is replaced by a shallow one, and is then nested too deep.
Nesting == Fn(0, 2, <<
    Op("MapNew", 1), Op("ConstValue", 1), Op("ConstValue", 2), Op("MapInsert", 1), Op("LocalSet", 1),
    Op("LocalGet", 1), Op("ConstValue", 1), Op("Const", 1), Op("MapInsert", 1), Op("LocalSet", 2),
    Op("LocalTake", 1), Op("ConstValue", 3), Op("LocalGet", 2), Op("MapInsert", 1), Op("LocalSet", 1),
    Op("LocalTake", 2), Op("ConstValue", 1), Op("MapGet", 1), Op("Return", 1)>>)

\* The same where nothing else holds the map.
Replacing == Fn(0, 1, <<
    Op("MapNew", 1), Op("ConstValue", 1), Op("ConstValue", 2), Op("MapInsert", 1), Op("ConstValue", 1),
    Op("Const", 1), Op("MapInsert", 1), Op("ConstValue", 3), Op("ListNew", 1), Op("MapInsert", 1),
    Op("LocalSet", 1), Op("LocalTake", 1), Op("ConstValue", 3), Op("MapGet", 1), Op("Const", 0),
    Op("ListPush", 1), Op("Return", 1)>>)

\* A loop that nests a list in itself until a limit stops it.
Wrapping == Fn(0, 1, <<
    Op("ListNew", 1), Op("LocalSet", 1), Op("ListNew", 1), Op("LocalTake", 1), Op("ListPush", 1),
    Op("LocalSet", 1), Op("Jump", 3), Op("Return", 1)>>)

\* A join that one way reaches with the local unset, and a loop that takes its local twice.
Joining == Fn(0, 1, <<
    Op("Const", 0), Op("JumpIfZero", 5), Op("Const", 1), Op("LocalSet", 1), Op("LocalGet", 1), Op("Return", 1)>>)

Retaking == Fn(0, 1, <<
    Op("Const", 0), Op("LocalSet", 1), Op("LocalTake", 1), Op("JumpIfZero", 3), Op("Const", 0), Op("Return", 1)>>)

\* A loop in which some ways set a second local.
Looping == Fn(0, 2, <<
    Op("Const", 0), Op("LocalSet", 1), Op("LocalGet", 1), Op("JumpIfZero", 7), Op("Const", 1),
    Op("LocalSet", 2), Op("LocalGet", 1), Op("Const", 1), Op("Add", 1), Op("LocalSet", 1),
    Op("LocalGet", 1), Op("Const", 2), Op("Lt", 1), Op("JumpIfZero", 3), Op("LocalGet", 1), Op("Return", 1)>>)

\* A function that passes its list on to itself with one more item.
Recursing == <<
    Fn(0, 0, <<Op("ListNew", 1), Op("Input", 1), Op("Call", 2), Op("Return", 1)>>),
    Fn(2, 2, <<Op("LocalGet", 2), Op("Const", 0), Op("Eq", 1), Op("JumpIfZero", 7), Op("LocalGet", 1),
               Op("Return", 1), Op("LocalTake", 1), Op("LocalGet", 2), Op("ListPush", 1), Op("LocalGet", 2),
               Op("Const", 1), Op("Sub", 1), Op("Call", 2), Op("Return", 1)>>)>>

\* Answers of the host go into a list with what came in.
Asking == Fn(0, 1, <<
    Op("ListNew", 1), Op("Import", 2), Op("ListPush", 1), Op("Input", 1), Op("Import", 1),
    Op("ListPush", 1), Op("LocalSet", 1), Op("LocalGet", 1), Op("Const", 1), Op("ListGet", 1),
    Op("Return", 1)>>)

Denied == Fn(0, 0, <<Op("Import", 3), Op("Return", 1)>>)

Dividing == Fn(0, 0, <<
    Op("Input", 1), Op("Const", 2), Op("Mul", 1), Op("Const", 1), Op("Input", 1), Op("Sub", 1), Op("Div", 1), Op("Return", 1)>>)

MCModules ==
    Short \cup {Module(fs, 1) : fs \in {<<Sharing>>, <<Nesting>>, <<Replacing>>, <<Wrapping>>, <<Joining>>, <<Retaking>>,
                                        <<Looping>>, Recursing, <<Asking>>, <<Denied>>, <<Dividing>>}}

Plain(v) == [objects |-> <<>>, value |-> v]
AList == [objects |-> <<Text("k"), List(<<Reference(1), Integer(1)>>)>>, value |-> Reference(2)]

MCInputs == {<<Plain(Integer(n))>> : n \in {0, 2}} \cup {<<AList>>}
MCAnswers == {Plain(Integer(1)), AList, Constants[2]}
==============================================================================
