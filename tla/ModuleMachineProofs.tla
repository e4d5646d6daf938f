------------------------ MODULE ModuleMachineProofs ------------------------
(***************************************************************************)
(* Proofs about ModuleMachine, for every set of modules, inputs and        *)
(* answers of an import.                                                   *)
(*                                                                         *)
(* First, a module the validator accepted never meets one of the errors of *)
(* a malformed one: the walk over a function is closed under the steps its *)
(* instructions take, and each frame stays at a point of it.               *)
(*                                                                         *)
(* Then, no object that something else can reach is changed: what is held  *)
(* is in use, and a collection whose count is one is held by the operand   *)
(* that an instruction consumes and by nothing else.                       *)
(***************************************************************************)
EXTENDS ModuleMachine, SequenceTheorems, FiniteSetTheorems, WellFoundedInduction, TLAPS

LEMMA LeastOf ==
    ASSUME NEW T, T \subseteq Nat, T # {}
    PROVE  \E x \in T : \A y \in T : x <= y
<1>1. PICK x \in T : \A y \in T : ~(<<y, x>> \in OpToRel(<, Nat))
  BY NatLessThanWellFounded, WFMin
<1>2. \A y \in T : ~(y < x)  BY <1>1 DEF OpToRel
<1> QED  BY <1>2

\* Induction over the numbers, for what a set says.
LEMMA Reaches ==
    ASSUME NEW S, 0 \in S, \A n \in Nat : n \in S => n + 1 \in S
    PROVE  \A n \in Nat : n \in S
<1> DEFINE bad == {n \in Nat : n \notin S}
<1>1. ASSUME bad # {} PROVE FALSE
  <2>1. PICK n \in bad : \A k \in bad : n <= k
    <3>1. bad \subseteq Nat  OBVIOUS
    <3> HIDE DEF bad
    <3> QED  BY <1>1, <3>1, LeastOf
  <2>2. n \in Nat /\ n # 0 /\ n - 1 \in Nat /\ n - 1 + 1 = n  BY <2>1
  <2>3. n - 1 \in S  BY <2>1, <2>2
  <2> QED  BY <2>1, <2>2, <2>3
<1> QED  BY <1>1

----------------------------------------------------------------------------
(* The walk over a function. *)

Turn(m, f, w) == IF w.work = <<>> \/ ~w.ok THEN w ELSE Visit(m, f, w)

Turns(g, m, f, visits) ==
    g = [n \in 0..(visits + 1) |-> IF n = 0 THEN StartWalk(f, visits) ELSE Turn(m, f, g[n - 1])]

LEMMA WalkIs ==
    ASSUME NEW m, NEW f, NEW visits
    PROVE  Walk(m, f, visits) = (CHOOSE g : Turns(g, m, f, visits))[visits + 1]
BY DEF Walk, Turns, Turn

LEMMA WalkTurns ==
    ASSUME NEW m, NEW f, NEW visits \in Nat
    PROVE  \E g : /\ Walk(m, f, visits) = g[visits + 1]
                  /\ g[0] = StartWalk(f, visits)
                  /\ \A n \in 0..visits : g[n + 1] = Turn(m, f, g[n])
<1> DEFINE A == StartWalk(f, visits)
           Good(g, n) == g = [k \in 0..n |-> IF k = 0 THEN A ELSE Turn(m, f, g[k - 1])]
           S == {n \in Nat : \E g : Good(g, n)}
<1>1. 0 \in S
  <2> DEFINE g == [k \in 0..0 |-> A]
  <2>1. Good(g, 0)
    <3>1. \A k \in 0..0 : k = 0  OBVIOUS
    <3> QED  BY <3>1
  <2> QED  BY <2>1
<1>2. ASSUME NEW n \in Nat, n \in S PROVE n + 1 \in S
  <2>1. PICK g : Good(g, n)  BY <1>2
  <2> DEFINE h == [k \in 0..(n + 1) |-> IF k = 0 THEN A ELSE Turn(m, f, g[k - 1])]
  <2> HIDE DEF A
  <2>2. \A k \in 0..n : h[k] = g[k]
    <3>1. \A k \in 0..n : k \in 0..(n + 1)  OBVIOUS
    <3> QED  BY <2>1, <3>1
  <2>3. \A k \in 0..(n + 1) : k # 0 => k - 1 \in 0..n  OBVIOUS
  <2>4. h = [k \in 0..(n + 1) |-> IF k = 0 THEN A ELSE Turn(m, f, h[k - 1])]
    <3> HIDE DEF h
    <3>1. \A k \in 0..(n + 1) : k # 0 => Turn(m, f, g[k - 1]) = Turn(m, f, h[k - 1])  BY <2>2, <2>3
    <3> QED  BY <3>1 DEF h
  <2>5. Good(h, n + 1)  BY <2>4
  <2> HIDE DEF h
  <2>6. n + 1 \in Nat  OBVIOUS
  <2> QED  BY <2>5, <2>6
<1>3. visits + 1 \in S
  <2> HIDE DEF S
  <2>1. \A n \in Nat : n \in S => n + 1 \in S  BY <1>2
  <2> QED  BY <1>1, <2>1, Reaches
<1>4. PICK g0 : Turns(g0, m, f, visits)  BY <1>3 DEF Turns
<1> DEFINE g == CHOOSE g : Turns(g, m, f, visits)
<1>5. Turns(g, m, f, visits)  BY <1>4
<1>6. Walk(m, f, visits) = g[visits + 1]  BY WalkIs
<1> HIDE DEF g, A
<1>7. \A n \in 0..(visits + 1) : g[n] = IF n = 0 THEN StartWalk(f, visits) ELSE Turn(m, f, g[n - 1])
  BY <1>5 DEF Turns
<1>8. g[0] = StartWalk(f, visits)  BY <1>7
<1>9. ASSUME NEW n \in 0..visits PROVE g[n + 1] = Turn(m, f, g[n])
  <2>1. n + 1 \in 0..(visits + 1) /\ n + 1 # 0 /\ n + 1 - 1 = n  OBVIOUS
  <2> QED  BY <1>7, <2>1
<1> QED  BY <1>6, <1>8, <1>9

----------------------------------------------------------------------------
(* What the walk knows when it ends. *)

Seen == [depth : -1..MaxOperands, init : SUBSET Nat]
Items(f) == [ip : DOMAIN f.code, depth : 0..MaxOperands, init : SUBSET Nat]

WalkTyped(f, w) ==
    /\ DOMAIN w = {"states", "work", "visits", "max", "ok"}
    /\ w.states \in [DOMAIN f.code -> Seen] /\ w.work \in Seq(Items(f))
    /\ w.visits \in Nat /\ w.ok \in BOOLEAN

Covered(w, s, d, i) ==
    \/ w.states[s] # Unseen /\ w.states[s].depth = d /\ w.states[s].init \subseteq i
    \/ \E k \in 1..Len(w.work) : w.work[k].ip = s /\ w.work[k].depth = d /\ w.work[k].init \subseteq i

Passes(m, f, w, ip) ==
    LET at == w.states[ip]
        i  == f.code[ip] IN
    /\ ~Rejects(m, i, at.depth, at.init)
    /\ \A j \in 1..Len(Successors(i, ip)) :
         Covered(w, Successors(i, ip)[j], NextDepth(m, i, at.depth), Initializes(i, at.init))

\* Where a function starts is covered, and wherever an instruction that was seen leads to.
Walked(m, f, w) ==
    /\ Covered(w, 1, 0, 1..f.arity)
    /\ \A ip \in DOMAIN f.code : w.states[ip] # Unseen => Passes(m, f, w, ip)

LEMMA InstructionTyped ==
    ASSUME NEW m \in Candidates, NEW f \in Functions, FunctionFits(m, f), NEW ip \in DOMAIN f.code
    PROVE  /\ f.code[ip].op \in Ops /\ f.code[ip].n \in Int
           /\ DOMAIN f.code = 1..Len(f.code) /\ Len(f.code) \in Nat /\ ip \in Nat
           /\ f.arity \in Nat /\ f.locals \in Nat
           /\ InRange(m, f, f.code[ip])
<1>1. f.code \in Seq(Instructions) /\ f.arity \in Nat /\ f.locals \in Nat  BY DEF Functions
<1>2. f.code[ip] \in Instructions  BY <1>1
<1>3. f.code[ip].op \in Ops /\ f.code[ip].n \in Int  BY <1>2 DEF Instructions
<1> QED  BY <1>1, <1>3 DEF FunctionFits

LEMMA PartsTyped ==
    ASSUME NEW m \in Candidates
    PROVE  /\ \A k \in DOMAIN m.functions : m.functions[k] \in Functions
           /\ \A k \in DOMAIN m.imports : m.imports[k].arity \in Nat
           /\ \A k \in DOMAIN m.constants : m.constants[k] \in OwnedValues
           /\ \A k \in DOMAIN m.functions : m.functions[k].arity \in Nat /\ m.functions[k].locals \in Nat
<1>1. m.functions \in Seq(Functions) /\ m.imports \in Seq(Imports) /\ m.constants \in Seq(OwnedValues)
  BY DEF Candidates
<1>2. \A k \in DOMAIN m.functions : m.functions[k] \in Functions  BY <1>1
<1>3. \A k \in DOMAIN m.imports : m.imports[k] \in Imports  BY <1>1
<1>4. \A k \in DOMAIN m.imports : m.imports[k].arity \in Nat  BY <1>3 DEF Imports
<1>5. \A k \in DOMAIN m.constants : m.constants[k] \in OwnedValues  BY <1>1
<1>6. \A k \in DOMAIN m.functions : m.functions[k].arity \in Nat /\ m.functions[k].locals \in Nat
  BY <1>2 DEF Functions
<1> QED  BY <1>2, <1>4, <1>5, <1>6

LEMMA RequiredTyped ==
    ASSUME NEW m \in Candidates, NEW f \in Functions, FunctionFits(m, f), NEW ip \in DOMAIN f.code
    PROVE  Required(m, f.code[ip]) \in Nat
<1> DEFINE i == f.code[ip]
<1>1. i.op \in Ops /\ InRange(m, f, i)  BY InstructionTyped
<1> HIDE DEF i
<1> SUFFICES Required(m, i) \in Nat  BY DEF i
<1>2. CASE i.op = "Call"
  <2>1. i.n \in DOMAIN m.functions  BY <1>1, <1>2 DEF InRange
  <2>2. m.functions[i.n].arity \in Nat  BY <2>1, PartsTyped
  <2>3. Required(m, i) = m.functions[i.n].arity  BY <1>2 DEF Required, Pushing, Binary
  <2> QED  BY <2>2, <2>3
<1>3. CASE i.op = "Import"
  <2>1. i.n \in DOMAIN m.imports  BY <1>1, <1>3 DEF InRange
  <2>2. m.imports[i.n].arity \in Nat  BY <2>1, PartsTyped
  <2>3. Required(m, i) = m.imports[i.n].arity  BY <1>3 DEF Required, Pushing, Binary
  <2> QED  BY <2>2, <2>3
<1>4. CASE i.op \notin {"Call", "Import"}
  <2>1. i.op \in Pushing \cup {"Jump"} => Required(m, i) = 0
    BY DEF Required, Pushing, Binary
  <2>2. i.op \in {"LocalSet", "JumpIfZero", "Return", "ListLen"} => Required(m, i) = 1
    BY DEF Required, Pushing, Binary
  <2>3. i.op \in Binary => Required(m, i) = 2  BY DEF Required, Pushing, Binary
  <2>4. i.op = "MapInsert" => Required(m, i) = 3  BY DEF Required, Pushing, Binary
  <2> QED  BY <1>1, <1>4, <2>1, <2>2, <2>3, <2>4 DEF Ops
<1> QED  BY <1>2, <1>3, <1>4

LEMMA SuccessorsTyped ==
    ASSUME NEW m \in Candidates, NEW f \in Functions, FunctionFits(m, f), NEW ip \in DOMAIN f.code
    PROVE  Successors(f.code[ip], ip) \in Seq(DOMAIN f.code)
<1> DEFINE i == f.code[ip]
<1>1. i.op \in Ops /\ InRange(m, f, i) /\ i.n \in Int  BY InstructionTyped
<1>2. Successors(i, ip) \in Seq(DOMAIN f.code)
  <2>1. CASE i.op = "Return"  BY <2>1 DEF Successors
  <2>2. CASE i.op # "Return"
    <3>1. DOMAIN f.code = 1..Len(f.code) /\ Len(f.code) \in Nat /\ ip \in Nat  BY InstructionTyped
    <3>2. f.code[Len(f.code)].op = "Return"  BY DEF FunctionFits, Last
    <3>3. ip + 1 \in DOMAIN f.code  BY <2>2, <3>1, <3>2
    <3>4. i.op \in {"Jump", "JumpIfZero"} => i.n \in DOMAIN f.code  BY <1>1 DEF InRange
    <3>5. i.op = "Jump" => Successors(i, ip) = <<i.n>>  BY DEF Successors
    <3>6. i.op = "JumpIfZero" => Successors(i, ip) = <<i.n, ip + 1>>  BY DEF Successors
    <3>7. i.op \notin {"Jump", "JumpIfZero"} => Successors(i, ip) = <<ip + 1>>  BY <2>2 DEF Successors
    <3> DEFINE D == DOMAIN f.code
    <3> HIDE DEF i, D
    <3>8. ip + 1 \in D /\ (i.op \in {"Jump", "JumpIfZero"} => i.n \in D)  BY <3>3, <3>4 DEF D
    <3>9. <<ip + 1>> \in Seq(D) /\ (i.op = "Jump" => <<i.n>> \in Seq(D))  BY <3>8
    <3>10. i.op = "JumpIfZero" => <<i.n, ip + 1>> \in Seq(D)  BY <3>8
    <3>11. Successors(i, ip) \in Seq(D)  BY <3>5, <3>6, <3>7, <3>8, <3>9, <3>10
    <3> QED  BY <3>11 DEF D
  <2> QED  BY <2>1, <2>2
<1> QED  BY <1>2

\* An instruction that is not rejected leaves as many operands as there is room
\* for, and leads to instructions of its function.
LEMMA NextTyped ==
    ASSUME NEW m \in Candidates, NEW f \in Functions, FunctionFits(m, f), NEW ip \in DOMAIN f.code,
           NEW depth \in Nat, NEW init \in SUBSET Nat, ~Rejects(m, f.code[ip], depth, init)
    PROVE  /\ NextDepth(m, f.code[ip], depth) \in 0..MaxOperands
           /\ depth >= Required(m, f.code[ip])
           /\ Initializes(f.code[ip], init) \in SUBSET Nat
           /\ Successors(f.code[ip], ip) \in Seq(DOMAIN f.code)
<1> DEFINE i == f.code[ip]
           r == Required(m, i)
<1>1. i.op \in Ops /\ InRange(m, f, i) /\ i.n \in Int  BY InstructionTyped
<1>2. r \in Nat  BY RequiredTyped
<1>3. depth >= r /\ ~(NextDepth(m, i, depth) > MaxOperands)  BY <1>2 DEF Rejects
<1>4. i.op \in {"LocalSet", "LocalTake"} => i.n \in Nat
  <2>1. f.locals \in Nat  BY InstructionTyped
  <2> QED  BY <1>1, <2>1 DEF InRange
<1>5. Successors(i, ip) \in Seq(DOMAIN f.code)  BY SuccessorsTyped
<1>6. NextDepth(m, i, depth) \in Nat
  <2>1. CASE i.op \in {"Call", "Import"}
    <3>1. NextDepth(m, i, depth) = depth - r + 1
      <4> HIDE DEF i, r
      <4> QED  BY <2>1 DEF NextDepth, Pushing, Binary, r
    <3> QED  BY <1>2, <1>3, <3>1
  <2>2. CASE i.op \notin {"Call", "Import"}
    <3> HIDE DEF i
    <3> QED  BY <1>1, <1>3, <2>2 DEF NextDepth, Required, Ops, Pushing, Binary, r
  <2> QED  BY <2>1, <2>2
<1>7. Initializes(i, init) \in SUBSET Nat
  <2> HIDE DEF i
  <2> QED  BY <1>4 DEF Initializes
<1>8. NextDepth(m, i, depth) \in 0..MaxOperands  BY <1>3, <1>6, CheckAssumption
<1> QED  BY <1>3, <1>5, <1>7, <1>8

LEMMA FrontIs ==
    ASSUME NEW S, NEW s \in Seq(S), s # <<>>
    PROVE  /\ Front(s) \in Seq(S) /\ Len(Front(s)) = Len(s) - 1 /\ Len(s) \in Nat \ {0}
           /\ \A i \in 1..(Len(s) - 1) : Front(s)[i] = s[i]
           /\ Last(s) \in S /\ Last(s) = s[Len(s)]
<1>1. Len(s) \in Nat /\ Len(s) - 1 \in Nat /\ Len(s) # 0 /\ \A i \in 1..Len(s) : s[i] \in S  OBVIOUS
<1>2. 1..(Len(s) - 1) \subseteq 1..Len(s)  BY <1>1
<1>3. Front(s) = SubSeq(s, 1, Len(s) - 1)  BY DEF Front
<1>4. /\ Len(SubSeq(s, 1, Len(s) - 1)) = Len(s) - 1
      /\ \A i \in 1..(Len(s) - 1) : SubSeq(s, 1, Len(s) - 1)[i] = s[i]
      /\ SubSeq(s, 1, Len(s) - 1) \in Seq(S)
  <2> DEFINE n == Len(s) - 1
  <2>1. n \in Nat /\ n + 1 = Len(s) /\ \A i \in 1..n : s[i] \in S  BY <1>1, <1>2
  <2>2. \A i \in 1..n : 1 + i - 1 = i  BY <2>1
  <2> HIDE DEF n
  <2>3. SubSeq(s, 1, n) = [i \in 1..n |-> s[1 + i - 1]]  BY <2>1
  <2>4. SubSeq(s, 1, n) = [i \in 1..n |-> s[i]]  BY <2>2, <2>3
  <2>5. [i \in 1..n |-> s[i]] \in Seq(S) /\ Len([i \in 1..n |-> s[i]]) = n  BY <2>1
  <2> QED  BY <2>4, <2>5 DEF n
<1>5. Last(s) = s[Len(s)] /\ s[Len(s)] \in S  BY <1>1 DEF Last
<1> QED  BY <1>1, <1>3, <1>4, <1>5

Pushes(m, f, top, init) ==
    [j \in DOMAIN Successors(f.code[top.ip], top.ip) |->
        [ip    |-> Successors(f.code[top.ip], top.ip)[j],
         depth |-> NextDepth(m, f.code[top.ip], top.depth),
         init  |-> Initializes(f.code[top.ip], init)]]

Stopped(w, v) ==
    /\ DOMAIN v = {"states", "work", "visits", "max", "ok"}
    /\ v.states = w.states /\ v.work = w.work /\ v.visits = w.visits /\ v.ok = FALSE

Rested(w, v) ==
    /\ DOMAIN v = {"states", "work", "visits", "max", "ok"}
    /\ v.states = w.states /\ v.work = Front(w.work) /\ v.visits = w.visits - 1 /\ v.ok = w.ok

Entered(m, f, w, top, init, v) ==
    /\ DOMAIN v = {"states", "work", "visits", "max", "ok"}
    /\ v.states = [w.states EXCEPT ![top.ip] = [depth |-> top.depth, init |-> init]]
    /\ v.work = Front(w.work) \o Pushes(m, f, top, init)
    /\ v.visits = w.visits - 1 /\ v.ok = w.ok

LEMMA VisitIs ==
    ASSUME NEW m, NEW f, NEW w, WalkTyped(f, w), NEW top, top = Last(w.work),
           NEW known, known = w.states[top.ip], NEW init, init = Merged(known, top)
    PROVE  IF w.visits = 0 \/ (known # Unseen /\ known.depth # top.depth) THEN Stopped(w, Visit(m, f, w))
           ELSE IF known # Unseen /\ init = known.init THEN Rested(w, Visit(m, f, w))
           ELSE IF Rejects(m, f.code[top.ip], top.depth, init) THEN Stopped(w, Visit(m, f, w))
           ELSE Entered(m, f, w, top, init, Visit(m, f, w))
<1> DEFINE stopped == [w EXCEPT !.ok = FALSE]
           rest == [w EXCEPT !.work = Front(@), !.visits = @ - 1]
           onward == NextDepth(m, f.code[top.ip], top.depth)
           pushed == Pushes(m, f, top, init)
           entered == [rest EXCEPT !.states[top.ip] = [depth |-> top.depth, init |-> init],
                                   !.max = IF onward > @ THEN onward ELSE @,
                                   !.work = @ \o pushed]
<1>1. DOMAIN w = {"states", "work", "visits", "max", "ok"}
  BY DEF WalkTyped
<1>2. Stopped(w, stopped)  BY <1>1 DEF Stopped
<1>3. Rested(w, rest)  BY <1>1 DEF Rested
<1>4. Entered(m, f, w, top, init, entered)
  <2> HIDE DEF onward, pushed, rest
  <2>1. /\ DOMAIN entered = DOMAIN rest
        /\ entered.states = [rest.states EXCEPT ![top.ip] = [depth |-> top.depth, init |-> init]]
        /\ entered.work = rest.work \o pushed /\ entered.visits = rest.visits /\ entered.ok = rest.ok
    BY <1>3 DEF Rested
  <2> HIDE DEF entered
  <2> QED  BY <1>3, <2>1 DEF Rested, Entered, pushed
<1>5. Visit(m, f, w) =
         IF w.visits = 0 \/ (known # Unseen /\ known.depth # top.depth) THEN stopped
         ELSE IF known # Unseen /\ init = known.init THEN rest
         ELSE IF Rejects(m, f.code[top.ip], top.depth, init) THEN stopped
         ELSE entered
  BY DEF Visit, Pushes
<1> HIDE DEF stopped, rest, entered
<1> QED  BY <1>2, <1>3, <1>4, <1>5

\* One turn keeps the types, and what was covered stays covered.
LEMMA VisitKeeps ==
    ASSUME NEW m \in Candidates, NEW f \in Functions, FunctionFits(m, f),
           NEW w, WalkTyped(f, w), w.work # <<>>, w.ok, Walked(m, f, w)
    PROVE  WalkTyped(f, Visit(m, f, w)) /\ (Visit(m, f, w).ok => Walked(m, f, Visit(m, f, w)))
<1> DEFINE top == Last(w.work)
           known == w.states[top.ip]
           init == Merged(known, top)
           i == f.code[top.ip]
           v == Visit(m, f, w)
           n == Len(w.work)
<1>1. /\ w.states \in [DOMAIN f.code -> Seen] /\ w.work \in Seq(Items(f))
      /\ w.visits \in Nat /\ w.ok \in BOOLEAN /\ w.ok
  BY DEF WalkTyped
<1>2. /\ Front(w.work) \in Seq(Items(f)) /\ Len(Front(w.work)) = n - 1 /\ n \in Nat \ {0}
      /\ \A k \in 1..(n - 1) : Front(w.work)[k] = w.work[k]
      /\ top \in Items(f) /\ top = w.work[n]
  <2>1. w.work \in Seq(Items(f)) /\ w.work # <<>>  BY <1>1
  <2> QED  BY <2>1, FrontIs
<1>3. top.ip \in DOMAIN f.code /\ top.depth \in 0..MaxOperands /\ top.init \in SUBSET Nat  BY <1>2 DEF Items
<1>4. known \in Seen  BY <1>1, <1>3
<1>5. known.init \in SUBSET Nat /\ known.depth \in -1..MaxOperands  BY <1>4 DEF Seen
<1>6. init \subseteq top.init /\ init \in SUBSET Nat /\ (known # Unseen => init = known.init \cap top.init)
  BY <1>3, <1>5 DEF Merged
<1>7. IF w.visits = 0 \/ (known # Unseen /\ known.depth # top.depth) THEN Stopped(w, v)
      ELSE IF known # Unseen /\ init = known.init THEN Rested(w, v)
      ELSE IF Rejects(m, i, top.depth, init) THEN Stopped(w, v)
      ELSE Entered(m, f, w, top, init, v)
  BY VisitIs
<1> HIDE DEF v, top, n, known, init
<1>8. CASE Stopped(w, v)  BY <1>1, <1>8 DEF Stopped, WalkTyped, v
<1>9. CASE w.visits # 0 /\ known # Unseen /\ known.depth = top.depth /\ init = known.init /\ Rested(w, v)
  <2>1. WalkTyped(f, v)  BY <1>1, <1>2, <1>9 DEF WalkTyped, Rested
  <2>2. ASSUME NEW s, NEW d, NEW a, Covered(w, s, d, a) PROVE Covered(v, s, d, a)
    <3>1. v.states = w.states /\ v.work = Front(w.work)  BY <1>9 DEF Rested
    <3>2. CASE w.states[s] # Unseen /\ w.states[s].depth = d /\ w.states[s].init \subseteq a
      BY <3>1, <3>2 DEF Covered
    <3>3. ASSUME NEW k \in 1..n, w.work[k].ip = s, w.work[k].depth = d, w.work[k].init \subseteq a
          PROVE  Covered(v, s, d, a)
      <4>1. CASE k = n
        <5>1. s = top.ip /\ d = top.depth /\ top.init \subseteq a  BY <1>2, <3>3, <4>1
        <5>2. w.states[s] = known /\ known.init \subseteq a  BY <1>6, <1>9, <5>1 DEF known
        <5> QED  BY <1>9, <3>1, <5>1, <5>2 DEF Covered
      <4>2. CASE k # n
        <5>1. k \in 1..(n - 1) /\ k \in 1..Len(v.work)  BY <1>2, <3>1, <4>2
        <5>2. v.work[k] = w.work[k]  BY <1>2, <3>1, <5>1
        <5> QED  BY <3>3, <5>1, <5>2 DEF Covered
      <4> QED  BY <4>1, <4>2
    <3> QED  BY <2>2, <3>2, <3>3 DEF Covered, n
  <2>3. Walked(m, f, v)
    <3>1. v.states = w.states  BY <1>9 DEF Rested
    <3> QED  BY <2>2, <3>1 DEF Walked, Passes
  <2> QED  BY <2>1, <2>3 DEF v
<1>10. CASE /\ w.visits # 0 /\ (known # Unseen => known.depth = top.depth)
            /\ ~Rejects(m, i, top.depth, init) /\ Entered(m, f, w, top, init, v)
  <2> DEFINE now == [depth |-> top.depth, init |-> init]
             d1 == NextDepth(m, i, top.depth)
             a1 == Initializes(i, init)
             onward == Successors(i, top.ip)
             pushed == Pushes(m, f, top, init)
  <2>1. top.depth \in Nat  BY <1>3, CheckAssumption
  <2>2. d1 \in 0..MaxOperands /\ a1 \in SUBSET Nat /\ onward \in Seq(DOMAIN f.code)
    BY <1>3, <1>6, <1>10, <2>1, NextTyped
  <2>3. now \in Seen /\ now # Unseen
    <3>1. top.depth # -1 /\ top.depth \in -1..MaxOperands  BY <1>3, CheckAssumption
    <3>2. now.depth # Unseen.depth  BY <3>1 DEF Unseen
    <3>3. now # Unseen  BY <3>2
    <3>4. now \in Seen  BY <1>6, <3>1 DEF Seen
    <3> QED  BY <3>3, <3>4
  <2>4. v.states = [w.states EXCEPT ![top.ip] = now] /\ v.work = Front(w.work) \o pushed
    BY <1>10 DEF Entered
  <2> HIDE DEF now, d1, a1
  <2>5. v.states \in [DOMAIN f.code -> Seen] /\ v.states[top.ip] = now
        /\ \A ip \in DOMAIN f.code : ip # top.ip => v.states[ip] = w.states[ip]
    BY <1>1, <1>3, <2>3, <2>4
  <2>6. /\ pushed \in Seq(Items(f)) /\ Len(pushed) = Len(onward) /\ Len(onward) \in Nat
        /\ \A j \in 1..Len(onward) : pushed[j].ip = onward[j] /\ pushed[j].depth = d1 /\ pushed[j].init = a1
    <3>1. DOMAIN onward = 1..Len(onward) /\ Len(onward) \in Nat /\ \A j \in 1..Len(onward) : onward[j] \in DOMAIN f.code
      BY <2>2
    <3>2. pushed = [j \in 1..Len(onward) |-> [ip |-> onward[j], depth |-> d1, init |-> a1]]
      BY <3>1 DEF Pushes, d1, a1
    <3>3. \A j \in 1..Len(onward) : [ip |-> onward[j], depth |-> d1, init |-> a1] \in Items(f)
      BY <2>2, <3>1 DEF Items
    <3> HIDE DEF onward, pushed
    <3>4. pushed \in [1..Len(onward) -> Items(f)]  BY <3>2, <3>3
    <3>5. pushed \in Seq(Items(f)) /\ Len(pushed) = Len(onward)  BY <3>1, <3>4
    <3> QED  BY <3>1, <3>2, <3>5
  <2> HIDE DEF onward, pushed
  <2>7. /\ v.work \in Seq(Items(f)) /\ Len(v.work) = n - 1 + Len(onward)
        /\ \A k \in 1..(n - 1) : v.work[k] = w.work[k]
        /\ \A j \in 1..Len(onward) : v.work[n - 1 + j] = pushed[j]
    <3>1. v.work \in Seq(Items(f)) /\ Len(v.work) = n - 1 + Len(onward)
          /\ \A k \in 1..(n - 1 + Len(onward)) :
               v.work[k] = IF k <= n - 1 THEN Front(w.work)[k] ELSE pushed[k - (n - 1)]
      <4> DEFINE front == Front(w.work)
      <4>1. front \in Seq(Items(f)) /\ pushed \in Seq(Items(f))  BY <1>2, <2>6
      <4> HIDE DEF front
      <4>2. /\ front \o pushed \in Seq(Items(f))
            /\ Len(front \o pushed) = Len(front) + Len(pushed)
            /\ \A k \in 1..(Len(front) + Len(pushed)) :
                 (front \o pushed)[k] = IF k <= Len(front) THEN front[k] ELSE pushed[k - Len(front)]
        BY <4>1, ConcatProperties
      <4>3. Len(front) = n - 1 /\ Len(pushed) = Len(onward) /\ v.work = front \o pushed  BY <1>2, <2>4, <2>6 DEF front
      <4> QED  BY <4>2, <4>3 DEF front
    <3>2. \A k \in 1..(n - 1) : k \in 1..(n - 1 + Len(onward)) /\ k <= n - 1  BY <1>2, <2>6
    <3>4. \A k \in 1..(n - 1) : v.work[k] = w.work[k]  BY <1>2, <3>1, <3>2
    <3>5. ASSUME NEW j \in 1..Len(onward) PROVE v.work[n - 1 + j] = pushed[j]
      <4> DEFINE q == n - 1 + j
      <4>1. q \in 1..(n - 1 + Len(onward)) /\ ~(q <= n - 1) /\ q - (n - 1) = j
        <5>1. n \in Nat /\ n > 0 /\ Len(onward) \in Nat /\ j \in Nat /\ 1 <= j /\ j <= Len(onward)  BY <1>2, <2>6
        <5> QED  BY <5>1
      <4> HIDE DEF q
      <4>2. v.work[q] = pushed[j]  BY <3>1, <4>1
      <4> QED  BY <4>2 DEF q
    <3> QED  BY <3>1, <3>4, <3>5
  <2>8. WalkTyped(f, v)
    <3>1. /\ DOMAIN v = {"states", "work", "visits", "max", "ok"}
          /\ v.visits = w.visits - 1 /\ v.ok = w.ok
      BY <1>10 DEF Entered
    <3> QED  BY <1>1, <1>10, <2>5, <2>7, <3>1 DEF WalkTyped
  <2>9. ASSUME NEW s, NEW d, NEW a, Covered(w, s, d, a), s \in DOMAIN f.code PROVE Covered(v, s, d, a)
    <3>1. CASE w.states[s] # Unseen /\ w.states[s].depth = d /\ w.states[s].init \subseteq a
      <4>1. CASE s = top.ip
        <5>1. known # Unseen /\ d = top.depth /\ init \subseteq a  BY <1>6, <1>10, <3>1, <4>1 DEF known
        <5>2. v.states[s] # Unseen /\ v.states[s].depth = d /\ v.states[s].init = init
          BY <2>3, <2>5, <4>1, <5>1 DEF now
        <5> QED  BY <5>1, <5>2 DEF Covered
      <4>2. CASE s # top.ip
        <5>1. v.states[s] = w.states[s]  BY <2>5, <2>9, <4>2
        <5> QED  BY <3>1, <5>1 DEF Covered
      <4> QED  BY <4>1, <4>2
    <3>2. ASSUME NEW k \in 1..n, w.work[k].ip = s, w.work[k].depth = d, w.work[k].init \subseteq a
          PROVE  Covered(v, s, d, a)
      <4>1. CASE k = n
        <5>1. s = top.ip /\ d = top.depth /\ init \subseteq a  BY <1>2, <1>6, <3>2, <4>1
        <5>2. v.states[s] # Unseen /\ v.states[s].depth = d /\ v.states[s].init = init
          BY <2>3, <2>5, <5>1 DEF now
        <5> QED  BY <5>1, <5>2 DEF Covered
      <4>2. CASE k # n
        <5>1. k \in 1..(n - 1) /\ k \in 1..Len(v.work)  BY <1>2, <2>6, <2>7, <4>2
        <5>2. v.work[k] = w.work[k]  BY <2>7, <5>1
        <5> QED  BY <3>2, <5>1, <5>2 DEF Covered
      <4> QED  BY <4>1, <4>2
    <3> QED  BY <2>9, <3>1, <3>2 DEF Covered, n
  <2>10. Passes(m, f, v, top.ip)
    <3>1. v.states[top.ip].depth = top.depth /\ v.states[top.ip].init = init  BY <2>5 DEF now
    <3>2. ASSUME NEW j \in 1..Len(onward) PROVE Covered(v, onward[j], d1, a1)
      <4>1. n - 1 + j \in 1..Len(v.work)  BY <1>2, <2>6, <2>7
      <4>2. v.work[n - 1 + j].ip = onward[j] /\ v.work[n - 1 + j].depth = d1 /\ v.work[n - 1 + j].init = a1
        BY <2>6, <2>7
      <4> QED  BY <4>1, <4>2 DEF Covered
    <3> QED  BY <1>10, <3>1, <3>2 DEF Passes, onward, d1, a1
  <2>11. ASSUME NEW ip \in DOMAIN f.code, v.states[ip] # Unseen PROVE Passes(m, f, v, ip)
    <3>1. CASE ip = top.ip  BY <2>10, <3>1
    <3>2. CASE ip # top.ip
      <4>1. v.states[ip] = w.states[ip]  BY <2>5, <3>2
      <4>2. Passes(m, f, w, ip)  BY <2>11, <4>1 DEF Walked
      <4>3. w.states[ip] \in Seen /\ w.states[ip] # Unseen  BY <1>1, <2>11, <4>1
      <4> DEFINE at == w.states[ip]
                 to == Successors(f.code[ip], ip)
      <4>4. ASSUME NEW j \in 1..Len(to)
            PROVE  Covered(v, to[j], NextDepth(m, f.code[ip], at.depth), Initializes(f.code[ip], at.init))
        <5>1. ~Rejects(m, f.code[ip], at.depth, at.init) /\
              Covered(w, to[j], NextDepth(m, f.code[ip], at.depth), Initializes(f.code[ip], at.init))
          BY <4>2 DEF Passes
        <5>2. to[j] \in DOMAIN f.code
          <6>1. to \in Seq(DOMAIN f.code)  BY SuccessorsTyped
          <6> HIDE DEF to
          <6> QED  BY <6>1
        <5> QED  BY <2>9, <5>1, <5>2
      <4> QED  BY <4>1, <4>2, <4>4 DEF Passes
    <3> QED  BY <3>1, <3>2
  <2>12. Covered(v, 1, 0, 1..f.arity)
    <3>1. 1 \in DOMAIN f.code
      <4>1. DOMAIN f.code = 1..Len(f.code) /\ Len(f.code) \in Nat /\ top.ip \in Nat  BY <1>3, InstructionTyped
      <4> QED  BY <1>3, <4>1
    <3> QED  BY <2>9, <3>1 DEF Walked
  <2> QED  BY <2>8, <2>11, <2>12 DEF Walked, v
<1> QED  BY <1>7, <1>8, <1>9, <1>10

LEMMA StartWalked ==
    ASSUME NEW m \in Candidates, NEW f \in Functions, FunctionFits(m, f), NEW visits \in Nat
    PROVE  WalkTyped(f, StartWalk(f, visits)) /\ Walked(m, f, StartWalk(f, visits))
<1> DEFINE w == StartWalk(f, visits)
           item == [ip |-> 1, depth |-> 0, init |-> 1..f.arity]
<1>1. 1 \in DOMAIN f.code /\ f.arity \in Nat
  <2>1. f.code \in Seq(Instructions) /\ f.code # <<>> /\ f.arity \in Nat  BY DEF Functions, FunctionFits
  <2> QED  BY <2>1
<1>2. item \in Items(f)  BY <1>1, CheckAssumption DEF Items
<1>3. Unseen \in Seen  BY CheckAssumption DEF Unseen, Seen
<1>4. /\ DOMAIN w = {"states", "work", "visits", "max", "ok"}
      /\ w.states = [ip \in DOMAIN f.code |-> Unseen] /\ w.work = <<item>> /\ w.visits = visits /\ w.ok = TRUE
  BY DEF StartWalk
<1> HIDE DEF w, item
<1>5. w.work \in Seq(Items(f)) /\ Len(w.work) = 1 /\ w.work[1] = item  BY <1>2, <1>4
<1>6. WalkTyped(f, w)
  <2>1. w.states \in [DOMAIN f.code -> Seen]  BY <1>3, <1>4
  <2> QED  BY <1>4, <1>5, <2>1 DEF WalkTyped
<1>7. Walked(m, f, w)
  <2>1. Covered(w, 1, 0, 1..f.arity)
    <3>1. 1 \in 1..Len(w.work)  BY <1>5
    <3>2. w.work[1].ip = 1 /\ w.work[1].depth = 0 /\ w.work[1].init = 1..f.arity  BY <1>5 DEF item
    <3> QED  BY <3>1, <3>2 DEF Covered
  <2>2. \A ip \in DOMAIN f.code : w.states[ip] = Unseen  BY <1>4
  <2> QED  BY <2>1, <2>2 DEF Walked
<1> QED  BY <1>6, <1>7 DEF w

\* A walk keeps its types, and unless it is stopped what it has seen is covered.
LEMMA WalkSound ==
    ASSUME NEW m \in Candidates, NEW f \in Functions, FunctionFits(m, f), NEW visits \in Nat
    PROVE  WalkTyped(f, Walk(m, f, visits)) /\ (Walk(m, f, visits).ok => Walked(m, f, Walk(m, f, visits)))
<1>1. PICK g : /\ Walk(m, f, visits) = g[visits + 1]
               /\ g[0] = StartWalk(f, visits)
               /\ \A n \in 0..visits : g[n + 1] = Turn(m, f, g[n])
  <2>1. visits \in Nat  OBVIOUS
  <2> QED  BY ONLY <2>1, WalkTurns
<1> DEFINE S == {n \in Nat : n <= visits + 1 => WalkTyped(f, g[n]) /\ (g[n].ok => Walked(m, f, g[n]))}
<1>2. 0 \in S  BY <1>1, StartWalked
<1>3. ASSUME NEW n \in Nat, n \in S PROVE n + 1 \in S
  <2> SUFFICES ASSUME n + 1 <= visits + 1
               PROVE  WalkTyped(f, g[n + 1]) /\ (g[n + 1].ok => Walked(m, f, g[n + 1]))
    OBVIOUS
  <2>1. n \in 0..visits /\ n <= visits + 1  OBVIOUS
  <2>2. g[n + 1] = Turn(m, f, g[n])  BY <1>1, <2>1
  <2>3. WalkTyped(f, g[n]) /\ (g[n].ok => Walked(m, f, g[n]))  BY <1>3, <2>1
  <2>4. CASE g[n].work = <<>> \/ ~g[n].ok  BY <2>2, <2>3, <2>4 DEF Turn
  <2>5. CASE g[n].work # <<>> /\ g[n].ok
    <3>1. g[n + 1] = Visit(m, f, g[n])  BY <2>2, <2>5 DEF Turn
    <3>2. WalkTyped(f, g[n]) /\ Walked(m, f, g[n])  BY <2>3, <2>5
    <3> DEFINE w == g[n]
    <3>3. WalkTyped(f, w) /\ w.work # <<>> /\ w.ok /\ Walked(m, f, w)  BY <2>5, <3>2
    <3> HIDE DEF w
    <3>4. WalkTyped(f, Visit(m, f, w)) /\ (Visit(m, f, w).ok => Walked(m, f, Visit(m, f, w)))
      BY <3>3, VisitKeeps
    <3> QED  BY <3>1, <3>4 DEF w
  <2> QED  BY <2>4, <2>5
<1>4. visits + 1 \in S
  <2> HIDE DEF S
  <2>1. \A n \in Nat : n \in S => n + 1 \in S  BY <1>3
  <2> QED  BY <1>2, <2>1, Reaches
<1> QED  BY <1>1, <1>4

FunctionWalks(g, m, k) ==
    g = [j \in 1..k |-> Walk(m, m.functions[j], IF j = 1 THEN MaxVisits ELSE g[j - 1].visits)]

LEMMA WalkOfIs ==
    ASSUME NEW m, NEW k
    PROVE  WalkOf(m, k) = (CHOOSE g : FunctionWalks(g, m, k))[k]
BY DEF WalkOf, FunctionWalks

\* Every function of a well-formed module is walked, with the visits that are left.
LEMMA FunctionsWalked ==
    ASSUME NEW m \in Candidates, WellFormed(m), NEW k \in DOMAIN m.functions
    PROVE  \E visits \in Nat : WalkOf(m, k) = Walk(m, m.functions[k], visits)
<1> DEFINE Good(g, n) == g = [j \in 1..n |-> Walk(m, m.functions[j], IF j = 1 THEN MaxVisits ELSE g[j - 1].visits)]
           S == {n \in Nat : \E g : Good(g, n)}
<1>0. m.functions \in Seq(Functions) /\ k \in Nat /\ 1 <= k /\ \A j \in 1..k : j \in DOMAIN m.functions
  BY DEF Candidates
<1>1. 0 \in S
  <2> DEFINE g == [j \in 1..0 |-> 0]
  <2>1. Good(g, 0)
    <3>1. \A j \in 1..0 : FALSE  OBVIOUS
    <3> QED  BY <3>1
  <2> HIDE DEF g
  <2> QED  BY <2>1
<1>2. ASSUME NEW n \in Nat, n \in S PROVE n + 1 \in S
  <2>1. PICK g : Good(g, n)  BY <1>2
  <2> DEFINE h == [j \in 1..(n + 1) |-> Walk(m, m.functions[j], IF j = 1 THEN MaxVisits ELSE g[j - 1].visits)]
  <2>2. \A j \in 1..n : h[j] = g[j]
    <3>1. \A j \in 1..n : j \in 1..(n + 1)  OBVIOUS
    <3> QED  BY <2>1, <3>1
  <2>3. \A j \in 1..(n + 1) : j # 1 => j - 1 \in 1..n  OBVIOUS
  <2>4. h = [j \in 1..(n + 1) |-> Walk(m, m.functions[j], IF j = 1 THEN MaxVisits ELSE h[j - 1].visits)]
    <3> HIDE DEF h
    <3>1. \A j \in 1..(n + 1) : j # 1 => g[j - 1].visits = h[j - 1].visits  BY <2>2, <2>3
    <3>2. \A j \in 1..(n + 1) : Walk(m, m.functions[j], IF j = 1 THEN MaxVisits ELSE g[j - 1].visits)
                              = Walk(m, m.functions[j], IF j = 1 THEN MaxVisits ELSE h[j - 1].visits)
      BY <3>1
    <3> QED  BY <3>2 DEF h
  <2>5. Good(h, n + 1)  BY <2>4
  <2> HIDE DEF h
  <2>6. n + 1 \in Nat  OBVIOUS
  <2> QED  BY <2>5, <2>6
<1>3. k \in S
  <2> HIDE DEF S
  <2>1. \A n \in Nat : n \in S => n + 1 \in S  BY <1>2
  <2> QED  BY <1>0, <1>1, <2>1, Reaches
<1>4. PICK g0 : FunctionWalks(g0, m, k)  BY <1>3 DEF FunctionWalks
<1> DEFINE g == CHOOSE g : FunctionWalks(g, m, k)
<1>5. FunctionWalks(g, m, k)  BY <1>4
<1>6. WalkOf(m, k) = g[k]  BY WalkOfIs
<1> HIDE DEF g
<1>7. \A j \in 1..k : g[j] = Walk(m, m.functions[j], IF j = 1 THEN MaxVisits ELSE g[j - 1].visits)
  BY <1>5 DEF FunctionWalks
<1>8. ASSUME NEW j \in 1..k, NEW visits \in Nat PROVE Walk(m, m.functions[j], visits).visits \in Nat
  <2> DEFINE f == m.functions[j]
  <2>1. f \in Functions /\ FunctionFits(m, f)
    <3>1. j \in DOMAIN m.functions  BY <1>0
    <3>2. f \in Range(m.functions)  BY <3>1 DEF Range
    <3> QED  BY <3>1, <3>2, PartsTyped DEF WellFormed
  <2> HIDE DEF f
  <2>2. WalkTyped(f, Walk(m, f, visits))  BY <2>1, WalkSound
  <2> QED  BY <2>2 DEF WalkTyped, f
<1> DEFINE P == {n \in Nat : n + 1 <= k => \E visits \in Nat : g[n + 1] = Walk(m, m.functions[n + 1], visits)}
<1>9. 0 \in P
  <2>1. 0 + 1 = 1 /\ 1 \in 1..k  BY <1>0
  <2>2. g[1] = Walk(m, m.functions[1], MaxVisits)  BY <1>7, <2>1
  <2>3. MaxVisits \in Nat  BY CheckAssumption
  <2> QED  BY <2>1, <2>2, <2>3
<1>10. ASSUME NEW n \in Nat, n \in P PROVE n + 1 \in P
  <2> SUFFICES ASSUME n + 1 + 1 <= k
               PROVE  \E visits \in Nat : g[n + 1 + 1] = Walk(m, m.functions[n + 1 + 1], visits)
    OBVIOUS
  <2> DEFINE j == n + 1 + 1
  <2>1. j \in 1..k /\ j # 1 /\ j - 1 = n + 1 /\ n + 1 \in 1..k /\ n + 1 <= k  BY <1>0
  <2>2. PICK visits \in Nat : g[n + 1] = Walk(m, m.functions[n + 1], visits)  BY <1>10, <2>1
  <2>3. g[n + 1].visits \in Nat  BY <1>8, <2>1, <2>2
  <2> HIDE DEF j
  <2>4. g[j] = Walk(m, m.functions[j], g[j - 1].visits)  BY <1>7, <2>1
  <2>5. g[j - 1].visits \in Nat  BY <2>1, <2>3
  <2> QED  BY <2>4, <2>5 DEF j
<1>11. k - 1 \in P
  <2> HIDE DEF P
  <2>1. \A n \in Nat : n \in P => n + 1 \in P  BY <1>10
  <2>2. k - 1 \in Nat  BY <1>0
  <2> QED  BY <1>9, <2>1, <2>2, Reaches
<1>12. k - 1 + 1 = k /\ k - 1 + 1 <= k  BY <1>0
<1>13. \E visits \in Nat : g[k - 1 + 1] = Walk(m, m.functions[k - 1 + 1], visits)  BY <1>11, <1>12
<1> QED  BY <1>6, <1>12, <1>13

----------------------------------------------------------------------------
(* What is in the heap. *)

Slots == HeapValues(Ids) \cup {None}
CallFrames == [function : Nat, ip : Nat, locals : Seq(Slots), stack : Seq(HeapValues(Ids))]
Heaps == [Ids -> HeapObjects(Ids) \cup {Free}]

LEMMA BoundExists ==
    ASSUME NEW n \in Nat, NEW g, \A k \in 1..n : g[k] \in Nat
    PROVE  \E b \in Nat : \A k \in 1..n : g[k] <= b
<1> DEFINE S == {j \in Nat : j <= n => \E b \in Nat : \A k \in 1..j : g[k] <= b}
<1>1. 0 \in S
  <2>1. \A k \in 1..0 : FALSE  OBVIOUS
  <2> QED  BY <2>1
<1>2. ASSUME NEW j \in Nat, j \in S PROVE j + 1 \in S
  <2> SUFFICES ASSUME j + 1 <= n PROVE \E b \in Nat : \A k \in 1..(j + 1) : g[k] <= b  OBVIOUS
  <2>1. PICK b \in Nat : \A k \in 1..j : g[k] <= b  BY <1>2
  <2>2. g[j + 1] \in Nat
    <3>1. j + 1 \in 1..n  OBVIOUS
    <3> QED  BY <3>1
  <2>3. \A k \in 1..(j + 1) : k \in 1..j \/ k = j + 1  OBVIOUS
  <2>4. CASE g[j + 1] <= b  BY <2>1, <2>3, <2>4
  <2>5. CASE ~(g[j + 1] <= b)
    <3>1. \A k \in 1..(j + 1) : g[k] <= g[j + 1]
      <4> SUFFICES ASSUME NEW k \in 1..(j + 1) PROVE g[k] <= g[j + 1]  OBVIOUS
      <4>1. CASE k = j + 1  BY <2>2, <4>1
      <4>2. CASE k \in 1..j
        <5>1. g[k] <= b /\ g[k] \in Nat  BY <2>1, <4>2
        <5> QED  BY <2>2, <2>5, <5>1
      <4> QED  BY <2>3, <4>1, <4>2
    <3> QED  BY <2>2, <3>1
  <2> QED  BY <2>4, <2>5
<1>3. n \in S
  <2> HIDE DEF S
  <2>1. \A j \in Nat : j \in S => j + 1 \in S  BY <1>2
  <2> QED  BY <1>1, <2>1, Reaches
<1> QED  BY <1>3

LEMMA MaxOf ==
    ASSUME NEW S, S \subseteq Nat, S # {}, NEW b \in Nat, \A x \in S : x <= b
    PROVE  Max(S) \in S /\ Max(S) \in Nat /\ \A y \in S : y <= Max(S)
<1> DEFINE T == {b - x : x \in S}
<1>0. \A x \in S : x \in Nat /\ x <= b /\ b - x \in Nat  OBVIOUS
<1>1. T \subseteq Nat /\ T # {}  BY <1>0
<1>2. PICK d \in T : \A y \in T : d <= y
  <2> HIDE DEF T
  <2> QED  BY <1>1, LeastOf
<1>3. PICK x \in S : d = b - x  OBVIOUS
<1>4. \A y \in S : x >= y
  <2> SUFFICES ASSUME NEW y \in S PROVE x >= y  OBVIOUS
  <2>1. d <= b - y  BY <1>2
  <2>2. x \in Nat /\ y \in Nat  BY <1>0
  <2> QED  BY <1>3, <2>1, <2>2
<1>5. Max(S) \in S /\ \A y \in S : Max(S) >= y  BY <1>4 DEF Max
<1>6. Max(S) \in Nat  BY <1>5
<1>7. \A y \in S : y <= Max(S)
  <2> SUFFICES ASSUME NEW y \in S PROVE y <= Max(S)  OBVIOUS
  <2>1. y \in Nat /\ Max(S) >= y  BY <1>5
  <2> QED  BY <1>6, <2>1
<1> QED  BY <1>5, <1>6, <1>7

LEMMA MinOf ==
    ASSUME NEW S, S \subseteq Nat, S # {}
    PROVE  Min(S) \in S /\ \A y \in S : Min(S) <= y
BY LeastOf DEF Min

MapEntries(ids) == [key : Names \cup {""}, value : HeapValues(ids)]

LEMMA SeqParts ==
    ASSUME NEW T, NEW s \in Seq(T)
    PROVE  DOMAIN s = 1..Len(s) /\ Len(s) \in Nat /\ \A k \in DOMAIN s : s[k] \in T
OBVIOUS

LEMMA ObjectParts ==
    ASSUME NEW ids, NEW o \in HeapObjects(ids)
    PROVE  /\ o.items \in Seq(HeapValues(ids)) /\ o.entries \in Seq(MapEntries(ids))
           /\ o.kind \in {"text", "list", "map"} /\ o.text \in Names \cup {""}
           /\ o.charge \in Nat /\ o.depth \in Nat
           /\ DOMAIN o = {"kind", "text", "items", "entries", "charge", "depth"}
           /\ \A k \in DOMAIN o.items : o.items[k] \in HeapValues(ids)
           /\ \A e \in DOMAIN o.entries : o.entries[e].key \in Names \cup {""} /\ o.entries[e].value \in HeapValues(ids)
<1>1. /\ o.items \in Seq(HeapValues(ids)) /\ o.entries \in Seq(MapEntries(ids))
      /\ o.kind \in {"text", "list", "map"} /\ o.text \in Names \cup {""}
      /\ o.charge \in Nat /\ o.depth \in Nat
      /\ DOMAIN o = {"kind", "text", "items", "entries", "charge", "depth"}
  BY DEF HeapObjects, MapEntries
<1>2. \A k \in DOMAIN o.items : o.items[k] \in HeapValues(ids)  BY <1>1, SeqParts
<1>3. \A e \in DOMAIN o.entries : o.entries[e] \in MapEntries(ids)  BY <1>1, SeqParts
<1>4. \A e \in DOMAIN o.entries : o.entries[e].key \in Names \cup {""} /\ o.entries[e].value \in HeapValues(ids)
  BY <1>3 DEF MapEntries
<1> QED  BY <1>1, <1>2, <1>4

LEMMA ValueParts ==
    ASSUME NEW ids, NEW v \in HeapValues(ids)
    PROVE  /\ v.kind \in {"integer", "bool", "heap"} /\ v # None
           /\ IsHeap(v) => v.of \in ids
           /\ ~IsHeap(v) => \A other : v \in HeapValues(other)
           /\ v.kind \in {"integer", "bool"} => v.of \in Int
BY DEF HeapValues, IsHeap, None

LEMMA ScalarsTyped ==
    ASSUME NEW ids
    PROVE  /\ \A n \in Int : Integer(n) \in HeapValues(ids)
           /\ \A b \in BOOLEAN : Bool(b) \in HeapValues(ids)
           /\ \A id \in ids : Reference(id) \in HeapValues(ids)
BY DEF HeapValues, Integer, Bool, Reference

LEMMA DepthInTyped ==
    ASSUME NEW h \in Heaps, NEW v \in HeapValues(Ids)
    PROVE  DepthIn(h, v) \in Nat
<1>1. CASE IsHeap(v)
  <2>1. v.of \in Ids  BY <1>1, ValueParts
  <2>2. h[v.of] \in HeapObjects(Ids) \/ h[v.of] = Free  BY <2>1 DEF Heaps
  <2>3. Free.depth \in Nat  BY DEF Free
  <2>4. h[v.of].depth \in Nat  BY <2>2, <2>3, ObjectParts
  <2> QED  BY <1>1, <2>4 DEF DepthIn
<1>2. CASE ~IsHeap(v)  BY <1>2 DEF DepthIn
<1> QED  BY <1>1, <1>2

DepthsOf(h, o) == {DepthIn(h, v) + 1 : v \in Parts(o)}

LEMMA DepthsBounded ==
    ASSUME NEW h \in Heaps, NEW o, o.items \in Seq(HeapValues(Ids)), o.entries \in Seq(MapEntries(Ids))
    PROVE  /\ \A v \in Parts(o) : v \in HeapValues(Ids)
           /\ DepthsOf(h, o) \subseteq Nat
           /\ \E b \in Nat : \A d \in DepthsOf(h, o) : d <= b
<1> DEFINE items == [k \in 1..Len(o.items) |-> DepthIn(h, o.items[k])]
           values == [k \in 1..Len(o.entries) |-> DepthIn(h, o.entries[k].value)]
<1>1. /\ DOMAIN o.items = 1..Len(o.items) /\ Len(o.items) \in Nat
      /\ \A k \in DOMAIN o.items : o.items[k] \in HeapValues(Ids)
  BY SeqParts
<1>2. /\ DOMAIN o.entries = 1..Len(o.entries) /\ Len(o.entries) \in Nat
      /\ \A k \in DOMAIN o.entries : o.entries[k] \in MapEntries(Ids)
  BY SeqParts
<1>3. \A k \in DOMAIN o.entries : o.entries[k].value \in HeapValues(Ids)  BY <1>2 DEF MapEntries
<1>4. \A k \in 1..Len(o.items) : items[k] = DepthIn(h, o.items[k]) /\ items[k] \in Nat  BY <1>1, DepthInTyped
<1>5. \A k \in 1..Len(o.entries) : values[k] = DepthIn(h, o.entries[k].value) /\ values[k] \in Nat
  BY <1>2, <1>3, DepthInTyped
<1> HIDE DEF items, values
<1>6. PICK b1 \in Nat : \A k \in 1..Len(o.items) : items[k] <= b1
  BY <1>1, <1>4, BoundExists
<1>7. PICK b2 \in Nat : \A k \in 1..Len(o.entries) : values[k] <= b2
  BY <1>2, <1>5, BoundExists
<1>8. ASSUME NEW v \in Parts(o)
      PROVE  v \in HeapValues(Ids) /\ DepthIn(h, v) \in Nat /\ DepthIn(h, v) + 1 <= b1 + b2 + 1
  <2>1. (\E k \in DOMAIN o.items : v = o.items[k]) \/ (\E k \in DOMAIN o.entries : v = o.entries[k].value)
    BY DEF Parts, Range
  <2>2. ASSUME NEW k \in DOMAIN o.items, v = o.items[k]
        PROVE  v \in HeapValues(Ids) /\ DepthIn(h, v) \in Nat /\ DepthIn(h, v) + 1 <= b1 + b2 + 1
    <3>1. DepthIn(h, v) = items[k] /\ items[k] <= b1 /\ items[k] \in Nat  BY <1>1, <1>4, <1>6, <2>2
    <3> QED  BY <1>1, <2>2, <3>1
  <2>3. ASSUME NEW k \in DOMAIN o.entries, v = o.entries[k].value
        PROVE  v \in HeapValues(Ids) /\ DepthIn(h, v) \in Nat /\ DepthIn(h, v) + 1 <= b1 + b2 + 1
    <3>1. DepthIn(h, v) = values[k] /\ values[k] <= b2 /\ values[k] \in Nat  BY <1>2, <1>5, <1>7, <2>3
    <3> QED  BY <1>3, <2>3, <3>1
  <2> QED  BY <2>1, <2>2, <2>3
<1>9. b1 + b2 + 1 \in Nat  OBVIOUS
<1> QED  BY <1>8, <1>9 DEF DepthsOf

LEMMA DepthOfTyped ==
    ASSUME NEW h \in Heaps, NEW o, o.items \in Seq(HeapValues(Ids)), o.entries \in Seq(MapEntries(Ids))
    PROVE  DepthOf(h, o) \in Nat
<1>1. DepthOf(h, o) = IF Parts(o) = {} THEN 0 ELSE Max(DepthsOf(h, o))  BY DEF DepthOf, DepthsOf
<1>2. Parts(o) # {} => DepthsOf(h, o) # {}  BY DEF DepthsOf
<1>3. DepthsOf(h, o) \subseteq Nat /\ \E b \in Nat : \A d \in DepthsOf(h, o) : d <= b  BY DepthsBounded
<1>4. Parts(o) # {} => Max(DepthsOf(h, o)) \in Nat  BY <1>2, <1>3, MaxOf
<1> QED  BY <1>1, <1>4

LEMMA ChargeOfTyped ==
    ASSUME NEW ids, NEW o \in HeapObjects(ids)
    PROVE  ChargeOf(o) \in Nat
<1>1. /\ o.items \in Seq(HeapValues(ids)) /\ o.entries \in Seq(MapEntries(ids))
      /\ o.kind \in {"text", "list", "map"}
  BY ObjectParts
<1>2. Len(o.items) \in Nat /\ Len(o.entries) \in Nat  BY <1>1, SeqParts
<1>3. ObjectCharge \in Nat /\ ValueCharge \in Nat /\ EntryCharge \in Nat  BY HeapAssumption
<1>4. \A a, b \in Nat : a * b \in Nat  OBVIOUS
<1>5. ValueCharge * Len(o.items) \in Nat /\ EntryCharge * Len(o.entries) \in Nat  BY <1>2, <1>3, <1>4
<1>6. o.kind = "text" => ChargeOf(o) = ObjectCharge + 1  BY DEF ChargeOf
<1>7. o.kind = "list" => ChargeOf(o) = ObjectCharge + ValueCharge * Len(o.items)  BY DEF ChargeOf
<1>8. o.kind = "map" => ChargeOf(o) = ObjectCharge + EntryCharge * Len(o.entries)  BY DEF ChargeOf
<1> DEFINE a == ValueCharge * Len(o.items)
           b == EntryCharge * Len(o.entries)
<1>9. a \in Nat /\ b \in Nat  BY <1>5
<1> HIDE DEF a, b
<1>10. ObjectCharge + 1 \in Nat /\ ObjectCharge + a \in Nat /\ ObjectCharge + b \in Nat  BY <1>3, <1>9
<1> QED  BY <1>1, <1>6, <1>7, <1>8, <1>10 DEF a, b

\* A changed object is an object.
LEMMA RecordedTyped ==
    ASSUME NEW ids, NEW o \in HeapObjects(ids), NEW c \in Nat, NEW d \in Nat
    PROVE  [o EXCEPT !.charge = c, !.depth = d] \in HeapObjects(ids)
BY DEF HeapObjects

LEMMA AllocatedTyped ==
    ASSUME NEW h \in Heaps, NEW o \in HeapObjects(Ids), NEW c \in Nat, NEW d \in Nat
    PROVE  Allocated(h, o, c, d) \in Heaps
<1>1. [o EXCEPT !.charge = c, !.depth = d] \in HeapObjects(Ids)  BY RecordedTyped
<1> DEFINE p == [o EXCEPT !.charge = c, !.depth = d]
<1> HIDE DEF p
<1>2. [h EXCEPT ![NewId(h)] = p] \in Heaps  BY <1>1 DEF Heaps, p
<1> QED  BY <1>2 DEF Allocated, p

FreeIds(h) == {id \in Ids : h[id] = Free}

LEMMA RoomGivesId ==
    ASSUME NEW h \in Heaps, NEW n \in Nat, HasRoom(h, n + 1), NEW o \in HeapObjects(Ids), NEW c \in Nat, NEW d \in Nat
    PROVE  /\ NewId(h) \in Ids /\ h[NewId(h)] = Free
           /\ HasRoom(Allocated(h, o, c, d), n)
<1>1. IsFiniteSet(FreeIds(h))  BY HeapAssumption, FS_Subset DEF FreeIds
<1>2. Cardinality(FreeIds(h)) \in Nat /\ Cardinality(FreeIds(h)) >= n + 1
  BY <1>1, FS_CardinalityType DEF HasRoom, FreeIds
<1>3. FreeIds(h) # {}
  <2>1. Cardinality(FreeIds(h)) # 0  BY <1>2
  <2> QED  BY <2>1, FS_EmptySet
<1>4. NewId(h) \in FreeIds(h)
  <2>1. FreeIds(h) \subseteq Nat  BY HeapAssumption DEF FreeIds
  <2>2. NewId(h) = Min(FreeIds(h))  BY DEF NewId, FreeIds
  <2> QED  BY <1>3, <2>1, <2>2, MinOf
<1> DEFINE id == NewId(h)
           p == [o EXCEPT !.charge = c, !.depth = d]
<1> HIDE DEF id
<1>5. p # Free
  <2>1. p \in HeapObjects(Ids)  BY RecordedTyped
  <2>2. p.kind # "free"  BY <2>1, ObjectParts
  <2> QED  BY <2>2 DEF Free
<1> HIDE DEF p
<1>6. FreeIds(Allocated(h, o, c, d)) = FreeIds(h) \ {id}
  <2>1. Allocated(h, o, c, d) = [h EXCEPT ![id] = p]  BY DEF Allocated, id, p
  <2>2. id \in Ids  BY <1>4 DEF FreeIds, id
  <2>3. \A i \in Ids : [h EXCEPT ![id] = p][i] = IF i = id THEN p ELSE h[i]  BY <2>2 DEF Heaps
  <2> QED  BY <1>5, <2>1, <2>3 DEF FreeIds
<1>7. Cardinality(FreeIds(h) \ {id}) = Cardinality(FreeIds(h)) - 1  BY <1>1, <1>4, FS_RemoveElement DEF id
<1>8. HasRoom(Allocated(h, o, c, d), n)
  <2> DEFINE g == Allocated(h, o, c, d)
  <2>1. Cardinality(FreeIds(g)) >= n  BY <1>2, <1>6, <1>7
  <2> QED  BY <2>1 DEF HasRoom, FreeIds
<1> QED  BY <1>4, <1>8 DEF FreeIds

----------------------------------------------------------------------------
(* Objects in use: what they hold is in use as well, and stays so when more are made. *)

Sound(h) == \A id \in Ids : PartIds(h[id]) \subseteq InUse(h)

\* The values that refer to nothing or to an object in use.
Sure(h) == {v \in Slots : IsHeap(v) => h[v.of] # Free}

Keeps(h, g) == \A id \in Ids : h[id] # Free => g[id] = h[id]

\* A heap that came from another, and a value that refers to nothing but it.
Took(h, g, v) == Sound(g) /\ Keeps(h, g) /\ v \in Sure(g)

LEMMA FreeIsEmpty == Parts(Free) = {} /\ PartIds(Free) = {}
<1>1. Range(<<>>) = {}  BY DEF Range
<1>2. Free.items = <<>> /\ Free.entries = <<>> /\ DOMAIN <<>> = {}  BY DEF Free
<1>3. Parts(Free) = {}  BY <1>1, <1>2 DEF Parts
<1> QED  BY <1>3 DEF PartIds

LEMMA HeldTyped ==
    ASSUME NEW h \in Heaps, NEW id \in Ids
    PROVE  (\A v \in Parts(h[id]) : v \in HeapValues(Ids)) /\ PartIds(h[id]) \subseteq Ids
<1>1. \A v \in Parts(h[id]) : v \in HeapValues(Ids)
  <2>1. h[id] \in HeapObjects(Ids) \/ h[id] = Free  BY DEF Heaps
  <2>2. CASE h[id] \in HeapObjects(Ids)
    <3>1. h[id].items \in Seq(HeapValues(Ids)) /\ h[id].entries \in Seq(MapEntries(Ids))  BY <2>2, ObjectParts
    <3> QED  BY <3>1, DepthsBounded
  <2>3. CASE h[id] = Free  BY <2>3, FreeIsEmpty
  <2> QED  BY <2>1, <2>2, <2>3
<1>2. PartIds(h[id]) \subseteq Ids  BY <1>1, ValueParts DEF PartIds
<1> QED  BY <1>1, <1>2

LEMMA SlotIds == \A v \in Slots : IsHeap(v) => v.of \in Ids
<1>1. ~IsHeap(None)  BY DEF IsHeap, None
<1> QED  BY <1>1, ValueParts DEF Slots

LEMMA SureGrows ==
    ASSUME NEW h, NEW g, Keeps(h, g)
    PROVE  Sure(h) \subseteq Sure(g)
BY SlotIds DEF Sure, Keeps

LEMMA SureScalar ==
    ASSUME NEW h, NEW v \in HeapValues(Ids)
    PROVE  v \in Sure(h) <=> (IsHeap(v) => h[v.of] # Free)
BY DEF Sure, Slots

LEMMA AllocatedFirm ==
    ASSUME NEW h \in Heaps, Sound(h), HasRoom(h, 0 + 1), NEW o \in HeapObjects(Ids), Parts(o) \subseteq Sure(h),
           NEW c \in Nat, NEW d \in Nat
    PROVE  /\ Took(h, Allocated(h, o, c, d), Reference(NewId(h)))
           /\ h[NewId(h)] = Free /\ Allocated(h, o, c, d)[NewId(h)] # Free
<1> DEFINE id == NewId(h)
           p == [o EXCEPT !.charge = c, !.depth = d]
           g == Allocated(h, o, c, d)
<1>1. id \in Ids /\ h[id] = Free  BY RoomGivesId
<1>2. p \in HeapObjects(Ids)  BY RecordedTyped
<1>3. p # Free
  <2>1. Free.kind = "free"  BY DEF Free
  <2> HIDE DEF p
  <2>2. p.kind # "free"  BY <1>2, ObjectParts
  <2> QED  BY <2>1, <2>2
<1>4. PartIds(p) = PartIds(o)
  <2>1. p.items = o.items /\ p.entries = o.entries
    <3>1. DOMAIN o = {"kind", "text", "items", "entries", "charge", "depth"}  BY ObjectParts
    <3> QED  BY <3>1
  <2> HIDE DEF p
  <2> QED  BY <2>1 DEF PartIds, Parts
<1> HIDE DEF p, id
<1>5. g = [h EXCEPT ![id] = p]  BY DEF Allocated, id, p
<1>6. \A j \in Ids : g[j] = IF j = id THEN p ELSE h[j]
  <2> HIDE DEF g
  <2> QED  BY <1>1, <1>5 DEF Heaps
<1> HIDE DEF g
<1>7. Keeps(h, g)  BY <1>1, <1>6 DEF Keeps
<1>8. InUse(h) \subseteq InUse(g)  BY <1>7 DEF InUse, Keeps
<1>9. Sound(g)
  <2> SUFFICES ASSUME NEW j \in Ids PROVE PartIds(g[j]) \subseteq InUse(g)  BY DEF Sound
  <2>1. CASE j = id
    <3>1. PartIds(o) \subseteq InUse(h)  BY SlotIds DEF PartIds, Sure, InUse
    <3> QED  BY <1>4, <1>6, <1>8, <2>1, <3>1
  <2>2. CASE j # id  BY <1>6, <1>8, <2>2 DEF Sound
  <2> QED  BY <2>1, <2>2
<1>10. Reference(id) \in Sure(g)
  <2>1. Reference(id) \in HeapValues(Ids) /\ Reference(id).of = id  BY <1>1, ScalarsTyped DEF Reference
  <2> QED  BY <1>1, <1>3, <1>6, <2>1, SureScalar
<1>11. Took(h, g, Reference(id))  BY <1>7, <1>9, <1>10 DEF Took
<1>12. g[id] # Free  BY <1>1, <1>3, <1>6
<1> QED  BY <1>1, <1>11, <1>12 DEF g, id

----------------------------------------------------------------------------
(* What a fold from the left computes: one lemma for the steps that are folded. *)

\* How deep a part of an owned value is, from the depths of those before it.
PartDepth(d, o) ==
    IF Parts(o) = {} THEN 0 ELSE Max({(IF IsHeap(v) THEN d[v.of] ELSE 0) + 1 : v \in Parts(o)})

FoldStep(which, acc, o) ==
    IF which = "place" THEN Placed(acc, o)
    ELSE IF which = "intake" THEN LetIn(acc, o)
    ELSE IF which = "places" THEN acc \o o.locals \o o.stack
    ELSE IF which = "depth" THEN Append(acc, PartDepth(acc, o))
    ELSE IF which = "charge" THEN acc + ChargeOf(o)
    ELSE IF which = "charges" THEN acc + OwnedCharge(o)
    ELSE acc + Len(o.objects)

IsFold(g, which, base, seq) ==
    g = [s \in SUBSET (DOMAIN seq) |->
            IF s = {} THEN base ELSE FoldStep(which, g[s \ {Max(s)}], seq[Max(s)])]

SmallOf(T, n) == {s \in SUBSET T : Cardinality(s) <= n}

LEMMA OneLess ==
    ASSUME NEW T, IsFiniteSet(T), NEW s \in SUBSET T, NEW x \in s
    PROVE  /\ IsFiniteSet(s) /\ Cardinality(s) \in Nat
           /\ s \ {x} \in SUBSET T /\ Cardinality(s \ {x}) = Cardinality(s) - 1 /\ Cardinality(s) >= 1
<1>1. IsFiniteSet(s)  BY FS_Subset
<1>2. Cardinality(s) \in Nat /\ Cardinality(s) # 0  BY <1>1, FS_CardinalityType, FS_EmptySet
<1>3. Cardinality(s \ {x}) = Cardinality(s) - 1  BY <1>1, FS_RemoveElement
<1> QED  BY <1>1, <1>2, <1>3

LEMMA FoldExists ==
    ASSUME NEW n \in Nat, NEW seq, DOMAIN seq = 1..n, NEW which, NEW base
    PROVE  \E g : IsFold(g, which, base, seq)
<1> DEFINE T == 1..n
           D(k) == SmallOf(T, k)
           Body(g, s) == IF s = {} THEN base ELSE FoldStep(which, g[s \ {Max(s)}], seq[Max(s)])
           S == {k \in Nat : \E g : g = [s \in D(k) |-> Body(g, s)]}
<1>0. IsFiniteSet(T) /\ Cardinality(T) \in Nat /\ \A s \in SUBSET T : Cardinality(s) \in Nat /\ IsFiniteSet(s)
  <2>1. IsFiniteSet(T)  BY FS_Interval
  <2>2. \A s \in SUBSET T : IsFiniteSet(s)
    <3> HIDE DEF T
    <3> QED  BY <2>1, FS_Subset
  <2>3. \A s : IsFiniteSet(s) => Cardinality(s) \in Nat  BY FS_CardinalityType
  <2> QED  BY <2>1, <2>2, <2>3
<1>1. \A s \in SUBSET T : s # {} => Max(s) \in s
  <2> SUFFICES ASSUME NEW s \in SUBSET T, s # {} PROVE Max(s) \in s  OBVIOUS
  <2>1. s \subseteq Nat /\ \A x \in s : x <= n  OBVIOUS
  <2> QED  BY <2>1, MaxOf
<1>2. 0 \in S
  <2>1. \A s \in D(0) : s = {}
    <3> SUFFICES ASSUME NEW s \in D(0) PROVE s = {}  OBVIOUS
    <3>1. s \in SUBSET T /\ Cardinality(s) = 0 /\ IsFiniteSet(s)  BY <1>0 DEF SmallOf
    <3> QED  BY <3>1, FS_EmptySet
  <2> DEFINE g == [s \in D(0) |-> base]
  <2> HIDE DEF D
  <2>2. g = [s \in D(0) |-> Body(g, s)]  BY <2>1
  <2> HIDE DEF g, Body
  <2> QED  BY <2>2
<1>3. ASSUME NEW k \in Nat, k \in S PROVE k + 1 \in S
  <2>1. PICK g : g = [s \in D(k) |-> Body(g, s)]  BY <1>3
  <2>2. \A s \in D(k + 1) : s # {} => s \ {Max(s)} \in D(k)
    <3> SUFFICES ASSUME NEW s \in D(k + 1), s # {} PROVE s \ {Max(s)} \in D(k)  OBVIOUS
    <3>1. s \in SUBSET T /\ Max(s) \in s /\ Cardinality(s) <= k + 1  BY <1>1 DEF SmallOf
    <3>2. s \ {Max(s)} \in SUBSET T /\ Cardinality(s \ {Max(s)}) = Cardinality(s) - 1 /\ Cardinality(s) \in Nat
      BY <1>0, <3>1, OneLess
    <3>3. Cardinality(s) - 1 <= k  BY <3>1, <3>2
    <3> QED  BY <3>2, <3>3 DEF SmallOf
  <2>3. \A s \in D(k) : s \in D(k + 1)
    <3> SUFFICES ASSUME NEW s \in D(k) PROVE s \in D(k + 1)  OBVIOUS
    <3>1. s \in SUBSET T /\ Cardinality(s) \in Nat /\ Cardinality(s) <= k  BY <1>0 DEF SmallOf
    <3> QED  BY <3>1 DEF SmallOf
  <2> DEFINE h == [s \in D(k + 1) |-> Body(g, s)]
  <2> HIDE DEF D
  <2>4. \A s \in D(k) : h[s] = g[s]
    <3>1. \A s \in D(k) : h[s] = Body(g, s)  BY <2>3
    <3> HIDE DEF Body
    <3>2. \A s \in D(k) : g[s] = Body(g, s)  BY <2>1
    <3> QED  BY <3>1, <3>2
  <2>5. \A s \in D(k + 1) : Body(g, s) = Body(h, s)
    <3> HIDE DEF h
    <3> QED  BY <2>2, <2>4
  <2> HIDE DEF Body
  <2>6. h = [s \in D(k + 1) |-> Body(h, s)]
    <3> HIDE DEF h
    <3>1. h = [s \in D(k + 1) |-> Body(g, s)]  BY DEF h
    <3> QED  BY <2>5, <3>1
  <2> HIDE DEF h
  <2> QED  BY <2>6
<1>4. Cardinality(T) \in S
  <2> HIDE DEF S
  <2>1. \A k \in Nat : k \in S => k + 1 \in S  BY <1>3
  <2> QED  BY <1>0, <1>2, <2>1, Reaches
<1>5. D(Cardinality(T)) = SUBSET T
  <2>1. \A s \in SUBSET T : Cardinality(s) <= Cardinality(T)  BY <1>0, FS_Subset
  <2> QED  BY <2>1 DEF SmallOf
<1>6. PICK g : g = [s \in SUBSET T |-> Body(g, s)]
  <2> HIDE DEF D
  <2>1. PICK g : g = [s \in D(Cardinality(T)) |-> Body(g, s)]  BY <1>4
  <2> QED  BY <1>5, <2>1
<1>7. IsFold(g, which, base, seq)  BY <1>6 DEF IsFold
<1> QED  BY <1>7

LEMMA FoldPrefix ==
    ASSUME NEW n \in Nat, NEW seq, DOMAIN seq = 1..n, NEW which, NEW base, NEW g, IsFold(g, which, base, seq)
    PROVE  /\ g[1..0] = base
           /\ \A k \in 0..(n - 1) : g[1..(k + 1)] = FoldStep(which, g[1..k], seq[k + 1])
<1>1. \A s \in SUBSET (1..n) : g[s] = IF s = {} THEN base ELSE FoldStep(which, g[s \ {Max(s)}], seq[Max(s)])
  BY DEF IsFold
<1>2. 1..0 = {} /\ 1..0 \in SUBSET (1..n)  OBVIOUS
<1>3. g[1..0] = base  BY <1>1, <1>2
<1>4. ASSUME NEW k \in 0..(n - 1) PROVE g[1..(k + 1)] = FoldStep(which, g[1..k], seq[k + 1])
  <2> DEFINE s == 1..(k + 1)
  <2>1. s \in SUBSET (1..n) /\ s # {} /\ k + 1 \in s  OBVIOUS
  <2>2. Max(s) = k + 1
    <3>1. s \subseteq Nat /\ s # {} /\ k + 1 \in Nat /\ \A x \in s : x <= k + 1  OBVIOUS
    <3>2. Max(s) \in s /\ \A y \in s : y <= Max(s)
      <4> HIDE DEF s
      <4> QED  BY <3>1, MaxOf
    <3>3. Max(s) <= k + 1 /\ k + 1 <= Max(s) /\ Max(s) \in Nat  BY <2>1, <3>1, <3>2
    <3> HIDE DEF s
    <3> QED  BY <3>1, <3>3
  <2>3. s \ {k + 1} = 1..k  OBVIOUS
  <2> HIDE DEF s
  <2>4. g[s] = FoldStep(which, g[s \ {Max(s)}], seq[Max(s)])  BY <1>1, <2>1
  <2> QED  BY <2>2, <2>3, <2>4 DEF s
<1> QED  BY <1>3, <1>4

----------------------------------------------------------------------------
(* Values that are let in from outside. *)

Moved(ids, v) == IF IsHeap(v) THEN Reference(ids[v.of]) ELSE v

MovedObject(ids, o) ==
    [o EXCEPT !.items = [i \in DOMAIN @ |-> Moved(ids, @[i])],
              !.entries = [e \in DOMAIN @ |-> [key |-> @[e].key, value |-> Moved(ids, @[e].value)]]]

LEMMA PlacedIs ==
    ASSUME NEW acc, NEW o
    PROVE  /\ Placed(acc, o).heap = Allocated(acc.heap, MovedObject(acc.ids, o), ChargeOf(MovedObject(acc.ids, o)),
                                              DepthOf(acc.heap, MovedObject(acc.ids, o)))
           /\ Placed(acc, o).ids = Append(acc.ids, NewId(acc.heap))
BY DEF Placed, MovedObject, Moved

LEMMA MovedTyped ==
    ASSUME NEW ids \in Seq(Ids), NEW v \in HeapValues(Nat), IsHeap(v) => v.of \in 1..Len(ids)
    PROVE  Moved(ids, v) \in HeapValues(Ids)
<1>1. CASE IsHeap(v)
  <2>1. ids[v.of] \in Ids  BY <1>1, SeqParts
  <2> QED  BY <1>1, <2>1, ScalarsTyped DEF Moved
<1>2. CASE ~IsHeap(v)  BY <1>2, ValueParts DEF Moved
<1> QED  BY <1>1, <1>2

LEMMA PartsReplaced ==
    ASSUME NEW K, NEW T, NEW I, NEW F, NEW C, NEW D, NEW I2, NEW F2, NEW i \in I2, NEW e \in F2,
           NEW x \in [kind : K, text : T, items : I, entries : F, charge : C, depth : D]
    PROVE  [x EXCEPT !.items = i, !.entries = e]
             \in [kind : K, text : T, items : I2, entries : F2, charge : C, depth : D]
OBVIOUS

LEMMA MovedObjectTyped ==
    ASSUME NEW ids \in Seq(Ids), NEW o \in HeapObjects(Nat), PartIds(o) \subseteq 1..Len(ids)
    PROVE  /\ MovedObject(ids, o) \in HeapObjects(Ids)
           /\ MovedObject(ids, o).kind = o.kind
           /\ MovedObject(ids, o).items = [i \in DOMAIN o.items |-> Moved(ids, o.items[i])]
           /\ MovedObject(ids, o).entries =
                [e \in DOMAIN o.entries |-> [key |-> o.entries[e].key, value |-> Moved(ids, o.entries[e].value)]]
<1> DEFINE items == [i \in DOMAIN o.items |-> Moved(ids, o.items[i])]
           entries == [e \in DOMAIN o.entries |-> [key |-> o.entries[e].key, value |-> Moved(ids, o.entries[e].value)]]
           V == HeapValues(Ids)
           E == MapEntries(Ids)
<1>1. /\ o.items \in Seq(HeapValues(Nat)) /\ o.entries \in Seq(MapEntries(Nat))
      /\ DOMAIN o = {"kind", "text", "items", "entries", "charge", "depth"}
      /\ \A k \in DOMAIN o.items : o.items[k] \in HeapValues(Nat)
      /\ \A e \in DOMAIN o.entries : o.entries[e].key \in Names \cup {""} /\ o.entries[e].value \in HeapValues(Nat)
  BY ObjectParts
<1>2. /\ DOMAIN o.items = 1..Len(o.items) /\ Len(o.items) \in Nat
      /\ DOMAIN o.entries = 1..Len(o.entries) /\ Len(o.entries) \in Nat
  BY <1>1, SeqParts
<1>3. \A v \in Parts(o) : IsHeap(v) => v.of \in 1..Len(ids)  BY DEF PartIds
<1>4. \A k \in DOMAIN o.items : o.items[k] \in Parts(o)  BY DEF Parts, Range
<1>5. \A e \in DOMAIN o.entries : o.entries[e].value \in Parts(o)  BY DEF Parts
<1>6. \A k \in DOMAIN o.items : Moved(ids, o.items[k]) \in V  BY <1>1, <1>3, <1>4, MovedTyped
<1>7. \A e \in DOMAIN o.entries : [key |-> o.entries[e].key, value |-> Moved(ids, o.entries[e].value)] \in E
  <2>1. \A e \in DOMAIN o.entries : Moved(ids, o.entries[e].value) \in HeapValues(Ids)
    BY <1>1, <1>3, <1>5, MovedTyped
  <2> QED  BY <1>1, <2>1 DEF MapEntries
<1> HIDE DEF V, E
<1>8. items \in Seq(V)
  <2> DEFINE n == Len(o.items)
  <2>1. n \in Nat /\ DOMAIN o.items = 1..n  BY <1>2
  <2> HIDE DEF n
  <2> QED  BY <1>6, <2>1
<1>9. entries \in Seq(E)
  <2> DEFINE n == Len(o.entries)
  <2>1. n \in Nat /\ DOMAIN o.entries = 1..n  BY <1>2
  <2> HIDE DEF n
  <2>2. entries \in [1..n -> E]  BY <1>7, <2>1
  <2> HIDE DEF entries
  <2> QED  BY <2>1, <2>2
<1> HIDE DEF items, entries
<1>10. MovedObject(ids, o) = [o EXCEPT !.items = items, !.entries = entries]
  BY DEF MovedObject, items, entries
<1>11. [o EXCEPT !.items = items, !.entries = entries] \in HeapObjects(Ids)
  <2> DEFINE VN == Seq(HeapValues(Nat))
             EN == Seq(MapEntries(Nat))
  <2>2. o \in [kind : {"text", "list", "map"}, text : Names \cup {""}, items : VN, entries : EN, charge : Nat, depth : Nat]
    BY DEF HeapObjects, MapEntries
  <2> HIDE DEF VN, EN
  <2>3. [o EXCEPT !.items = items, !.entries = entries]
          \in [kind : {"text", "list", "map"}, text : Names \cup {""}, items : Seq(V), entries : Seq(E),
              charge : Nat, depth : Nat]
    BY <1>8, <1>9, <2>2, PartsReplaced, Zenon
  <2> QED  BY <2>3 DEF HeapObjects, V, E, MapEntries
<1>12. /\ [o EXCEPT !.items = items, !.entries = entries].kind = o.kind
       /\ [o EXCEPT !.items = items, !.entries = entries].items = items
       /\ [o EXCEPT !.items = items, !.entries = entries].entries = entries
  BY <1>1
<1> QED  BY <1>10, <1>11, <1>12 DEF items, entries

LEMMA PlacedTyped ==
    ASSUME NEW acc, acc.heap \in Heaps, acc.ids \in Seq(Ids), NEW n \in Nat, HasRoom(acc.heap, n + 1),
           NEW o \in HeapObjects(Nat), PartIds(o) \subseteq 1..Len(acc.ids)
    PROVE  /\ Placed(acc, o).heap \in Heaps /\ Placed(acc, o).ids \in Seq(Ids)
           /\ Len(Placed(acc, o).ids) = Len(acc.ids) + 1 /\ HasRoom(Placed(acc, o).heap, n)
<1> DEFINE p == MovedObject(acc.ids, o)
           h == acc.heap
           ids == acc.ids
<1>1. p \in HeapObjects(Ids)  BY MovedObjectTyped
<1>2. p.items \in Seq(HeapValues(Ids)) /\ p.entries \in Seq(MapEntries(Ids))  BY <1>1, ObjectParts
<1> HIDE DEF p
<1>3. ChargeOf(p) \in Nat /\ DepthOf(h, p) \in Nat  BY <1>1, <1>2, ChargeOfTyped, DepthOfTyped
<1>4. Allocated(h, p, ChargeOf(p), DepthOf(h, p)) \in Heaps  BY <1>1, <1>3, AllocatedTyped
<1>5. NewId(h) \in Ids /\ HasRoom(Allocated(h, p, ChargeOf(p), DepthOf(h, p)), n)  BY <1>1, <1>3, RoomGivesId
<1>6. Placed(acc, o).heap = Allocated(h, p, ChargeOf(p), DepthOf(h, p)) /\ Placed(acc, o).ids = Append(ids, NewId(h))
  BY PlacedIs DEF p
<1>7. Append(ids, NewId(h)) \in Seq(Ids) /\ Len(Append(ids, NewId(h))) = Len(ids) + 1
  BY <1>5, AppendProperties
<1> QED  BY <1>4, <1>5, <1>6, <1>7

\* The values that are let in refer to what was placed before them.
LEMMA MovedSure ==
    ASSUME NEW ids \in Seq(Ids), NEW v \in HeapValues(Nat), IsHeap(v) => v.of \in 1..Len(ids),
           NEW h, \A j \in DOMAIN ids : h[ids[j]] # Free
    PROVE  Moved(ids, v) \in Sure(h)
<1>1. Moved(ids, v) \in HeapValues(Ids)  BY MovedTyped
<1>2. CASE IsHeap(v)
  <2>1. v.of \in DOMAIN ids  BY <1>2, SeqParts
  <2>2. Moved(ids, v).of = ids[v.of]  BY <1>2 DEF Moved, Reference
  <2>3. h[Moved(ids, v).of] # Free  BY <2>1, <2>2
  <2> QED  BY <1>1, <2>3, SureScalar
<1>3. CASE ~IsHeap(v)
  <2>1. Moved(ids, v) = v  BY <1>3 DEF Moved
  <2> QED  BY <1>1, <1>3, <2>1, SureScalar
<1> QED  BY <1>2, <1>3

LEMMA MovedPartsSure ==
    ASSUME NEW ids \in Seq(Ids), NEW o \in HeapObjects(Nat), PartIds(o) \subseteq 1..Len(ids),
           NEW h, \A j \in DOMAIN ids : h[ids[j]] # Free
    PROVE  Parts(MovedObject(ids, o)) \subseteq Sure(h)
<1> DEFINE p == MovedObject(ids, o)
<1>1. /\ p.items = [i \in DOMAIN o.items |-> Moved(ids, o.items[i])]
      /\ p.entries = [e \in DOMAIN o.entries |-> [key |-> o.entries[e].key, value |-> Moved(ids, o.entries[e].value)]]
  BY MovedObjectTyped
<1> HIDE DEF p
<1>2. ASSUME NEW v \in Parts(o), v \in HeapValues(Nat) PROVE Moved(ids, v) \in Sure(h)
  <2>1. IsHeap(v) => v.of \in 1..Len(ids)  BY DEF PartIds
  <2> QED  BY <1>2, <2>1, MovedSure
<1>3. ASSUME NEW k \in DOMAIN p.items PROVE p.items[k] \in Sure(h)
  <2>1. k \in DOMAIN o.items /\ p.items[k] = Moved(ids, o.items[k])  BY <1>1
  <2>2. o.items[k] \in HeapValues(Nat)  BY <2>1, ObjectParts
  <2>3. o.items[k] \in Parts(o)  BY <2>1 DEF Parts, Range
  <2> QED  BY <1>2, <2>1, <2>2, <2>3
<1>4. ASSUME NEW e \in DOMAIN p.entries PROVE p.entries[e].value \in Sure(h)
  <2>1. e \in DOMAIN o.entries /\ p.entries[e].value = Moved(ids, o.entries[e].value)  BY <1>1
  <2>2. o.entries[e].value \in HeapValues(Nat)  BY <2>1, ObjectParts
  <2>3. o.entries[e].value \in Parts(o)  BY <2>1 DEF Parts
  <2> QED  BY <1>2, <2>1, <2>2, <2>3
<1>5. Parts(p) \subseteq Sure(h)  BY <1>3, <1>4 DEF Parts, Range
<1> QED  BY <1>5 DEF p

\* The heap while an owned value is let in: what is there already stays, and what
\* was placed is in use.
Filled(h, acc) == Sound(acc.heap) /\ Keeps(h, acc.heap) /\ \A j \in DOMAIN acc.ids : acc.heap[acc.ids[j]] # Free

LEMMA PlacedFirm ==
    ASSUME NEW acc, acc.heap \in Heaps, acc.ids \in Seq(Ids), NEW n \in Nat, HasRoom(acc.heap, n + 1),
           NEW o \in HeapObjects(Nat), PartIds(o) \subseteq 1..Len(acc.ids), NEW h0, Filled(h0, acc)
    PROVE  Filled(h0, Placed(acc, o))
<1> DEFINE p == MovedObject(acc.ids, o)
           h == acc.heap
           ids == acc.ids
           c == ChargeOf(p)
           d == DepthOf(h, p)
           g == Allocated(h, p, c, d)
           id == NewId(h)
           js == Append(ids, id)
<1>1. p \in HeapObjects(Ids)  BY MovedObjectTyped
<1>2. p.items \in Seq(HeapValues(Ids)) /\ p.entries \in Seq(MapEntries(Ids))  BY <1>1, ObjectParts
<1>3. Parts(p) \subseteq Sure(h)  BY MovedPartsSure DEF Filled
<1>4. Placed(acc, o).heap = g /\ Placed(acc, o).ids = js  BY PlacedIs
<1> HIDE DEF p
<1>5. c \in Nat /\ d \in Nat  BY <1>1, <1>2, ChargeOfTyped, DepthOfTyped
<1>6. id \in Ids  BY <1>1, <1>5, RoomGivesId
<1>7. HasRoom(h, 0 + 1)
  <2>1. \A a \in Nat : a >= n + 1 => a >= 0 + 1  OBVIOUS
  <2>2. Cardinality(FreeIds(h)) \in Nat  BY HeapAssumption, FS_Subset, FS_CardinalityType DEF FreeIds
  <2> QED  BY <2>1, <2>2 DEF HasRoom, FreeIds
<1>8. Sound(h)  BY DEF Filled
<1> HIDE DEF c, d
<1>9. Took(h, g, Reference(id)) /\ g[id] # Free
  <2> HIDE DEF h
  <2>1. h \in Heaps  BY DEF h
  <2> QED  BY <1>1, <1>3, <1>5, <1>7, <1>8, <2>1, AllocatedFirm
<1> HIDE DEF g, id, js
<1>10. Sound(g) /\ Keeps(h, g)  BY <1>9 DEF Took
<1>11. Keeps(h0, g)
  <2>1. Keeps(h0, h)  BY DEF Filled
  <2> HIDE DEF h
  <2> QED  BY <1>10, <2>1 DEF Keeps
<1>12. ASSUME NEW j \in DOMAIN js PROVE g[js[j]] # Free
  <2>1. DOMAIN js = 1..(Len(ids) + 1) /\ DOMAIN ids = 1..Len(ids) /\ Len(ids) \in Nat
        /\ js[Len(ids) + 1] = id /\ \A k \in 1..Len(ids) : js[k] = ids[k]
    BY <1>6 DEF js
  <2>2. CASE j = Len(ids) + 1  BY <1>9, <2>1, <2>2
  <2>3. CASE j # Len(ids) + 1
    <3>1. j \in DOMAIN ids /\ js[j] = ids[j]  BY <2>1, <2>3
    <3>2. ids[j] \in Ids /\ h[ids[j]] # Free  BY <3>1, SeqParts DEF Filled
    <3> QED  BY <1>10, <3>1, <3>2 DEF Keeps
  <2> QED  BY <2>2, <2>3
<1> QED  BY <1>4, <1>10, <1>11, <1>12 DEF Filled

IsImport(g, h, owned) ==
    g = [s \in SUBSET (DOMAIN owned.objects) |->
            IF s = {} THEN [heap |-> h, ids |-> <<>>] ELSE Placed(g[s \ {Max(s)}], owned.objects[Max(s)])]

LEMMA ImportedIs ==
    ASSUME NEW h, NEW owned
    PROVE  Imported(h, owned) = (CHOOSE g : IsImport(g, h, owned))[DOMAIN owned.objects]
BY DEF Imported, FoldLeft, MapThenFoldSet, IsImport

LEMMA ImportRuns ==
    ASSUME NEW h, NEW owned, NEW n \in Nat, DOMAIN owned.objects = 1..n
    PROVE  \E g : /\ g[1..0] = [heap |-> h, ids |-> <<>>]
                  /\ \A k \in 0..(n - 1) : g[1..(k + 1)] = Placed(g[1..k], owned.objects[k + 1])
                  /\ Imported(h, owned) = g[1..n]
<1> DEFINE base == [heap |-> h, ids |-> <<>>]
           seq == owned.objects
<1>1. \A g : IsFold(g, "place", base, seq) <=> IsImport(g, h, owned)
  BY DEF IsFold, IsImport, FoldStep
<1> HIDE DEF base, seq
<1>2. DOMAIN seq = 1..n  BY DEF seq
<1>3. \E g : IsFold(g, "place", base, seq)  BY <1>2, FoldExists
<1> DEFINE g == CHOOSE g : IsImport(g, h, owned)
<1>4. IsImport(g, h, owned)  BY <1>1, <1>3
<1>5. Imported(h, owned) = g[1..n]  BY ImportedIs
<1> HIDE DEF g
<1>6. IsFold(g, "place", base, seq)  BY <1>1, <1>4
<1>7. /\ g[1..0] = base
      /\ \A k \in 0..(n - 1) : g[1..(k + 1)] = FoldStep("place", g[1..k], seq[k + 1])
  BY <1>2, <1>6, FoldPrefix
<1> QED  BY <1>5, <1>7 DEF FoldStep, base, seq

LEMMA OwnedParts ==
    ASSUME NEW owned \in OwnedValues, PartsFirst(owned)
    PROVE  /\ DOMAIN owned.objects = 1..Len(owned.objects) /\ Len(owned.objects) \in Nat
           /\ \A k \in 1..Len(owned.objects) :
                owned.objects[k] \in HeapObjects(Nat) /\ PartIds(owned.objects[k]) \subseteq 1..(k - 1)
           /\ owned.value \in HeapValues(Nat)
           /\ IsHeap(owned.value) => owned.value.of \in 1..Len(owned.objects)
<1>1. owned.objects \in Seq(HeapObjects(Nat)) /\ owned.value \in HeapValues(Nat)  BY DEF OwnedValues
<1>2. /\ DOMAIN owned.objects = 1..Len(owned.objects) /\ Len(owned.objects) \in Nat
      /\ \A k \in DOMAIN owned.objects : owned.objects[k] \in HeapObjects(Nat)
  BY <1>1, SeqParts
<1> QED  BY <1>1, <1>2 DEF PartsFirst

\* What is let in is in the heap when there is room for all of it.
LEMMA ImportedTyped ==
    ASSUME NEW h \in Heaps, NEW owned \in OwnedValues, PartsFirst(owned), NEW r \in Nat,
           HasRoom(h, Len(owned.objects) + r)
    PROVE  /\ Imported(h, owned).heap \in Heaps
           /\ HasRoom(Imported(h, owned).heap, r)
           /\ ImportedValue(h, owned) \in HeapValues(Ids)
           /\ Sound(h) => Took(h, Imported(h, owned).heap, ImportedValue(h, owned))
<1> DEFINE n == Len(owned.objects)
<1>1. /\ DOMAIN owned.objects = 1..n /\ n \in Nat
      /\ \A k \in 1..n : owned.objects[k] \in HeapObjects(Nat) /\ PartIds(owned.objects[k]) \subseteq 1..(k - 1)
      /\ owned.value \in HeapValues(Nat)
      /\ IsHeap(owned.value) => owned.value.of \in 1..n
  BY OwnedParts
<1> HIDE DEF n
<1>2. PICK g : /\ g[1..0] = [heap |-> h, ids |-> <<>>]
               /\ \A k \in 0..(n - 1) : g[1..(k + 1)] = Placed(g[1..k], owned.objects[k + 1])
               /\ Imported(h, owned) = g[1..n]
  BY <1>1, ImportRuns
<1> DEFINE Good(acc, k) == /\ acc.heap \in Heaps /\ acc.ids \in Seq(Ids) /\ Len(acc.ids) = k
                           /\ HasRoom(acc.heap, n - k + r) /\ (Sound(h) => Filled(h, acc))
           S == {k \in Nat : k <= n => Good(g[1..k], k)}
<1>3. 0 \in S
  <2>1. g[1..0].heap = h /\ g[1..0].ids = <<>>  BY <1>2
  <2>2. n - 0 + r = n + r  BY <1>1
  <2>4. Sound(h) => Filled(h, g[1..0])
    <3>1. DOMAIN <<>> = {}  OBVIOUS
    <3> QED  BY <2>1, <3>1 DEF Filled, Keeps
  <2>3. Good(g[1..0], 0)
    <3>1. g[1..0].ids \in Seq(Ids) /\ Len(g[1..0].ids) = 0  BY <2>1
    <3>2. HasRoom(g[1..0].heap, n - 0 + r)  BY <1>1, <2>1, <2>2 DEF n
    <3> QED  BY <2>1, <2>4, <3>1, <3>2
  <2> QED  BY <2>3
<1>4. ASSUME NEW k \in Nat, k \in S PROVE k + 1 \in S
  <2> SUFFICES ASSUME k + 1 <= n PROVE Good(g[1..(k + 1)], k + 1)  OBVIOUS
  <2> DEFINE acc == g[1..k]
             o == owned.objects[k + 1]
             q == n - (k + 1) + r
  <2>1. Good(acc, k) /\ k \in 0..(n - 1) /\ k + 1 \in 1..n /\ k + 1 - 1 = k /\ q \in Nat /\ q + 1 = n - k + r
    BY <1>1, <1>4
  <2>2. g[1..(k + 1)] = Placed(acc, o)  BY <1>2, <2>1
  <2>3. o \in HeapObjects(Nat) /\ PartIds(o) \subseteq 1..k
    <3> DEFINE j == k + 1
    <3>1. j \in 1..n /\ j - 1 = k  BY <2>1
    <3> HIDE DEF j
    <3>2. owned.objects[j] \in HeapObjects(Nat) /\ PartIds(owned.objects[j]) \subseteq 1..(j - 1)
      BY <1>1, <3>1
    <3> QED  BY <3>1, <3>2 DEF j
  <2> HIDE DEF acc, o, q
  <2>4. /\ acc.heap \in Heaps /\ acc.ids \in Seq(Ids) /\ Len(acc.ids) = k /\ HasRoom(acc.heap, q + 1)
        /\ Sound(h) => Filled(h, acc)
    BY <2>1
  <2>5. /\ Placed(acc, o).heap \in Heaps /\ Placed(acc, o).ids \in Seq(Ids)
        /\ Len(Placed(acc, o).ids) = Len(acc.ids) + 1 /\ HasRoom(Placed(acc, o).heap, q)
    BY <2>1, <2>3, <2>4, PlacedTyped
  <2>6. Sound(h) => Filled(h, Placed(acc, o))  BY <2>1, <2>3, <2>4, PlacedFirm
  <2> QED  BY <2>2, <2>4, <2>5, <2>6 DEF q
<1>5. n \in S
  <2> HIDE DEF S
  <2>1. \A k \in Nat : k \in S => k + 1 \in S  BY <1>4
  <2> QED  BY <1>1, <1>3, <2>1, Reaches
<1>6. Good(Imported(h, owned), n)  BY <1>1, <1>2, <1>5
<1>7. HasRoom(Imported(h, owned).heap, r)
  <2>1. n - n + r = r  BY <1>1
  <2> QED  BY <1>6, <2>1
<1> DEFINE ids == Imported(h, owned).ids
           after == Imported(h, owned).heap
<1>8. ids \in Seq(Ids) /\ Len(ids) = n /\ ImportedValue(h, owned) = Moved(ids, owned.value)
  <2>1. ImportedValue(h, owned) = Moved(ids, owned.value)  BY DEF ImportedValue, Moved
  <2> QED  BY <1>6, <2>1
<1>9. Sound(h) => Sound(after) /\ Keeps(h, after) /\ \A j \in DOMAIN ids : after[ids[j]] # Free
  BY <1>6 DEF Filled
<1> HIDE DEF ids, after
<1>10. ImportedValue(h, owned) \in HeapValues(Ids)  BY <1>1, <1>8, MovedTyped
<1>11. Sound(h) => Took(h, after, ImportedValue(h, owned))
  <2> SUFFICES ASSUME Sound(h) PROVE Took(h, after, ImportedValue(h, owned))  OBVIOUS
  <2>1. Moved(ids, owned.value) \in Sure(after)  BY <1>1, <1>8, <1>9, MovedSure
  <2> QED  BY <1>8, <1>9, <2>1 DEF Took
<1> QED  BY <1>6, <1>7, <1>10, <1>11 DEF after

----------------------------------------------------------------------------
(* The inputs. *)

IsIntake(g, h, given) ==
    g = [s \in SUBSET (DOMAIN given) |->
            IF s = {} THEN [heap |-> h, values |-> <<>>] ELSE LetIn(g[s \ {Max(s)}], given[Max(s)])]

IsCount(g, given) ==
    g = [s \in SUBSET (DOMAIN given) |-> IF s = {} THEN 0 ELSE g[s \ {Max(s)}] + Len(given[Max(s)].objects)]

AllIn(h, given) == FoldLeft(LetIn, [heap |-> h, values |-> <<>>], given)
CountOf(given) == FoldLeft(LAMBDA n, o : n + Len(o.objects), 0, given)

LEMMA IntakeIs ==
    ASSUME NEW h, NEW given
    PROVE  /\ AllIn(h, given) = (CHOOSE g : IsIntake(g, h, given))[DOMAIN given]
           /\ CountOf(given) = (CHOOSE g : IsCount(g, given))[DOMAIN given]
<1>1. AllIn(h, given) = (CHOOSE g : IsIntake(g, h, given))[DOMAIN given]
  BY DEF AllIn, FoldLeft, MapThenFoldSet, IsIntake
<1>2. CountOf(given) = (CHOOSE g : IsCount(g, given))[DOMAIN given]
  BY DEF CountOf, FoldLeft, MapThenFoldSet, IsCount
<1> QED  BY <1>1, <1>2

LEMMA IntakeRuns ==
    ASSUME NEW h, NEW given, NEW n \in Nat, DOMAIN given = 1..n
    PROVE  \E g : /\ g[1..0] = [heap |-> h, values |-> <<>>]
                  /\ \A k \in 0..(n - 1) : g[1..(k + 1)] = LetIn(g[1..k], given[k + 1])
                  /\ AllIn(h, given) = g[1..n]
<1> DEFINE base == [heap |-> h, values |-> <<>>]
<1>1. \A g : IsFold(g, "intake", base, given) <=> IsIntake(g, h, given)
  BY DEF IsFold, IsIntake, FoldStep
<1> HIDE DEF base
<1>2. DOMAIN given = 1..n  OBVIOUS
<1>3. \E g : IsFold(g, "intake", base, given)  BY <1>2, FoldExists
<1> DEFINE g == CHOOSE g : IsIntake(g, h, given)
<1>4. IsIntake(g, h, given)  BY <1>1, <1>3
<1>5. AllIn(h, given) = g[1..n]  BY IntakeIs
<1> HIDE DEF g
<1>6. IsFold(g, "intake", base, given)  BY <1>1, <1>4
<1>7. /\ g[1..0] = base
      /\ \A k \in 0..(n - 1) : g[1..(k + 1)] = FoldStep("intake", g[1..k], given[k + 1])
  BY <1>2, <1>6, FoldPrefix
<1> QED  BY <1>5, <1>7 DEF FoldStep, base

LEMMA CountRuns ==
    ASSUME NEW given, NEW n \in Nat, DOMAIN given = 1..n
    PROVE  \E g : /\ g[1..0] = 0
                  /\ \A k \in 0..(n - 1) : g[1..(k + 1)] = g[1..k] + Len(given[k + 1].objects)
                  /\ CountOf(given) = g[1..n]
<1>1. \A g : IsFold(g, "count", 0, given) <=> IsCount(g, given)
  BY DEF IsFold, IsCount, FoldStep
<1>3. \E g : IsFold(g, "count", 0, given)  BY FoldExists
<1> DEFINE g == CHOOSE g : IsCount(g, given)
<1>4. IsCount(g, given)  BY <1>1, <1>3
<1>5. CountOf(given) = g[1..n]  BY IntakeIs
<1> HIDE DEF g
<1>6. IsFold(g, "count", 0, given)  BY <1>1, <1>4
<1>7. /\ g[1..0] = 0
      /\ \A k \in 0..(n - 1) : g[1..(k + 1)] = FoldStep("count", g[1..k], given[k + 1])
  BY <1>6, FoldPrefix
<1> QED  BY <1>5, <1>7 DEF FoldStep

LEMMA CountGrows ==
    ASSUME NEW n \in Nat, NEW c, c[1..0] = 0, NEW len, \A k \in 1..n : len[k] \in Nat,
           \A k \in 0..(n - 1) : c[1..(k + 1)] = c[1..k] + len[k + 1]
    PROVE  \A j \in 0..n : c[1..j] \in Nat /\ c[1..j] <= c[1..n]
<1> DEFINE S == {j \in Nat : j <= n => \A i \in 0..j : c[1..i] \in Nat /\ c[1..i] <= c[1..j]}
<1>1. 0 \in S
  <2>1. \A i \in 0..0 : i = 0  OBVIOUS
  <2>2. \A i \in 0..0 : c[1..i] = 0  BY <2>1
  <2>3. c[1..0] = 0 /\ 0 \in Nat  OBVIOUS
  <2> QED  BY <2>2, <2>3
<1>2. ASSUME NEW j \in Nat, j \in S PROVE j + 1 \in S
  <2> SUFFICES ASSUME j + 1 <= n
               PROVE  \A i \in 0..(j + 1) : c[1..i] \in Nat /\ c[1..i] <= c[1..(j + 1)]
    OBVIOUS
  <2>1. \A i \in 0..j : c[1..i] \in Nat /\ c[1..i] <= c[1..j]  BY <1>2
  <2>2. c[1..(j + 1)] = c[1..j] + len[j + 1] /\ len[j + 1] \in Nat
    <3>1. j \in 0..(n - 1) /\ j + 1 \in 1..n  OBVIOUS
    <3> QED  BY <3>1
  <2>3. c[1..j] \in Nat
    <3>1. j \in 0..j  OBVIOUS
    <3> QED  BY <2>1, <3>1
  <2> DEFINE a == c[1..j]
             b == c[1..(j + 1)]
             l == len[j + 1]
  <2>4. a \in Nat /\ l \in Nat /\ b = a + l  BY <2>2, <2>3
  <2> HIDE DEF a, b, l
  <2>5. b \in Nat /\ a <= b  BY <2>4
  <2>6. ASSUME NEW i \in 0..(j + 1) PROVE c[1..i] \in Nat /\ c[1..i] <= b
    <3>1. CASE i = j + 1
      <4>1. c[1..i] = b  BY <3>1 DEF b
      <4> QED  BY <2>5, <4>1
    <3>2. CASE i # j + 1
      <4>1. i \in 0..j  BY <3>2
      <4>2. c[1..i] \in Nat /\ c[1..i] <= a  BY <2>1, <4>1 DEF a
      <4> QED  BY <2>4, <2>5, <4>2
    <3> QED  BY <3>1, <3>2
  <2> QED  BY <2>6 DEF b
<1>3. n \in S
  <2> HIDE DEF S
  <2>1. \A j \in Nat : j \in S => j + 1 \in S  BY <1>2
  <2> QED  BY <1>1, <2>1, Reaches
<1> QED  BY <1>3

\* A heap that came from another, and the values that refer to nothing but it.
TookAll(h, acc) == Sound(acc.heap) /\ Keeps(h, acc.heap) /\ acc.values \in Seq(Sure(acc.heap))

LEMMA TookOneMore ==
    ASSUME NEW h, NEW acc, TookAll(h, acc), NEW g, NEW v, Took(acc.heap, g, v)
    PROVE  Append(acc.values, v) \in Seq(Sure(g)) /\ Sound(g) /\ Keeps(h, g)
<1> DEFINE s == acc.values
           K == Sure(acc.heap)
           L == Sure(g)
<1>0. Keeps(h, g)
  <2>1. Keeps(h, acc.heap) /\ Keeps(acc.heap, g)  BY DEF TookAll, Took
  <2> QED  BY <2>1 DEF Keeps
<1>1. s \in Seq(K) /\ K \subseteq L /\ v \in L /\ Sound(g)  BY SureGrows DEF TookAll, Took
<1> HIDE DEF s, K, L
<1>2. s \in Seq(L)
  <2> DEFINE n == Len(s)
  <2>1. n \in Nat /\ s \in [1..n -> K]  BY <1>1
  <2> HIDE DEF n
  <2>2. s \in [1..n -> L]  BY <1>1, <2>1
  <2> QED  BY <2>1, <2>2
<1>3. Append(s, v) \in Seq(L)  BY <1>1, <1>2, AppendProperties
<1> QED  BY <1>0, <1>1, <1>3 DEF s, L

\* The inputs of a module are in the heap once they are let in.
LEMMA IntakeTyped ==
    ASSUME NEW h \in Heaps, NEW given \in Seq(OwnedValues), \A k \in DOMAIN given : PartsFirst(given[k]),
           HasRoom(h, CountOf(given))
    PROVE  /\ AllIn(h, given).heap \in Heaps /\ AllIn(h, given).values \in Seq(HeapValues(Ids))
           /\ Sound(h) => TookAll(h, AllIn(h, given))
<1> DEFINE n == Len(given)
           len == [k \in 1..Len(given) |-> Len(given[k].objects)]
<1>1. DOMAIN given = 1..n /\ n \in Nat /\ \A k \in DOMAIN given : given[k] \in OwnedValues  BY SeqParts
<1>2. \A k \in 1..n : len[k] = Len(given[k].objects) /\ len[k] \in Nat
  <2> SUFFICES ASSUME NEW k \in 1..n PROVE len[k] = Len(given[k].objects) /\ len[k] \in Nat  OBVIOUS
  <2>1. len[k] = Len(given[k].objects)  OBVIOUS
  <2>2. given[k] \in OwnedValues /\ PartsFirst(given[k])  BY <1>1
  <2>3. Len(given[k].objects) \in Nat  BY <2>2, OwnedParts
  <2> QED  BY <2>1, <2>3
<1> HIDE DEF n, len
<1>3. PICK g : /\ g[1..0] = [heap |-> h, values |-> <<>>]
               /\ \A k \in 0..(n - 1) : g[1..(k + 1)] = LetIn(g[1..k], given[k + 1])
               /\ AllIn(h, given) = g[1..n]
  BY <1>1, IntakeRuns
<1>4. PICK c : /\ c[1..0] = 0
               /\ \A k \in 0..(n - 1) : c[1..(k + 1)] = c[1..k] + Len(given[k + 1].objects)
               /\ CountOf(given) = c[1..n]
  BY <1>1, CountRuns
<1>5. \A k \in 0..(n - 1) : c[1..(k + 1)] = c[1..k] + len[k + 1]
  <2>1. \A k \in 0..(n - 1) : k + 1 \in 1..n  BY <1>1
  <2> QED  BY <1>2, <1>4, <2>1
<1>6. \A j \in 0..n : c[1..j] \in Nat /\ c[1..j] <= c[1..n]  BY <1>1, <1>2, <1>4, <1>5, CountGrows
<1> DEFINE all == CountOf(given)
           Good(acc, room) == /\ acc.heap \in Heaps /\ acc.values \in Seq(HeapValues(Ids)) /\ HasRoom(acc.heap, room)
                              /\ Sound(h) => TookAll(h, acc)
           S == {k \in Nat : k <= n => Good(g[1..k], all - c[1..k])}
<1>7. all = c[1..n] /\ all \in Nat
  <2>1. n \in 0..n  BY <1>1
  <2> QED  BY <1>4, <1>6, <2>1
<1>8. HasRoom(h, all)  OBVIOUS
<1> HIDE DEF all
<1>9. 0 \in S
  <2>1. all - c[1..0] = all  BY <1>4, <1>7
  <2>2. g[1..0].heap = h /\ g[1..0].values = <<>>  BY <1>3
  <2>3. <<>> \in Seq(HeapValues(Ids)) /\ \A T : <<>> \in Seq(T)  OBVIOUS
  <2>5. Sound(h) => TookAll(h, g[1..0])  BY <2>2, <2>3 DEF TookAll, Keeps
  <2>4. Good(g[1..0], all - c[1..0])  BY <1>8, <2>1, <2>2, <2>3, <2>5
  <2> QED  BY <2>4
<1>10. ASSUME NEW k \in Nat, k \in S PROVE k + 1 \in S
  <2> SUFFICES ASSUME k + 1 <= n PROVE Good(g[1..(k + 1)], all - c[1..(k + 1)])  OBVIOUS
  <2> DEFINE acc == g[1..k]
             o == given[k + 1]
             r == all - c[1..(k + 1)]
             room == all - c[1..k]
  <2>1. Good(acc, room) /\ k \in 0..(n - 1) /\ k + 1 \in 1..n /\ k \in 0..n /\ k + 1 \in 0..n
    BY <1>1, <1>10
  <2>2. g[1..(k + 1)] = LetIn(acc, o)  BY <1>3, <2>1
  <2>3. o \in OwnedValues /\ PartsFirst(o) /\ Len(o.objects) \in Nat
    <3>1. o \in OwnedValues /\ PartsFirst(o)  BY <1>1, <2>1
    <3> HIDE DEF o
    <3> QED  BY <3>1, OwnedParts
  <2>4. r \in Nat /\ room = Len(o.objects) + r
    <3> DEFINE a == c[1..k]
               b == c[1..(k + 1)]
               l == Len(o.objects)
    <3>1. b = a + l  BY <1>4, <2>1
    <3>2. a \in Nat /\ b \in Nat /\ b <= all  BY <1>6, <1>7, <2>1
    <3>3. l \in Nat  BY <2>3
    <3>4. r = all - b /\ room = all - a  OBVIOUS
    <3> HIDE DEF a, b, l, r, room
    <3>5. r \in Nat  BY <1>7, <3>2, <3>4
    <3>6. room = l + r  BY <1>7, <3>1, <3>2, <3>3, <3>4
    <3> QED  BY <3>5, <3>6 DEF l
  <2> HIDE DEF acc, o, r, room
  <2>5. /\ acc.heap \in Heaps /\ acc.values \in Seq(HeapValues(Ids)) /\ HasRoom(acc.heap, Len(o.objects) + r)
        /\ Sound(h) => TookAll(h, acc)
    BY <2>1, <2>4
  <2>6. /\ Imported(acc.heap, o).heap \in Heaps /\ HasRoom(Imported(acc.heap, o).heap, r)
        /\ ImportedValue(acc.heap, o) \in HeapValues(Ids)
        /\ Sound(acc.heap) => Took(acc.heap, Imported(acc.heap, o).heap, ImportedValue(acc.heap, o))
    BY <2>3, <2>4, <2>5, ImportedTyped
  <2>7. /\ LetIn(acc, o).heap = Imported(acc.heap, o).heap
        /\ LetIn(acc, o).values = Append(acc.values, ImportedValue(acc.heap, o))
    BY DEF LetIn
  <2>8. Append(acc.values, ImportedValue(acc.heap, o)) \in Seq(HeapValues(Ids))  BY <2>5, <2>6, AppendProperties
  <2>9. Sound(h) => TookAll(h, LetIn(acc, o))
    <3> SUFFICES ASSUME Sound(h) PROVE TookAll(h, LetIn(acc, o))  OBVIOUS
    <3>1. TookAll(h, acc) /\ Took(acc.heap, Imported(acc.heap, o).heap, ImportedValue(acc.heap, o))
      BY <2>5, <2>6 DEF TookAll
    <3> DEFINE v == ImportedValue(acc.heap, o)
               after == Imported(acc.heap, o).heap
    <3> HIDE DEF v, after
    <3>2. Append(acc.values, v) \in Seq(Sure(after)) /\ Sound(after) /\ Keeps(h, after)
      BY <3>1, TookOneMore DEF v, after
    <3> QED  BY <2>7, <3>2 DEF TookAll, v, after
  <2> QED  BY <2>2, <2>6, <2>7, <2>8, <2>9 DEF r
<1>11. n \in S
  <2> HIDE DEF S
  <2>1. \A k \in Nat : k \in S => k + 1 \in S  BY <1>10
  <2> QED  BY <1>1, <1>9, <2>1, Reaches
<1> QED  BY <1>1, <1>3, <1>11

----------------------------------------------------------------------------
(* What validation leaves behind: a typing of every instruction that can be reached. *)

Reached(m, k, ip) == WalkOf(m, k).states[ip]

\* Whatever an instruction that was reached leads to was reached too, with the
\* depth it leaves and no local that it does not leave initialized.
LEMMA AcceptedTyping ==
    ASSUME NEW m \in Candidates, Accepted(m), NEW k \in DOMAIN m.functions
    PROVE  /\ m.functions[k] \in Functions /\ FunctionFits(m, m.functions[k])
           /\ 1 \in DOMAIN m.functions[k].code /\ Reached(m, k, 1) # Unseen
           /\ Reached(m, k, 1).depth = 0 /\ Reached(m, k, 1).init \subseteq 1..m.functions[k].arity
           /\ \A ip \in DOMAIN m.functions[k].code : Reached(m, k, ip) # Unseen =>
                /\ Reached(m, k, ip).depth \in 0..MaxOperands /\ Reached(m, k, ip).init \subseteq Nat
                /\ ~Rejects(m, m.functions[k].code[ip], Reached(m, k, ip).depth, Reached(m, k, ip).init)
                /\ \A j \in 1..Len(Successors(m.functions[k].code[ip], ip)) :
                     LET s == Successors(m.functions[k].code[ip], ip)[j] IN
                     /\ s \in DOMAIN m.functions[k].code /\ Reached(m, k, s) # Unseen
                     /\ Reached(m, k, s).depth = NextDepth(m, m.functions[k].code[ip], Reached(m, k, ip).depth)
                     /\ Reached(m, k, s).init
                          \subseteq Initializes(m.functions[k].code[ip], Reached(m, k, ip).init)
<1> DEFINE f == m.functions[k]
           w == WalkOf(m, k)
<1>1. f \in Functions /\ FunctionFits(m, f)
  <2>1. f \in Range(m.functions)  BY DEF Range
  <2>2. FunctionFits(m, f)
    <3> HIDE DEF f
    <3> QED  BY <2>1 DEF Accepted, WellFormed
  <2> QED  BY <2>2, PartsTyped
<1>2. w.ok /\ w.work = <<>>  BY DEF Accepted
<1>3. WalkTyped(f, w) /\ Walked(m, f, w)
  <2>1. WellFormed(m)  BY DEF Accepted
  <2>2. PICK visits \in Nat : w = Walk(m, f, visits)  BY <2>1, FunctionsWalked
  <2> HIDE DEF f, w
  <2> QED  BY <1>1, <1>2, <2>2, WalkSound
<1>4. 1 \in DOMAIN f.code
  <2>1. f.code \in Seq(Instructions) /\ f.code # <<>>  BY <1>1 DEF Functions, FunctionFits
  <2> HIDE DEF f
  <2> QED  BY <2>1
<1> HIDE DEF f, w
<1>5. ASSUME NEW s, NEW d, NEW i, Covered(w, s, d, i)
      PROVE  w.states[s] # Unseen /\ w.states[s].depth = d /\ w.states[s].init \subseteq i
  <2>1. Len(w.work) = 0  BY <1>2
  <2>2. ~\E j \in 1..Len(w.work) : TRUE  BY <2>1
  <2> QED  BY <1>5, <2>2 DEF Covered
<1>6. w.states[1] # Unseen /\ w.states[1].depth = 0 /\ w.states[1].init \subseteq 1..f.arity
  <2> DEFINE set == 1..f.arity
  <2>1. Covered(w, 1, 0, set)  BY <1>3 DEF Walked
  <2> HIDE DEF set
  <2>2. w.states[1] # Unseen /\ w.states[1].depth = 0 /\ w.states[1].init \subseteq set  BY <1>5, <2>1
  <2> QED  BY <2>2 DEF set
<1>7. ASSUME NEW ip \in DOMAIN f.code, w.states[ip] # Unseen
      PROVE  /\ w.states[ip].depth \in 0..MaxOperands /\ w.states[ip].init \subseteq Nat
             /\ ~Rejects(m, f.code[ip], w.states[ip].depth, w.states[ip].init)
             /\ \A j \in 1..Len(Successors(f.code[ip], ip)) :
                  LET s == Successors(f.code[ip], ip)[j] IN
                  /\ s \in DOMAIN f.code /\ w.states[s] # Unseen
                  /\ w.states[s].depth = NextDepth(m, f.code[ip], w.states[ip].depth)
                  /\ w.states[s].init \subseteq Initializes(f.code[ip], w.states[ip].init)
  <2>1. w.states[ip] \in Seen  BY <1>3 DEF WalkTyped
  <2>2. Passes(m, f, w, ip)  BY <1>3, <1>7 DEF Walked
  <2>3. ~Rejects(m, f.code[ip], w.states[ip].depth, w.states[ip].init)  BY <2>2 DEF Passes
  <2>4. w.states[ip].depth \in 0..MaxOperands /\ w.states[ip].init \subseteq Nat
    <3>1. Required(m, f.code[ip]) \in Nat  BY <1>1, RequiredTyped
    <3>2. w.states[ip].depth \in -1..MaxOperands /\ w.states[ip].init \subseteq Nat  BY <2>1 DEF Seen
    <3>3. ~(w.states[ip].depth < Required(m, f.code[ip]))  BY <2>3 DEF Rejects
    <3> QED  BY <3>1, <3>2, <3>3, CheckAssumption
  <2>5. ASSUME NEW j \in 1..Len(Successors(f.code[ip], ip))
        PROVE  LET s == Successors(f.code[ip], ip)[j] IN
               /\ s \in DOMAIN f.code /\ w.states[s] # Unseen
               /\ w.states[s].depth = NextDepth(m, f.code[ip], w.states[ip].depth)
               /\ w.states[s].init \subseteq Initializes(f.code[ip], w.states[ip].init)
    <3> DEFINE s == Successors(f.code[ip], ip)[j]
    <3>1. s \in DOMAIN f.code
      <4>1. Successors(f.code[ip], ip) \in Seq(DOMAIN f.code)  BY <1>1, SuccessorsTyped
      <4> QED  BY <4>1
    <3>2. Covered(w, s, NextDepth(m, f.code[ip], w.states[ip].depth), Initializes(f.code[ip], w.states[ip].init))
      BY <2>2 DEF Passes
    <3> HIDE DEF s
    <3>3. /\ s \in DOMAIN f.code /\ w.states[s] # Unseen
          /\ w.states[s].depth = NextDepth(m, f.code[ip], w.states[ip].depth)
          /\ w.states[s].init \subseteq Initializes(f.code[ip], w.states[ip].init)
      BY <1>5, <3>1, <3>2
    <3> QED  BY <3>3 DEF s
  <2> QED  BY <2>3, <2>4, <2>5
<1>8. \A ip \in DOMAIN f.code : w.states[ip] # Unseen =>
        /\ w.states[ip].depth \in 0..MaxOperands /\ w.states[ip].init \subseteq Nat
        /\ ~Rejects(m, f.code[ip], w.states[ip].depth, w.states[ip].init)
        /\ \A j \in 1..Len(Successors(f.code[ip], ip)) :
             LET s == Successors(f.code[ip], ip)[j] IN
             /\ s \in DOMAIN f.code /\ w.states[s] # Unseen
             /\ w.states[s].depth = NextDepth(m, f.code[ip], w.states[ip].depth)
             /\ w.states[s].init \subseteq Initializes(f.code[ip], w.states[ip].init)
  BY <1>7
<1> QED  BY <1>1, <1>4, <1>6, <1>8 DEF Reached, f, w

----------------------------------------------------------------------------
(* The frames of a machine agree with the typing. *)

\* A caller waits for the one value its callee is to leave.
Matches(m, fr, waiting) ==
    /\ fr.function \in DOMAIN m.functions
    /\ fr.ip \in DOMAIN m.functions[fr.function].code
    /\ Reached(m, fr.function, fr.ip) # Unseen
    /\ Len(fr.locals) = m.functions[fr.function].locals
    /\ \A l \in Reached(m, fr.function, fr.ip).init \cap DOMAIN fr.locals : fr.locals[l] # None
    /\ Len(fr.stack) + waiting = Reached(m, fr.function, fr.ip).depth

CodeAt(m, fr) == m.functions[fr.function].code[fr.ip]

LEMMA FrameMoves ==
    ASSUME NEW m \in Candidates, Accepted(m), NEW fr \in CallFrames, Matches(m, fr, 0),
           NEW to \in CallFrames, to.function = fr.function, NEW waiting \in Nat,
           NEW j \in 1..Len(Successors(CodeAt(m, fr), fr.ip)), to.ip = Successors(CodeAt(m, fr), fr.ip)[j],
           Len(to.locals) = Len(fr.locals),
           \A l \in Initializes(CodeAt(m, fr), Reached(m, fr.function, fr.ip).init) \cap DOMAIN to.locals :
              to.locals[l] # None,
           Len(to.stack) + waiting = NextDepth(m, CodeAt(m, fr), Len(fr.stack))
    PROVE  Matches(m, to, waiting)
<1> DEFINE k == fr.function
           ip == fr.ip
           s == to.ip
<1>1. k \in DOMAIN m.functions /\ ip \in DOMAIN m.functions[k].code /\ Reached(m, k, ip) # Unseen
      /\ Len(fr.stack) = Reached(m, k, ip).depth
  <2>1. Len(fr.stack) \in Nat  BY DEF CallFrames
  <2> QED  BY <2>1 DEF Matches
<1> HIDE DEF k, ip, s
<1>2. /\ s \in DOMAIN m.functions[k].code /\ Reached(m, k, s) # Unseen
      /\ Reached(m, k, s).depth = NextDepth(m, m.functions[k].code[ip], Reached(m, k, ip).depth)
      /\ Reached(m, k, s).init \subseteq Initializes(m.functions[k].code[ip], Reached(m, k, ip).init)
  <2>1. j \in 1..Len(Successors(m.functions[k].code[ip], ip)) /\ s = Successors(m.functions[k].code[ip], ip)[j]
    BY DEF CodeAt, k, ip, s
  <2> QED  BY <1>1, <2>1, AcceptedTyping
<1>3. Len(to.locals) = m.functions[k].locals  BY DEF Matches, k
<1>4. to.function = k  BY DEF k
<1>5. \A l \in Reached(m, k, s).init \cap DOMAIN to.locals : to.locals[l] # None
  BY <1>2 DEF CodeAt, k, ip
<1>6. Len(to.stack) + waiting = Reached(m, k, s).depth  BY <1>1, <1>2 DEF CodeAt, k, ip
<1> QED  BY <1>1, <1>2, <1>3, <1>4, <1>5, <1>6 DEF Matches, s

\* What the running frame finds: its operands, its locals, its instruction.
LEMMA FrameReady ==
    ASSUME NEW m \in Candidates, Accepted(m), NEW fr \in CallFrames, Matches(m, fr, 0)
    PROVE  LET i == CodeAt(m, fr)
               f == m.functions[fr.function] IN
           /\ i.op \in Ops /\ i.n \in Int /\ InRange(m, f, i)
           /\ Required(m, i) \in Nat /\ Len(fr.stack) \in Nat /\ Len(fr.stack) >= Required(m, i)
           /\ NextDepth(m, i, Len(fr.stack)) \in 0..MaxOperands
           /\ fr.ip \in Nat /\ DOMAIN fr.locals = 1..f.locals /\ f.locals \in Nat
           /\ i.op \in {"LocalGet", "LocalTake"} =>
                i.n \in DOMAIN fr.locals /\ fr.locals[i.n] # None /\ fr.locals[i.n] \in HeapValues(Ids)
           /\ i.op = "LocalSet" => i.n \in DOMAIN fr.locals
           /\ i.op = "Return" => Len(fr.stack) = 1
           /\ i.op # "Return" => Len(Successors(i, fr.ip)) >= 1
<1> DEFINE k == fr.function
           f == m.functions[k]
           ip == fr.ip
           at == Reached(m, k, ip)
           i == CodeAt(m, fr)
<1>1. /\ k \in DOMAIN m.functions /\ ip \in DOMAIN f.code /\ at # Unseen
      /\ Len(fr.stack) = at.depth /\ Len(fr.stack) \in Nat /\ Len(fr.locals) = f.locals
      /\ fr.locals \in Seq(Slots) /\ \A l \in at.init \cap DOMAIN fr.locals : fr.locals[l] # None
  <2>1. Len(fr.stack) \in Nat /\ fr.locals \in Seq(Slots)  BY DEF CallFrames
  <2> QED  BY <2>1 DEF Matches
<1>2. i = f.code[ip]  BY DEF CodeAt
<1> HIDE DEF k, ip, at, i, f
<1>3. f \in Functions /\ FunctionFits(m, f)  BY <1>1, AcceptedTyping DEF f
<1>4. at.depth \in 0..MaxOperands /\ at.init \subseteq Nat /\ ~Rejects(m, i, at.depth, at.init)
  <2> HIDE DEF i
  <2>1. Reached(m, k, ip) # Unseen /\ ip \in DOMAIN m.functions[k].code  BY <1>1 DEF at, f
  <2>2. /\ Reached(m, k, ip).depth \in 0..MaxOperands /\ Reached(m, k, ip).init \subseteq Nat
        /\ ~Rejects(m, m.functions[k].code[ip], Reached(m, k, ip).depth, Reached(m, k, ip).init)
    BY <1>1, <2>1, AcceptedTyping
  <2> QED  BY <1>2, <2>2 DEF at, f
<1>5. i.op \in Ops /\ i.n \in Int /\ InRange(m, f, i) /\ ip \in Nat /\ f.locals \in Nat
  BY <1>1, <1>2, <1>3, InstructionTyped
<1>6. Required(m, i) \in Nat  BY <1>1, <1>2, <1>3, RequiredTyped
<1>7. /\ NextDepth(m, i, at.depth) \in 0..MaxOperands /\ at.depth >= Required(m, i)
  BY <1>1, <1>2, <1>3, <1>4, NextTyped
<1>8. DOMAIN fr.locals = 1..f.locals /\ \A l \in DOMAIN fr.locals : fr.locals[l] \in Slots
  BY <1>1, SeqParts
<1>9. i.op \in {"LocalGet", "LocalTake", "LocalSet"} => i.n \in DOMAIN fr.locals
  BY <1>5, <1>8 DEF InRange
<1>10. i.op \in {"LocalGet", "LocalTake"} => fr.locals[i.n] # None /\ fr.locals[i.n] \in HeapValues(Ids)
  BY <1>1, <1>4, <1>8, <1>9 DEF Rejects, Slots
<1>11. i.op = "Return" => at.depth = 1  BY <1>4 DEF Rejects
<1>12. i.op # "Return" => Len(Successors(i, ip)) >= 1  BY DEF Successors
<1> QED  BY <1>1, <1>5, <1>6, <1>7, <1>8, <1>9, <1>10, <1>11, <1>12 DEF i, f, ip, k

\* Every frame agrees with the typing; all but the running one wait for a value.
AllMatch(m, fs) ==
    fs # <<>> /\ \A j \in DOMAIN fs : Matches(m, fs[j], IF j = Len(fs) THEN 0 ELSE 1)

LEMMA LastReplaced ==
    ASSUME NEW S, NEW s \in Seq(S), NEW n \in Nat \ {0}, n = Len(s), NEW x \in S
    PROVE  /\ [s EXCEPT ![n] = x] \in Seq(S) /\ Len([s EXCEPT ![n] = x]) = n
           /\ DOMAIN [s EXCEPT ![n] = x] = 1..n /\ [s EXCEPT ![n] = x][n] = x
           /\ \A j \in 1..n : j # n => [s EXCEPT ![n] = x][j] = s[j]
OBVIOUS

LEMMA OneChanged ==
    ASSUME NEW S, NEW s \in Seq(S), NEW k, NEW x \in S
    PROVE  /\ [s EXCEPT ![k] = x] \in Seq(S) /\ Len([s EXCEPT ![k] = x]) = Len(s)
           /\ DOMAIN [s EXCEPT ![k] = x] = DOMAIN s
<1> DEFINE n == Len(s)
           t == [s EXCEPT ![k] = x]
<1>1. n \in Nat /\ DOMAIN s = 1..n /\ s \in [1..n -> S]  BY SeqParts
<1> HIDE DEF n
<1>2. t \in [1..n -> S]  BY <1>1
<1> HIDE DEF t
<1>3. t \in Seq(S) /\ Len(t) = n /\ DOMAIN t = 1..n  BY <1>1, <1>2
<1> QED  BY <1>1, <1>3 DEF n, t

LEMMA OneAppended ==
    ASSUME NEW S, NEW s \in Seq(S), NEW n \in Nat, n = Len(s), NEW x \in S
    PROVE  /\ Append(s, x) \in Seq(S) /\ Len(Append(s, x)) = n + 1 /\ Append(s, x) # <<>>
           /\ Append(s, x)[n + 1] = x /\ \A j \in 1..n : Append(s, x)[j] = s[j]
BY AppendProperties

LEMMA TopMoves ==
    ASSUME NEW m, NEW fs \in Seq(CallFrames), AllMatch(m, fs), NEW to \in CallFrames, Matches(m, to, 0),
           NEW gs, gs = [fs EXCEPT ![Len(fs)] = to]
    PROVE  gs \in Seq(CallFrames) /\ AllMatch(m, gs)
<1>1. DOMAIN fs = 1..Len(fs) /\ Len(fs) \in Nat /\ Len(fs) # 0  BY DEF AllMatch
<1>2. gs \in Seq(CallFrames) /\ Len(gs) = Len(fs) /\ gs # <<>> /\ DOMAIN gs = DOMAIN fs  BY <1>1
<1>3. gs[Len(fs)] = to /\ \A j \in DOMAIN fs : j # Len(fs) => gs[j] = fs[j]  BY <1>1
<1> QED  BY <1>2, <1>3 DEF AllMatch

LEMMA CallPushes ==
    ASSUME NEW m, NEW fs \in Seq(CallFrames), AllMatch(m, fs), NEW to \in CallFrames, Matches(m, to, 1),
           NEW callee \in CallFrames, Matches(m, callee, 0),
           NEW gs, gs = Append([fs EXCEPT ![Len(fs)] = to], callee)
    PROVE  gs \in Seq(CallFrames) /\ AllMatch(m, gs)
<1> DEFINE n == Len(fs)
           hs == [fs EXCEPT ![n] = to]
<1>1. DOMAIN fs = 1..n /\ n \in Nat /\ n # 0  BY DEF AllMatch
<1>2. hs \in Seq(CallFrames) /\ Len(hs) = n  BY <1>1
<1>3. hs[n] = to /\ \A j \in DOMAIN fs : j # n => hs[j] = fs[j]  BY <1>1
<1>4. gs = Append(hs, callee)  OBVIOUS
<1> HIDE DEF n, hs
<1>5. gs \in Seq(CallFrames) /\ Len(gs) = n + 1 /\ gs # <<>>
  <2> QED  BY <1>1, <1>2, <1>4, OneAppended
<1>6. gs[n + 1] = callee /\ \A j \in 1..n : gs[j] = hs[j]  BY <1>1, <1>2, <1>4
<1>7. ASSUME NEW j \in DOMAIN gs PROVE Matches(m, gs[j], IF j = Len(gs) THEN 0 ELSE 1)
  <2>1. j \in 1..(n + 1)  BY <1>5
  <2>2. CASE j = n + 1  BY <1>5, <1>6, <2>2
  <2>3. CASE j # n + 1
    <3>1. j \in 1..n /\ gs[j] = hs[j] /\ j # Len(gs)  BY <1>1, <1>5, <1>6, <2>1, <2>3
    <3>2. CASE j = n  BY <1>3, <3>1, <3>2
    <3>3. CASE j # n
      <4>1. Matches(m, fs[j], 1)  BY <1>1, <3>1, <3>3 DEF AllMatch, n
      <4> QED  BY <1>1, <1>3, <3>1, <3>3, <4>1
    <3> QED  BY <3>2, <3>3
  <2> QED  BY <2>2, <2>3
<1> QED  BY <1>5, <1>7 DEF AllMatch

LEMMA ReturnPops ==
    ASSUME NEW m, NEW fs \in Seq(CallFrames), AllMatch(m, fs), Len(fs) > 1,
           NEW to \in CallFrames, Matches(m, to, 0),
           NEW gs, gs = [Front(fs) EXCEPT ![Len(fs) - 1] = to]
    PROVE  gs \in Seq(CallFrames) /\ AllMatch(m, gs)
<1> DEFINE n == Len(fs) - 1
           hs == Front(fs)
<1>1. n \in Nat /\ n # 0 /\ Len(fs) = n + 1 /\ DOMAIN fs = 1..(n + 1)
  <2> DEFINE l == Len(fs)
  <2>1. l \in Nat /\ DOMAIN fs = 1..l  BY SeqParts
  <2>2. l > 1 /\ n = l - 1  OBVIOUS
  <2> HIDE DEF l, n
  <2>3. n \in Nat /\ n # 0 /\ l = n + 1  BY <2>1, <2>2
  <2> QED  BY <2>1, <2>3 DEF l
<1>2. hs \in Seq(CallFrames) /\ Len(hs) = n /\ \A j \in 1..n : hs[j] = fs[j]
  <2>1. fs # <<>>  BY DEF AllMatch
  <2> QED  BY <2>1, FrontIs
<1>3. gs = [hs EXCEPT ![n] = to]  OBVIOUS
<1> HIDE DEF n, hs
<1>4. DOMAIN hs = 1..n  BY <1>2
<1>5. gs \in Seq(CallFrames) /\ Len(gs) = n /\ gs # <<>> /\ DOMAIN gs = 1..n
  <2>1. n \in Nat \ {0}  BY <1>1
  <2> DEFINE is == [hs EXCEPT ![n] = to]
  <2>2. n = Len(hs)  BY <1>2
  <2>3. is \in Seq(CallFrames) /\ Len(is) = n /\ DOMAIN is = 1..n  BY <1>2, <2>1, <2>2, LastReplaced
  <2>4. gs = is  BY <1>3
  <2> HIDE DEF is
  <2>5. is # <<>>
    <3>1. Len(is) # 0  BY <1>1, <2>3
    <3> QED  BY <3>1
  <2> QED  BY <2>3, <2>4, <2>5, Zenon
<1>6. gs[n] = to /\ \A j \in 1..n : j # n => gs[j] = fs[j]  BY <1>1, <1>2, <1>3, <1>4
<1>7. ASSUME NEW j \in 1..n PROVE Matches(m, gs[j], IF j = Len(gs) THEN 0 ELSE 1)
  <2>1. CASE j = n  BY <1>5, <1>6, <2>1
  <2>2. CASE j # n
    <3>1. j # Len(fs) /\ j \in DOMAIN fs  BY <1>1
    <3>2. Matches(m, fs[j], 1)  BY <3>1 DEF AllMatch
    <3> QED  BY <1>5, <1>6, <2>2, <3>2
  <2> QED  BY <2>1, <2>2
<1> QED  BY <1>5, <1>7 DEF AllMatch

Holding(to, fr, locals, stack, ip) ==
    to.function = fr.function /\ to.ip = ip /\ to.locals = locals /\ to.stack = stack

LEMMA CallFrameIs ==
    ASSUME NEW fr \in CallFrames, NEW locals \in Seq(Slots), NEW stack \in Seq(HeapValues(Ids)), NEW ip \in Nat
    PROVE  LET one == [fr EXCEPT !.stack = stack]
               two == [fr EXCEPT !.stack = stack, !.ip = ip]
               all == [fr EXCEPT !.locals = locals, !.stack = stack, !.ip = ip] IN
           /\ one \in CallFrames /\ Holding(one, fr, fr.locals, stack, fr.ip)
           /\ two \in CallFrames /\ Holding(two, fr, fr.locals, stack, ip)
           /\ all \in CallFrames /\ Holding(all, fr, locals, stack, ip)
<1> DEFINE L == Seq(Slots)
           S == Seq(HeapValues(Ids))
<1>1. CallFrames = [function : Nat, ip : Nat, locals : L, stack : S]  BY DEF CallFrames
<1>2. locals \in L /\ stack \in S  OBVIOUS
<1> HIDE DEF L, S
<1>3. fr \in [function : Nat, ip : Nat, locals : L, stack : S]  BY <1>1
<1> QED  BY <1>1, <1>2, <1>3 DEF Holding

LEMMA TopIs ==
    ASSUME NEW D, NEW fs, NEW n, DOMAIN fs = D, n \in D, NEW fr, fr = fs[n], NEW stack, NEW ip
    PROVE  /\ [fs EXCEPT ![n].stack = stack, ![n].ip = ip] = [fs EXCEPT ![n] = [fr EXCEPT !.stack = stack, !.ip = ip]]
           /\ [fs EXCEPT ![n].stack = stack] = [fs EXCEPT ![n] = [fr EXCEPT !.stack = stack]]
BY Zenon

LEMMA SubSeqIs ==
    ASSUME NEW S, NEW s \in Seq(S), NEW n \in Nat, n <= Len(s)
    PROVE  /\ SubSeq(s, 1, n) \in Seq(S) /\ Len(SubSeq(s, 1, n)) = n
           /\ \A k \in 1..n : SubSeq(s, 1, n)[k] = s[k]
<1>1. Len(s) \in Nat /\ \A k \in 1..Len(s) : s[k] \in S  OBVIOUS
<1>2. \A k \in 1..n : s[k] \in S /\ 1 + k - 1 = k  BY <1>1
<1>3. SubSeq(s, 1, n) = [k \in 1..n |-> s[1 + k - 1]]  OBVIOUS
<1>4. SubSeq(s, 1, n) = [k \in 1..n |-> s[k]]  BY <1>2, <1>3
<1>5. [k \in 1..n |-> s[k]] \in Seq(S) /\ Len([k \in 1..n |-> s[k]]) = n  BY <1>2
<1> QED  BY <1>4, <1>5

ReplacedIn(fs, n, v) ==
    [fs EXCEPT ![Len(fs)].stack = Append(SubSeq(@, 1, Len(@) - n), v), ![Len(fs)].ip = @ + 1]

\* The frames gs are the frames fs but for what the last of them holds.
Tops(gs, fs, locals, stack) ==
    \E to : gs = [fs EXCEPT ![Len(fs)] = to] /\ to.locals = locals /\ to.stack = stack

Plain == Ops \ {"LocalSet", "LocalTake", "Jump", "JumpIfZero", "Call", "Return"}

LEMMA PlainSteps ==
    ASSUME NEW m, NEW i, i.op \in Plain, NEW depth \in Nat, Required(m, i) \in Nat, NEW ip, NEW init
    PROVE  /\ NextDepth(m, i, depth) = depth - Required(m, i) + 1
           /\ Successors(i, ip) = <<ip + 1>> /\ Initializes(i, init) = init
<1>1. Successors(i, ip) = <<ip + 1>> /\ Initializes(i, init) = init
  BY DEF Plain, Ops, Successors, Initializes
<1> SUFFICES NextDepth(m, i, depth) = depth - Required(m, i) + 1  BY <1>1
<1>2. CASE i.op = "Import"
  BY <1>2 DEF NextDepth, Pushing, Binary
<1>3. CASE i.op # "Import"
  <2>1. CASE i.op \in Pushing
    <3>1. Required(m, i) = 0  BY <2>1 DEF Required, Pushing, Binary
    <3>2. NextDepth(m, i, depth) = depth + 1  BY <2>1 DEF NextDepth, Pushing, Binary
    <3> QED  BY <3>1, <3>2
  <2>2. CASE i.op \in Binary
    <3>1. Required(m, i) = 2  BY <2>2 DEF Required, Pushing, Binary
    <3>2. NextDepth(m, i, depth) = depth - 1  BY <2>2 DEF NextDepth, Pushing, Binary
    <3> QED  BY <3>1, <3>2
  <2>3. CASE i.op = "MapInsert"
    <3>1. Required(m, i) = 3  BY <2>3 DEF Required, Pushing, Binary
    <3>2. NextDepth(m, i, depth) = depth - 2  BY <2>3 DEF NextDepth, Pushing, Binary
    <3> QED  BY <3>1, <3>2
  <2>4. CASE i.op = "ListLen"
    <3>1. Required(m, i) = 1  BY <2>4 DEF Required, Pushing, Binary
    <3>2. NextDepth(m, i, depth) = depth  BY <2>4 DEF NextDepth, Pushing, Binary
    <3> QED  BY <3>1, <3>2
  <2> QED  BY <1>3, <2>1, <2>2, <2>3, <2>4 DEF Plain, Ops
<1> QED  BY <1>1, <1>2, <1>3

LEMMA TopFrame ==
    ASSUME NEW m, NEW fs \in Seq(CallFrames), AllMatch(m, fs)
    PROVE  /\ Last(fs) = fs[Len(fs)] /\ Last(fs) \in CallFrames /\ Matches(m, Last(fs), 0)
           /\ Len(fs) \in Nat \ {0} /\ DOMAIN fs = 1..Len(fs) /\ Len(fs) \in DOMAIN fs
           /\ Last(fs).stack \in Seq(HeapValues(Ids)) /\ Last(fs).locals \in Seq(Slots) /\ Last(fs).ip \in Nat
           /\ Len(Last(fs).stack) \in Nat
<1>1. Len(fs) \in Nat \ {0} /\ DOMAIN fs = 1..Len(fs) /\ Len(fs) \in DOMAIN fs  BY DEF AllMatch
<1>2. Last(fs) = fs[Len(fs)]  BY DEF Last
<1>3. Last(fs) \in CallFrames /\ Matches(m, Last(fs), 0)  BY <1>1, <1>2, SeqParts DEF AllMatch
<1>4. /\ Last(fs).stack \in Seq(HeapValues(Ids)) /\ Last(fs).locals \in Seq(Slots) /\ Last(fs).ip \in Nat
  BY <1>3 DEF CallFrames
<1>5. Len(Last(fs).stack) \in Nat  BY <1>4
<1> QED  BY <1>1, <1>2, <1>3, <1>4, <1>5

\* An instruction whose result replaces its operands.
LEMMA ReplacedMatches ==
    ASSUME NEW m \in Candidates, Accepted(m), NEW fs \in Seq(CallFrames), AllMatch(m, fs),
           CodeAt(m, Last(fs)).op \in Plain, NEW n, n = Required(m, CodeAt(m, Last(fs))), NEW v \in HeapValues(Ids)
    PROVE  /\ ReplacedIn(fs, n, v) \in Seq(CallFrames) /\ AllMatch(m, ReplacedIn(fs, n, v))
           /\ Tops(ReplacedIn(fs, n, v), fs, Last(fs).locals,
                   Append(SubSeq(Last(fs).stack, 1, Len(Last(fs).stack) - n), v))
<1> DEFINE fr == Last(fs)
           i == CodeAt(m, fr)
           l == Len(fs)
           base == SubSeq(fr.stack, 1, Len(fr.stack) - n)
           stack == Append(base, v)
           to == [fr EXCEPT !.stack = stack, !.ip = fr.ip + 1]
           at == Reached(m, fr.function, fr.ip)
<1>1. /\ fr = fs[l] /\ fr \in CallFrames /\ Matches(m, fr, 0) /\ l \in Nat \ {0} /\ l \in DOMAIN fs
      /\ fr.stack \in Seq(HeapValues(Ids)) /\ fr.locals \in Seq(Slots) /\ fr.ip \in Nat
      /\ Len(fr.stack) \in Nat
  BY TopFrame
<1> HIDE DEF fr, l
<1>2. n \in Nat /\ Len(fr.stack) >= n  BY <1>1, FrameReady DEF fr
<1> HIDE DEF i
<1>3. /\ NextDepth(m, i, Len(fr.stack)) = Len(fr.stack) - n + 1
      /\ Successors(i, fr.ip) = <<fr.ip + 1>> /\ \A init : Initializes(i, init) = init
  BY <1>1, <1>2, PlainSteps DEF i, fr
<1>4. Len(fr.stack) - n \in Nat /\ Len(fr.stack) - n <= Len(fr.stack)  BY <1>1, <1>2
<1>5. base \in Seq(HeapValues(Ids)) /\ Len(base) = Len(fr.stack) - n  BY <1>1, <1>4, SubSeqIs
<1> HIDE DEF base
<1>6. stack \in Seq(HeapValues(Ids)) /\ Len(stack) = Len(fr.stack) - n + 1  BY <1>4, <1>5, OneAppended
<1>7. ReplacedIn(fs, n, v) = [fs EXCEPT ![l] = [fr EXCEPT !.stack = stack, !.ip = fr.ip + 1]]
  <2>1. ReplacedIn(fs, n, v) = [fs EXCEPT ![l].stack = stack, ![l].ip = fr.ip + 1]
    BY <1>1 DEF ReplacedIn, l, base
  <2> QED  BY <1>1, <2>1, TopIs
<1> HIDE DEF stack
<1>8. fr.ip + 1 \in Nat  BY <1>1
<1>9. to \in CallFrames /\ Holding(to, fr, fr.locals, stack, fr.ip + 1)
  BY <1>1, <1>6, <1>8, CallFrameIs
<1> HIDE DEF to
<1>10. to.function = fr.function /\ to.ip = fr.ip + 1 /\ to.locals = fr.locals /\ to.stack = stack
  BY <1>9 DEF Holding
<1>11. Matches(m, to, 0)
  <2>1. 1 \in 1..Len(Successors(i, fr.ip)) /\ to.ip = Successors(i, fr.ip)[1]  BY <1>3, <1>10
  <2>2. \A k \in Initializes(i, at.init) \cap DOMAIN to.locals : to.locals[k] # None
    BY <1>1, <1>3, <1>10 DEF Matches
  <2>3. Len(to.stack) + 0 = NextDepth(m, i, Len(fr.stack))  BY <1>3, <1>4, <1>6, <1>10
  <2> QED  BY <1>1, <1>9, <1>10, <2>1, <2>2, <2>3, FrameMoves DEF i
<1>12. Tops(ReplacedIn(fs, n, v), fs, fr.locals, stack)  BY <1>7, <1>10 DEF Tops, l, to
<1>13. ReplacedIn(fs, n, v) \in Seq(CallFrames) /\ AllMatch(m, ReplacedIn(fs, n, v))
  BY <1>7, <1>9, <1>11, TopMoves DEF l, to
<1> QED  BY <1>12, <1>13 DEF stack, base, fr

LEMMA TakeSteps ==
    ASSUME NEW m, NEW i, NEW depth \in Nat, NEW ip, NEW init, i.op = "LocalTake"
    PROVE  /\ NextDepth(m, i, depth) = depth + 1 /\ Successors(i, ip) = <<ip + 1>>
           /\ Initializes(i, init) = init \ {i.n}
BY DEF NextDepth, Successors, Initializes, Pushing, Binary

LEMMA SetSteps ==
    ASSUME NEW m, NEW i, NEW depth \in Nat, NEW ip, NEW init, i.op = "LocalSet"
    PROVE  /\ NextDepth(m, i, depth) = depth - 1 /\ Successors(i, ip) = <<ip + 1>>
           /\ Initializes(i, init) = init \cup {i.n} /\ Required(m, i) = 1
BY DEF NextDepth, Successors, Initializes, Required, Pushing, Binary

LEMMA JumpSteps ==
    ASSUME NEW m, NEW i, NEW depth \in Nat, NEW ip, NEW init, i.op = "Jump"
    PROVE  /\ NextDepth(m, i, depth) = depth /\ Successors(i, ip) = <<i.n>>
           /\ Initializes(i, init) = init /\ Required(m, i) = 0
BY DEF NextDepth, Successors, Initializes, Required, Pushing, Binary

LEMMA BranchSteps ==
    ASSUME NEW m, NEW i, NEW depth \in Nat, NEW ip, NEW init, i.op = "JumpIfZero"
    PROVE  /\ NextDepth(m, i, depth) = depth - 1 /\ Successors(i, ip) = <<i.n, ip + 1>>
           /\ Initializes(i, init) = init /\ Required(m, i) = 1
BY DEF NextDepth, Successors, Initializes, Required, Pushing, Binary

LEMMA Splits ==
    ASSUME NEW d \in Nat, NEW a \in Nat, d >= a
    PROVE  d - a \in Nat /\ d - a <= d /\ d - a + a = d
OBVIOUS

LEMMA CallSteps ==
    ASSUME NEW m, NEW i, NEW depth \in Nat, NEW ip, NEW init, i.op = "Call"
    PROVE  /\ NextDepth(m, i, depth) = depth - Required(m, i) + 1 /\ Successors(i, ip) = <<ip + 1>>
           /\ Initializes(i, init) = init /\ Required(m, i) = m.functions[i.n].arity
BY DEF NextDepth, Successors, Initializes, Required, Pushing, Binary

\* A frame that took a step of its function.
LEMMA HeldMatches ==
    ASSUME NEW m \in Candidates, Accepted(m), NEW fr \in CallFrames, Matches(m, fr, 0),
           NEW locals \in Seq(Slots), Len(locals) = Len(fr.locals),
           NEW stack \in Seq(HeapValues(Ids)), NEW waiting \in Nat,
           Len(stack) + waiting = NextDepth(m, CodeAt(m, fr), Len(fr.stack)),
           NEW j \in 1..Len(Successors(CodeAt(m, fr), fr.ip)), NEW ip, ip = Successors(CodeAt(m, fr), fr.ip)[j],
           \A l \in Initializes(CodeAt(m, fr), Reached(m, fr.function, fr.ip).init) \cap DOMAIN locals :
              locals[l] # None,
           NEW to \in CallFrames, Holding(to, fr, locals, stack, ip)
    PROVE  Matches(m, to, waiting)
<1>1. to.function = fr.function /\ to.ip = ip /\ to.locals = locals /\ to.stack = stack  BY DEF Holding
<1> QED  BY <1>1, FrameMoves

LEMMA TakenMatches ==
    ASSUME NEW m \in Candidates, Accepted(m), NEW fs \in Seq(CallFrames), AllMatch(m, fs),
           CodeAt(m, Last(fs)).op = "LocalTake", NEW x, x = CodeAt(m, Last(fs)).n,
           NEW gs, gs = [ReplacedIn(fs, 0, Last(fs).locals[x]) EXCEPT ![Len(fs)].locals[x] = None]
    PROVE  /\ gs \in Seq(CallFrames) /\ AllMatch(m, gs)
           /\ Tops(gs, fs, [Last(fs).locals EXCEPT ![x] = None],
                   Append(SubSeq(Last(fs).stack, 1, Len(Last(fs).stack) - 0), Last(fs).locals[x]))
<1> DEFINE fr == Last(fs)
           i == CodeAt(m, fr)
           l == Len(fs)
           v == fr.locals[x]
           stack == Append(SubSeq(fr.stack, 1, Len(fr.stack) - 0), v)
           locals == [fr.locals EXCEPT ![x] = None]
           to == [fr EXCEPT !.locals = locals, !.stack = stack, !.ip = fr.ip + 1]
           two == [fr EXCEPT !.stack = stack, !.ip = fr.ip + 1]
           at == Reached(m, fr.function, fr.ip)
<1>1. /\ fr = fs[l] /\ fr \in CallFrames /\ Matches(m, fr, 0) /\ l \in Nat \ {0} /\ l \in DOMAIN fs
      /\ fr.stack \in Seq(HeapValues(Ids)) /\ fr.locals \in Seq(Slots) /\ fr.ip \in Nat
      /\ Len(fr.stack) \in Nat
  BY TopFrame
<1> HIDE DEF fr, l
<1>2. x \in DOMAIN fr.locals /\ v \in HeapValues(Ids)  BY <1>1, FrameReady DEF fr
<1> HIDE DEF i, v
<1>3. /\ NextDepth(m, i, Len(fr.stack)) = Len(fr.stack) + 1
      /\ Successors(i, fr.ip) = <<fr.ip + 1>> /\ Initializes(i, at.init) = at.init \ {x}
  <2>1. i.op = "LocalTake" /\ x = i.n  BY DEF i, fr
  <2> DEFINE depth == Len(fr.stack)
             ip == fr.ip
             init == at.init
  <2>2. depth \in Nat  BY <1>1
  <2> HIDE DEF depth, ip, init
  <2>3. /\ NextDepth(m, i, depth) = depth + 1 /\ Successors(i, ip) = <<ip + 1>>
        /\ Initializes(i, init) = init \ {x}
    BY <2>1, <2>2, TakeSteps
  <2> QED  BY <2>3 DEF depth, ip, init
<1>4. stack \in Seq(HeapValues(Ids)) /\ Len(stack) = Len(fr.stack) + 1
  <2> DEFINE base == SubSeq(fr.stack, 1, Len(fr.stack) - 0)
  <2>1. Len(fr.stack) - 0 \in Nat /\ Len(fr.stack) - 0 <= Len(fr.stack) /\ Len(fr.stack) - 0 = Len(fr.stack)
    BY <1>1
  <2>2. base \in Seq(HeapValues(Ids)) /\ Len(base) = Len(fr.stack)  BY <1>1, <2>1, SubSeqIs
  <2> HIDE DEF base
  <2> QED  BY <1>1, <1>2, <2>2, OneAppended
<1>5. locals \in Seq(Slots) /\ Len(locals) = Len(fr.locals) /\ DOMAIN locals = DOMAIN fr.locals
  <2> DEFINE s == fr.locals
             none == None
  <2>1. none \in Slots /\ s \in Seq(Slots)  BY <1>1 DEF Slots
  <2> HIDE DEF s, none
  <2> DEFINE t == [s EXCEPT ![x] = none]
  <2>2. \A k : /\ [s EXCEPT ![k] = none] \in Seq(Slots) /\ Len([s EXCEPT ![k] = none]) = Len(s)
               /\ DOMAIN [s EXCEPT ![k] = none] = DOMAIN s
    BY <2>1, OneChanged
  <2> QED  BY <2>2 DEF s, none
<1>6. \A k \in DOMAIN fr.locals : k # x => locals[k] = fr.locals[k]  OBVIOUS
<1>7. ReplacedIn(fs, 0, v) = [fs EXCEPT ![l] = two]
  <2>1. ReplacedIn(fs, 0, v) = [fs EXCEPT ![l].stack = stack, ![l].ip = fr.ip + 1]
    BY <1>1 DEF ReplacedIn, l
  <2> HIDE DEF stack
  <2> QED  BY <1>1, <2>1, TopIs
<1> HIDE DEF stack
<1>8. fr.ip + 1 \in Nat  BY <1>1
<1>9. two.locals = fr.locals /\ DOMAIN two = {"function", "ip", "locals", "stack"}  BY <1>1 DEF CallFrames
<1>10. gs = [fs EXCEPT ![l] = [two EXCEPT !.locals = locals]]
  <2> DEFINE hs == [fs EXCEPT ![l] = two]
  <2>1. gs = [hs EXCEPT ![l].locals[x] = None]  BY <1>7 DEF l, v, fr
  <2> HIDE DEF two, locals
  <2>2. hs[l] = two /\ DOMAIN hs = DOMAIN fs  BY <1>1
  <2> HIDE DEF hs
  <2>3. gs = [hs EXCEPT ![l] = [two EXCEPT !.locals = [fr.locals EXCEPT ![x] = None]]]  BY <1>9, <2>1, <2>2
  <2>4. gs = [hs EXCEPT ![l] = [two EXCEPT !.locals = locals]]  BY <2>3 DEF locals
  <2> QED  BY <2>4 DEF hs
<1> DEFINE taken == [two EXCEPT !.locals = locals]
<1>11. taken \in CallFrames /\ Holding(taken, fr, locals, stack, fr.ip + 1)
  <2> HIDE DEF locals
  <2>1. two \in CallFrames /\ Holding(two, fr, fr.locals, stack, fr.ip + 1)  BY <1>1, <1>4, <1>8, CallFrameIs
  <2> HIDE DEF two
  <2> DEFINE L == Seq(Slots)
             S == Seq(HeapValues(Ids))
  <2>2. two \in [function : Nat, ip : Nat, locals : L, stack : S]  BY <2>1 DEF CallFrames
  <2>3. locals \in L  BY <1>5
  <2>4. CallFrames = [function : Nat, ip : Nat, locals : L, stack : S]  BY DEF CallFrames
  <2> HIDE DEF L, S
  <2> QED  BY <2>1, <2>2, <2>3, <2>4 DEF Holding
<1> HIDE DEF two, taken, locals
<1>12. Matches(m, taken, 0)
  <2>1. 1 \in 1..Len(Successors(i, fr.ip)) /\ fr.ip + 1 = Successors(i, fr.ip)[1]  BY <1>3
  <2>2. \A k \in Initializes(i, at.init) \cap DOMAIN locals : locals[k] # None
    BY <1>1, <1>3, <1>5, <1>6 DEF Matches
  <2>3. Len(stack) + 0 = NextDepth(m, i, Len(fr.stack))  BY <1>1, <1>3, <1>4
  <2> QED  BY <1>1, <1>4, <1>5, <1>11, <2>1, <2>2, <2>3, HeldMatches DEF i
<1>13. Tops(gs, fs, locals, stack)  BY <1>10, <1>11 DEF Tops, Holding, l, taken
<1>14. gs \in Seq(CallFrames) /\ AllMatch(m, gs)  BY <1>10, <1>11, <1>12, TopMoves DEF l, taken
<1> QED  BY <1>13, <1>14 DEF locals, stack, v, fr

LEMMA SetMatches ==
    ASSUME NEW m \in Candidates, Accepted(m), NEW fs \in Seq(CallFrames), AllMatch(m, fs),
           CodeAt(m, Last(fs)).op = "LocalSet", NEW x, x = CodeAt(m, Last(fs)).n, NEW v \in HeapValues(Ids),
           NEW gs, gs = [fs EXCEPT ![Len(fs)].locals[x] = v, ![Len(fs)].stack = Front(@), ![Len(fs)].ip = @ + 1]
    PROVE  /\ gs \in Seq(CallFrames) /\ AllMatch(m, gs) /\ Last(fs).stack # <<>>
           /\ Tops(gs, fs, [Last(fs).locals EXCEPT ![x] = v], Front(Last(fs).stack))
<1> DEFINE fr == Last(fs)
           i == CodeAt(m, fr)
           l == Len(fs)
           stack == Front(fr.stack)
           locals == [fr.locals EXCEPT ![x] = v]
           to == [fr EXCEPT !.locals = locals, !.stack = stack, !.ip = fr.ip + 1]
           at == Reached(m, fr.function, fr.ip)
           depth == Len(fr.stack)
<1>1. /\ fr = fs[l] /\ fr \in CallFrames /\ Matches(m, fr, 0) /\ l \in Nat \ {0} /\ l \in DOMAIN fs
      /\ fr.stack \in Seq(HeapValues(Ids)) /\ fr.locals \in Seq(Slots) /\ fr.ip \in Nat
      /\ depth \in Nat
  BY TopFrame
<1> HIDE DEF fr, l, depth
<1>2. x \in DOMAIN fr.locals /\ depth >= Required(m, i)  BY <1>1, FrameReady DEF fr, depth
<1> HIDE DEF i
<1>3. /\ NextDepth(m, i, depth) = depth - 1 /\ Required(m, i) = 1
      /\ Successors(i, fr.ip) = <<fr.ip + 1>> /\ Initializes(i, at.init) = at.init \cup {x}
  <2>1. i.op = "LocalSet" /\ x = i.n  BY DEF i, fr
  <2> DEFINE ip == fr.ip
             init == at.init
  <2> HIDE DEF ip, init
  <2>3. /\ NextDepth(m, i, depth) = depth - 1 /\ Successors(i, ip) = <<ip + 1>>
        /\ Initializes(i, init) = init \cup {x} /\ Required(m, i) = 1
    BY <1>1, <2>1, SetSteps
  <2> QED  BY <2>3 DEF ip, init
<1>4. stack \in Seq(HeapValues(Ids)) /\ Len(stack) = depth - 1 /\ fr.stack # <<>>
  <2>1. fr.stack # <<>>
    <3>1. depth # 0  BY <1>1, <1>2, <1>3
    <3> QED  BY <3>1 DEF depth
  <2> QED  BY <1>1, <2>1, FrontIs DEF depth
<1>5. locals \in Seq(Slots) /\ Len(locals) = Len(fr.locals) /\ DOMAIN locals = DOMAIN fr.locals
  <2> DEFINE s == fr.locals
  <2>1. v \in Slots /\ s \in Seq(Slots)  BY <1>1 DEF Slots
  <2> HIDE DEF s
  <2>2. \A k : /\ [s EXCEPT ![k] = v] \in Seq(Slots) /\ Len([s EXCEPT ![k] = v]) = Len(s)
               /\ DOMAIN [s EXCEPT ![k] = v] = DOMAIN s
    BY <2>1, OneChanged
  <2> QED  BY <2>2 DEF s
<1>6. \A k \in DOMAIN fr.locals : locals[k] = IF k = x THEN v ELSE fr.locals[k]  BY <1>2
<1>7. gs = [fs EXCEPT ![l] = to]  BY <1>1, <1>2 DEF l
<1> HIDE DEF stack, locals
<1>8. fr.ip + 1 \in Nat  BY <1>1
<1>9. to \in CallFrames /\ Holding(to, fr, locals, stack, fr.ip + 1)  BY <1>1, <1>4, <1>5, <1>8, CallFrameIs
<1> HIDE DEF to
<1>10. v # None  BY ValueParts
<1>11. Matches(m, to, 0)
  <2>1. 1 \in 1..Len(Successors(i, fr.ip)) /\ fr.ip + 1 = Successors(i, fr.ip)[1]  BY <1>3
  <2>2. \A k \in Initializes(i, at.init) \cap DOMAIN locals : locals[k] # None
    BY <1>1, <1>3, <1>5, <1>6, <1>10 DEF Matches
  <2>3. Len(stack) + 0 = NextDepth(m, i, Len(fr.stack))  BY <1>1, <1>3, <1>4 DEF depth
  <2> QED  BY <1>1, <1>4, <1>5, <1>9, <2>1, <2>2, <2>3, HeldMatches DEF i
<1>12. Tops(gs, fs, locals, stack)  BY <1>7, <1>9 DEF Tops, Holding, l
<1>13. gs \in Seq(CallFrames) /\ AllMatch(m, gs)  BY <1>7, <1>9, <1>11, TopMoves DEF l
<1> QED  BY <1>4, <1>12, <1>13 DEF locals, stack, fr

JumpedIn(fs, i, taken) ==
    [fs EXCEPT ![Len(fs)].stack = IF i.op = "Jump" THEN @ ELSE Front(@),
               ![Len(fs)].ip = IF taken THEN i.n ELSE @ + 1]

LEMMA JumpMatches ==
    ASSUME NEW m \in Candidates, Accepted(m), NEW fs \in Seq(CallFrames), AllMatch(m, fs),
           NEW i, i = CodeAt(m, Last(fs)), i.op \in {"Jump", "JumpIfZero"}, NEW taken \in BOOLEAN,
           i.op = "Jump" => taken
    PROVE  /\ JumpedIn(fs, i, taken) \in Seq(CallFrames) /\ AllMatch(m, JumpedIn(fs, i, taken))
           /\ i.op # "Jump" => Last(fs).stack # <<>>
           /\ Tops(JumpedIn(fs, i, taken), fs, Last(fs).locals,
                   IF i.op = "Jump" THEN Last(fs).stack ELSE Front(Last(fs).stack))
<1> DEFINE fr == Last(fs)
           l == Len(fs)
           stack == IF i.op = "Jump" THEN fr.stack ELSE Front(fr.stack)
           ip == IF taken THEN i.n ELSE fr.ip + 1
           to == [fr EXCEPT !.stack = stack, !.ip = ip]
           at == Reached(m, fr.function, fr.ip)
           depth == Len(fr.stack)
<1>1. /\ fr = fs[l] /\ fr \in CallFrames /\ Matches(m, fr, 0) /\ l \in Nat \ {0} /\ l \in DOMAIN fs
      /\ fr.stack \in Seq(HeapValues(Ids)) /\ fr.locals \in Seq(Slots) /\ fr.ip \in Nat
      /\ depth \in Nat
  BY TopFrame
<1>0. i = CodeAt(m, fr)  OBVIOUS
<1> HIDE DEF fr, l, depth
<1>2. depth >= Required(m, i)  BY <1>0, <1>1, FrameReady DEF depth
<1>3. /\ NextDepth(m, i, depth) = IF i.op = "Jump" THEN depth ELSE depth - 1
      /\ Successors(i, fr.ip) = IF i.op = "Jump" THEN <<i.n>> ELSE <<i.n, fr.ip + 1>>
      /\ Initializes(i, at.init) = at.init /\ (Required(m, i) = IF i.op = "Jump" THEN 0 ELSE 1)
  <2> DEFINE from == fr.ip
             init == at.init
  <2> HIDE DEF from, init
  <2>1. CASE i.op = "Jump"
    <3>1. /\ NextDepth(m, i, depth) = depth /\ Successors(i, from) = <<i.n>>
          /\ Initializes(i, init) = init /\ Required(m, i) = 0
      BY <1>1, <2>1, JumpSteps
    <3> QED  BY <2>1, <3>1 DEF from, init
  <2>2. CASE i.op = "JumpIfZero"
    <3>1. /\ NextDepth(m, i, depth) = depth - 1 /\ Successors(i, from) = <<i.n, from + 1>>
          /\ Initializes(i, init) = init /\ Required(m, i) = 1
      BY <1>1, <2>2, BranchSteps
    <3> QED  BY <2>2, <3>1 DEF from, init
  <2> QED  BY <2>1, <2>2
<1>4. /\ stack \in Seq(HeapValues(Ids)) /\ Len(stack) = NextDepth(m, i, depth)
      /\ i.op # "Jump" => fr.stack # <<>>
  <2>1. CASE i.op = "Jump"  BY <1>1, <1>3, <2>1 DEF depth
  <2>2. CASE i.op # "Jump"
    <3>1. fr.stack # <<>>
      <4>1. depth # 0  BY <1>1, <1>2, <1>3, <2>2
      <4> QED  BY <4>1 DEF depth
    <3>2. stack = Front(fr.stack)  BY <2>2
    <3>3. Front(fr.stack) \in Seq(HeapValues(Ids)) /\ Len(Front(fr.stack)) = depth - 1
      BY <1>1, <3>1, FrontIs DEF depth
    <3> QED  BY <1>3, <2>2, <3>1, <3>2, <3>3
  <2> QED  BY <2>1, <2>2
<1>5. \E j \in 1..Len(Successors(i, fr.ip)) : ip = Successors(i, fr.ip)[j]
  <2>1. CASE i.op = "Jump"
    <3>1. Successors(i, fr.ip) = <<i.n>> /\ ip = i.n  BY <1>3, <2>1
    <3> QED  BY <3>1
  <2>2. CASE i.op # "Jump"
    <3>1. Successors(i, fr.ip) = <<i.n, fr.ip + 1>>  BY <1>3, <2>2
    <3>2. ip = i.n \/ ip = fr.ip + 1  OBVIOUS
    <3> HIDE DEF ip
    <3>3. ip = Successors(i, fr.ip)[1] \/ ip = Successors(i, fr.ip)[2]  BY <3>1, <3>2
    <3>4. Len(Successors(i, fr.ip)) = 2  BY <3>1
    <3> QED  BY <3>3, <3>4
  <2> QED  BY <2>1, <2>2
<1>6. JumpedIn(fs, i, taken) = [fs EXCEPT ![l] = to]
  <2>1. JumpedIn(fs, i, taken) = [fs EXCEPT ![l].stack = stack, ![l].ip = ip]  BY <1>1 DEF JumpedIn, l
  <2> HIDE DEF stack, ip
  <2> QED  BY <1>1, <2>1, TopIs
<1> HIDE DEF stack, ip
<1>7. ip \in Nat
  <2>1. fr.ip + 1 \in Nat  BY <1>1
  <2>2. InRange(m, m.functions[fr.function], i)  BY <1>0, <1>1, FrameReady
  <2>3. fr.function \in DOMAIN m.functions  BY <1>1 DEF Matches
  <2>4. m.functions[fr.function].code \in Seq(Instructions)
    <3>1. m.functions[fr.function] \in Functions  BY <2>3, PartsTyped
    <3> QED  BY <3>1 DEF Functions
  <2>5. i.n \in DOMAIN m.functions[fr.function].code  BY <2>2 DEF InRange
  <2>6. i.n \in Nat  BY <2>4, <2>5, SeqParts
  <2> QED  BY <2>1, <2>6 DEF ip
<1>8. to \in CallFrames /\ Holding(to, fr, fr.locals, stack, ip)  BY <1>1, <1>4, <1>7, CallFrameIs
<1> HIDE DEF to
<1>9. Matches(m, to, 0)
  <2>1. PICK j \in 1..Len(Successors(i, fr.ip)) : ip = Successors(i, fr.ip)[j]  BY <1>5
  <2>2. \A k \in Initializes(i, at.init) \cap DOMAIN fr.locals : fr.locals[k] # None
    BY <1>1, <1>3 DEF Matches
  <2>3. Len(stack) + 0 = NextDepth(m, i, Len(fr.stack))
    <3>1. Len(stack) \in Nat  BY <1>4, SeqParts
    <3> QED  BY <1>4, <3>1 DEF depth
  <2> QED  BY <1>0, <1>1, <1>4, <1>8, <2>1, <2>2, <2>3, HeldMatches
<1>10. Tops(JumpedIn(fs, i, taken), fs, fr.locals, stack)  BY <1>6, <1>8 DEF Tops, Holding, l
<1>11. JumpedIn(fs, i, taken) \in Seq(CallFrames) /\ AllMatch(m, JumpedIn(fs, i, taken))
  BY <1>6, <1>8, <1>9, TopMoves DEF l
<1> QED  BY <1>4, <1>10, <1>11 DEF stack, fr

\* A function that is entered with its parameters.
LEMMA EnteredMatches ==
    ASSUME NEW m \in Candidates, Accepted(m), NEW k \in DOMAIN m.functions,
           NEW locals \in Seq(Slots), Len(locals) = m.functions[k].locals,
           \A l \in 1..m.functions[k].arity : l \in DOMAIN locals => locals[l] # None
    PROVE  FrameOf(k, locals) \in CallFrames /\ Matches(m, FrameOf(k, locals), 0)
<1> DEFINE fr == FrameOf(k, locals)
<1>1. fr.function = k /\ fr.ip = 1 /\ fr.locals = locals /\ fr.stack = <<>>  BY DEF FrameOf
<1>2. k \in Nat
  <2>1. m.functions \in Seq(Functions)  BY DEF Candidates
  <2> QED  BY <2>1, SeqParts
<1>3. <<>> \in Seq(HeapValues(Ids)) /\ 1 \in Nat  OBVIOUS
<1>4. fr \in CallFrames  BY <1>2, <1>3 DEF FrameOf, CallFrames
<1> HIDE DEF fr
<1>5. /\ 1 \in DOMAIN m.functions[k].code /\ Reached(m, k, 1) # Unseen
      /\ Reached(m, k, 1).depth = 0 /\ Reached(m, k, 1).init \subseteq 1..m.functions[k].arity
  BY AcceptedTyping
<1>6. Len(fr.stack) + 0 = 0  BY <1>1
<1>7. Matches(m, fr, 0)  BY <1>1, <1>5, <1>6 DEF Matches
<1> QED  BY <1>4, <1>7 DEF fr

CalleeLocals(stack, base, arity, size) ==
    [l \in 1..size |-> IF l <= arity THEN stack[base + l] ELSE None]

Arguments(locals, arity, size) ==
    /\ locals \in Seq(Slots) /\ Len(locals) = size
    /\ \A k \in 1..arity : k \in DOMAIN locals => locals[k] # None

LEMMA CalleeLocalsTyped ==
    ASSUME NEW stack \in Seq(HeapValues(Ids)), NEW base \in Nat, NEW arity \in Nat, NEW size \in Nat,
           base + arity = Len(stack)
    PROVE  Arguments(CalleeLocals(stack, base, arity, size), arity, size)
<1> DEFINE locals == CalleeLocals(stack, base, arity, size)
<1>1. \A k \in 1..size : k <= arity => stack[base + k] \in HeapValues(Ids)
  <2> SUFFICES ASSUME NEW k \in 1..size, k <= arity PROVE stack[base + k] \in HeapValues(Ids)  OBVIOUS
  <2> DEFINE q == base + k
  <2>1. q \in 1..Len(stack)  OBVIOUS
  <2> HIDE DEF q
  <2>2. stack[q] \in HeapValues(Ids)  BY <2>1, SeqParts
  <2> QED  BY <2>2 DEF q
<1>2. None \in Slots /\ \A v \in HeapValues(Ids) : v \in Slots /\ v # None  BY ValueParts DEF Slots
<1>3. DOMAIN locals = 1..size /\ \A k \in 1..size : locals[k] = IF k <= arity THEN stack[base + k] ELSE None
  BY DEF CalleeLocals
<1>4. \A k \in 1..size : locals[k] \in Slots  BY <1>1, <1>2, <1>3
<1>5. locals = [k \in 1..size |-> locals[k]]  BY <1>3 DEF CalleeLocals
<1>6. \A k \in 1..size : k <= arity => locals[k] # None  BY <1>1, <1>2, <1>3
<1> HIDE DEF locals
<1>7. locals \in [1..size -> Slots]  BY <1>4, <1>5
<1>8. locals \in Seq(Slots) /\ Len(locals) = size  BY <1>7
<1>9. \A k \in 1..arity : k \in DOMAIN locals => locals[k] # None
  <2>1. \A k \in 1..arity : k <= arity  OBVIOUS
  <2> QED  BY <1>3, <1>6, <2>1
<1>10. Arguments(locals, arity, size)  BY <1>3, <1>8, <1>9 DEF Arguments
<1> QED  BY <1>10 DEF locals

CalledIn(fs, k, base, locals) ==
    Append([fs EXCEPT ![Len(fs)].stack = SubSeq(@, 1, base), ![Len(fs)].ip = @ + 1], FrameOf(k, locals))

\* The frames gs are fs with the top of the last stack moved to a frame of the k-th function.
Enters(gs, fs, base, k, locals) ==
    \E hs \in Seq(CallFrames) :
        /\ Tops(hs, fs, Last(fs).locals, SubSeq(Last(fs).stack, 1, base))
        /\ gs = Append(hs, FrameOf(k, locals))

\* The frames gs are fs without the last, which left a value to the one below.
Leaves(gs, fs, v) ==
    LET below == fs[Len(fs) - 1] IN
    \E to : /\ gs = [Front(fs) EXCEPT ![Len(fs) - 1] = to]
            /\ to.locals = below.locals /\ to.stack = Append(below.stack, v)

LEMMA CallMatches ==
    ASSUME NEW m \in Candidates, Accepted(m), NEW fs \in Seq(CallFrames), AllMatch(m, fs),
           NEW i, i = CodeAt(m, Last(fs)), i.op = "Call",
           NEW arity, arity = m.functions[i.n].arity, NEW size, size = m.functions[i.n].locals,
           NEW depth, depth = Len(Last(fs).stack)
    PROVE  LET gs == CalledIn(fs, i.n, depth - arity,
                              CalleeLocals(Last(fs).stack, depth - arity, arity, size)) IN
           /\ gs \in Seq(CallFrames) /\ AllMatch(m, gs) /\ depth - arity \in Nat /\ depth - arity <= depth
           /\ Enters(gs, fs, depth - arity, i.n, CalleeLocals(Last(fs).stack, depth - arity, arity, size))
<1> DEFINE fr == Last(fs)
           l == Len(fs)
           base == depth - arity
           locals == CalleeLocals(fr.stack, base, arity, size)
           gs == CalledIn(fs, i.n, base, locals)
           stack == SubSeq(fr.stack, 1, base)
           to == [fr EXCEPT !.stack = stack, !.ip = fr.ip + 1]
           at == Reached(m, fr.function, fr.ip)
<1>1. /\ fr = fs[l] /\ fr \in CallFrames /\ Matches(m, fr, 0) /\ l \in Nat \ {0} /\ l \in DOMAIN fs
      /\ fr.stack \in Seq(HeapValues(Ids)) /\ fr.locals \in Seq(Slots) /\ fr.ip \in Nat
      /\ depth \in Nat /\ depth = Len(fr.stack)
  BY TopFrame
<1>0. i = CodeAt(m, fr)  OBVIOUS
<1> HIDE DEF fr, l
<1>2. depth >= Required(m, i) /\ InRange(m, m.functions[fr.function], i)  BY <1>0, <1>1, FrameReady
<1>3. i.n \in DOMAIN m.functions  BY <1>2 DEF InRange
<1>4. arity \in Nat /\ size \in Nat  BY <1>3, PartsTyped
<1>5. /\ NextDepth(m, i, depth) = depth - arity + 1 /\ Required(m, i) = arity
      /\ Successors(i, fr.ip) = <<fr.ip + 1>> /\ Initializes(i, at.init) = at.init
  <2> DEFINE from == fr.ip
             init == at.init
  <2> HIDE DEF from, init
  <2>1. i.op = "Call"  OBVIOUS
  <2>2. /\ NextDepth(m, i, depth) = depth - Required(m, i) + 1 /\ Successors(i, from) = <<from + 1>>
        /\ Initializes(i, init) = init /\ Required(m, i) = arity
    BY <1>1, <2>1, CallSteps
  <2> QED  BY <2>2 DEF from, init
<1>6. base \in Nat /\ base <= depth /\ base + arity = depth /\ NextDepth(m, i, depth) = base + 1
  <2>1. depth \in Nat /\ arity \in Nat /\ depth >= arity  BY <1>1, <1>2, <1>4, <1>5
  <2>2. base \in Nat /\ base <= depth /\ base + arity = depth  BY <2>1, Splits
  <2> QED  BY <1>5, <2>2
<1> HIDE DEF base
<1>7. stack \in Seq(HeapValues(Ids)) /\ Len(stack) = base  BY <1>1, <1>6, SubSeqIs
<1>8. locals \in Seq(Slots) /\ Len(locals) = size /\ \A k \in 1..arity : k \in DOMAIN locals => locals[k] # None
  <2> DEFINE s == fr.stack
  <2>1. s \in Seq(HeapValues(Ids)) /\ base + arity = Len(s)  BY <1>1, <1>6
  <2> HIDE DEF s
  <2> DEFINE ls == CalleeLocals(s, base, arity, size)
  <2>2. Arguments(ls, arity, size)  BY <1>4, <1>6, <2>1, CalleeLocalsTyped
  <2>3. ls = locals  BY DEF s
  <2> HIDE DEF ls, locals
  <2> QED  BY <2>2, <2>3 DEF Arguments
<1> HIDE DEF locals
<1>9. gs = Append([fs EXCEPT ![l] = to], FrameOf(i.n, locals))
  <2> DEFINE hs == [fs EXCEPT ![l].stack = stack, ![l].ip = fr.ip + 1]
  <2>1. gs = Append(hs, FrameOf(i.n, locals))  BY <1>1 DEF l, CalledIn
  <2>2. hs = [fs EXCEPT ![l] = to]
    <3> HIDE DEF stack
    <3> QED  BY <1>1, TopIs
  <2> HIDE DEF hs, to
  <2> QED  BY <2>1, <2>2
<1> HIDE DEF stack
<1>10. fr.ip + 1 \in Nat
  <2> DEFINE from == fr.ip
  <2>1. from \in Nat  BY <1>1
  <2> HIDE DEF from
  <2>2. from + 1 \in Nat  BY <2>1
  <2> QED  BY <2>2 DEF from
<1>11. to \in CallFrames /\ Holding(to, fr, fr.locals, stack, fr.ip + 1)  BY <1>1, <1>7, <1>10, CallFrameIs
<1> HIDE DEF to
<1>12. Matches(m, to, 1)
  <2> DEFINE onward == fr.ip + 1
             nexts == Successors(i, fr.ip)
  <2>1. 1 \in 1..Len(nexts) /\ onward = nexts[1]
    <3>1. nexts = <<onward>>  BY <1>5
    <3> HIDE DEF onward, nexts
    <3> QED  BY <3>1
  <2>2. \A k \in Initializes(i, at.init) \cap DOMAIN fr.locals : fr.locals[k] # None
    BY <1>1, <1>5 DEF Matches
  <2>3. Len(stack) + 1 = NextDepth(m, i, Len(fr.stack))  BY <1>1, <1>6, <1>7
  <2>4. 1 \in Nat  OBVIOUS
  <2>5. Holding(to, fr, fr.locals, stack, onward) /\ to \in CallFrames  BY <1>11
  <2>6. 1 \in 1..Len(Successors(i, fr.ip)) /\ onward = Successors(i, fr.ip)[1]  BY <2>1
  <2> HIDE DEF onward, nexts, at
  <2> QED  BY <1>0, <1>1, <1>7, <2>2, <2>3, <2>4, <2>5, <2>6, HeldMatches DEF at
<1>13. FrameOf(i.n, locals) \in CallFrames /\ Matches(m, FrameOf(i.n, locals), 0)
  BY <1>3, <1>8, EnteredMatches
<1>14. gs \in Seq(CallFrames) /\ AllMatch(m, gs)
  <2> HIDE DEF gs
  <2> QED  BY <1>9, <1>11, <1>12, <1>13, CallPushes DEF l
<1> DEFINE hs == [fs EXCEPT ![l] = to]
<1>15. hs \in Seq(CallFrames)
  <2>1. l = Len(fs)  BY DEF l
  <2> HIDE DEF hs
  <2>2. hs = [fs EXCEPT ![l] = to]  BY DEF hs
  <2> QED  BY <1>1, <1>11, <2>1, <2>2, LastReplaced
<1>16. Tops(hs, fs, fr.locals, stack)  BY <1>11 DEF Tops, Holding, l
<1>17. gs = Append(hs, FrameOf(i.n, locals))
  <2> HIDE DEF gs, hs
  <2> QED  BY <1>9 DEF hs
<1> HIDE DEF hs, gs
<1>18. Enters(gs, fs, base, i.n, locals)
  <2>1. fr = Last(fs) /\ stack = SubSeq(fr.stack, 1, base)  BY DEF fr, stack
  <2> QED  BY <1>15, <1>16, <1>17, <2>1 DEF Enters
<1> QED  BY <1>6, <1>14, <1>18 DEF base, locals, fr, stack, gs

LEMMA ReturnMatches ==
    ASSUME NEW m \in Candidates, Accepted(m), NEW fs \in Seq(CallFrames), AllMatch(m, fs), Len(fs) > 1,
           NEW v \in HeapValues(Ids),
           NEW gs, gs = [Front(fs) EXCEPT ![Len(fs) - 1].stack = Append(@, v)]
    PROVE  /\ gs \in Seq(CallFrames) /\ AllMatch(m, gs)
           /\ Leaves(gs, fs, v)
<1> DEFINE n == Len(fs) - 1
           l == Len(fs)
           fr == fs[n]
           hs == Front(fs)
           stack == Append(fr.stack, v)
           to == [fr EXCEPT !.stack = stack]
<1>1. n \in Nat \ {0} /\ l = n + 1 /\ DOMAIN fs = 1..(n + 1) /\ n \in DOMAIN fs /\ n # l
  <2>1. l \in Nat /\ DOMAIN fs = 1..l  BY SeqParts
  <2>2. l > 1 /\ n = l - 1  OBVIOUS
  <2> HIDE DEF l, n
  <2>3. n \in Nat \ {0} /\ l = n + 1 /\ n \in 1..l /\ n # l  BY <2>1, <2>2
  <2> QED  BY <2>1, <2>3
<1>2. hs \in Seq(CallFrames) /\ Len(hs) = n /\ \A j \in 1..n : hs[j] = fs[j]
  <2>1. fs # <<>>  BY DEF AllMatch
  <2> QED  BY <2>1, FrontIs
<1>3. gs = [hs EXCEPT ![n].stack = Append(@, v)]  OBVIOUS
<1> HIDE DEF n, hs, l
<1>4. fr \in CallFrames /\ Matches(m, fr, 1)
  <2>1. fr \in CallFrames  BY <1>1, SeqParts
  <2>2. Matches(m, fr, 1)  BY <1>1 DEF AllMatch, l
  <2> QED  BY <2>1, <2>2
<1>5. n \in DOMAIN hs /\ hs[n] = fr
  <2>1. DOMAIN hs = 1..n  BY <1>2, SeqParts
  <2> QED  BY <1>1, <1>2, <2>1
<1> HIDE DEF fr
<1>6. gs = [hs EXCEPT ![n] = to]
  <2>1. gs = [hs EXCEPT ![n].stack = stack]  BY <1>3, <1>5
  <2> HIDE DEF stack
  <2> QED  BY <1>5, <2>1, TopIs
<1>7. fr.stack \in Seq(HeapValues(Ids)) /\ Len(fr.stack) \in Nat /\ fr.locals \in Seq(Slots) /\ fr.ip \in Nat
  <2>1. fr.stack \in Seq(HeapValues(Ids)) /\ fr.locals \in Seq(Slots) /\ fr.ip \in Nat
    BY <1>4 DEF CallFrames
  <2> QED  BY <2>1, SeqParts
<1>8. stack \in Seq(HeapValues(Ids)) /\ Len(stack) = Len(fr.stack) + 1  BY <1>7, OneAppended
<1> HIDE DEF stack
<1>9. to \in CallFrames /\ Holding(to, fr, fr.locals, stack, fr.ip)  BY <1>4, <1>7, <1>8, CallFrameIs
<1> HIDE DEF to
<1>10. Matches(m, to, 0)
  <2>1. to.function = fr.function /\ to.ip = fr.ip /\ to.locals = fr.locals /\ to.stack = stack
    BY <1>9 DEF Holding
  <2>2. Len(stack) + 0 = Len(fr.stack) + 1  BY <1>7, <1>8
  <2> QED  BY <1>4, <2>1, <2>2 DEF Matches
<1>11. gs \in Seq(CallFrames) /\ AllMatch(m, gs)  BY <1>6, <1>9, <1>10, ReturnPops DEF n, hs
<1>12. \E one : gs = [hs EXCEPT ![n] = one] /\ one.locals = fr.locals /\ one.stack = stack
  BY <1>6, <1>9 DEF Holding
<1>13. Leaves(gs, fs, v)  BY <1>12 DEF Leaves, n, hs, fr, stack
<1> QED  BY <1>11, <1>13

----------------------------------------------------------------------------
(* What an instruction makes. *)

LEMMA OperandTyped ==
    ASSUME NEW S, NEW stack \in Seq(S), NEW k \in Nat, 1 <= k, k <= Len(stack)
    PROVE  stack[Len(stack) + 1 - k] \in S
<1> DEFINE q == Len(stack) + 1 - k
<1>1. Len(stack) \in Nat  BY SeqParts
<1>2. q \in 1..Len(stack)  BY <1>1
<1> HIDE DEF q
<1>3. stack[q] \in S  BY <1>2, SeqParts
<1> QED  BY <1>3 DEF q

LEMMA ListedIs ==
    ASSUME NEW S, NEW n \in Nat, NEW f \in [1..n -> S]
    PROVE  f \in Seq(S) /\ Len(f) = n
OBVIOUS

KindIn(h, v) == IF IsHeap(v) THEN h[v.of].kind ELSE v.kind

LEMMA KindTells ==
    ASSUME NEW h \in Heaps, NEW v \in HeapValues(Ids)
    PROVE  /\ KindIn(h, v) = "integer" => v.of \in Int
           /\ KindIn(h, v) \in {"text", "list", "map"} =>
                IsHeap(v) /\ v.of \in Ids /\ h[v.of] \in HeapObjects(Ids)
<1>1. CASE IsHeap(v)
  <2>1. v.of \in Ids  BY <1>1, ValueParts
  <2>2. h[v.of] \in HeapObjects(Ids) \/ h[v.of] = Free  BY <2>1 DEF Heaps
  <2>3. Free.kind = "free"  BY DEF Free
  <2>4. h[v.of] \in HeapObjects(Ids) => h[v.of].kind \in {"text", "list", "map"}  BY ObjectParts
  <2> QED  BY <1>1, <2>1, <2>2, <2>3, <2>4 DEF KindIn
<1>2. CASE ~IsHeap(v)
  <2>1. v.kind \in {"integer", "bool"}  BY <1>2, ValueParts DEF IsHeap
  <2>2. v.of \in Int  BY <2>1, ValueParts
  <2> QED  BY <1>2, <2>1, <2>2 DEF KindIn
<1> QED  BY <1>1, <1>2

LEMMA BoolTyped ==
    ASSUME NEW b
    PROVE  Bool(b) \in HeapValues(Ids)
BY DEF Bool, HeapValues

LEMMA ItemsReplaced ==
    ASSUME NEW K, NEW T, NEW I, NEW F, NEW C, NEW D, NEW i \in I,
           NEW x \in [kind : K, text : T, items : I, entries : F, charge : C, depth : D]
    PROVE  [x EXCEPT !.items = i] \in [kind : K, text : T, items : I, entries : F, charge : C, depth : D]
OBVIOUS

LEMMA EntriesReplaced ==
    ASSUME NEW K, NEW T, NEW I, NEW F, NEW C, NEW D, NEW e \in F,
           NEW x \in [kind : K, text : T, items : I, entries : F, charge : C, depth : D]
    PROVE  [x EXCEPT !.entries = e] \in [kind : K, text : T, items : I, entries : F, charge : C, depth : D]
OBVIOUS

LEMMA PushedTyped ==
    ASSUME NEW o \in HeapObjects(Ids), NEW v \in HeapValues(Ids)
    PROVE  [o EXCEPT !.items = Append(@, v)] \in HeapObjects(Ids)
<1> DEFINE items == Append(o.items, v)
           V == Seq(HeapValues(Ids))
           E == Seq(MapEntries(Ids))
<1>1. items \in V
  <2>1. o.items \in Seq(HeapValues(Ids))  BY ObjectParts
  <2> QED  BY <2>1, AppendProperties
<1>2. HeapObjects(Ids) = [kind : {"text", "list", "map"}, text : Names \cup {""}, items : V, entries : E,
                          charge : Nat, depth : Nat]
  BY DEF HeapObjects, MapEntries
<1>3. [o EXCEPT !.items = Append(@, v)] = [o EXCEPT !.items = items]  OBVIOUS
<1> HIDE DEF items, V, E
<1>4. o \in [kind : {"text", "list", "map"}, text : Names \cup {""}, items : V, entries : E, charge : Nat, depth : Nat]
  BY <1>2
<1>5. [o EXCEPT !.items = items]
        \in [kind : {"text", "list", "map"}, text : Names \cup {""}, items : V, entries : E, charge : Nat, depth : Nat]
  BY <1>1, <1>4, ItemsReplaced, Zenon
<1> QED  BY <1>2, <1>3, <1>5

LEMMA InsertedTyped ==
    ASSUME NEW o \in HeapObjects(Ids), NEW name \in Names \cup {""}, NEW v \in HeapValues(Ids)
    PROVE  Inserted(o, name, v) \in HeapObjects(Ids)
<1> DEFINE new == [key |-> name, value |-> v]
           more == Append(o.entries, new)
           changed == [e \in DOMAIN o.entries |-> IF e \in Entry(o, name) THEN new ELSE o.entries[e]]
           V == Seq(HeapValues(Ids))
           E == Seq(MapEntries(Ids))
<1>1. new \in MapEntries(Ids)  BY DEF MapEntries
<1>2. o.entries \in Seq(MapEntries(Ids))  BY ObjectParts
<1>3. more \in E
  <2> HIDE DEF new
  <2> QED  BY <1>1, <1>2, AppendProperties
<1>4. changed \in E
  <2> DEFINE n == Len(o.entries)
             S == MapEntries(Ids)
  <2>1. DOMAIN o.entries = 1..n /\ n \in Nat /\ \A e \in DOMAIN o.entries : o.entries[e] \in S  BY <1>2, SeqParts
  <2>2. new \in S  BY <1>1
  <2> HIDE DEF n, S, new
  <2>3. changed \in [1..n -> S]  BY <2>1, <2>2
  <2> HIDE DEF changed
  <2>4. changed \in Seq(S)  BY <2>1, <2>3, ListedIs
  <2> QED  BY <2>4 DEF S
<1>5. HeapObjects(Ids) = [kind : {"text", "list", "map"}, text : Names \cup {""}, items : V, entries : E,
                          charge : Nat, depth : Nat]
  BY DEF HeapObjects, MapEntries
<1>6. Inserted(o, name, v) = IF Entry(o, name) = {} THEN [o EXCEPT !.entries = more]
                             ELSE [o EXCEPT !.entries = changed]
  BY DEF Inserted
<1> HIDE DEF more, changed, V, E
<1>7. o \in [kind : {"text", "list", "map"}, text : Names \cup {""}, items : V, entries : E, charge : Nat, depth : Nat]
  BY <1>5
<1>8. [o EXCEPT !.entries = more]
        \in [kind : {"text", "list", "map"}, text : Names \cup {""}, items : V, entries : E, charge : Nat, depth : Nat]
  BY <1>3, <1>7, EntriesReplaced, Zenon
<1>9. [o EXCEPT !.entries = changed]
        \in [kind : {"text", "list", "map"}, text : Names \cup {""}, items : V, entries : E, charge : Nat, depth : Nat]
  BY <1>4, <1>7, EntriesReplaced, Zenon
<1> QED  BY <1>5, <1>6, <1>8, <1>9

LEMMA PairMax ==
    ASSUME NEW a \in Nat, NEW b \in Nat
    PROVE  Max({a, b}) \in Nat
<1>1. a + b \in Nat /\ \A x \in {a, b} : x <= a + b  OBVIOUS
<1>2. {a, b} \subseteq Nat /\ {a, b} # {}  OBVIOUS
<1> QED  BY <1>1, <1>2, MaxOf

LEMMA PushedDepthTyped ==
    ASSUME NEW h \in Heaps, NEW list \in HeapValues(Ids), NEW v \in HeapValues(Ids)
    PROVE  PushedDepth(h, list, v) \in Nat
<1>1. DepthIn(h, list) \in Nat /\ DepthIn(h, v) \in Nat  BY DepthInTyped
<1>2. DepthIn(h, v) + 1 \in Nat  BY <1>1
<1> QED  BY <1>1, <1>2, PairMax DEF PushedDepth

LEMMA InsertedDepthTyped ==
    ASSUME NEW h \in Heaps, NEW o \in HeapObjects(Ids), NEW name, NEW v \in HeapValues(Ids)
    PROVE  InsertedDepth(h, o, name, v) \in Nat
<1> DEFINE new == DepthIn(h, v) + 1
           others == {DepthIn(h, o.entries[e].value) + 1 : e \in DOMAIN o.entries \ Entry(o, name)}
           all == others \cup {0, new}
<1>1. new \in Nat
  <2>1. DepthIn(h, v) \in Nat  BY DepthInTyped
  <2> QED  BY <2>1
<1>2. o.items \in Seq(HeapValues(Ids)) /\ o.entries \in Seq(MapEntries(Ids)) /\ o.depth \in Nat  BY ObjectParts
<1>3. others \subseteq DepthsOf(h, o)  BY DEF DepthsOf, Parts
<1> HIDE DEF new
<1>4. PICK b \in Nat : \A d \in DepthsOf(h, o) : d <= b  BY <1>2, DepthsBounded
<1>5. DepthsOf(h, o) \subseteq Nat  BY <1>2, DepthsBounded
<1> HIDE DEF others
<1>6. all \subseteq Nat /\ all # {}  BY <1>1, <1>3, <1>5
<1>7. b + new \in Nat /\ \A d \in all : d <= b + new
  <2>1. b + new \in Nat /\ 0 <= b + new /\ new <= b + new  BY <1>1, <1>4
  <2>2. ASSUME NEW d \in others PROVE d <= b + new
    <3>1. d <= b /\ d \in Nat  BY <1>3, <1>4, <1>5
    <3> QED  BY <1>1, <3>1
  <2> QED  BY <2>1, <2>2
<1> HIDE DEF all
<1>8. Max(all) \in Nat  BY <1>6, <1>7, MaxOf
<1>9. Max({o.depth, new}) \in Nat  BY <1>1, <1>2, PairMax
<1> QED  BY <1>8, <1>9 DEF InsertedDepth, all, others, new

\* A collection changed in its place.
LEMMA ChangedTyped ==
    ASSUME NEW h \in Heaps, NEW id, NEW o \in HeapObjects(Ids), NEW c \in Nat, NEW d \in Nat
    PROVE  [h EXCEPT ![id] = [o EXCEPT !.charge = c, !.depth = d]] \in Heaps
<1> DEFINE p == [o EXCEPT !.charge = c, !.depth = d]
<1>1. p \in HeapObjects(Ids)  BY RecordedTyped
<1> HIDE DEF p
<1>2. [h EXCEPT ![id] = p] \in Heaps  BY <1>1 DEF Heaps
<1> QED  BY <1>2 DEF p

LEMMA EmptyTyped == List(<<>>) \in HeapObjects(Ids) /\ Map(<<>>) \in HeapObjects(Ids)
<1> DEFINE V == Seq(HeapValues(Ids))
           E == Seq(MapEntries(Ids))
<1>1. <<>> \in V /\ <<>> \in E  OBVIOUS
<1>2. HeapObjects(Ids) = [kind : {"text", "list", "map"}, text : Names \cup {""}, items : V, entries : E,
                          charge : Nat, depth : Nat]
  BY DEF HeapObjects, MapEntries
<1> HIDE DEF V, E
<1> QED  BY <1>1, <1>2 DEF List, Map, Free

LEMMA CollectedTyped ==
    ASSUME NEW h \in Heaps, NEW values
    PROVE  Collected(h, values) \in Heaps
BY DEF Collected, Heaps

----------------------------------------------------------------------------
(* The machine. *)

MachineTyped ==
    /\ module \in Modules /\ frames \in Seq(CallFrames) /\ heap \in Heaps
    /\ inputs \in Seq(HeapValues(Ids))

Live == phase \in {"running", "pending"} => Accepted(module) /\ AllMatch(module, frames)

Waits == phase = "pending" => Instruction.op = "Import"

MachineInv == MachineTyped /\ Live /\ Waits

LEMMA ModulesTyped ==
    ASSUME NEW m \in Modules
    PROVE  m \in Candidates /\ \A c \in DOMAIN m.constants : m.constants[c] \in OwnedValues /\ PartsFirst(m.constants[c])
<1>1. m \in Candidates /\ \A c \in DOMAIN m.constants : PartsFirst(m.constants[c])  BY MachineAssumption
<1> QED  BY <1>1, PartsTyped

\* What a machine that runs or waits can rely on.
LEMMA MachineReady ==
    ASSUME MachineInv, phase \in {"running", "pending"}
    PROVE  /\ module \in Candidates /\ Accepted(module) /\ AllMatch(module, frames)
           /\ frames \in Seq(CallFrames) /\ heap \in Heaps /\ inputs \in Seq(HeapValues(Ids))
           /\ Frame = Last(frames) /\ Instruction = CodeAt(module, Last(frames))
           /\ Frame \in CallFrames /\ Matches(module, Frame, 0)
           /\ Stack \in Seq(HeapValues(Ids)) /\ Len(Stack) \in Nat /\ Len(frames) \in Nat \ {0}
<1>1. module \in Candidates  BY ModulesTyped DEF MachineInv, MachineTyped
<1>2. Accepted(module) /\ AllMatch(module, frames)  BY DEF MachineInv, Live
<1>3. frames \in Seq(CallFrames) /\ heap \in Heaps /\ inputs \in Seq(HeapValues(Ids))
  BY DEF MachineInv, MachineTyped
<1>4. Frame = Last(frames) /\ Instruction = CodeAt(module, Last(frames))
  BY DEF Frame, Instruction, CodeAt
<1>5. /\ Last(frames) \in CallFrames /\ Matches(module, Last(frames), 0)
      /\ Last(frames).stack \in Seq(HeapValues(Ids)) /\ Len(Last(frames).stack) \in Nat
      /\ Len(frames) \in Nat \ {0}
  BY <1>2, <1>3, TopFrame
<1> QED  BY <1>1, <1>2, <1>3, <1>4, <1>5 DEF Stack

\* Its instruction finds the operands it takes.
LEMMA InstructionReady ==
    ASSUME MachineInv, phase \in {"running", "pending"}
    PROVE  /\ Instruction.op \in Ops /\ Instruction.n \in Int
           /\ InRange(module, module.functions[Frame.function], Instruction)
           /\ Required(module, Instruction) \in Nat /\ Len(Stack) >= Required(module, Instruction)
           /\ NextDepth(module, Instruction, Len(Stack)) \in 0..MaxOperands
           /\ Instruction.op \in {"LocalGet", "LocalTake"} =>
                Frame.locals[Instruction.n] # None /\ Frame.locals[Instruction.n] \in HeapValues(Ids)
           /\ Instruction.op = "Return" => Len(Stack) = 1
           /\ \A k \in Nat : 1 <= k /\ k <= Required(module, Instruction) => Operand(k) \in HeapValues(Ids)
<1>1. /\ module \in Candidates /\ Accepted(module) /\ Frame \in CallFrames /\ Matches(module, Frame, 0)
      /\ Instruction = CodeAt(module, Frame) /\ Stack \in Seq(HeapValues(Ids)) /\ Len(Stack) \in Nat
  BY MachineReady
<1> DEFINE fr == Frame
           i == CodeAt(module, fr)
<1>2. fr \in CallFrames /\ Matches(module, fr, 0) /\ Instruction = i /\ Stack = fr.stack  BY <1>1 DEF Stack
<1> HIDE DEF fr
<1>3. /\ i.op \in Ops /\ i.n \in Int /\ InRange(module, module.functions[fr.function], i)
      /\ Required(module, i) \in Nat /\ Len(fr.stack) >= Required(module, i)
      /\ NextDepth(module, i, Len(fr.stack)) \in 0..MaxOperands
      /\ i.op \in {"LocalGet", "LocalTake"} =>
           fr.locals[i.n] # None /\ fr.locals[i.n] \in HeapValues(Ids)
      /\ i.op = "Return" => Len(fr.stack) = 1
  BY <1>1, <1>2, FrameReady
<1> HIDE DEF i
<1>4. ASSUME NEW k \in Nat, 1 <= k, k <= Required(module, Instruction)
      PROVE  Operand(k) \in HeapValues(Ids)
  <2>1. k <= Len(Stack)  BY <1>1, <1>2, <1>3, <1>4
  <2>2. Stack[Len(Stack) + 1 - k] \in HeapValues(Ids)  BY <1>1, <1>4, <2>1, OperandTyped
  <2> QED  BY <2>2 DEF Operand
<1> QED  BY <1>2, <1>3, <1>4 DEF fr

LEMMA StepKeeps ==
    ASSUME module \in Modules, inputs \in Seq(HeapValues(Ids)), Accepted(module), UNCHANGED <<module, inputs>>,
           phase' \in {"running", "done"}, frames' \in Seq(CallFrames), heap' \in Heaps,
           AllMatch(module, frames')
    PROVE  MachineInv'
<1>1. phase' # "pending"  OBVIOUS
<1>2. module' = module /\ inputs' = inputs  OBVIOUS
<1>3. MachineTyped'  BY <1>2 DEF MachineTyped
<1>4. Live'  BY <1>2 DEF Live
<1>5. Waits'  BY <1>1 DEF Waits
<1> QED  BY <1>3, <1>4, <1>5 DEF MachineInv

LEMMA SameKeeps ==
    ASSUME MachineInv, UNCHANGED <<module, frames, heap, inputs>>,
           phase' \in {"refused", "fault", "done"} \/ phase' = phase
    PROVE  MachineInv'
<1>1. MachineTyped'  BY DEF MachineInv, MachineTyped
<1>2. Live'  BY DEF MachineInv, Live
<1>3. Waits'  BY DEF MachineInv, Waits, Instruction, Frame
<1> QED  BY <1>1, <1>2, <1>3 DEF MachineInv

\* The invariant is what keeps validated code from failing.
LEMMA InvGivesValidated ==
    ASSUME MachineInv
    PROVE  ValidatedNeverMalformed
<1> SUFFICES ASSUME phase = "running" PROVE ~Malformed(Instruction)  BY DEF ValidatedNeverMalformed
<1>1. /\ Instruction.op \in Ops /\ Required(module, Instruction) \in Nat /\ Len(Stack) \in Nat
      /\ Len(Stack) >= Required(module, Instruction)
      /\ NextDepth(module, Instruction, Len(Stack)) \in 0..MaxOperands
      /\ Instruction.op \in {"LocalGet", "LocalTake"} => Frame.locals[Instruction.n] # None
  BY InstructionReady, MachineReady
<1>2. ~(Len(Stack) < Required(module, Instruction))  BY <1>1
<1>3. Instruction.op \in Pushing => ~(Len(Stack) >= MaxOperands)
  <2> SUFFICES ASSUME Instruction.op \in Pushing PROVE ~(Len(Stack) >= MaxOperands)  OBVIOUS
  <2>1. NextDepth(module, Instruction, Len(Stack)) = Len(Stack) + 1  BY DEF NextDepth, Pushing, Binary
  <2> QED  BY <1>1, <2>1, CheckAssumption
<1>4. Len(frames) > 1 => ~(Len(frames[Len(frames) - 1].stack) >= MaxOperands)
  <2> SUFFICES ASSUME Len(frames) > 1 PROVE ~(Len(frames[Len(frames) - 1].stack) >= MaxOperands)  OBVIOUS
  <2> DEFINE n == Len(frames) - 1
             fr == frames[n]
  <2>1. module \in Candidates /\ Accepted(module) /\ AllMatch(module, frames) /\ frames \in Seq(CallFrames)
    BY MachineReady
  <2>2. n \in DOMAIN frames /\ n # Len(frames)
    <3> DEFINE l == Len(frames)
    <3>1. l \in Nat /\ DOMAIN frames = 1..l  BY <2>1, SeqParts
    <3>2. l > 1 /\ n = l - 1  OBVIOUS
    <3> HIDE DEF l, n
    <3>3. n \in 1..l /\ n # l  BY <3>1, <3>2
    <3> QED  BY <3>1, <3>3 DEF l
  <2> HIDE DEF n
  <2>3. fr \in CallFrames /\ Matches(module, fr, 1)  BY <2>1, <2>2, SeqParts DEF AllMatch
  <2> HIDE DEF fr
  <2>4. Len(fr.stack) \in Nat  BY <2>3 DEF CallFrames
  <2> DEFINE k == fr.function
             ip == fr.ip
  <2>5. /\ k \in DOMAIN module.functions /\ ip \in DOMAIN module.functions[k].code
        /\ Reached(module, k, ip) # Unseen /\ Len(fr.stack) + 1 = Reached(module, k, ip).depth
    BY <2>3 DEF Matches
  <2> HIDE DEF k, ip
  <2>6. Reached(module, k, ip).depth \in 0..MaxOperands  BY <2>1, <2>5, AcceptedTyping
  <2>7. ~(Len(fr.stack) >= MaxOperands)  BY <2>4, <2>5, <2>6, CheckAssumption
  <2> QED  BY <2>7 DEF fr, n
<1> QED  BY <1>1, <1>2, <1>3, <1>4 DEF Malformed

LEMMA BecomesKeeps ==
    ASSUME MachineInv, phase \in {"running", "pending"}, UNCHANGED <<module, inputs>>,
           phase' \in {"running", "done"}, NEW h \in Heaps, NEW live, heap' = Collected(h, live),
           NEW gs \in Seq(CallFrames), AllMatch(module, gs), frames' = gs
    PROVE  MachineInv'
<1>1. module \in Modules /\ inputs \in Seq(HeapValues(Ids)) /\ Accepted(module)
  BY MachineReady DEF MachineInv, MachineTyped
<1>2. heap' \in Heaps  BY CollectedTyped
<1>3. frames' \in Seq(CallFrames) /\ AllMatch(module, frames')  OBVIOUS
<1> QED  BY <1>1, <1>2, <1>3, StepKeeps

\* An instruction that replaces its operands by a value.
LEMMA PlainKeeps ==
    ASSUME MachineInv, phase \in {"running", "pending"}, UNCHANGED <<module, inputs>>,
           phase' \in {"running", "done"}, Instruction.op \in Plain,
           NEW v \in HeapValues(Ids), NEW h \in Heaps, NEW live, heap' = Collected(h, live),
           frames' = Replaced(Required(module, Instruction), v)
    PROVE  MachineInv'
<1> DEFINE n == Required(module, Instruction)
           gs == ReplacedIn(frames, n, v)
<1>1. /\ module \in Candidates /\ Accepted(module) /\ AllMatch(module, frames) /\ frames \in Seq(CallFrames)
      /\ Instruction = CodeAt(module, Last(frames))
  BY MachineReady
<1>2. gs \in Seq(CallFrames) /\ AllMatch(module, gs)
  <2> DEFINE fs == frames
             m == module
  <2>1. /\ m \in Candidates /\ Accepted(m) /\ AllMatch(m, fs) /\ fs \in Seq(CallFrames)
        /\ CodeAt(m, Last(fs)).op \in Plain /\ n = Required(m, CodeAt(m, Last(fs)))
    BY <1>1
  <2> HIDE DEF n, fs, m
  <2>2. ReplacedIn(fs, n, v) \in Seq(CallFrames) /\ AllMatch(m, ReplacedIn(fs, n, v))
    BY <2>1, ReplacedMatches
  <2> QED  BY <2>2 DEF fs, m
<1>3. frames' = gs  BY DEF ReplacedIn, Replaced
<1> HIDE DEF gs
<1> QED  BY <1>2, <1>3, BecomesKeeps

LEMMA RunsWhat ==
    ASSUME NEW ops, Runs(ops)
    PROVE  /\ phase = "running" /\ Instruction.op \in ops /\ ~Fails(Instruction) /\ ~Mistyped(Instruction)
           /\ UNCHANGED <<module, inputs>>
BY DEF Runs, Fails

LEMMA PureKeeps ==
    ASSUME MachineInv, NEW ops, ops \subseteq Plain, Runs(ops), NEW v \in HeapValues(Ids), Pure(v)
    PROVE  MachineInv'
<1>1. phase = "running" /\ Instruction.op \in Plain /\ UNCHANGED <<module, inputs>>  BY RunsWhat
<1>2. phase' = phase  BY DEF Pure, Counts
<1>3. heap \in Heaps  BY <1>1, MachineReady
<1>4. frames' = Replaced(Required(module, Instruction), v)  BY DEF Pure, Becomes
<1>5. \E live : heap' = Collected(heap, live)  BY DEF Pure, Becomes
<1> QED  BY <1>1, <1>2, <1>3, <1>4, <1>5, PlainKeeps

LEMMA PushStep == MachineInv /\ Push => MachineInv'
<1> SUFFICES ASSUME MachineInv, Push PROVE MachineInv'  OBVIOUS
<1> DEFINE v == CASE Instruction.op = "Const" -> Integer(Instruction.n)
                  [] Instruction.op = "Input" -> inputs[Instruction.n]
                  [] Instruction.op = "LocalGet" -> Frame.locals[Instruction.n]
           ops == {"Const", "Input", "LocalGet"}
<1>1. Runs(ops) /\ Pure(v)  BY DEF Push
<1>2. phase = "running" /\ Instruction.op \in ops /\ ~Mistyped(Instruction)  BY <1>1, RunsWhat
<1>3. v \in HeapValues(Ids)
  <2>1. inputs \in Seq(HeapValues(Ids))  BY <1>2, MachineReady
  <2>2. Instruction.n \in Int  BY <1>2, InstructionReady
  <2>3. CASE Instruction.op = "Const"
    <3>1. Integer(Instruction.n) \in HeapValues(Ids)  BY <2>2, ScalarsTyped
    <3> QED  BY <2>3, <3>1
  <2>4. CASE Instruction.op = "Input"
    <3>1. Instruction.n \in DOMAIN inputs  BY <1>2, <2>4 DEF Mistyped
    <3>2. inputs[Instruction.n] \in HeapValues(Ids)  BY <2>1, <3>1, SeqParts
    <3> QED  BY <2>4, <3>2
  <2>5. CASE Instruction.op = "LocalGet"
    <3>1. Frame.locals[Instruction.n] \in HeapValues(Ids)  BY <1>2, <2>5, InstructionReady
    <3> QED  BY <2>5, <3>1
  <2> QED  BY <1>2, <2>3, <2>4, <2>5
<1> HIDE DEF v
<1>4. ops \subseteq Plain  BY DEF Plain, Ops, Pushing
<1> QED  BY <1>1, <1>3, <1>4, PureKeeps

LEMMA ComputeStep == MachineInv /\ Compute => MachineInv'
<1> SUFFICES ASSUME MachineInv, Compute PROVE MachineInv'  OBVIOUS
<1> DEFINE sum == Arithmetic(Instruction.op, Operand(2).of, Operand(1).of)
           v == CASE Instruction.op = "Eq" -> Bool(Operand(2) = Operand(1))
                  [] Instruction.op = "Lt" -> Bool(Operand(2).of < Operand(1).of)
                  [] OTHER -> Integer(sum)
           ops == {"Add", "Sub", "Mul", "Div", "Eq", "Lt"}
<1>1. Runs(ops) /\ Pure(v)  BY DEF Compute
<1>2. phase = "running" /\ Instruction.op \in ops /\ ~Mistyped(Instruction)  BY <1>1, RunsWhat
<1>3. v \in HeapValues(Ids)
  <2>1. CASE Instruction.op = "Eq"  BY <2>1, BoolTyped
  <2>2. CASE Instruction.op = "Lt"  BY <2>2, BoolTyped
  <2>3. CASE Instruction.op \in {"Add", "Sub", "Mul", "Div"}
    <3>1. sum \in MinInt..MaxInt  BY <1>2, <2>3 DEF Mistyped
    <3> HIDE DEF sum
    <3>2. sum \in Int  BY <3>1, HeapAssumption
    <3>3. Integer(sum) \in HeapValues(Ids)  BY <3>2, ScalarsTyped
    <3> QED  BY <2>3, <3>3
  <2> QED  BY <1>2, <2>1, <2>2, <2>3
<1> HIDE DEF v
<1>4. ops \subseteq Plain  BY DEF Plain, Ops, Binary
<1> QED  BY <1>1, <1>3, <1>4, PureKeeps

LEMMA JumpStep == MachineInv /\ Jump => MachineInv'
<1> SUFFICES ASSUME MachineInv, Jump PROVE MachineInv'  OBVIOUS
<1> DEFINE i == Instruction
           taken == i.op = "Jump" \/ Operand(1).of = 0
           gs == JumpedIn(frames, i, taken)
<1>1. /\ Runs({"Jump", "JumpIfZero"}) /\ phase' = phase /\ frames' = gs /\ \E live : heap' = Collected(heap, live)
  BY DEF Jump, Becomes, Counts, JumpedIn
<1>2. phase = "running" /\ i.op \in {"Jump", "JumpIfZero"} /\ UNCHANGED <<module, inputs>>  BY <1>1, RunsWhat
<1>3. /\ module \in Candidates /\ Accepted(module) /\ AllMatch(module, frames) /\ frames \in Seq(CallFrames)
      /\ i = CodeAt(module, Last(frames)) /\ heap \in Heaps
  BY <1>2, MachineReady
<1>4. taken \in BOOLEAN /\ (i.op = "Jump" => taken)  OBVIOUS
<1> HIDE DEF i, taken
<1>5. gs \in Seq(CallFrames) /\ AllMatch(module, gs)  BY <1>2, <1>3, <1>4, JumpMatches
<1> HIDE DEF gs
<1> QED  BY <1>1, <1>2, <1>3, <1>5, BecomesKeeps

LEMMA LocalTakeStep == MachineInv /\ LocalTake => MachineInv'
<1> SUFFICES ASSUME MachineInv, LocalTake PROVE MachineInv'  OBVIOUS
<1> DEFINE x == Instruction.n
           gs == [ReplacedIn(frames, 0, Last(frames).locals[x]) EXCEPT ![Len(frames)].locals[x] = None]
<1>1. /\ Runs({"LocalTake"}) /\ phase' = phase /\ frames' = gs /\ \E live : heap' = Collected(heap, live)
  BY DEF LocalTake, Becomes, Counts, Replaced, ReplacedIn, Frame
<1>2. phase = "running" /\ Instruction.op = "LocalTake" /\ UNCHANGED <<module, inputs>>  BY <1>1, RunsWhat
<1>3. /\ module \in Candidates /\ Accepted(module) /\ AllMatch(module, frames) /\ frames \in Seq(CallFrames)
      /\ Instruction = CodeAt(module, Last(frames)) /\ heap \in Heaps
  BY <1>2, MachineReady
<1>4. CodeAt(module, Last(frames)).op = "LocalTake" /\ x = CodeAt(module, Last(frames)).n  BY <1>2, <1>3
<1> HIDE DEF x
<1>5. gs \in Seq(CallFrames) /\ AllMatch(module, gs)  BY <1>3, <1>4, TakenMatches
<1> HIDE DEF gs
<1> QED  BY <1>1, <1>2, <1>3, <1>5, BecomesKeeps

LEMMA LocalSetStep == MachineInv /\ LocalSet => MachineInv'
<1> SUFFICES ASSUME MachineInv, LocalSet PROVE MachineInv'  OBVIOUS
<1> DEFINE x == Instruction.n
           v == Operand(1)
           gs == [frames EXCEPT ![Len(frames)].locals[x] = v, ![Len(frames)].stack = Front(@),
                                ![Len(frames)].ip = @ + 1]
<1>1. /\ Runs({"LocalSet"}) /\ phase' = phase /\ frames' = gs /\ \E live : heap' = Collected(heap, live)
  BY DEF LocalSet, Becomes, Counts
<1>2. phase = "running" /\ Instruction.op = "LocalSet" /\ UNCHANGED <<module, inputs>>  BY <1>1, RunsWhat
<1>3. /\ module \in Candidates /\ Accepted(module) /\ AllMatch(module, frames) /\ frames \in Seq(CallFrames)
      /\ Instruction = CodeAt(module, Last(frames)) /\ heap \in Heaps
  BY <1>2, MachineReady
<1>4. CodeAt(module, Last(frames)).op = "LocalSet" /\ x = CodeAt(module, Last(frames)).n  BY <1>2, <1>3
<1>5. v \in HeapValues(Ids)
  <2>1. Required(module, Instruction) = 1  BY <1>2 DEF Required, Pushing, Binary
  <2> QED  BY <1>2, <2>1, InstructionReady
<1> HIDE DEF x, v
<1>6. gs \in Seq(CallFrames) /\ AllMatch(module, gs)  BY <1>3, <1>4, <1>5, SetMatches
<1> HIDE DEF gs
<1> QED  BY <1>1, <1>2, <1>3, <1>6, BecomesKeeps

LEMMA CallStep == MachineInv /\ Call => MachineInv'
<1> SUFFICES ASSUME MachineInv, Call PROVE MachineInv'  OBVIOUS
<1> DEFINE i == Instruction
           arity == module.functions[i.n].arity
           size == module.functions[i.n].locals
           depth == Len(Last(frames).stack)
           gs == CalledIn(frames, i.n, depth - arity,
                          CalleeLocals(Last(frames).stack, depth - arity, arity, size))
<1>1. /\ Runs({"Call"}) /\ phase' = phase /\ frames' = gs /\ \E live : heap' = Collected(heap, live)
  BY DEF Call, Becomes, Counts, CalledIn, CalleeLocals, Stack, Frame
<1>2. phase = "running" /\ i.op = "Call" /\ UNCHANGED <<module, inputs>>  BY <1>1, RunsWhat
<1>3. /\ module \in Candidates /\ Accepted(module) /\ AllMatch(module, frames) /\ frames \in Seq(CallFrames)
      /\ i = CodeAt(module, Last(frames)) /\ heap \in Heaps
  BY <1>2, MachineReady
<1>4. gs \in Seq(CallFrames) /\ AllMatch(module, gs)
  <2>1. arity = module.functions[i.n].arity /\ size = module.functions[i.n].locals
        /\ depth = Len(Last(frames).stack)
    OBVIOUS
  <2> HIDE DEF i, arity, size, depth
  <2> QED  BY <1>2, <1>3, <2>1, CallMatches
<1> HIDE DEF gs
<1> QED  BY <1>1, <1>2, <1>3, <1>4, BecomesKeeps

LEMMA ReturnStep == MachineInv /\ Return => MachineInv'
<1> SUFFICES ASSUME MachineInv, Return PROVE MachineInv'  OBVIOUS
<1>1. Runs({"Return"})  BY DEF Return
<1>2. phase = "running" /\ Instruction.op = "Return" /\ UNCHANGED <<module, inputs>>  BY <1>1, RunsWhat
<1>3. /\ module \in Candidates /\ Accepted(module) /\ AllMatch(module, frames) /\ frames \in Seq(CallFrames)
      /\ heap \in Heaps /\ Len(frames) \in Nat \ {0}
  BY <1>2, MachineReady
<1>4. CASE Len(frames) = 1
  <2>1. phase' = "done" /\ frames' = frames /\ \E live : heap' = Collected(heap, live)
    BY <1>4 DEF Return, Becomes
  <2> QED  BY <1>2, <1>3, <2>1, BecomesKeeps
<1>5. CASE Len(frames) # 1
  <2> DEFINE v == Operand(1)
             gs == [Front(frames) EXCEPT ![Len(frames) - 1].stack = Append(@, v)]
  <2>1. phase' = phase /\ frames' = gs /\ \E live : heap' = Collected(heap, live)
    BY <1>5 DEF Return, Becomes
  <2>2. v \in HeapValues(Ids)
    <3>1. Required(module, Instruction) = 1  BY <1>2 DEF Required, Pushing, Binary
    <3> QED  BY <1>2, <3>1, InstructionReady
  <2> HIDE DEF v
  <2>3. Len(frames) > 1
    <3> DEFINE l == Len(frames)
    <3>1. l \in Nat \ {0} /\ l # 1  BY <1>3, <1>5
    <3> HIDE DEF l
    <3>2. l > 1  BY <3>1
    <3> QED  BY <3>2 DEF l
  <2>4. gs \in Seq(CallFrames) /\ AllMatch(module, gs)  BY <1>3, <2>2, <2>3, ReturnMatches
  <2> HIDE DEF gs
  <2> QED  BY <1>2, <1>3, <2>1, <2>4, BecomesKeeps
<1> QED  BY <1>4, <1>5

LEMMA ImportStep == MachineInv /\ Import => MachineInv'
<1> SUFFICES ASSUME MachineInv, Import PROVE MachineInv'  OBVIOUS
<1>1. Runs({"Import"}) /\ phase' = "pending" /\ UNCHANGED <<frames, heap>>  BY DEF Import
<1>2. phase = "running" /\ Instruction.op = "Import" /\ UNCHANGED <<module, inputs>>  BY <1>1, RunsWhat
<1>3. MachineTyped'  BY <1>1, <1>2 DEF MachineInv, MachineTyped
<1>4. Live'  BY <1>1, <1>2 DEF MachineInv, Live
<1>5. Waits'  BY <1>1, <1>2 DEF Waits, Instruction, Frame
<1> QED  BY <1>3, <1>4, <1>5 DEF MachineInv

\* An owned value that is let in while the machine runs or waits.
LEMMA LetInTyped ==
    ASSUME NEW h \in Heaps, NEW owned \in OwnedValues, PartsFirst(owned), HasRoom(h, Len(owned.objects))
    PROVE  /\ Imported(h, owned).heap \in Heaps /\ ImportedValue(h, owned) \in HeapValues(Ids)
           /\ Sound(h) => Took(h, Imported(h, owned).heap, ImportedValue(h, owned))
<1>1. Len(owned.objects) \in Nat  BY OwnedParts
<1>2. HasRoom(h, Len(owned.objects) + 0)
  <2>1. Len(owned.objects) + 0 = Len(owned.objects)  BY <1>1
  <2> QED  BY <2>1
<1> QED  BY <1>2, ImportedTyped

LEMMA ResumeStep == MachineInv /\ Resume => MachineInv'
<1> SUFFICES ASSUME MachineInv, Resume PROVE MachineInv'  OBVIOUS
<1>1. PICK answer \in Answers :
        LET arity == module.imports[Instruction.n].arity IN
        /\ phase = "pending" /\ HasRoom(heap, Len(answer.objects))
        /\ phase' = "running" /\ UNCHANGED <<module, inputs>>
        /\ Becomes(Replaced(arity, ImportedValue(heap, answer)), Imported(heap, answer).heap,
                   heapBytes + OwnedCharge(answer), result)
  BY DEF Resume
<1>2. Instruction.op = "Import"  BY <1>1 DEF MachineInv, Waits
<1>3. Required(module, Instruction) = module.imports[Instruction.n].arity
  BY <1>2 DEF Required, Pushing, Binary
<1>4. heap \in Heaps  BY <1>1, MachineReady
<1>5. answer \in OwnedValues /\ PartsFirst(answer)  BY MachineAssumption
<1> DEFINE v == ImportedValue(heap, answer)
           h == Imported(heap, answer).heap
<1>6. v \in HeapValues(Ids) /\ h \in Heaps  BY <1>1, <1>4, <1>5, LetInTyped
<1>7. frames' = Replaced(Required(module, Instruction), v) /\ \E live : heap' = Collected(h, live)
  BY <1>1, <1>3 DEF Becomes
<1>8. Instruction.op \in Plain  BY <1>2 DEF Plain, Ops
<1> HIDE DEF v, h
<1> QED  BY <1>1, <1>6, <1>7, <1>8, PlainKeeps

LEMMA PushConstantStep == MachineInv /\ PushConstant => MachineInv'
<1> SUFFICES ASSUME MachineInv, PushConstant PROVE MachineInv'  OBVIOUS
<1> DEFINE owned == module.constants[Instruction.n]
           v == ImportedValue(heap, owned)
           h == Imported(heap, owned).heap
<1>1. /\ Runs({"ConstValue"}) /\ HasRoom(heap, Len(owned.objects)) /\ phase' = phase
      /\ frames' = Replaced(0, v) /\ \E live : heap' = Collected(h, live)
  BY DEF PushConstant, Becomes, Counts
<1>2. phase = "running" /\ Instruction.op = "ConstValue" /\ UNCHANGED <<module, inputs>>  BY <1>1, RunsWhat
<1>3. Required(module, Instruction) = 0  BY <1>2 DEF Required, Pushing, Binary
<1>4. heap \in Heaps  BY <1>2, MachineReady
<1>5. owned \in OwnedValues /\ PartsFirst(owned)
  <2>1. Instruction.n \in DOMAIN module.constants  BY <1>2, InstructionReady DEF InRange
  <2>2. module \in Modules  BY DEF MachineInv, MachineTyped
  <2> QED  BY <2>1, <2>2, ModulesTyped
<1> HIDE DEF owned
<1>6. v \in HeapValues(Ids) /\ h \in Heaps  BY <1>1, <1>4, <1>5, LetInTyped
<1>7. Instruction.op \in Plain  BY <1>2 DEF Plain, Ops, Pushing
<1> HIDE DEF v, h
<1> QED  BY <1>1, <1>2, <1>3, <1>6, <1>7, PlainKeeps

LEMMA NewCollectionStep == MachineInv /\ NewCollection => MachineInv'
<1> SUFFICES ASSUME MachineInv, NewCollection PROVE MachineInv'  OBVIOUS
<1> DEFINE o == IF Instruction.op = "ListNew" THEN List(<<>>) ELSE Map(<<>>)
           v == Reference(NewId(heap))
           h == Allocated(heap, o, ObjectCharge, 0)
<1>1. /\ Runs({"ListNew", "MapNew"}) /\ HasRoom(heap, 1) /\ phase' = phase
      /\ frames' = Replaced(0, v) /\ \E live : heap' = Collected(h, live)
  BY DEF NewCollection, Becomes, Counts
<1>2. phase = "running" /\ Instruction.op \in {"ListNew", "MapNew"} /\ UNCHANGED <<module, inputs>>
  BY <1>1, RunsWhat
<1>3. Required(module, Instruction) = 0  BY <1>2 DEF Required, Pushing, Binary
<1>4. heap \in Heaps  BY <1>2, MachineReady
<1>5. o \in HeapObjects(Ids) /\ ObjectCharge \in Nat /\ 0 \in Nat  BY EmptyTyped, HeapAssumption
<1> HIDE DEF o
<1>6. HasRoom(heap, 0 + 1)  BY <1>1
<1>7. NewId(heap) \in Ids  BY <1>4, <1>5, <1>6, RoomGivesId
<1>8. v \in HeapValues(Ids) /\ h \in Heaps  BY <1>4, <1>5, <1>7, ScalarsTyped, AllocatedTyped
<1>9. Instruction.op \in Plain  BY <1>2 DEF Plain, Ops, Pushing
<1> HIDE DEF v, h
<1> QED  BY <1>1, <1>2, <1>3, <1>8, <1>9, PlainKeeps

\* A collection that is changed in place or copied.
LEMMA ChangesKeeps ==
    ASSUME MachineInv, phase = "running", UNCHANGED <<module, inputs, phase>>, Instruction.op \in Plain,
           NEW v \in HeapValues(Ids), NEW o \in HeapObjects(Ids), NEW c \in Nat, NEW d \in Nat, Changes(v, o, c, d)
    PROVE  MachineInv'
<1>1. heap \in Heaps  BY MachineReady
<1>2. CASE IsUnique(v)
  <2> DEFINE h == [heap EXCEPT ![v.of] = [o EXCEPT !.charge = c, !.depth = d]]
  <2>1. frames' = Replaced(Required(module, Instruction), v) /\ \E live : heap' = Collected(h, live)
    BY <1>2 DEF Changes, Becomes
  <2>2. h \in Heaps  BY <1>1, ChangedTyped
  <2> HIDE DEF h
  <2> QED  BY <2>1, <2>2, PlainKeeps
<1>3. CASE ~IsUnique(v)
  <2> DEFINE h == Allocated(heap, o, c, d)
             r == Reference(NewId(heap))
  <2>1. /\ frames' = Replaced(Required(module, Instruction), r) /\ \E live : heap' = Collected(h, live)
        /\ HasRoom(heap, 1)
    BY <1>3 DEF Changes, Becomes
  <2>2. HasRoom(heap, 0 + 1)  BY <2>1
  <2>3. NewId(heap) \in Ids  BY <1>1, <2>2, RoomGivesId
  <2>4. r \in HeapValues(Ids) /\ h \in Heaps  BY <1>1, <2>3, ScalarsTyped, AllocatedTyped
  <2> HIDE DEF h, r
  <2> QED  BY <2>1, <2>4, PlainKeeps
<1> QED  BY <1>2, <1>3

LEMMA ObjectReady ==
    ASSUME MachineInv, phase = "running", NEW k \in Nat, 1 <= k, k <= Required(module, Instruction),
           KindOf(Operand(k)) \in {"text", "list", "map"}
    PROVE  Operand(k) \in HeapValues(Ids) /\ ObjectAt(k) \in HeapObjects(Ids)
<1>1. Operand(k) \in HeapValues(Ids) /\ heap \in Heaps  BY InstructionReady, MachineReady
<1>2. KindIn(heap, Operand(k)) \in {"text", "list", "map"}  BY DEF KindOf, KindIn
<1> QED  BY <1>1, <1>2, KindTells DEF ObjectAt

LEMMA ListPushStep == MachineInv /\ ListPush => MachineInv'
<1> SUFFICES ASSUME MachineInv, ListPush PROVE MachineInv'  OBVIOUS
<1> DEFINE o == [ObjectAt(2) EXCEPT !.items = Append(@, Operand(1))]
           c == ValueCharge + IF IsUnique(Operand(2)) THEN ObjectAt(2).charge ELSE ChargeOf(ObjectAt(2))
           d == Deepens(Instruction)
<1>1. Runs({"ListPush"}) /\ Changes(Operand(2), o, c, d) /\ phase' = phase  BY DEF ListPush, Counts
<1>2. /\ phase = "running" /\ Instruction.op = "ListPush" /\ ~Mistyped(Instruction)
      /\ UNCHANGED <<module, inputs>>
  BY <1>1, RunsWhat
<1>3. Required(module, Instruction) = 2  BY <1>2 DEF Required, Pushing, Binary
<1>4. KindOf(Operand(2)) = "list"  BY <1>2 DEF Mistyped
<1>5. Operand(2) \in HeapValues(Ids) /\ ObjectAt(2) \in HeapObjects(Ids)  BY <1>2, <1>3, <1>4, ObjectReady
<1>6. Operand(1) \in HeapValues(Ids) /\ heap \in Heaps  BY <1>2, <1>3, InstructionReady, MachineReady
<1>7. o \in HeapObjects(Ids)  BY <1>5, <1>6, PushedTyped
<1>8. c \in Nat
  <2>1. ValueCharge \in Nat /\ ObjectAt(2).charge \in Nat  BY <1>5, HeapAssumption, ObjectParts
  <2>2. ChargeOf(ObjectAt(2)) \in Nat  BY <1>5, ChargeOfTyped
  <2> DEFINE a == ObjectAt(2).charge
             b == ChargeOf(ObjectAt(2))
             u == IsUnique(Operand(2))
  <2>3. a \in Nat /\ b \in Nat  BY <2>1, <2>2
  <2>4. c = ValueCharge + IF u THEN a ELSE b  OBVIOUS
  <2> HIDE DEF a, b, u, c
  <2> QED  BY <2>1, <2>3, <2>4
<1>9. d \in Nat
  <2>1. Deepens(Instruction) = PushedDepth(heap, Operand(2), Operand(1))  BY <1>2 DEF Deepens
  <2> QED  BY <1>5, <1>6, <2>1, PushedDepthTyped
<1>10. Instruction.op \in Plain  BY <1>2 DEF Plain, Ops, Binary
<1>11. UNCHANGED <<module, inputs, phase>>  BY <1>1, <1>2
<1> HIDE DEF o, c, d
<1> QED  BY <1>1, <1>2, <1>5, <1>7, <1>8, <1>9, <1>10, <1>11, ChangesKeeps

LEMMA MapInsertStep == MachineInv /\ MapInsert => MachineInv'
<1> SUFFICES ASSUME MachineInv, MapInsert PROVE MachineInv'  OBVIOUS
<1> DEFINE name == ObjectAt(2).text
           o == Inserted(ObjectAt(3), name, Operand(1))
           c == ObjectAt(3).charge + InsertCharge(ObjectAt(3), name)
           d == Deepens(Instruction)
<1>1. Runs({"MapInsert"}) /\ Changes(Operand(3), o, c, d) /\ phase' = phase  BY DEF MapInsert, Counts
<1>2. /\ phase = "running" /\ Instruction.op = "MapInsert" /\ ~Mistyped(Instruction)
      /\ UNCHANGED <<module, inputs>>
  BY <1>1, RunsWhat
<1>3. Required(module, Instruction) = 3  BY <1>2 DEF Required, Pushing, Binary
<1>4. KindOf(Operand(2)) = "text" /\ KindOf(Operand(3)) = "map"  BY <1>2 DEF Mistyped
<1>5. Operand(3) \in HeapValues(Ids) /\ ObjectAt(3) \in HeapObjects(Ids)  BY <1>2, <1>3, <1>4, ObjectReady
<1>6. ObjectAt(2) \in HeapObjects(Ids)  BY <1>2, <1>3, <1>4, ObjectReady
<1>7. Operand(1) \in HeapValues(Ids) /\ heap \in Heaps  BY <1>2, <1>3, InstructionReady, MachineReady
<1>8. name \in Names \cup {""}  BY <1>6, ObjectParts
<1>9. d \in Nat
  <2>1. Deepens(Instruction) = InsertedDepth(heap, ObjectAt(3), name, Operand(1))  BY <1>2 DEF Deepens
  <2> HIDE DEF name
  <2> QED  BY <1>5, <1>7, <2>1, InsertedDepthTyped
<1> HIDE DEF name
<1>10. o \in HeapObjects(Ids)  BY <1>5, <1>7, <1>8, InsertedTyped
<1>11. c \in Nat
  <2>1. ObjectAt(3).charge \in Nat  BY <1>5, ObjectParts
  <2>2. InsertCharge(ObjectAt(3), name) \in Nat  BY HeapAssumption DEF InsertCharge
  <2> QED  BY <2>1, <2>2
<1>12. Instruction.op \in Plain  BY <1>2 DEF Plain, Ops
<1>13. UNCHANGED <<module, inputs, phase>>  BY <1>1, <1>2
<1> HIDE DEF o, c, d
<1> QED  BY <1>1, <1>2, <1>5, <1>9, <1>10, <1>11, <1>12, <1>13, ChangesKeeps

LEMMA LookupStep == MachineInv /\ Lookup => MachineInv'
<1> SUFFICES ASSUME MachineInv, Lookup PROVE MachineInv'  OBVIOUS
<1> DEFINE item == ObjectAt(2).items[Operand(1).of + 1]
           size == Len(ObjectAt(1).items)
           found == CHOOSE e \in Entry(ObjectAt(2), ObjectAt(1).text) : TRUE
           v == CASE Instruction.op = "ListGet" -> item
                  [] Instruction.op = "ListLen" -> Integer(size)
                  [] Instruction.op = "MapGet" -> ObjectAt(2).entries[found].value
           ops == {"ListGet", "ListLen", "MapGet"}
<1>1. Runs(ops) /\ Pure(v)  BY DEF Lookup
<1>2. phase = "running" /\ Instruction.op \in ops /\ ~Mistyped(Instruction)  BY <1>1, RunsWhat
<1>3. v \in HeapValues(Ids)
  <2>1. CASE Instruction.op = "ListGet"
    <3>1. Required(module, Instruction) = 2  BY <2>1 DEF Required, Pushing, Binary
    <3>2. KindOf(Operand(2)) = "list" /\ Operand(1).of \in 0..(Len(ObjectAt(2).items) - 1)
      BY <1>2, <2>1 DEF Mistyped
    <3>3. ObjectAt(2) \in HeapObjects(Ids)  BY <1>2, <3>1, <3>2, ObjectReady
    <3> DEFINE items == ObjectAt(2).items
               q == Operand(1).of + 1
    <3>4. items \in Seq(HeapValues(Ids))  BY <3>3, ObjectParts
    <3>5. q \in 1..Len(items)
      <4> DEFINE n == Len(items)
                 p == Operand(1).of
      <4>1. n \in Nat /\ p \in 0..(n - 1)  BY <3>2, <3>4, SeqParts
      <4> HIDE DEF n, p
      <4>2. p + 1 \in 1..n  BY <4>1
      <4> QED  BY <4>2 DEF n, p
    <3> HIDE DEF items, q
    <3>6. items[q] \in HeapValues(Ids)  BY <3>4, <3>5, SeqParts
    <3> QED  BY <2>1, <3>6 DEF items, q
  <2>2. CASE Instruction.op = "ListLen"
    <3>1. Required(module, Instruction) = 1  BY <2>2 DEF Required, Pushing, Binary
    <3>2. KindOf(Operand(1)) = "list"  BY <1>2, <2>2 DEF Mistyped
    <3>3. ObjectAt(1) \in HeapObjects(Ids)  BY <1>2, <3>1, <3>2, ObjectReady
    <3>4. ObjectAt(1).items \in Seq(HeapValues(Ids))  BY <3>3, ObjectParts
    <3>5. size \in Int  BY <3>4, SeqParts
    <3> HIDE DEF size
    <3>6. Integer(size) \in HeapValues(Ids)  BY <3>5, ScalarsTyped
    <3> QED  BY <2>2, <3>6
  <2>3. CASE Instruction.op = "MapGet"
    <3>1. Required(module, Instruction) = 2  BY <2>3 DEF Required, Pushing, Binary
    <3>2. KindOf(Operand(2)) = "map" /\ Entry(ObjectAt(2), ObjectAt(1).text) # {}
      BY <1>2, <2>3 DEF Mistyped
    <3>3. ObjectAt(2) \in HeapObjects(Ids)  BY <1>2, <3>1, <3>2, ObjectReady
    <3>4. found \in Entry(ObjectAt(2), ObjectAt(1).text)  BY <3>2
    <3>5. found \in DOMAIN ObjectAt(2).entries  BY <3>4 DEF Entry
    <3> HIDE DEF found
    <3>6. ObjectAt(2).entries[found].value \in HeapValues(Ids)  BY <3>3, <3>5, ObjectParts
    <3> QED  BY <2>3, <3>6
  <2> QED  BY <1>2, <2>1, <2>2, <2>3
<1> HIDE DEF v
<1>4. ops \subseteq Plain  BY DEF Plain, Ops, Binary
<1> QED  BY <1>1, <1>3, <1>4, PureKeeps

LEMMA EntryTyped ==
    ASSUME module \in Modules, Accepted(module)
    PROVE  <<EntryFrame>> \in Seq(CallFrames) /\ AllMatch(module, <<EntryFrame>>)
<1> DEFINE m == module
           k == module.entry
           locals == [l \in 1..m.functions[k].locals |-> None]
           fr == FrameOf(k, locals)
<1>1. m \in Candidates /\ Accepted(m) /\ k \in DOMAIN m.functions /\ m.functions[k].arity = 0
  BY ModulesTyped DEF Accepted, WellFormed
<1>2. EntryFrame = fr  BY DEF EntryFrame
<1> HIDE DEF m, k
<1>3. locals \in Seq(Slots) /\ Len(locals) = m.functions[k].locals
  <2> DEFINE n == m.functions[k].locals
  <2>1. n \in Nat  BY <1>1, PartsTyped
  <2> HIDE DEF n
  <2>2. None \in Slots  BY DEF Slots
  <2> DEFINE none == None
             f == [l \in 1..n |-> none]
  <2> HIDE DEF none
  <2>3. f \in [1..n -> Slots]  BY <2>2 DEF none
  <2> HIDE DEF f
  <2>4. f \in Seq(Slots) /\ Len(f) = n  BY <2>1, <2>3, ListedIs
  <2> QED  BY <2>4 DEF f, n, none
<1>4. \A l \in 1..m.functions[k].arity : FALSE  BY <1>1
<1> HIDE DEF locals
<1>5. fr \in CallFrames /\ Matches(m, fr, 0)  BY <1>1, <1>3, <1>4, EnteredMatches
<1> HIDE DEF fr
<1>6. <<fr>> \in Seq(CallFrames) /\ Len(<<fr>>) = 1 /\ DOMAIN <<fr>> = {1} /\ <<fr>>[1] = fr /\ <<fr>> # <<>>
  BY <1>5
<1>7. AllMatch(m, <<fr>>)  BY <1>5, <1>6 DEF AllMatch
<1> QED  BY <1>2, <1>6, <1>7 DEF m

LEMMA StartStep == MachineInv /\ (StartBare \/ StartWithInputs) => MachineInv'
<1> SUFFICES ASSUME MachineInv, StartBare \/ StartWithInputs PROVE MachineInv'  OBVIOUS
<1>1. /\ Accepted(module) /\ module' = module /\ phase' = "running" /\ frames' = <<EntryFrame>>
  BY DEF StartBare, StartWithInputs
<1>2. heap' \in Heaps /\ inputs' \in Seq(HeapValues(Ids))
  <2>1. CASE StartBare  BY <2>1 DEF StartBare, MachineInv, MachineTyped
  <2>2. CASE StartWithInputs
    <3>1. PICK given \in InputLists :
            /\ HasRoom(heap, CountOf(given))
            /\ inputs' = AllIn(heap, given).values /\ heap' = AllIn(heap, given).heap
      BY <2>2 DEF StartWithInputs, CountOf, AllIn
    <3>2. given \in Seq(OwnedValues) /\ \A k \in DOMAIN given : PartsFirst(given[k])  BY MachineAssumption
    <3>3. heap \in Heaps  BY DEF MachineInv, MachineTyped
    <3> QED  BY <3>1, <3>2, <3>3, IntakeTyped
  <2> QED  BY <2>1, <2>2
<1>3. module \in Modules  BY DEF MachineInv, MachineTyped
<1>4. <<EntryFrame>> \in Seq(CallFrames) /\ AllMatch(module, <<EntryFrame>>)  BY <1>1, <1>3, EntryTyped
<1>5. MachineTyped'  BY <1>1, <1>2, <1>3, <1>4 DEF MachineTyped
<1>6. Live'  BY <1>1, <1>4 DEF Live
<1>7. Waits'  BY <1>1 DEF Waits
<1> QED  BY <1>5, <1>6, <1>7 DEF MachineInv

LEMMA MachineStarts == ModuleInit => MachineInv
<1> SUFFICES ASSUME ModuleInit PROVE MachineInv  OBVIOUS
<1>1. heap \in Heaps  BY DEF ModuleInit, Heaps
<1>2. <<>> \in Seq(CallFrames) /\ <<>> \in Seq(HeapValues(Ids))  OBVIOUS
<1>3. MachineTyped  BY <1>1, <1>2 DEF ModuleInit, MachineTyped
<1> QED  BY <1>3 DEF ModuleInit, MachineInv, Live, Waits

LEMMA MachineStep == MachineInv /\ [ModuleNext]_moduleVars => MachineInv'
<1> SUFFICES ASSUME MachineInv, [ModuleNext]_moduleVars PROVE MachineInv'  OBVIOUS
<1>1. CASE RefuseModule  BY <1>1, SameKeeps DEF RefuseModule
<1>2. CASE StartBare \/ StartWithInputs  BY <1>2, StartStep
<1>3. CASE Push  BY <1>3, PushStep
<1>4. CASE LocalTake  BY <1>4, LocalTakeStep
<1>5. CASE LocalSet  BY <1>5, LocalSetStep
<1>6. CASE Compute  BY <1>6, ComputeStep
<1>7. CASE PushConstant  BY <1>7, PushConstantStep
<1>8. CASE NewCollection  BY <1>8, NewCollectionStep
<1>9. CASE ListPush  BY <1>9, ListPushStep
<1>10. CASE MapInsert  BY <1>10, MapInsertStep
<1>11. CASE Lookup  BY <1>11, LookupStep
<1>12. CASE Jump  BY <1>12, JumpStep
<1>13. CASE Call  BY <1>13, CallStep
<1>14. CASE Return  BY <1>14, ReturnStep
<1>15. CASE Import  BY <1>15, ImportStep
<1>16. CASE Resume  BY <1>16, ResumeStep
<1>17. CASE Fail  BY <1>17, SameKeeps DEF Fail
<1>18. CASE UNCHANGED moduleVars  BY <1>18, SameKeeps DEF moduleVars
<1> QED
  BY <1>1, <1>2, <1>3, <1>4, <1>5, <1>6, <1>7, <1>8, <1>9, <1>10, <1>11, <1>12, <1>13, <1>14, <1>15, <1>16,
     <1>17, <1>18 DEF ModuleNext

\* A machine keeps to the types of its parts, and while it runs or waits each of its
\* frames is at an instruction the validator reached, with the depth and at least
\* the initialized locals the validator found there.
THEOREM MachineKeepsTyping == ModuleSpec => []MachineInv
BY MachineStarts, MachineStep, PTL DEF ModuleSpec

\* The validator of modules is sound (validate_function and ModuleVm::step): whatever
\* a module that was accepted does with its loops, calls and imports, it never takes
\* an operand that is not there, reads a local that is not initialized or overflows
\* an operand stack, for every set of modules, inputs, answers and limits.
THEOREM AcceptedModulesNeverMalformed == ModuleSpec => []ValidatedNeverMalformed
BY MachineKeepsTyping, InvGivesValidated, PTL

----------------------------------------------------------------------------
(* What a fold over a set computes: the objects that can be reached, and how many hold a value. *)

Pick(s) == CHOOSE x \in s : TRUE

\* One step back from what was found: the objects it holds as well.
Onward(h, found) == found \cup UNION {PartIds(h[j]) : j \in found}

\* How often an object holds a value, as StrongCount counts it.
InItems(id, v) == Holds(heap[id].items, v)
InEntries(id, v) == Cardinality({e \in DOMAIN heap[id].entries : heap[id].entries[e].value = v})

SetStep(which, p, acc, x) ==
    IF which = "reach" THEN Onward(p, acc) ELSE acc + InItems(x, p) + InEntries(x, p)

IsSetFold(g, which, p, base, T) ==
    g = [s \in SUBSET T |-> IF s = {} THEN base ELSE SetStep(which, p, g[s \ {Pick(s)}], Pick(s))]

LEMMA SetFoldExists ==
    ASSUME NEW T, IsFiniteSet(T), NEW which, NEW p, NEW base
    PROVE  \E g : IsSetFold(g, which, p, base, T)
<1> DEFINE D(k) == SmallOf(T, k)
           Body(g, s) == IF s = {} THEN base ELSE SetStep(which, p, g[s \ {Pick(s)}], Pick(s))
           S == {k \in Nat : \E g : g = [s \in D(k) |-> Body(g, s)]}
<1>0. Cardinality(T) \in Nat /\ \A s \in SUBSET T : Cardinality(s) \in Nat /\ IsFiniteSet(s)
  <2>2. \A s \in SUBSET T : IsFiniteSet(s)  BY FS_Subset
  <2>3. \A s : IsFiniteSet(s) => Cardinality(s) \in Nat  BY FS_CardinalityType
  <2> QED  BY <2>2, <2>3
<1>1. \A s \in SUBSET T : s # {} => Pick(s) \in s  BY DEF Pick
<1>2. 0 \in S
  <2>1. \A s \in D(0) : s = {}
    <3> SUFFICES ASSUME NEW s \in D(0) PROVE s = {}  OBVIOUS
    <3>1. s \in SUBSET T /\ Cardinality(s) = 0 /\ IsFiniteSet(s)  BY <1>0 DEF SmallOf
    <3> QED  BY <3>1, FS_EmptySet
  <2> DEFINE g == [s \in D(0) |-> base]
  <2> HIDE DEF D
  <2>2. g = [s \in D(0) |-> Body(g, s)]  BY <2>1
  <2> HIDE DEF g, Body
  <2> QED  BY <2>2
<1>3. ASSUME NEW k \in Nat, k \in S PROVE k + 1 \in S
  <2>1. PICK g : g = [s \in D(k) |-> Body(g, s)]  BY <1>3
  <2>2. \A s \in D(k + 1) : s # {} => s \ {Pick(s)} \in D(k)
    <3> SUFFICES ASSUME NEW s \in D(k + 1), s # {} PROVE s \ {Pick(s)} \in D(k)  OBVIOUS
    <3>1. s \in SUBSET T /\ Pick(s) \in s /\ Cardinality(s) <= k + 1  BY <1>1 DEF SmallOf
    <3>2. s \ {Pick(s)} \in SUBSET T /\ Cardinality(s \ {Pick(s)}) = Cardinality(s) - 1 /\ Cardinality(s) \in Nat
      BY <1>0, <3>1, OneLess
    <3>3. Cardinality(s) - 1 <= k  BY <3>1, <3>2
    <3> QED  BY <3>2, <3>3 DEF SmallOf
  <2>3. \A s \in D(k) : s \in D(k + 1)
    <3> SUFFICES ASSUME NEW s \in D(k) PROVE s \in D(k + 1)  OBVIOUS
    <3>1. s \in SUBSET T /\ Cardinality(s) \in Nat /\ Cardinality(s) <= k  BY <1>0 DEF SmallOf
    <3> QED  BY <3>1 DEF SmallOf
  <2> DEFINE h == [s \in D(k + 1) |-> Body(g, s)]
  <2> HIDE DEF D
  <2>4. \A s \in D(k) : h[s] = g[s]
    <3>1. \A s \in D(k) : h[s] = Body(g, s)  BY <2>3
    <3> HIDE DEF Body
    <3>2. \A s \in D(k) : g[s] = Body(g, s)  BY <2>1
    <3> QED  BY <3>1, <3>2
  <2>5. \A s \in D(k + 1) : Body(g, s) = Body(h, s)
    <3> HIDE DEF h
    <3> QED  BY <2>2, <2>4
  <2> HIDE DEF Body
  <2>6. h = [s \in D(k + 1) |-> Body(h, s)]
    <3> HIDE DEF h
    <3>1. h = [s \in D(k + 1) |-> Body(g, s)]  BY DEF h
    <3> QED  BY <2>5, <3>1
  <2> HIDE DEF h
  <2> QED  BY <2>6
<1>4. Cardinality(T) \in S
  <2> HIDE DEF S
  <2>1. \A k \in Nat : k \in S => k + 1 \in S  BY <1>3
  <2> QED  BY <1>0, <1>2, <2>1, Reaches
<1>5. D(Cardinality(T)) = SUBSET T
  <2>1. \A s \in SUBSET T : Cardinality(s) <= Cardinality(T)  BY <1>0, FS_Subset
  <2> QED  BY <2>1 DEF SmallOf
<1>6. PICK g : g = [s \in SUBSET T |-> Body(g, s)]
  <2> HIDE DEF D
  <2>1. PICK g : g = [s \in D(Cardinality(T)) |-> Body(g, s)]  BY <1>4
  <2> QED  BY <1>5, <2>1
<1>7. IsSetFold(g, which, p, base, T)  BY <1>6 DEF IsSetFold
<1> QED  BY <1>7

\* Induction over the subsets of a finite set, for what a set of them says.
LEMMA AllSubsets ==
    ASSUME NEW T, IsFiniteSet(T), NEW P, {} \in P,
           \A s \in SUBSET T : s # {} /\ s \ {Pick(s)} \in P => s \in P
    PROVE  T \in P
<1> DEFINE S == {k \in Nat : \A s \in SUBSET T : Cardinality(s) = k => s \in P}
<1>1. 0 \in S
  <2> SUFFICES ASSUME NEW s \in SUBSET T, Cardinality(s) = 0 PROVE s \in P  OBVIOUS
  <2>1. IsFiniteSet(s)  BY FS_Subset
  <2>2. s = {}  BY <2>1, FS_EmptySet
  <2> QED  BY <2>2
<1>2. ASSUME NEW k \in Nat, k \in S PROVE k + 1 \in S
  <2> SUFFICES ASSUME NEW s \in SUBSET T, Cardinality(s) = k + 1 PROVE s \in P  OBVIOUS
  <2>1. s # {}
    <3>1. IsFiniteSet(s) /\ k + 1 # 0  BY FS_Subset
    <3> QED  BY <3>1, FS_EmptySet
  <2>2. Pick(s) \in s  BY <2>1 DEF Pick
  <2>3. s \ {Pick(s)} \in SUBSET T /\ Cardinality(s \ {Pick(s)}) = k
    <3>1. s \ {Pick(s)} \in SUBSET T /\ Cardinality(s \ {Pick(s)}) = Cardinality(s) - 1  BY <2>2, OneLess
    <3>2. k + 1 - 1 = k  OBVIOUS
    <3> QED  BY <3>1, <3>2
  <2>4. s \ {Pick(s)} \in P  BY <1>2, <2>3
  <2> QED  BY <2>1, <2>4
<1>3. Cardinality(T) \in Nat  BY FS_CardinalityType
<1>4. Cardinality(T) \in S
  <2> HIDE DEF S
  <2>1. \A k \in Nat : k \in S => k + 1 \in S  BY <1>2
  <2> QED  BY <1>1, <1>3, <2>1, Reaches
<1> QED  BY <1>4

\* The steps of a fold.
LEMMA SetFoldSteps ==
    ASSUME NEW T, NEW which, NEW p, NEW base, NEW g, IsSetFold(g, which, p, base, T)
    PROVE  /\ g[{}] = base
           /\ \A s \in SUBSET T : s # {} => g[s] = SetStep(which, p, g[s \ {Pick(s)}], Pick(s))
<1>1. \A s \in SUBSET T : g[s] = IF s = {} THEN base ELSE SetStep(which, p, g[s \ {Pick(s)}], Pick(s))
  BY DEF IsSetFold
<1> QED  BY <1>1

Roots(values) == {v.of : v \in {x \in values : IsHeap(x)}}

IsReach(g, h, values) ==
    g = [s \in SUBSET Ids |-> IF s = {} THEN Roots(values) ELSE Onward(h, g[s \ {Pick(s)}])]

LEMMA ReachIs ==
    ASSUME NEW h, NEW values
    PROVE  Reach(h, values) = (CHOOSE g : IsReach(g, h, values))[Ids]
BY DEF Reach, FoldSet, MapThenFoldSet, IsReach, Onward, Roots, Pick

Reaching(g, h, values) ==
    /\ g[{}] = Roots(values) /\ Reach(h, values) = g[Ids]
    /\ \A s \in SUBSET Ids : s # {} => g[s] = Onward(h, g[s \ {Pick(s)}])

LEMMA ReachRuns ==
    ASSUME NEW h, NEW values
    PROVE  \E g : Reaching(g, h, values)
<1>1. \A g : IsSetFold(g, "reach", h, Roots(values), Ids) <=> IsReach(g, h, values)
  BY DEF IsSetFold, IsReach, SetStep
<1>2. \E g : IsSetFold(g, "reach", h, Roots(values), Ids)  BY HeapAssumption, SetFoldExists
<1> DEFINE g == CHOOSE g : IsReach(g, h, values)
<1>3. IsReach(g, h, values)  BY <1>1, <1>2
<1>4. Reach(h, values) = g[Ids]  BY ReachIs
<1> HIDE DEF g
<1>5. IsSetFold(g, "reach", h, Roots(values), Ids)  BY <1>1, <1>3
<1>6. /\ g[{}] = Roots(values)
      /\ \A s \in SUBSET Ids : s # {} => g[s] = SetStep("reach", h, g[s \ {Pick(s)}], Pick(s))
  BY <1>5, SetFoldSteps
<1> QED  BY <1>4, <1>6 DEF SetStep, Reaching

\* What holds the roots and whatever it holds holds all that is reached.
LEMMA ReachInside ==
    ASSUME NEW h, NEW values, NEW C, Roots(values) \subseteq C, \A j \in C : PartIds(h[j]) \subseteq C
    PROVE  Reach(h, values) \subseteq C
<1>1. PICK g : Reaching(g, h, values)  BY ReachRuns
<1> DEFINE P == {s \in SUBSET Ids : g[s] \subseteq C}
<1>2. {} \in P  BY <1>1 DEF Reaching
<1>3. ASSUME NEW s \in SUBSET Ids, s # {}, s \ {Pick(s)} \in P PROVE s \in P
  <2>1. g[s] = Onward(h, g[s \ {Pick(s)}]) /\ g[s \ {Pick(s)}] \subseteq C  BY <1>1, <1>3 DEF Reaching
  <2>2. g[s] \subseteq C  BY <2>1 DEF Onward
  <2> QED  BY <2>2
<1>4. Ids \in P
  <2> HIDE DEF P
  <2>1. \A s \in SUBSET Ids : s # {} /\ s \ {Pick(s)} \in P => s \in P  BY <1>3
  <2> QED  BY <1>2, <2>1, HeapAssumption, AllSubsets
<1> QED  BY <1>1, <1>4 DEF Reaching

\* What is reached holds the roots and whatever it holds: as many steps as there
\* are objects are enough, since each step but the last ones finds a new one.
LEMMA ReachHolds ==
    ASSUME NEW h, \A j \in Ids : PartIds(h[j]) \subseteq Ids, NEW values, Roots(values) \subseteq Ids
    PROVE  /\ Roots(values) \subseteq Reach(h, values) /\ Reach(h, values) \subseteq Ids
           /\ \A j \in Reach(h, values) : PartIds(h[j]) \subseteq Reach(h, values)
<1>1. PICK g : Reaching(g, h, values)  BY ReachRuns
<1>2. IsFiniteSet(Ids)  BY HeapAssumption
<1> DEFINE Closed(f) == Onward(h, f) = f
           Good(f, s) == /\ Roots(values) \subseteq f /\ f \subseteq Ids
                         /\ Closed(f) \/ Cardinality(f) >= Cardinality(s)
           P == {s \in SUBSET Ids : Good(g[s], s)}
<1>3. \A f \in SUBSET Ids : IsFiniteSet(f) /\ Cardinality(f) \in Nat /\ Cardinality(f) <= Cardinality(Ids)
  <2>1. \A f \in SUBSET Ids : IsFiniteSet(f) /\ Cardinality(f) <= Cardinality(Ids)  BY <1>2, FS_Subset
  <2> QED  BY <2>1, FS_CardinalityType
<1>4. {} \in P
  <2>1. Cardinality({}) = 0  BY FS_EmptySet
  <2>2. Cardinality(Roots(values)) \in Nat  BY <1>3
  <2>3. Good(g[{}], {})  BY <1>1, <2>1, <2>2 DEF Reaching
  <2> QED  BY <2>3
<1>5. ASSUME NEW s \in SUBSET Ids, s # {}, s \ {Pick(s)} \in P PROVE s \in P
  <2> DEFINE r == s \ {Pick(s)}
             f == g[r]
  <2>1. Good(f, r) /\ g[s] = Onward(h, f)  BY <1>1, <1>5 DEF Reaching
  <2>2. Pick(s) \in s  BY <1>5 DEF Pick
  <2>3. Cardinality(r) = Cardinality(s) - 1 /\ Cardinality(s) \in Nat  BY <1>2, <2>2, OneLess
  <2> HIDE DEF r, f
  <2>4. Roots(values) \subseteq g[s] /\ g[s] \subseteq Ids /\ f \subseteq g[s] /\ f \subseteq Ids
    BY <2>1 DEF Onward
  <2>5. CASE Closed(f)
    <3>1. Onward(h, f) = f  BY <2>5
    <3>2. g[s] = f  BY <2>1, <3>1
    <3>3. Closed(g[s])  BY <3>1, <3>2
    <3> QED  BY <2>4, <3>3
  <2>6. CASE ~Closed(f)
    <3>1. PICK x : x \in g[s] /\ x \notin f  BY <2>1, <2>4, <2>6
    <3>2. f \cup {x} \in SUBSET Ids /\ f \cup {x} \subseteq g[s]  BY <2>4, <3>1
    <3>3. IsFiniteSet(f) /\ Cardinality(f) \in Nat  BY <1>3, <2>4
    <3>4. Cardinality(f \cup {x}) = Cardinality(f) + 1  BY <3>1, <3>3, FS_AddElement
    <3>5. IsFiniteSet(g[s]) /\ Cardinality(g[s]) \in Nat  BY <1>3, <2>4
    <3>6. Cardinality(f \cup {x}) <= Cardinality(g[s])  BY <3>2, <3>5, FS_Subset
    <3>7. Cardinality(f) >= Cardinality(r)  BY <2>1, <2>6
    <3>8. Cardinality(g[s]) >= Cardinality(s)  BY <2>3, <3>3, <3>4, <3>5, <3>6, <3>7
    <3> QED  BY <2>4, <3>8
  <2> QED  BY <2>5, <2>6
<1>6. Ids \in P
  <2> HIDE DEF P
  <2>1. \A s \in SUBSET Ids : s # {} /\ s \ {Pick(s)} \in P => s \in P  BY <1>5
  <2> QED  BY <1>2, <1>4, <2>1, AllSubsets
<1> DEFINE f == Reach(h, values)
<1>7. Good(f, Ids)  BY <1>1, <1>6 DEF Reaching
<1> HIDE DEF f
<1>8. Closed(f)
  <2> SUFFICES ASSUME Cardinality(f) >= Cardinality(Ids) PROVE Closed(f)  BY <1>7
  <2>1. Cardinality(f) <= Cardinality(Ids) /\ Cardinality(f) \in Nat /\ Cardinality(Ids) \in Nat
    BY <1>3, <1>7
  <2>2. Cardinality(f) = Cardinality(Ids)  BY <2>1
  <2>3. f = Ids  BY <1>2, <1>7, <2>2, FS_Subset
  <2> QED  BY <2>3 DEF Onward
<1>9. \A j \in f : PartIds(h[j]) \subseteq f
  <2>1. Onward(h, f) = f  BY <1>8
  <2> QED  BY <2>1 DEF Onward
<1> QED  BY <1>7, <1>9 DEF f

----------------------------------------------------------------------------
(* How often a value is held. *)

OutsideHeap(v) == Holds(Places(frames) \o inputs \o result, v)

IsCounting(g, v) ==
    g = [s \in SUBSET Ids |-> IF s = {} THEN OutsideHeap(v)
                             ELSE g[s \ {Pick(s)}] + InItems(Pick(s), v) + InEntries(Pick(s), v)]

LEMMA CountIs ==
    ASSUME NEW v
    PROVE  StrongCount(v) = (CHOOSE g : IsCounting(g, v))[Ids]
BY DEF StrongCount, FoldSet, MapThenFoldSet, IsCounting, OutsideHeap, InItems, InEntries, Pick

Counting(g, v) ==
    /\ g[{}] = OutsideHeap(v) /\ StrongCount(v) = g[Ids]
    /\ \A s \in SUBSET Ids : s # {} => g[s] = g[s \ {Pick(s)}] + InItems(Pick(s), v) + InEntries(Pick(s), v)

LEMMA CountingRuns ==
    ASSUME NEW v
    PROVE  \E g : Counting(g, v)
<1>1. \A g : IsSetFold(g, "count", v, OutsideHeap(v), Ids) <=> IsCounting(g, v)
  BY DEF IsSetFold, IsCounting, SetStep
<1>2. \E g : IsSetFold(g, "count", v, OutsideHeap(v), Ids)  BY HeapAssumption, SetFoldExists
<1> DEFINE g == CHOOSE g : IsCounting(g, v)
<1>3. IsCounting(g, v)  BY <1>1, <1>2
<1>4. StrongCount(v) = g[Ids]  BY CountIs
<1> HIDE DEF g
<1>5. IsSetFold(g, "count", v, OutsideHeap(v), Ids)  BY <1>1, <1>3
<1>6. /\ g[{}] = OutsideHeap(v)
      /\ \A s \in SUBSET Ids : s # {} => g[s] = SetStep("count", v, g[s \ {Pick(s)}], Pick(s))
  BY <1>5, SetFoldSteps
<1> QED  BY <1>4, <1>6 DEF SetStep, Counting

\* No object holds a value more often than the count adds to what is held outside the heap.
LEMMA CountAtLeast ==
    ASSUME NEW v, \A x \in Ids : InItems(x, v) \in Nat /\ InEntries(x, v) \in Nat, OutsideHeap(v) \in Nat
    PROVE  \A x \in Ids : \E rest \in Nat :
              StrongCount(v) = OutsideHeap(v) + InItems(x, v) + InEntries(x, v) + rest
<1> DEFINE base == OutsideHeap(v)
           a(x) == InItems(x, v)
           b(x) == InEntries(x, v)
<1>1. PICK g : Counting(g, v)  BY CountingRuns
<1> DEFINE Good(n, s) == n \in Nat /\ n >= base /\ \A x \in s : n >= base + a(x) + b(x)
           P == {s \in SUBSET Ids : Good(g[s], s)}
<1>2. {} \in P  BY <1>1 DEF Counting
<1>3. ASSUME NEW s \in SUBSET Ids, s # {}, s \ {Pick(s)} \in P PROVE s \in P
  <2> DEFINE r == s \ {Pick(s)}
             n == g[r]
             k == a(Pick(s))
             l == b(Pick(s))
             m == n + k + l
  <2>1. Good(n, r) /\ g[s] = m  BY <1>1, <1>3 DEF Counting
  <2>2. Pick(s) \in s  BY <1>3 DEF Pick
  <2>3. k \in Nat /\ l \in Nat  BY <2>2
  <2>4. base \in Nat  OBVIOUS
  <2>5. \A x \in s : a(x) \in Nat /\ b(x) \in Nat  OBVIOUS
  <2>6. n \in Nat /\ n >= base /\ \A x \in r : n >= base + a(x) + b(x)  BY <2>1
  <2> HIDE DEF n, k, l, base, a, b
  <2>7. m \in Nat /\ m >= base /\ m >= n /\ m >= base + k + l  BY <2>3, <2>4, <2>6
  <2> HIDE DEF m
  <2>8. ASSUME NEW x \in s PROVE m >= base + a(x) + b(x)
    <3>1. CASE x = Pick(s)  BY <2>7, <3>1 DEF k, l
    <3>2. CASE x # Pick(s)
      <4> DEFINE c == a(x)
                 d == b(x)
      <4>1. n >= base + c + d /\ c \in Nat /\ d \in Nat  BY <2>5, <2>6, <3>2 DEF r
      <4> HIDE DEF c, d
      <4>2. m >= base + c + d  BY <2>4, <2>6, <2>7, <4>1
      <4> QED  BY <4>2 DEF c, d
    <3> QED  BY <3>1, <3>2
  <2>9. Good(g[s], s)  BY <2>1, <2>7, <2>8
  <2> QED  BY <2>9
<1>4. Ids \in P
  <2> HIDE DEF P
  <2>1. \A s \in SUBSET Ids : s # {} /\ s \ {Pick(s)} \in P => s \in P  BY <1>3
  <2> QED  BY <1>2, <2>1, HeapAssumption, AllSubsets
<1> DEFINE all == StrongCount(v)
<1>5. all \in Nat /\ \A x \in Ids : all >= base + a(x) + b(x)  BY <1>1, <1>4 DEF Counting
<1>6. ASSUME NEW x \in Ids PROVE \E rest \in Nat : all = base + a(x) + b(x) + rest
  <2> DEFINE c == a(x)
             d == b(x)
             rest == all - (base + c + d)
  <2>1. base \in Nat /\ c \in Nat /\ d \in Nat /\ all \in Nat /\ all >= base + c + d  BY <1>5
  <2> HIDE DEF all, base, c, d
  <2>2. rest \in Nat /\ all = base + c + d + rest  BY <2>1
  <2> QED  BY <2>2 DEF c, d
<1> QED  BY <1>6

----------------------------------------------------------------------------
(* The places that hold a value. *)

\* The values that frames hold.
HeldBy(fr) == Range(fr.locals) \cup Range(fr.stack)
ValuesOf(fs) == UNION {HeldBy(fs[j]) : j \in DOMAIN fs}

LEMMA RangeJoined ==
    ASSUME NEW S, NEW s \in Seq(S), NEW t \in Seq(S)
    PROVE  s \o t \in Seq(S) /\ Range(s \o t) = Range(s) \cup Range(t)
<1>1. /\ s \o t \in Seq(S) /\ Len(s \o t) = Len(s) + Len(t)
      /\ \A k \in 1..(Len(s) + Len(t)) : (s \o t)[k] = IF k <= Len(s) THEN s[k] ELSE t[k - Len(s)]
  BY ConcatProperties
<1> DEFINE n == Len(s)
           m == Len(t)
           u == s \o t
<1>2. n \in Nat /\ m \in Nat /\ DOMAIN s = 1..n /\ DOMAIN t = 1..m /\ DOMAIN u = 1..(n + m)
  BY <1>1, SeqParts
<1>3. \A k \in 1..(n + m) : u[k] = IF k <= n THEN s[k] ELSE t[k - n]  BY <1>1
<1> HIDE DEF n, m, u
<1>4. ASSUME NEW k \in DOMAIN u PROVE u[k] \in Range(s) \cup Range(t)
  <2>1. CASE k <= n
    <3>1. k \in 1..n /\ u[k] = s[k]  BY <1>2, <1>3, <2>1
    <3> QED  BY <1>2, <3>1 DEF Range
  <2>2. CASE ~(k <= n)
    <3>1. k - n \in 1..m /\ u[k] = t[k - n]  BY <1>2, <1>3, <2>2
    <3> QED  BY <1>2, <3>1 DEF Range
  <2> QED  BY <2>1, <2>2
<1>5. ASSUME NEW k \in DOMAIN s PROVE s[k] \in Range(u)
  <2>1. k \in DOMAIN u /\ u[k] = s[k]  BY <1>2, <1>3
  <2> QED  BY <2>1 DEF Range
<1>6. ASSUME NEW k \in DOMAIN t PROVE t[k] \in Range(u)
  <2> DEFINE j == k + n
  <2>1. j \in 1..(n + m) /\ ~(j <= n) /\ j - n = k  BY <1>2
  <2> HIDE DEF j
  <2>2. j \in DOMAIN u /\ u[j] = t[k]  BY <1>2, <1>3, <2>1
  <2> QED  BY <2>2 DEF Range
<1>7. Range(u) = Range(s) \cup Range(t)  BY <1>4, <1>5, <1>6 DEF Range
<1> QED  BY <1>1, <1>7 DEF u

IsPlacing(g, fs) ==
    g = [s \in SUBSET (DOMAIN fs) |->
            IF s = {} THEN <<>> ELSE g[s \ {Max(s)}] \o fs[Max(s)].locals \o fs[Max(s)].stack]

LEMMA PlacesIs ==
    ASSUME NEW fs
    PROVE  Places(fs) = (CHOOSE g : IsPlacing(g, fs))[DOMAIN fs]
BY DEF Places, FoldLeft, MapThenFoldSet, IsPlacing

Placing(g, fs, n) ==
    /\ g[1..0] = <<>> /\ Places(fs) = g[1..n]
    /\ \A k \in 0..(n - 1) : g[1..(k + 1)] = g[1..k] \o fs[k + 1].locals \o fs[k + 1].stack

LEMMA PlacesRuns ==
    ASSUME NEW fs, NEW n \in Nat, DOMAIN fs = 1..n
    PROVE  \E g : Placing(g, fs, n)
<1>1. \A g : IsFold(g, "places", <<>>, fs) <=> IsPlacing(g, fs)
  BY DEF IsFold, IsPlacing, FoldStep
<1>2. \E g : IsFold(g, "places", <<>>, fs)  BY FoldExists
<1> DEFINE g == CHOOSE g : IsPlacing(g, fs)
<1>3. IsPlacing(g, fs)  BY <1>1, <1>2
<1>4. Places(fs) = g[1..n]  BY PlacesIs
<1> HIDE DEF g
<1>5. IsFold(g, "places", <<>>, fs)  BY <1>1, <1>3
<1>6. /\ g[1..0] = <<>>
      /\ \A k \in 0..(n - 1) : g[1..(k + 1)] = FoldStep("places", g[1..k], fs[k + 1])
  BY <1>5, FoldPrefix
<1>7. Placing(g, fs, n)  BY <1>4, <1>6 DEF FoldStep, Placing
<1> QED  BY <1>7

LEMMA FrameParts ==
    ASSUME NEW fs \in Seq(CallFrames), NEW j \in DOMAIN fs
    PROVE  fs[j].locals \in Seq(Slots) /\ fs[j].stack \in Seq(Slots) /\ fs[j].stack \in Seq(HeapValues(Ids))
<1>1. fs[j] \in CallFrames  BY SeqParts
<1>2. fs[j].locals \in Seq(Slots) /\ fs[j].stack \in Seq(HeapValues(Ids))  BY <1>1 DEF CallFrames
<1>3. HeapValues(Ids) \subseteq Slots  BY DEF Slots
<1>4. Seq(HeapValues(Ids)) \subseteq Seq(Slots)
  <2> DEFINE H == HeapValues(Ids)
             S == Slots
  <2>1. H \subseteq S  BY <1>3
  <2> HIDE DEF H, S
  <2>2. Seq(H) \subseteq Seq(S)
    <3> SUFFICES ASSUME NEW s \in Seq(H) PROVE s \in Seq(S)  OBVIOUS
    <3>1. Len(s) \in Nat /\ s \in [1..Len(s) -> H]  OBVIOUS
    <3>2. s \in [1..Len(s) -> S]  BY <2>1, <3>1
    <3> QED  BY <3>1, <3>2
  <2> QED  BY <2>2 DEF H, S
<1> QED  BY <1>2, <1>4

LEMMA PlacesTyped ==
    ASSUME NEW fs \in Seq(CallFrames)
    PROVE  Places(fs) \in Seq(Slots) /\ Range(Places(fs)) = ValuesOf(fs)
<1> DEFINE n == Len(fs)
<1>1. n \in Nat /\ DOMAIN fs = 1..n  BY SeqParts
<1> HIDE DEF n
<1>2. PICK g : Placing(g, fs, n)  BY <1>1, PlacesRuns
<1> DEFINE Good(p, k) == p \in Seq(Slots) /\ \A x : x \in Range(p) <=> \E j \in 1..k : x \in HeldBy(fs[j])
           S == {k \in Nat : k <= n => Good(g[1..k], k)}
<1>3. 0 \in S
  <2>1. g[1..0] = <<>>  BY <1>2 DEF Placing
  <2>2. <<>> \in Seq(Slots) /\ Range(<<>>) = {}  BY DEF Range
  <2>3. \A j \in 1..0 : FALSE  OBVIOUS
  <2>4. Good(<<>>, 0)  BY <2>2, <2>3
  <2>5. Good(g[1..0], 0)
    <3> HIDE DEF Good
    <3> QED  BY <2>1, <2>4
  <2> HIDE DEF Good
  <2> QED  BY <2>5
<1>4. ASSUME NEW k \in Nat, k \in S PROVE k + 1 \in S
  <2> SUFFICES ASSUME k + 1 <= n PROVE Good(g[1..(k + 1)], k + 1)  OBVIOUS
  <2> DEFINE p == g[1..k]
             locals == fs[k + 1].locals
             stack == fs[k + 1].stack
  <2>1. k \in 0..(n - 1) /\ k + 1 \in DOMAIN fs /\ k <= n  BY <1>1
  <2>2. p \in Seq(Slots) /\ \A x : x \in Range(p) <=> \E j \in 1..k : x \in HeldBy(fs[j])  BY <1>4, <2>1
  <2>3. g[1..(k + 1)] = p \o locals \o stack  BY <1>2, <2>1 DEF Placing
  <2>4. locals \in Seq(Slots) /\ stack \in Seq(Slots)  BY <2>1, FrameParts
  <2>5. HeldBy(fs[k + 1]) = Range(locals) \cup Range(stack)  BY DEF HeldBy
  <2> DEFINE q == p \o locals
             r == q \o stack
  <2> HIDE DEF p, locals, stack
  <2>6. q \in Seq(Slots) /\ Range(q) = Range(p) \cup Range(locals)  BY <2>2, <2>4, RangeJoined
  <2> HIDE DEF q
  <2>7. r \in Seq(Slots) /\ Range(r) = Range(q) \cup Range(stack)  BY <2>4, <2>6, RangeJoined
  <2>8. g[1..(k + 1)] = r  BY <2>3 DEF q
  <2> HIDE DEF r
  <2>9. \A j : j \in 1..(k + 1) <=> j \in 1..k \/ j = k + 1  OBVIOUS
  <2>10. ASSUME NEW x PROVE x \in Range(r) <=> \E j \in 1..(k + 1) : x \in HeldBy(fs[j])
    BY <2>2, <2>5, <2>6, <2>7, <2>9
  <2> QED  BY <2>7, <2>8, <2>10
<1>5. n \in S
  <2> HIDE DEF S
  <2>1. \A k \in Nat : k \in S => k + 1 \in S  BY <1>4
  <2> QED  BY <1>1, <1>3, <2>1, Reaches
<1>6. Good(Places(fs), n)  BY <1>1, <1>2, <1>5 DEF Placing
<1>7. Range(Places(fs)) = ValuesOf(fs)  BY <1>1, <1>6 DEF ValuesOf
<1> QED  BY <1>6, <1>7

\* The places of the running frame come last.
LEMMA PlacesLast ==
    ASSUME NEW fs \in Seq(CallFrames), fs # <<>>
    PROVE  /\ Front(fs) \in Seq(CallFrames)
           /\ Places(fs) = Places(Front(fs)) \o Last(fs).locals \o Last(fs).stack
<1> DEFINE n == Len(fs) - 1
           hs == Front(fs)
<1>1. hs \in Seq(CallFrames) /\ Len(hs) = n /\ n \in Nat /\ Len(fs) = n + 1 /\ Last(fs) = fs[n + 1]
      /\ \A i \in 1..n : hs[i] = fs[i]
  <2>1. hs \in Seq(CallFrames) /\ Len(hs) = n /\ Len(fs) \in Nat \ {0}
        /\ (\A i \in 1..n : hs[i] = fs[i]) /\ Last(fs) = fs[Len(fs)]
    BY FrontIs
  <2> DEFINE l == Len(fs)
  <2>2. l \in Nat \ {0} /\ n = l - 1  BY <2>1
  <2> HIDE DEF l, n
  <2>3. n \in Nat /\ l = n + 1  BY <2>2
  <2> QED  BY <2>1, <2>3 DEF l
<1> HIDE DEF n, hs
<1> DEFINE l == n + 1
<1>2. DOMAIN hs = 1..n /\ DOMAIN fs = 1..l /\ l \in Nat /\ l - 1 = n /\ l = n + 1  BY <1>1, SeqParts
<1> HIDE DEF l
<1>3. PICK g : Placing(g, fs, l)  BY <1>2, PlacesRuns
<1>4. PICK f : Placing(f, hs, n)  BY <1>1, <1>2, PlacesRuns
<1> DEFINE S == {k \in Nat : k <= n => g[1..k] = f[1..k]}
<1>5. 0 \in S  BY <1>3, <1>4 DEF Placing
<1>6. ASSUME NEW k \in Nat, k \in S PROVE k + 1 \in S
  <2> SUFFICES ASSUME k + 1 <= n PROVE g[1..(k + 1)] = f[1..(k + 1)]  OBVIOUS
  <2>1. k \in 0..(n - 1) /\ k \in 0..(l - 1) /\ k + 1 \in 1..n /\ k <= n  BY <1>1, <1>2
  <2>2. g[1..(k + 1)] = g[1..k] \o fs[k + 1].locals \o fs[k + 1].stack  BY <1>3, <2>1 DEF Placing
  <2>3. f[1..(k + 1)] = f[1..k] \o hs[k + 1].locals \o hs[k + 1].stack  BY <1>4, <2>1 DEF Placing
  <2>4. g[1..k] = f[1..k] /\ hs[k + 1] = fs[k + 1]  BY <1>1, <1>6, <2>1
  <2> QED  BY <2>2, <2>3, <2>4
<1>7. n \in S
  <2> HIDE DEF S
  <2>1. \A k \in Nat : k \in S => k + 1 \in S  BY <1>6
  <2> QED  BY <1>1, <1>5, <2>1, Reaches
<1>8. g[1..n] = Places(hs)  BY <1>1, <1>4, <1>7 DEF Placing
<1>9. Places(fs) = g[1..n] \o fs[n + 1].locals \o fs[n + 1].stack
  <2>1. n \in 0..(l - 1) /\ l = n + 1  BY <1>1, <1>2
  <2>2. Places(fs) = g[1..l]  BY <1>3 DEF Placing
  <2>3. g[1..(n + 1)] = g[1..n] \o fs[n + 1].locals \o fs[n + 1].stack  BY <1>3, <2>1 DEF Placing
  <2> QED  BY <2>1, <2>2, <2>3
<1> QED  BY <1>1, <1>8, <1>9 DEF hs

----------------------------------------------------------------------------
(* What the machine holds is in use, and so is whatever an object in use holds. *)

FramesIn(K, fs) == \A j \in DOMAIN fs : fs[j].locals \in Seq(K) /\ fs[j].stack \in Seq(K)

Firm ==
    /\ Sound(heap) /\ FramesIn(Sure(heap), frames)
    /\ inputs \in Seq(Sure(heap)) /\ result \in Seq(Sure(heap))

LEMMA SeqWithin ==
    ASSUME NEW S, NEW T, NEW s \in Seq(S)
    PROVE  s \in Seq(T) <=> Range(s) \subseteq T
<1>1. Len(s) \in Nat /\ DOMAIN s = 1..Len(s) /\ s \in [1..Len(s) -> S]  OBVIOUS
<1>2. ASSUME s \in Seq(T) PROVE Range(s) \subseteq T
  <2>1. \A k \in DOMAIN s : s[k] \in T  BY <1>2, SeqParts
  <2> QED  BY <2>1 DEF Range
<1>3. ASSUME Range(s) \subseteq T PROVE s \in Seq(T)
  <2>1. \A k \in 1..Len(s) : s[k] \in T  BY <1>1, <1>3 DEF Range
  <2> DEFINE n == Len(s)
  <2>2. n \in Nat /\ s \in [1..n -> T]  BY <1>1, <2>1
  <2> HIDE DEF n
  <2> QED  BY <2>2
<1> QED  BY <1>2, <1>3

LEMMA FramesWithin ==
    ASSUME NEW K, NEW fs \in Seq(CallFrames)
    PROVE  FramesIn(K, fs) <=> ValuesOf(fs) \subseteq K
<1>1. ASSUME NEW j \in DOMAIN fs
      PROVE  (fs[j].locals \in Seq(K) /\ fs[j].stack \in Seq(K)) <=> HeldBy(fs[j]) \subseteq K
  <2>1. fs[j].locals \in Seq(Slots) /\ fs[j].stack \in Seq(Slots)  BY FrameParts
  <2>2. fs[j].locals \in Seq(K) <=> Range(fs[j].locals) \subseteq K  BY <2>1, SeqWithin
  <2>3. fs[j].stack \in Seq(K) <=> Range(fs[j].stack) \subseteq K  BY <2>1, SeqWithin
  <2> QED  BY <2>2, <2>3 DEF HeldBy
<1> QED  BY <1>1 DEF FramesIn, ValuesOf

\* What is collected leaves the rest sound.
LEMMA CollectedFirm ==
    ASSUME NEW h \in Heaps, Sound(h), NEW live, live \subseteq Sure(h)
    PROVE  Sound(Collected(h, live)) /\ live \subseteq Sure(Collected(h, live))
<1> DEFINE R == Reach(h, live)
           c == Collected(h, live)
<1>1. \A j \in Ids : PartIds(h[j]) \subseteq Ids  BY HeldTyped
<1>2. Roots(live) \subseteq InUse(h)
  <2>1. \A v \in Slots : IsHeap(v) => v.of \in Ids
    <3>1. ~IsHeap(None)  BY DEF IsHeap, None
    <3> QED  BY <3>1, ValueParts DEF Slots
  <2> QED  BY <2>1 DEF Roots, Sure, InUse
<1>3. InUse(h) \subseteq Ids  BY DEF InUse
<1>4. Roots(live) \subseteq R /\ R \subseteq Ids /\ \A j \in R : PartIds(h[j]) \subseteq R
  BY <1>1, <1>2, <1>3, ReachHolds
<1>5. R \subseteq InUse(h)
  <2>1. \A j \in InUse(h) : PartIds(h[j]) \subseteq InUse(h)  BY <1>3 DEF Sound
  <2> QED  BY <1>2, <2>1, ReachInside
<1>6. \A id \in Ids : c[id] = IF id \in R THEN h[id] ELSE Free  BY DEF Collected
<1> HIDE DEF R, c
<1>7. InUse(c) = R  BY <1>4, <1>5, <1>6 DEF InUse
<1>8. Sound(c)
  <2> SUFFICES ASSUME NEW id \in Ids PROVE PartIds(c[id]) \subseteq InUse(c)  BY DEF Sound
  <2>1. CASE id \in R  BY <1>4, <1>6, <1>7, <2>1
  <2>2. CASE id \notin R  BY <1>6, <2>2, FreeIsEmpty
  <2> QED  BY <2>1, <2>2
<1>9. live \subseteq Sure(c)
  <2> SUFFICES ASSUME NEW v \in live, IsHeap(v) PROVE c[v.of] # Free  BY DEF Sure
  <2>1. v.of \in R  BY <1>4 DEF Roots
  <2> QED  BY <1>7, <2>1 DEF InUse
<1> QED  BY <1>8, <1>9 DEF c

\* The machine after an instruction that leaves what it holds in use.
LEMMA BecomesFirm ==
    ASSUME NEW h \in Heaps, Sound(h), NEW fs \in Seq(CallFrames), FramesIn(Sure(h), fs),
           inputs' \in Seq(Sure(h)), NEW res \in Seq(Sure(h)), NEW bytes, Becomes(fs, h, bytes, res)
    PROVE  Firm'
<1> DEFINE live == Range(Places(fs) \o inputs' \o res)
           c == Collected(h, live)
           ins == inputs'
<1>1. frames' = fs /\ result' = res /\ heap' = c  BY DEF Becomes
<1>2. Places(fs) \in Seq(Slots) /\ Range(Places(fs)) = ValuesOf(fs)  BY PlacesTyped
<1>3. ins \in Seq(Slots) /\ res \in Seq(Slots) /\ Range(ins) \subseteq Sure(h) /\ Range(res) \subseteq Sure(h)
  <2>1. Sure(h) \subseteq Slots  BY DEF Sure
  <2>2. Range(ins) \subseteq Sure(h) /\ Range(res) \subseteq Sure(h)  BY SeqWithin
  <2> HIDE DEF ins
  <2>3. Range(ins) \subseteq Slots /\ Range(res) \subseteq Slots  BY <2>1, <2>2
  <2>4. ins \in Seq(Sure(h))  BY DEF ins
  <2> QED  BY <2>2, <2>3, <2>4, SeqWithin
<1> HIDE DEF ins
<1>4. live = ValuesOf(fs) \cup Range(ins) \cup Range(res)
  <2> DEFINE p == Places(fs)
             q == p \o ins
  <2>1. live = Range(q \o res)  BY DEF ins
  <2> HIDE DEF p
  <2>2. q \in Seq(Slots) /\ Range(q) = Range(p) \cup Range(ins)  BY <1>2, <1>3, RangeJoined DEF p
  <2> HIDE DEF q, live
  <2>3. Range(q \o res) = Range(q) \cup Range(res)  BY <1>3, <2>2, RangeJoined
  <2> QED  BY <1>2, <2>1, <2>2, <2>3 DEF p
<1> HIDE DEF live, c
<1>5. live \subseteq Sure(h)  BY <1>3, <1>4, FramesWithin
<1>6. Sound(c) /\ live \subseteq Sure(c)  BY <1>5, CollectedFirm DEF c
<1>7. FramesIn(Sure(c), fs)
  <2>1. ValuesOf(fs) \subseteq Sure(c)  BY <1>4, <1>6
  <2> QED  BY <2>1, FramesWithin
<1>8. ins \in Seq(Sure(c)) /\ res \in Seq(Sure(c))
  <2>1. Range(ins) \subseteq Sure(c) /\ Range(res) \subseteq Sure(c)  BY <1>4, <1>6
  <2> QED  BY <1>3, <2>1, SeqWithin
<1> DEFINE hh == heap'
<1>9. Firm' <=> Sound(hh) /\ FramesIn(Sure(hh), frames') /\ inputs' \in Seq(Sure(hh)) /\ result' \in Seq(Sure(hh))
  BY DEF Firm, Sound, FramesIn, Sure, InUse
<1> HIDE DEF hh
<1>10. hh = c  BY <1>1 DEF hh
<1> QED  BY <1>1, <1>6, <1>7, <1>8, <1>9, <1>10 DEF ins

----------------------------------------------------------------------------
(* What an instruction leaves in the frames. *)

LEMMA SeqGrows ==
    ASSUME NEW K, NEW L, K \subseteq L, NEW s \in Seq(K)
    PROVE  s \in Seq(L)
<1> DEFINE n == Len(s)
<1>1. n \in Nat /\ s \in [1..n -> K]  OBVIOUS
<1> HIDE DEF n
<1>2. s \in [1..n -> L]  BY <1>1
<1> QED  BY <1>1, <1>2

LEMMA FramesGrow ==
    ASSUME NEW K, NEW L, K \subseteq L, NEW fs, FramesIn(K, fs)
    PROVE  FramesIn(L, fs)
BY SeqGrows DEF FramesIn

LEMMA TopsKept ==
    ASSUME NEW K, NEW fs, FramesIn(K, fs), NEW locals \in Seq(K), NEW stack \in Seq(K),
           NEW gs, Tops(gs, fs, locals, stack)
    PROVE  FramesIn(K, gs)
<1>1. PICK to : gs = [fs EXCEPT ![Len(fs)] = to] /\ to.locals = locals /\ to.stack = stack  BY DEF Tops
<1> DEFINE l == Len(fs)
<1> HIDE DEF l
<1>2. DOMAIN gs = DOMAIN fs /\ \A j \in DOMAIN fs : gs[j] = IF j = l THEN to ELSE fs[j]  BY <1>1 DEF l
<1> QED  BY <1>1, <1>2 DEF FramesIn

LEMMA FrameAdded ==
    ASSUME NEW K, NEW fs \in Seq(CallFrames), FramesIn(K, fs), NEW fr, fr.locals \in Seq(K), fr.stack \in Seq(K)
    PROVE  FramesIn(K, Append(fs, fr))
<1> DEFINE n == Len(fs)
           gs == Append(fs, fr)
<1>1. n \in Nat /\ DOMAIN fs = 1..n  BY SeqParts
<1>2. DOMAIN gs = 1..(n + 1) /\ \A j \in 1..(n + 1) : gs[j] = IF j = n + 1 THEN fr ELSE fs[j]  BY <1>1
<1> HIDE DEF n, gs
<1>3. \A j \in 1..(n + 1) : j # n + 1 => j \in 1..n  BY <1>1
<1>4. FramesIn(K, gs)  BY <1>1, <1>2, <1>3 DEF FramesIn
<1> QED  BY <1>4 DEF gs

LEMMA FrameGone ==
    ASSUME NEW K, NEW fs \in Seq(CallFrames), FramesIn(K, fs), fs # <<>>, NEW k,
           NEW to, to.locals \in Seq(K), to.stack \in Seq(K)
    PROVE  FramesIn(K, [Front(fs) EXCEPT ![k] = to])
<1> DEFINE hs == Front(fs)
           n == Len(fs)
           gs == [hs EXCEPT ![k] = to]
<1>1. hs \in Seq(CallFrames) /\ Len(hs) = n - 1 /\ n \in Nat \ {0} /\ \A i \in 1..(n - 1) : hs[i] = fs[i]
  BY FrontIs
<1>2. DOMAIN fs = 1..n /\ DOMAIN hs = 1..(n - 1)  BY <1>1, SeqParts
<1>3. DOMAIN gs = DOMAIN hs /\ \A j \in DOMAIN hs : gs[j] = IF j = k THEN to ELSE hs[j]  OBVIOUS
<1> HIDE DEF hs, n, gs
<1>4. \A j \in DOMAIN hs : j \in DOMAIN fs /\ hs[j] = fs[j]  BY <1>1, <1>2
<1>5. FramesIn(K, gs)  BY <1>3, <1>4 DEF FramesIn
<1> QED  BY <1>5 DEF gs, hs

LEMMA NoneSure == \A h : None \in Sure(h)
BY DEF Sure, Slots, None, IsHeap

\* What the running frame holds is in use.
LEMMA TopHeld ==
    ASSUME MachineInv, Firm, phase \in {"running", "pending"}, NEW K, K = Sure(heap)
    PROVE  /\ Last(frames).locals \in Seq(K) /\ Last(frames).stack \in Seq(K)
           /\ \A k \in Nat : 1 <= k /\ k <= Len(Stack) => Operand(k) \in K
           /\ frames \in Seq(CallFrames) /\ frames # <<>> /\ FramesIn(K, frames) /\ inputs \in Seq(K) /\ result \in Seq(K)
           /\ heap \in Heaps /\ Sound(heap)
<1>1. /\ AllMatch(module, frames) /\ frames \in Seq(CallFrames) /\ heap \in Heaps  BY MachineReady
<1>2. Last(frames) = frames[Len(frames)] /\ Len(frames) \in DOMAIN frames /\ frames # <<>>
  BY <1>1, TopFrame DEF AllMatch
<1>3. FramesIn(K, frames) /\ inputs \in Seq(K) /\ result \in Seq(K) /\ Sound(heap)  BY DEF Firm
<1>4. Last(frames).locals \in Seq(K) /\ Last(frames).stack \in Seq(K)  BY <1>2, <1>3 DEF FramesIn
<1>5. ASSUME NEW k \in Nat, 1 <= k, k <= Len(Stack) PROVE Operand(k) \in K
  <2> DEFINE s == Stack
             n == Len(s)
             j == n + 1 - k
  <2>1. s \in Seq(K)  BY <1>4 DEF Stack, Frame
  <2>2. n \in Nat /\ DOMAIN s = 1..n  BY <2>1, SeqParts
  <2>3. k <= n  BY <1>5
  <2>4. Operand(k) = s[j]  BY DEF Operand
  <2> HIDE DEF s, n
  <2>5. j \in 1..n  BY <1>5, <2>2, <2>3
  <2> HIDE DEF j
  <2> QED  BY <2>1, <2>2, <2>4, <2>5, SeqParts
<1> QED  BY <1>1, <1>2, <1>3, <1>4, <1>5

----------------------------------------------------------------------------
(* What an instruction leaves of what others hold. *)

LEMMA AreSlots ==
    ASSUME NEW s \in Seq(HeapValues(Ids))
    PROVE  s \in Seq(Slots)
<1>1. HeapValues(Ids) \subseteq Slots  BY DEF Slots
<1> QED  BY <1>1, SeqGrows

FrontPlaces == Places(Front(frames)) \o Frame.locals \o inputs

LEMMA FrontHeld ==
    ASSUME MachineInv, phase = "running"
    PROVE  /\ FrontPlaces \in Seq(Slots)
           /\ Range(FrontPlaces) = ValuesOf(Front(frames)) \cup Range(Frame.locals) \cup Range(inputs)
           /\ Others = Range(FrontPlaces) \cup {Stack[k] : k \in DOMAIN Stack \ Target}
<1>1. /\ AllMatch(module, frames) /\ frames \in Seq(CallFrames) /\ inputs \in Seq(HeapValues(Ids))
      /\ Frame = Last(frames)
  BY MachineReady
<1>2. Frame.locals \in Seq(Slots)  BY <1>1, TopFrame
<1>3. Front(frames) \in Seq(CallFrames)
  <2>1. frames # <<>>  BY <1>1 DEF AllMatch
  <2> QED  BY <1>1, <2>1, FrontIs
<1>4. inputs \in Seq(Slots)  BY <1>1, AreSlots
<1> DEFINE p == Places(Front(frames))
           q == p \o Frame.locals
           r == q \o inputs
<1>5. p \in Seq(Slots) /\ Range(p) = ValuesOf(Front(frames))  BY <1>3, PlacesTyped
<1>6. FrontPlaces = r /\ Others = Range(r) \cup {Stack[k] : k \in DOMAIN Stack \ Target}
  BY DEF Others, FrontPlaces
<1> HIDE DEF p
<1>7. q \in Seq(Slots) /\ Range(q) = Range(p) \cup Range(Frame.locals)  BY <1>2, <1>5, RangeJoined
<1> HIDE DEF q
<1>8. r \in Seq(Slots) /\ Range(r) = Range(q) \cup Range(inputs)  BY <1>4, <1>7, RangeJoined
<1> QED  BY <1>5, <1>6, <1>7, <1>8

LEMMA OthersSure ==
    ASSUME MachineInv, Firm, phase = "running"
    PROVE  Others \subseteq Sure(heap)
<1> DEFINE K == Sure(heap)
<1>1. /\ Last(frames).locals \in Seq(K) /\ Last(frames).stack \in Seq(K)
      /\ frames \in Seq(CallFrames) /\ frames # <<>> /\ FramesIn(K, frames) /\ inputs \in Seq(K)
  BY TopHeld
<1> HIDE DEF K
<1>2. Frame = Last(frames) /\ Stack = Last(frames).stack  BY DEF Frame, Stack
<1>3. ValuesOf(Front(frames)) \subseteq K
  <2> DEFINE hs == Front(frames)
             n == Len(frames)
  <2>1. hs \in Seq(CallFrames) /\ Len(hs) = n - 1 /\ n \in Nat \ {0} /\ \A i \in 1..(n - 1) : hs[i] = frames[i]
    BY <1>1, FrontIs
  <2>2. DOMAIN frames = 1..n /\ DOMAIN hs = 1..(n - 1)  BY <1>1, <2>1, SeqParts
  <2> HIDE DEF hs, n
  <2>3. \A j \in DOMAIN hs : j \in DOMAIN frames /\ hs[j] = frames[j]  BY <2>1, <2>2
  <2>4. FramesIn(K, hs)  BY <1>1, <2>3 DEF FramesIn
  <2>5. ValuesOf(hs) \subseteq K  BY <2>1, <2>4, FramesWithin
  <2> QED  BY <2>5 DEF hs
<1>4. Range(Frame.locals) \subseteq K /\ Range(inputs) \subseteq K  BY <1>1, <1>2, SeqParts DEF Range
<1>5. {Stack[k] : k \in DOMAIN Stack \ Target} \subseteq K  BY <1>1, <1>2, SeqParts
<1> QED  BY <1>3, <1>4, <1>5, FrontHeld DEF K

\* What an action may do to an object that something but its operand reaches.
Untouched == \A id \in Reach(heap, Others) : heap'[id] \in {heap[id], Free}

LEMMA KeptUntouched ==
    ASSUME MachineInv, Firm, phase = "running", NEW h, Keeps(heap, h), NEW live, heap' = Collected(h, live)
    PROVE  Untouched
<1>1. Others \subseteq Sure(heap)  BY OthersSure
<1>2. Sound(heap)  BY DEF Firm
<1>3. Roots(Others) \subseteq InUse(heap)  BY <1>1, SlotIds DEF Roots, Sure, InUse
<1>4. \A j \in InUse(heap) : PartIds(heap[j]) \subseteq InUse(heap)  BY <1>2 DEF Sound, InUse
<1>5. Reach(heap, Others) \subseteq InUse(heap)  BY <1>3, <1>4, ReachInside
<1>6. \A id \in InUse(heap) : id \in Ids /\ h[id] = heap[id]  BY DEF Keeps, InUse
<1>7. \A id \in Ids : heap'[id] \in {h[id], Free}  BY DEF Collected
<1> QED  BY <1>5, <1>6, <1>7 DEF Untouched

\* An instruction that leaves what it holds in use, and nothing changed.
LEMMA BecomesGood ==
    ASSUME MachineInv, Firm, phase \in {"running", "pending"}, inputs' = inputs, NEW h \in Heaps, Sound(h),
           Keeps(heap, h), NEW fs \in Seq(CallFrames), FramesIn(Sure(h), fs), NEW res \in Seq(Sure(h)), NEW bytes,
           Becomes(fs, h, bytes, res)
    PROVE  Firm' /\ (phase = "running" => Untouched)
<1>1. inputs' \in Seq(Sure(h))
  <2>1. inputs \in Seq(Sure(heap))  BY DEF Firm
  <2>2. Sure(heap) \subseteq Sure(h)  BY SureGrows
  <2> QED  BY <2>1, <2>2, SeqGrows
<1>2. Firm'  BY <1>1, BecomesFirm
<1>3. \E live : heap' = Collected(h, live)  BY DEF Becomes
<1> QED  BY <1>2, <1>3, KeptUntouched

LEMMA KeepsSame == \A h : Keeps(h, h)
BY DEF Keeps

\* The same for one that replaces its operands by a value.
LEMMA PlainFirm ==
    ASSUME MachineInv, Firm, phase \in {"running", "pending"}, UNCHANGED <<module, inputs>>, Instruction.op \in Plain,
           NEW h \in Heaps, Sound(h), Sure(heap) \subseteq Sure(h), NEW v \in HeapValues(Ids), v \in Sure(h), NEW bytes,
           Becomes(Replaced(Required(module, Instruction), v), h, bytes, result)
    PROVE  Firm'
<1> DEFINE n == Required(module, Instruction)
           gs == ReplacedIn(frames, n, v)
           K == Sure(h)
           stack == Last(frames).stack
           top == Append(SubSeq(stack, 1, Len(stack) - n), v)
<1>1. /\ module \in Candidates /\ Accepted(module) /\ AllMatch(module, frames) /\ frames \in Seq(CallFrames)
      /\ Instruction = CodeAt(module, Last(frames)) /\ Stack = stack
  BY MachineReady DEF Stack, Frame
<1>2. gs \in Seq(CallFrames) /\ Tops(gs, frames, Last(frames).locals, top)
  <2> DEFINE fs == frames
             m == module
  <2>1. /\ m \in Candidates /\ Accepted(m) /\ AllMatch(m, fs) /\ fs \in Seq(CallFrames)
        /\ CodeAt(m, Last(fs)).op \in Plain /\ n = Required(m, CodeAt(m, Last(fs)))
    BY <1>1
  <2> HIDE DEF n, fs, m
  <2>2. /\ ReplacedIn(fs, n, v) \in Seq(CallFrames)
        /\ Tops(ReplacedIn(fs, n, v), fs, Last(fs).locals,
                Append(SubSeq(Last(fs).stack, 1, Len(Last(fs).stack) - n), v))
    BY <2>1, ReplacedMatches
  <2> QED  BY <2>2 DEF fs, m
<1>3. n \in Nat /\ n <= Len(stack) /\ Len(stack) \in Nat  BY <1>1, InstructionReady, MachineReady
<1>4. Replaced(n, v) = gs  BY DEF ReplacedIn, Replaced
<1>5. Sound(h) /\ v \in K  OBVIOUS
<1>6. Sure(heap) \subseteq K  OBVIOUS
<1>7. stack \in Seq(K) /\ Last(frames).locals \in Seq(K) /\ FramesIn(K, frames) /\ result \in Seq(K)
      /\ inputs \in Seq(K)
  <2> DEFINE L == Sure(heap)
  <2>1. stack \in Seq(L) /\ Last(frames).locals \in Seq(L) /\ FramesIn(L, frames) /\ result \in Seq(L)
        /\ inputs \in Seq(L)
    BY TopHeld
  <2>2. L \subseteq K  BY <1>6
  <2> HIDE DEF L, K, stack
  <2> QED  BY <2>1, <2>2, SeqGrows, FramesGrow
<1> HIDE DEF n, gs, K, stack
<1>8. top \in Seq(K)
  <2> DEFINE size == Len(stack) - n
             base == SubSeq(stack, 1, size)
  <2>1. size \in Nat /\ size <= Len(stack)  BY <1>3
  <2> HIDE DEF size
  <2>2. base \in Seq(K)  BY <1>7, <2>1, SubSeqIs
  <2> HIDE DEF base
  <2>3. Append(base, v) \in Seq(K)  BY <1>5, <2>2, AppendProperties
  <2> QED  BY <2>3 DEF base, size
<1> HIDE DEF top
<1>9. FramesIn(K, gs)  BY <1>2, <1>7, <1>8, TopsKept
<1>10. Becomes(gs, h, bytes, result)  BY <1>4 DEF n
<1>11. inputs' \in Seq(K)  BY <1>7
<1> QED  BY <1>2, <1>5, <1>7, <1>9, <1>10, <1>11, BecomesFirm DEF K

LEMMA PlainGood ==
    ASSUME MachineInv, Firm, phase \in {"running", "pending"}, UNCHANGED <<module, inputs>>, Instruction.op \in Plain,
           NEW h \in Heaps, NEW v \in HeapValues(Ids), Took(heap, h, v), NEW bytes,
           Becomes(Replaced(Required(module, Instruction), v), h, bytes, result)
    PROVE  Firm' /\ (phase = "running" => Untouched)
<1>1. Sound(h) /\ Keeps(heap, h) /\ v \in Sure(h)  BY DEF Took
<1>2. Sure(heap) \subseteq Sure(h)  BY <1>1, SureGrows
<1>3. Firm'  BY <1>1, <1>2, PlainFirm
<1>4. \E live : heap' = Collected(h, live)  BY DEF Becomes
<1> QED  BY <1>1, <1>3, <1>4, KeptUntouched

LEMMA PureGood ==
    ASSUME MachineInv, Firm, NEW ops, ops \subseteq Plain, Runs(ops), NEW v \in HeapValues(Ids), v \in Sure(heap), Pure(v)
    PROVE  Firm' /\ Untouched
<1>1. phase = "running" /\ Instruction.op \in Plain /\ UNCHANGED <<module, inputs>>  BY RunsWhat
<1>2. Sound(heap) /\ heap \in Heaps  BY <1>1, MachineReady DEF Firm
<1>3. Took(heap, heap, v)  BY <1>2, KeepsSame DEF Took
<1>4. Becomes(Replaced(Required(module, Instruction), v), heap, heapBytes, result)  BY DEF Pure
<1> QED  BY <1>1, <1>2, <1>3, <1>4, PlainGood

LEMMA ScalarSure ==
    ASSUME NEW h, NEW v \in HeapValues(Ids), ~IsHeap(v)
    PROVE  v \in Sure(h)
BY SureScalar

LEMMA PushGood == MachineInv /\ Firm /\ Push => Firm' /\ Untouched
<1> SUFFICES ASSUME MachineInv, Firm, Push PROVE Firm' /\ Untouched  OBVIOUS
<1> DEFINE v == CASE Instruction.op = "Const" -> Integer(Instruction.n)
                  [] Instruction.op = "Input" -> inputs[Instruction.n]
                  [] Instruction.op = "LocalGet" -> Frame.locals[Instruction.n]
           ops == {"Const", "Input", "LocalGet"}
           K == Sure(heap)
<1>1. Runs(ops) /\ Pure(v)  BY DEF Push
<1>2. phase = "running" /\ Instruction.op \in ops /\ ~Mistyped(Instruction)  BY <1>1, RunsWhat
<1>3. v \in HeapValues(Ids) /\ v \in K
  <2>1. inputs \in Seq(HeapValues(Ids)) /\ inputs \in Seq(K)  BY <1>2, MachineReady, TopHeld
  <2>2. Instruction.n \in Int  BY <1>2, InstructionReady
  <2>3. CASE Instruction.op = "Const"
    <3> DEFINE x == Integer(Instruction.n)
    <3>1. x \in HeapValues(Ids) /\ ~IsHeap(x)  BY <2>2, ScalarsTyped DEF Integer, IsHeap
    <3> HIDE DEF x
    <3>2. x \in K  BY <3>1, ScalarSure
    <3> QED  BY <2>3, <3>1, <3>2 DEF x
  <2>4. CASE Instruction.op = "Input"
    <3>1. Instruction.n \in DOMAIN inputs  BY <1>2, <2>4 DEF Mistyped
    <3> HIDE DEF K
    <3>2. inputs[Instruction.n] \in HeapValues(Ids) /\ inputs[Instruction.n] \in K  BY <2>1, <3>1, SeqParts
    <3> QED  BY <2>4, <3>2
  <2>5. CASE Instruction.op = "LocalGet"
    <3> DEFINE x == Instruction.n
               locals == Frame.locals
    <3>1. locals[x] \in HeapValues(Ids)  BY <1>2, <2>5, InstructionReady
    <3>2. locals \in Seq(K)  BY <1>2, TopHeld DEF Frame
    <3>3. x \in DOMAIN locals
      <4> DEFINE fr == Frame
      <4>1. /\ module \in Candidates /\ Accepted(module) /\ fr \in CallFrames /\ Matches(module, fr, 0)
            /\ Instruction = CodeAt(module, fr)
        BY <1>2, MachineReady
      <4> HIDE DEF fr
      <4>2. x = CodeAt(module, fr).n /\ CodeAt(module, fr).op = "LocalGet"  BY <2>5, <4>1
      <4> HIDE DEF x
      <4> QED  BY <4>1, <4>2, FrameReady DEF fr
    <3> HIDE DEF x, locals, K
    <3>4. locals[x] \in K  BY <3>2, <3>3, SeqParts
    <3> QED  BY <2>5, <3>1, <3>4 DEF x, locals
  <2> QED  BY <1>2, <2>3, <2>4, <2>5
<1> HIDE DEF v
<1>4. ops \subseteq Plain  BY DEF Plain, Ops, Pushing
<1> QED  BY <1>1, <1>3, <1>4, PureGood

LEMMA ComputeGood == MachineInv /\ Firm /\ Compute => Firm' /\ Untouched
<1> SUFFICES ASSUME MachineInv, Firm, Compute PROVE Firm' /\ Untouched  OBVIOUS
<1> DEFINE sum == Arithmetic(Instruction.op, Operand(2).of, Operand(1).of)
           v == CASE Instruction.op = "Eq" -> Bool(Operand(2) = Operand(1))
                  [] Instruction.op = "Lt" -> Bool(Operand(2).of < Operand(1).of)
                  [] OTHER -> Integer(sum)
           ops == {"Add", "Sub", "Mul", "Div", "Eq", "Lt"}
<1>1. Runs(ops) /\ Pure(v)  BY DEF Compute
<1>2. phase = "running" /\ Instruction.op \in ops /\ ~Mistyped(Instruction)  BY <1>1, RunsWhat
<1>3. v \in HeapValues(Ids)
  <2>1. CASE Instruction.op = "Eq"  BY <2>1, BoolTyped
  <2>2. CASE Instruction.op = "Lt"  BY <2>2, BoolTyped
  <2>3. CASE Instruction.op \in {"Add", "Sub", "Mul", "Div"}
    <3>1. sum \in MinInt..MaxInt  BY <1>2, <2>3 DEF Mistyped
    <3> HIDE DEF sum
    <3>2. sum \in Int  BY <3>1, HeapAssumption
    <3>3. Integer(sum) \in HeapValues(Ids)  BY <3>2, ScalarsTyped
    <3> QED  BY <2>3, <3>3
  <2> QED  BY <1>2, <2>1, <2>2, <2>3
<1>4. ~IsHeap(v)
  <2> HIDE DEF sum
  <2>1. v.kind = "bool" \/ v.kind = "integer"
    <3>1. (\E b : v = Bool(b)) \/ (\E n : v = Integer(n))  OBVIOUS
    <3> QED  BY <3>1 DEF Bool, Integer
  <2> QED  BY <2>1 DEF IsHeap
<1> HIDE DEF v
<1>5. v \in Sure(heap)  BY <1>3, <1>4, ScalarSure
<1>6. ops \subseteq Plain  BY DEF Plain, Ops, Binary
<1> QED  BY <1>1, <1>3, <1>5, <1>6, PureGood

LEMMA JumpGood == MachineInv /\ Firm /\ Jump => Firm' /\ Untouched
<1> SUFFICES ASSUME MachineInv, Firm, Jump PROVE Firm' /\ Untouched  OBVIOUS
<1> DEFINE i == Instruction
           taken == i.op = "Jump" \/ Operand(1).of = 0
           gs == JumpedIn(frames, i, taken)
           K == Sure(heap)
           stack == Last(frames).stack
<1>1. Runs({"Jump", "JumpIfZero"}) /\ Becomes(gs, heap, heapBytes, result)  BY DEF Jump, JumpedIn
<1>2. phase = "running" /\ i.op \in {"Jump", "JumpIfZero"} /\ UNCHANGED <<module, inputs>>  BY <1>1, RunsWhat
<1>3. /\ module \in Candidates /\ Accepted(module) /\ AllMatch(module, frames) /\ frames \in Seq(CallFrames)
      /\ i = CodeAt(module, Last(frames)) /\ heap \in Heaps
  BY <1>2, MachineReady
<1>4. taken \in BOOLEAN /\ (i.op = "Jump" => taken)  OBVIOUS
<1>5. stack \in Seq(K) /\ Last(frames).locals \in Seq(K) /\ FramesIn(K, frames) /\ result \in Seq(K) /\ Sound(heap)
  BY <1>2, TopHeld
<1> HIDE DEF i, taken, K
<1>6. /\ gs \in Seq(CallFrames) /\ (i.op # "Jump" => stack # <<>>)
      /\ Tops(gs, frames, Last(frames).locals, IF i.op = "Jump" THEN stack ELSE Front(stack))
  BY <1>2, <1>3, <1>4, JumpMatches
<1> HIDE DEF gs, stack
<1>7. (IF i.op = "Jump" THEN stack ELSE Front(stack)) \in Seq(K)
  <2>1. CASE i.op = "Jump"  BY <1>5, <2>1
  <2>2. CASE i.op # "Jump"
    <3>1. Front(stack) \in Seq(K)  BY <1>5, <1>6, <2>2, FrontIs
    <3> QED  BY <2>2, <3>1
  <2> QED  BY <2>1, <2>2
<1>8. FramesIn(K, gs)  BY <1>5, <1>6, <1>7, TopsKept
<1> QED  BY <1>1, <1>2, <1>3, <1>5, <1>6, <1>8, KeepsSame, BecomesGood DEF K

LEMMA LocalTakeGood == MachineInv /\ Firm /\ LocalTake => Firm' /\ Untouched
<1> SUFFICES ASSUME MachineInv, Firm, LocalTake PROVE Firm' /\ Untouched  OBVIOUS
<1> DEFINE x == Instruction.n
           gs == [ReplacedIn(frames, 0, Last(frames).locals[x]) EXCEPT ![Len(frames)].locals[x] = None]
           K == Sure(heap)
           stack == Last(frames).stack
           locals == Last(frames).locals
           top == Append(SubSeq(stack, 1, Len(stack) - 0), locals[x])
           left == [locals EXCEPT ![x] = None]
<1>1. Runs({"LocalTake"}) /\ Becomes(gs, heap, heapBytes, result)
  BY DEF LocalTake, Replaced, ReplacedIn, Frame
<1>2. phase = "running" /\ Instruction.op = "LocalTake" /\ UNCHANGED <<module, inputs>>  BY <1>1, RunsWhat
<1>3. /\ module \in Candidates /\ Accepted(module) /\ AllMatch(module, frames) /\ frames \in Seq(CallFrames)
      /\ Instruction = CodeAt(module, Last(frames)) /\ heap \in Heaps
  BY <1>2, MachineReady
<1>4. CodeAt(module, Last(frames)).op = "LocalTake" /\ x = CodeAt(module, Last(frames)).n  BY <1>2, <1>3
<1>5. stack \in Seq(K) /\ locals \in Seq(K) /\ FramesIn(K, frames) /\ result \in Seq(K) /\ Sound(heap)
  BY <1>2, TopHeld
<1> HIDE DEF x, K
<1>6. gs \in Seq(CallFrames) /\ Tops(gs, frames, left, top)  BY <1>3, <1>4, TakenMatches
<1>7. x \in DOMAIN locals
  <2> DEFINE fr == Last(frames)
  <2>1. fr \in CallFrames /\ Matches(module, fr, 0)  BY <1>3, TopFrame
  <2> HIDE DEF fr
  <2> QED  BY <1>3, <1>4, <2>1, FrameReady DEF fr
<1> HIDE DEF gs, stack, locals
<1>8. locals[x] \in K  BY <1>5, <1>7, SeqParts
<1>9. left \in Seq(K)
  <2>1. None \in K  BY NoneSure DEF K
  <2> DEFINE none == None
  <2> HIDE DEF none
  <2>2. [locals EXCEPT ![x] = none] \in Seq(K)  BY <1>5, <2>1, OneChanged DEF none
  <2> QED  BY <2>2 DEF none
<1>10. top \in Seq(K)
  <2> DEFINE size == Len(stack) - 0
             base == SubSeq(stack, 1, size)
             y == locals[x]
  <2>1. size \in Nat /\ size <= Len(stack)  BY <1>5, SeqParts
  <2> HIDE DEF size
  <2>2. base \in Seq(K)  BY <1>5, <2>1, SubSeqIs
  <2> HIDE DEF base
  <2>3. y \in K  BY <1>8
  <2> HIDE DEF y
  <2>4. Append(base, y) \in Seq(K)  BY <2>2, <2>3, AppendProperties
  <2> QED  BY <2>4 DEF base, size, y
<1> HIDE DEF left, top
<1>11. FramesIn(K, gs)  BY <1>5, <1>6, <1>9, <1>10, TopsKept
<1> QED  BY <1>1, <1>2, <1>3, <1>5, <1>6, <1>11, KeepsSame, BecomesGood DEF K

LEMMA LocalSetGood == MachineInv /\ Firm /\ LocalSet => Firm' /\ Untouched
<1> SUFFICES ASSUME MachineInv, Firm, LocalSet PROVE Firm' /\ Untouched  OBVIOUS
<1> DEFINE x == Instruction.n
           v == Operand(1)
           gs == [frames EXCEPT ![Len(frames)].locals[x] = v, ![Len(frames)].stack = Front(@),
                                ![Len(frames)].ip = @ + 1]
           K == Sure(heap)
           stack == Last(frames).stack
           locals == Last(frames).locals
           left == [locals EXCEPT ![x] = v]
<1>1. Runs({"LocalSet"}) /\ Becomes(gs, heap, heapBytes, result)  BY DEF LocalSet
<1>2. phase = "running" /\ Instruction.op = "LocalSet" /\ UNCHANGED <<module, inputs>>  BY <1>1, RunsWhat
<1>3. /\ module \in Candidates /\ Accepted(module) /\ AllMatch(module, frames) /\ frames \in Seq(CallFrames)
      /\ Instruction = CodeAt(module, Last(frames)) /\ heap \in Heaps
  BY <1>2, MachineReady
<1>4. CodeAt(module, Last(frames)).op = "LocalSet" /\ x = CodeAt(module, Last(frames)).n  BY <1>2, <1>3
<1>5. v \in HeapValues(Ids) /\ v \in K
  <2>1. Required(module, Instruction) = 1  BY <1>2 DEF Required, Pushing, Binary
  <2>2. Len(Stack) >= 1  BY <1>2, <2>1, InstructionReady
  <2>3. Len(Stack) \in Nat  BY <1>2, MachineReady
  <2>4. v \in K
    <3> HIDE DEF K
    <3>1. K = Sure(heap)  BY DEF K
    <3>2. 1 <= Len(Stack)  BY <2>2, <2>3
    <3> QED  BY <1>2, <3>1, <3>2, TopHeld
  <2> QED  BY <1>2, <2>1, <2>4, InstructionReady
<1>6. stack \in Seq(K) /\ locals \in Seq(K) /\ FramesIn(K, frames) /\ result \in Seq(K) /\ Sound(heap)
  BY <1>2, TopHeld
<1> HIDE DEF x, v, K
<1>7. gs \in Seq(CallFrames) /\ stack # <<>> /\ Tops(gs, frames, left, Front(stack))
  BY <1>3, <1>4, <1>5, SetMatches
<1> HIDE DEF gs, stack, locals
<1>8. left \in Seq(K)  BY <1>5, <1>6, OneChanged
<1> HIDE DEF left
<1>9. Front(stack) \in Seq(K)  BY <1>6, <1>7, FrontIs
<1>10. FramesIn(K, gs)  BY <1>6, <1>7, <1>8, <1>9, TopsKept
<1> QED  BY <1>1, <1>2, <1>3, <1>6, <1>7, <1>10, KeepsSame, BecomesGood DEF K

LEMMA CalleeHeld ==
    ASSUME NEW K, None \in K, NEW stack \in Seq(K), NEW base \in Nat, NEW arity \in Nat, NEW size \in Nat,
           base + arity = Len(stack)
    PROVE  CalleeLocals(stack, base, arity, size) \in Seq(K)
<1> DEFINE locals == CalleeLocals(stack, base, arity, size)
<1>1. \A k \in 1..size : k <= arity => stack[base + k] \in K
  <2> SUFFICES ASSUME NEW k \in 1..size, k <= arity PROVE stack[base + k] \in K  OBVIOUS
  <2> DEFINE q == base + k
  <2>1. q \in 1..Len(stack)  OBVIOUS
  <2> HIDE DEF q
  <2>2. stack[q] \in K  BY <2>1, SeqParts
  <2> QED  BY <2>2 DEF q
<1>2. DOMAIN locals = 1..size /\ \A k \in 1..size : locals[k] = IF k <= arity THEN stack[base + k] ELSE None
  BY DEF CalleeLocals
<1>3. \A k \in 1..size : locals[k] \in K  BY <1>1, <1>2
<1>4. locals = [k \in 1..size |-> locals[k]]  BY <1>2 DEF CalleeLocals
<1> HIDE DEF locals
<1>5. locals \in [1..size -> K]  BY <1>3, <1>4
<1>6. locals \in Seq(K)  BY <1>5
<1> QED  BY <1>6 DEF locals

LEMMA CallGood == MachineInv /\ Firm /\ Call => Firm' /\ Untouched
<1> SUFFICES ASSUME MachineInv, Firm, Call PROVE Firm' /\ Untouched  OBVIOUS
<1> DEFINE i == Instruction
           arity == module.functions[i.n].arity
           size == module.functions[i.n].locals
           stack == Last(frames).stack
           depth == Len(Last(frames).stack)
           callee == CalleeLocals(stack, depth - arity, arity, size)
           gs == CalledIn(frames, i.n, depth - arity, callee)
           K == Sure(heap)
<1>1. Runs({"Call"}) /\ Becomes(gs, heap, heapBytes, result)
  BY DEF Call, CalledIn, CalleeLocals, Stack, Frame
<1>2. phase = "running" /\ i.op = "Call" /\ UNCHANGED <<module, inputs>>  BY <1>1, RunsWhat
<1>3. /\ module \in Candidates /\ Accepted(module) /\ AllMatch(module, frames) /\ frames \in Seq(CallFrames)
      /\ i = CodeAt(module, Last(frames)) /\ heap \in Heaps
  BY <1>2, MachineReady
<1>4. stack \in Seq(K) /\ Last(frames).locals \in Seq(K) /\ FramesIn(K, frames) /\ result \in Seq(K) /\ Sound(heap)
  BY <1>2, TopHeld
<1>5. /\ gs \in Seq(CallFrames) /\ depth - arity \in Nat /\ depth - arity <= depth
      /\ Enters(gs, frames, depth - arity, i.n, callee)
  <2>1. arity = module.functions[i.n].arity /\ size = module.functions[i.n].locals
        /\ depth = Len(Last(frames).stack)
    OBVIOUS
  <2> HIDE DEF i, arity, size, depth
  <2> QED  BY <1>2, <1>3, <2>1, CallMatches
<1>6. arity \in Nat /\ size \in Nat
  <2>1. i.n \in DOMAIN module.functions  BY <1>2, InstructionReady DEF InRange
  <2> QED  BY <1>3, <2>1, PartsTyped
<1>7. depth \in Nat  BY <1>4, SeqParts
<1> HIDE DEF i, arity, size, K, gs, callee
<1>8. callee \in Seq(K)
  <2> DEFINE base == depth - arity
  <2>1. base \in Nat /\ base + arity = depth  BY <1>5, <1>6, <1>7
  <2>2. None \in K  BY NoneSure DEF K
  <2> HIDE DEF base, stack
  <2>3. base + arity = Len(stack)  BY <2>1 DEF stack
  <2>4. CalleeLocals(stack, base, arity, size) \in Seq(K)  BY <1>4, <1>6, <2>1, <2>2, <2>3, CalleeHeld
  <2> QED  BY <2>4 DEF callee, base, stack
<1>9. SubSeq(stack, 1, depth - arity) \in Seq(K)
  <2> DEFINE base == depth - arity
  <2>1. base \in Nat /\ base <= Len(stack)  BY <1>5
  <2> HIDE DEF base, stack
  <2>2. SubSeq(stack, 1, base) \in Seq(K)  BY <1>4, <2>1, SubSeqIs
  <2> QED  BY <2>2 DEF base, stack
<1> DEFINE below == SubSeq(stack, 1, depth - arity)
           top == FrameOf(i.n, callee)
           own == Last(frames).locals
<1>10. \E hs \in Seq(CallFrames) : Tops(hs, frames, own, below) /\ gs = Append(hs, top)  BY <1>5 DEF Enters
<1>11. top.locals = callee /\ top.stack = <<>>  BY DEF FrameOf
<1> HIDE DEF below, top, own
<1>12. FramesIn(K, gs)
  <2>1. PICK hs \in Seq(CallFrames) : Tops(hs, frames, own, below) /\ gs = Append(hs, top)  BY <1>10
  <2>2. FramesIn(K, hs)  BY <1>4, <1>9, <2>1, TopsKept DEF below, own
  <2>3. top.locals \in Seq(K) /\ top.stack \in Seq(K)  BY <1>8, <1>11
  <2> QED  BY <2>1, <2>2, <2>3, FrameAdded
<1> QED  BY <1>1, <1>2, <1>3, <1>4, <1>5, <1>12, KeepsSame, BecomesGood DEF K

LEMMA ReturnGood == MachineInv /\ Firm /\ Return => Firm' /\ Untouched
<1> SUFFICES ASSUME MachineInv, Firm, Return PROVE Firm' /\ Untouched  OBVIOUS
<1> DEFINE v == Operand(1)
           K == Sure(heap)
<1>1. Runs({"Return"})  BY DEF Return
<1>2. phase = "running" /\ Instruction.op = "Return" /\ UNCHANGED <<module, inputs>>  BY <1>1, RunsWhat
<1>3. /\ module \in Candidates /\ Accepted(module) /\ AllMatch(module, frames) /\ frames \in Seq(CallFrames)
      /\ heap \in Heaps /\ Len(frames) \in Nat \ {0}
  BY <1>2, MachineReady
<1>4. frames # <<>> /\ FramesIn(K, frames) /\ result \in Seq(K) /\ Sound(heap)  BY <1>2, TopHeld
<1>5. v \in HeapValues(Ids) /\ v \in K
  <2>1. Required(module, Instruction) = 1  BY <1>2 DEF Required, Pushing, Binary
  <2>2. Len(Stack) >= 1  BY <1>2, <2>1, InstructionReady
  <2>3. Len(Stack) \in Nat  BY <1>2, MachineReady
  <2>4. v \in K
    <3> HIDE DEF K
    <3>1. K = Sure(heap)  BY DEF K
    <3>2. 1 <= Len(Stack)  BY <2>2, <2>3
    <3> QED  BY <1>2, <3>1, <3>2, TopHeld
  <2> QED  BY <1>2, <2>1, <2>4, InstructionReady
<1>6. CASE Len(frames) = 1
  <2>1. Becomes(frames, heap, heapBytes, <<v>>)  BY <1>6 DEF Return
  <2> HIDE DEF v, K
  <2>2. <<v>> \in Seq(K)  BY <1>5
  <2> QED  BY <1>2, <1>3, <1>4, <2>1, <2>2, KeepsSame, BecomesGood DEF K
<1>7. CASE Len(frames) # 1
  <2> DEFINE l == Len(frames)
             gs == [Front(frames) EXCEPT ![l - 1].stack = Append(@, v)]
  <2>1. Becomes(gs, heap, heapBytes, result)  BY <1>7 DEF Return
  <2> HIDE DEF v, K
  <2>2. l > 1 /\ l - 1 \in 1..l
    <3>1. l \in Nat \ {0} /\ l # 1  BY <1>3, <1>7
    <3> HIDE DEF l
    <3> QED  BY <3>1
  <2>3. gs \in Seq(CallFrames) /\ Leaves(gs, frames, v)  BY <1>3, <1>5, <2>2, ReturnMatches
  <2> HIDE DEF gs
  <2>4. PICK to : /\ gs = [Front(frames) EXCEPT ![l - 1] = to]
                  /\ to.locals = frames[l - 1].locals /\ to.stack = Append(frames[l - 1].stack, v)
    BY <2>3 DEF Leaves
  <2>5. l - 1 \in DOMAIN frames  BY <1>3, <2>2, SeqParts
  <2> DEFINE below == frames[l - 1]
  <2>6. below.locals \in Seq(K) /\ below.stack \in Seq(K)  BY <1>4, <2>5 DEF FramesIn
  <2> HIDE DEF below
  <2>7. Append(below.stack, v) \in Seq(K)  BY <1>5, <2>6, AppendProperties
  <2>8. to.locals \in Seq(K) /\ to.stack \in Seq(K)  BY <2>4, <2>6, <2>7 DEF below
  <2>9. FramesIn(K, gs)  BY <1>3, <1>4, <2>4, <2>8, FrameGone
  <2> QED  BY <1>2, <1>3, <1>4, <2>1, <2>3, <2>9, KeepsSame, BecomesGood DEF K
<1> QED  BY <1>6, <1>7

LEMMA SameFirm ==
    ASSUME Firm, UNCHANGED <<frames, heap, inputs, result>>
    PROVE  Firm' /\ Untouched
<1>1. frames' = frames /\ heap' = heap /\ inputs' = inputs /\ result' = result  OBVIOUS
<1> QED  BY <1>1 DEF Firm, Sound, Sure, InUse, FramesIn, Untouched

LEMMA ResumeGood == MachineInv /\ Firm /\ Resume => Firm'
<1> SUFFICES ASSUME MachineInv, Firm, Resume PROVE Firm'  OBVIOUS
<1>1. PICK answer \in Answers :
        LET arity == module.imports[Instruction.n].arity IN
        /\ phase = "pending" /\ HasRoom(heap, Len(answer.objects))
        /\ phase' = "running" /\ UNCHANGED <<module, inputs>>
        /\ Becomes(Replaced(arity, ImportedValue(heap, answer)), Imported(heap, answer).heap,
                   heapBytes + OwnedCharge(answer), result)
  BY DEF Resume
<1>2. Instruction.op = "Import"  BY <1>1 DEF MachineInv, Waits
<1>3. Required(module, Instruction) = module.imports[Instruction.n].arity
  BY <1>2 DEF Required, Pushing, Binary
<1>4. heap \in Heaps /\ Sound(heap)  BY <1>1, MachineReady DEF Firm
<1>5. answer \in OwnedValues /\ PartsFirst(answer)  BY MachineAssumption
<1> DEFINE v == ImportedValue(heap, answer)
           h == Imported(heap, answer).heap
           bytes == heapBytes + OwnedCharge(answer)
<1>6. v \in HeapValues(Ids) /\ h \in Heaps /\ Took(heap, h, v)  BY <1>1, <1>4, <1>5, LetInTyped
<1>7. Becomes(Replaced(Required(module, Instruction), v), h, bytes, result)  BY <1>1, <1>3
<1>8. Instruction.op \in Plain  BY <1>2 DEF Plain, Ops
<1> HIDE DEF v, h, bytes
<1> QED  BY <1>1, <1>6, <1>7, <1>8, PlainGood

LEMMA PushConstantGood == MachineInv /\ Firm /\ PushConstant => Firm' /\ Untouched
<1> SUFFICES ASSUME MachineInv, Firm, PushConstant PROVE Firm' /\ Untouched  OBVIOUS
<1> DEFINE owned == module.constants[Instruction.n]
           v == ImportedValue(heap, owned)
           h == Imported(heap, owned).heap
           bytes == heapBytes + OwnedCharge(owned)
<1>1. Runs({"ConstValue"}) /\ HasRoom(heap, Len(owned.objects)) /\ Becomes(Replaced(0, v), h, bytes, result)
  BY DEF PushConstant
<1>2. phase = "running" /\ Instruction.op = "ConstValue" /\ UNCHANGED <<module, inputs>>  BY <1>1, RunsWhat
<1>3. Required(module, Instruction) = 0  BY <1>2 DEF Required, Pushing, Binary
<1>4. heap \in Heaps /\ Sound(heap)  BY <1>2, MachineReady DEF Firm
<1>5. owned \in OwnedValues /\ PartsFirst(owned)
  <2>1. Instruction.n \in DOMAIN module.constants  BY <1>2, InstructionReady DEF InRange
  <2>2. module \in Modules  BY DEF MachineInv, MachineTyped
  <2> QED  BY <2>1, <2>2, ModulesTyped
<1> HIDE DEF owned
<1>6. v \in HeapValues(Ids) /\ h \in Heaps /\ Took(heap, h, v)  BY <1>1, <1>4, <1>5, LetInTyped
<1>7. Instruction.op \in Plain  BY <1>2 DEF Plain, Ops, Pushing
<1> HIDE DEF v, h, bytes
<1> QED  BY <1>1, <1>2, <1>3, <1>6, <1>7, PlainGood

LEMMA NewCollectionGood == MachineInv /\ Firm /\ NewCollection => Firm' /\ Untouched
<1> SUFFICES ASSUME MachineInv, Firm, NewCollection PROVE Firm' /\ Untouched  OBVIOUS
<1> DEFINE o == IF Instruction.op = "ListNew" THEN List(<<>>) ELSE Map(<<>>)
           v == Reference(NewId(heap))
           h == Allocated(heap, o, ObjectCharge, 0)
           bytes == heapBytes + ObjectCharge
<1>1. Runs({"ListNew", "MapNew"}) /\ HasRoom(heap, 1) /\ Becomes(Replaced(0, v), h, bytes, result)
  BY DEF NewCollection
<1>2. phase = "running" /\ Instruction.op \in {"ListNew", "MapNew"} /\ UNCHANGED <<module, inputs>>
  BY <1>1, RunsWhat
<1>3. Required(module, Instruction) = 0  BY <1>2 DEF Required, Pushing, Binary
<1>4. heap \in Heaps /\ Sound(heap)  BY <1>2, MachineReady DEF Firm
<1>5. o \in HeapObjects(Ids) /\ ObjectCharge \in Nat /\ 0 \in Nat  BY EmptyTyped, HeapAssumption
<1>6. Parts(o) \subseteq Sure(heap)
  <2>1. o.items = <<>> /\ o.entries = <<>>  BY DEF List, Map, Free
  <2> HIDE DEF o
  <2>2. Parts(o) = {}  BY <2>1 DEF Parts, Range
  <2> QED  BY <2>2
<1> HIDE DEF o
<1>7. HasRoom(heap, 0 + 1)  BY <1>1
<1>8. NewId(heap) \in Ids  BY <1>4, <1>5, <1>7, RoomGivesId
<1>9. v \in HeapValues(Ids) /\ h \in Heaps  BY <1>4, <1>5, <1>8, ScalarsTyped, AllocatedTyped
<1>10. Took(heap, h, v)  BY <1>4, <1>5, <1>6, <1>7, AllocatedFirm
<1>11. Instruction.op \in Plain  BY <1>2 DEF Plain, Ops, Pushing
<1> HIDE DEF v, h, bytes
<1> QED  BY <1>1, <1>2, <1>3, <1>9, <1>10, <1>11, PlainGood

\* What an object in a sound heap holds is in use.
LEMMA PartSure ==
    ASSUME NEW h \in Heaps, Sound(h), NEW id \in Ids, NEW v \in Parts(h[id])
    PROVE  v \in HeapValues(Ids) /\ v \in Sure(h)
<1>1. v \in HeapValues(Ids)  BY HeldTyped
<1>2. IsHeap(v) => v.of \in InUse(h)  BY DEF Sound, PartIds
<1> QED  BY <1>1, <1>2, SureScalar DEF InUse

LEMMA ObjectHeld ==
    ASSUME MachineInv, Firm, phase = "running", NEW k \in Nat, 1 <= k, k <= Required(module, Instruction),
           KindOf(Operand(k)) \in {"text", "list", "map"}
    PROVE  /\ \A v \in Parts(ObjectAt(k)) : v \in HeapValues(Ids) /\ v \in Sure(heap)
           /\ ObjectAt(k) \in HeapObjects(Ids) /\ Operand(k).of \in Ids /\ IsHeap(Operand(k))
<1>1. Operand(k) \in HeapValues(Ids) /\ heap \in Heaps  BY InstructionReady, MachineReady
<1>2. KindIn(heap, Operand(k)) \in {"text", "list", "map"}  BY DEF KindOf, KindIn
<1>3. IsHeap(Operand(k)) /\ Operand(k).of \in Ids /\ ObjectAt(k) \in HeapObjects(Ids)
  BY <1>1, <1>2, KindTells DEF ObjectAt
<1>4. \A v \in Parts(ObjectAt(k)) : v \in HeapValues(Ids) /\ v \in Sure(heap)
  BY <1>1, <1>3, PartSure DEF Firm, ObjectAt
<1> QED  BY <1>3, <1>4

LEMMA LookupGood == MachineInv /\ Firm /\ Lookup => Firm' /\ Untouched
<1> SUFFICES ASSUME MachineInv, Firm, Lookup PROVE Firm' /\ Untouched  OBVIOUS
<1> DEFINE item == ObjectAt(2).items[Operand(1).of + 1]
           size == Len(ObjectAt(1).items)
           found == CHOOSE e \in Entry(ObjectAt(2), ObjectAt(1).text) : TRUE
           v == CASE Instruction.op = "ListGet" -> item
                  [] Instruction.op = "ListLen" -> Integer(size)
                  [] Instruction.op = "MapGet" -> ObjectAt(2).entries[found].value
           ops == {"ListGet", "ListLen", "MapGet"}
           K == Sure(heap)
<1>1. Runs(ops) /\ Pure(v)  BY DEF Lookup
<1>2. phase = "running" /\ Instruction.op \in ops /\ ~Mistyped(Instruction)  BY <1>1, RunsWhat
<1>3. v \in HeapValues(Ids) /\ v \in K
  <2>1. CASE Instruction.op = "ListGet"
    <3>1. Required(module, Instruction) = 2  BY <2>1 DEF Required, Pushing, Binary
    <3>2. KindOf(Operand(2)) = "list" /\ Operand(1).of \in 0..(Len(ObjectAt(2).items) - 1)
      BY <1>2, <2>1 DEF Mistyped
    <3>3. ObjectAt(2) \in HeapObjects(Ids) /\ \A x \in Parts(ObjectAt(2)) : x \in HeapValues(Ids) /\ x \in K
      BY <1>2, <3>1, <3>2, ObjectHeld
    <3> DEFINE items == ObjectAt(2).items
               q == Operand(1).of + 1
    <3>4. items \in Seq(HeapValues(Ids))  BY <3>3, ObjectParts
    <3>5. q \in 1..Len(items)
      <4> DEFINE n == Len(items)
                 p == Operand(1).of
      <4>1. n \in Nat /\ p \in 0..(n - 1)  BY <3>2, <3>4, SeqParts
      <4> HIDE DEF n, p
      <4>2. p + 1 \in 1..n  BY <4>1
      <4> QED  BY <4>2 DEF n, p
    <3> HIDE DEF items, q, K
    <3>6. q \in DOMAIN items  BY <3>4, <3>5, SeqParts
    <3>7. items[q] \in Parts(ObjectAt(2))  BY <3>6 DEF Parts, Range, items
    <3>8. items[q] \in HeapValues(Ids) /\ items[q] \in K  BY <3>3, <3>7
    <3> QED  BY <2>1, <3>8 DEF items, q
  <2>2. CASE Instruction.op = "ListLen"
    <3>1. Required(module, Instruction) = 1  BY <2>2 DEF Required, Pushing, Binary
    <3>2. KindOf(Operand(1)) = "list"  BY <1>2, <2>2 DEF Mistyped
    <3>3. ObjectAt(1) \in HeapObjects(Ids)  BY <1>2, <3>1, <3>2, ObjectReady
    <3>4. ObjectAt(1).items \in Seq(HeapValues(Ids))  BY <3>3, ObjectParts
    <3>5. size \in Int  BY <3>4, SeqParts
    <3> HIDE DEF size
    <3> DEFINE x == Integer(size)
    <3>6. x \in HeapValues(Ids) /\ ~IsHeap(x)  BY <3>5, ScalarsTyped DEF Integer, IsHeap
    <3> HIDE DEF x
    <3>7. x \in K  BY <3>6, ScalarSure
    <3> QED  BY <2>2, <3>6, <3>7 DEF x
  <2>3. CASE Instruction.op = "MapGet"
    <3>1. Required(module, Instruction) = 2  BY <2>3 DEF Required, Pushing, Binary
    <3>2. KindOf(Operand(2)) = "map" /\ Entry(ObjectAt(2), ObjectAt(1).text) # {}
      BY <1>2, <2>3 DEF Mistyped
    <3>3. ObjectAt(2) \in HeapObjects(Ids) /\ \A x \in Parts(ObjectAt(2)) : x \in HeapValues(Ids) /\ x \in K
      BY <1>2, <3>1, <3>2, ObjectHeld
    <3>4. found \in Entry(ObjectAt(2), ObjectAt(1).text)  BY <3>2
    <3>5. found \in DOMAIN ObjectAt(2).entries  BY <3>4 DEF Entry
    <3> HIDE DEF found, K
    <3> DEFINE x == ObjectAt(2).entries[found].value
    <3>6. x \in Parts(ObjectAt(2))  BY <3>5 DEF Parts
    <3>7. x \in HeapValues(Ids) /\ x \in K  BY <3>3, <3>6
    <3> HIDE DEF x
    <3> QED  BY <2>3, <3>7 DEF x
  <2> QED  BY <1>2, <2>1, <2>2, <2>3
<1> HIDE DEF v
<1>4. ops \subseteq Plain  BY DEF Plain, Ops, Binary
<1> QED  BY <1>1, <1>3, <1>4, PureGood

LEMMA StartGood == MachineInv /\ Firm /\ (StartBare \/ StartWithInputs) => Firm'
<1> SUFFICES ASSUME MachineInv, Firm, StartBare \/ StartWithInputs PROVE Firm'  OBVIOUS
<1> DEFINE h == heap'
           K == Sure(h)
<1>1. /\ Accepted(module) /\ frames' = <<EntryFrame>> /\ result' = result
  BY DEF StartBare, StartWithInputs
<1>2. Sound(h) /\ inputs' \in Seq(K) /\ Keeps(heap, h)
  <2>1. CASE StartBare  BY <2>1, KeepsSame DEF StartBare, Firm
  <2>2. CASE StartWithInputs
    <3>1. PICK given \in InputLists :
            /\ HasRoom(heap, CountOf(given))
            /\ inputs' = AllIn(heap, given).values /\ h = AllIn(heap, given).heap
      BY <2>2 DEF StartWithInputs, CountOf, AllIn
    <3>2. given \in Seq(OwnedValues) /\ \A k \in DOMAIN given : PartsFirst(given[k])  BY MachineAssumption
    <3>3. heap \in Heaps /\ Sound(heap)  BY DEF MachineInv, MachineTyped, Firm
    <3>4. TookAll(heap, AllIn(heap, given))  BY <3>1, <3>2, <3>3, IntakeTyped
    <3> QED  BY <3>1, <3>4 DEF TookAll
  <2> QED  BY <2>1, <2>2
<1>3. FramesIn(K, <<EntryFrame>>)
  <2> DEFINE fr == EntryFrame
             n == module.functions[module.entry].locals
  <2>1. fr.stack = <<>> /\ fr.locals = [l \in 1..n |-> None]  BY DEF EntryFrame, FrameOf
  <2>2. n \in Nat
    <3>1. module \in Modules  BY DEF MachineInv, MachineTyped
    <3>2. module \in Candidates /\ module.entry \in DOMAIN module.functions
      BY <1>1, <3>1, ModulesTyped DEF Accepted, WellFormed
    <3> QED  BY <3>2, PartsTyped
  <2>3. None \in K  BY NoneSure
  <2> DEFINE none == None
  <2> HIDE DEF fr, n, K, none
  <2>4. fr.locals = [l \in 1..n |-> none]  BY <2>1 DEF none
  <2>5. none \in K  BY <2>3 DEF none
  <2>6. fr.locals \in [1..n -> K]  BY <2>4, <2>5
  <2>7. fr.locals \in Seq(K)  BY <2>2, <2>6
  <2>8. DOMAIN <<fr>> = {1} /\ <<fr>>[1] = fr  OBVIOUS
  <2>10. fr.stack \in Seq(K)
    <3>1. <<>> \in Seq(K)  OBVIOUS
    <3> QED  BY <2>1, <3>1
  <2>9. FramesIn(K, <<fr>>)
    <3> DEFINE one == <<fr>>
    <3>1. DOMAIN one = {1} /\ one[1] = fr  BY <2>8
    <3> HIDE DEF one
    <3>2. FramesIn(K, one)  BY <2>7, <2>10, <3>1 DEF FramesIn
    <3> QED  BY <3>2 DEF one
  <2> QED  BY <2>9 DEF fr
<1>4. result' \in Seq(K)
  <2>1. result \in Seq(Sure(heap))  BY DEF Firm
  <2>2. Sure(heap) \subseteq K  BY <1>2, SureGrows
  <2>3. result \in Seq(K)  BY <2>1, <2>2, SeqGrows
  <2> QED  BY <1>1, <2>3
<1>5. Firm' <=> Sound(h) /\ FramesIn(K, frames') /\ inputs' \in Seq(K) /\ result' \in Seq(K)
  BY DEF Firm, Sound, FramesIn, Sure, InUse
<1> HIDE DEF h, K
<1> QED  BY <1>1, <1>2, <1>3, <1>4, <1>5

----------------------------------------------------------------------------
(* A value that is counted once is held in one place. *)

Once(u, v) == \A i, j \in DOMAIN u : u[i] = v /\ u[j] = v => i = j

LEMMA HoldsTyped ==
    ASSUME NEW S, NEW u \in Seq(S), NEW v
    PROVE  /\ Holds(u, v) \in Nat
           /\ Holds(u, v) = 0 <=> v \notin Range(u)
           /\ Holds(u, v) = 1 => Once(u, v)
<1> DEFINE at == {k \in DOMAIN u : u[k] = v}
           n == Len(u)
<1>1. n \in Nat /\ DOMAIN u = 1..n  BY SeqParts
<1> HIDE DEF n
<1>2. IsFiniteSet(1..n)  BY <1>1, FS_Interval
<1>3. at \in SUBSET (1..n)  BY <1>1
<1>4. Holds(u, v) = Cardinality(at)  BY DEF Holds
<1>5. \A x : x \in at <=> x \in DOMAIN u /\ u[x] = v  OBVIOUS
<1> HIDE DEF at
<1>6. IsFiniteSet(at)  BY <1>2, <1>3, FS_Subset
<1>7. Cardinality(at) \in Nat  BY <1>6, FS_CardinalityType
<1>8. Cardinality(at) = 0 <=> v \notin Range(u)
  <2>1. Cardinality(at) = 0 <=> at = {}  BY <1>6, FS_EmptySet
  <2>2. at = {} <=> v \notin Range(u)  BY <1>5 DEF Range
  <2> QED  BY <2>1, <2>2
<1>9. ASSUME Cardinality(at) = 1 PROVE Once(u, v)
  <2>1. PICK x : at = {x}  BY <1>6, <1>9, FS_Singleton
  <2> QED  BY <1>5, <2>1 DEF Once
<1> QED  BY <1>4, <1>7, <1>8, <1>9

LEMMA OnceSplit ==
    ASSUME NEW S, NEW s \in Seq(S), NEW t \in Seq(S), NEW v, Once(s \o t, v)
    PROVE  Once(s, v) /\ Once(t, v) /\ ~(v \in Range(s) /\ v \in Range(t))
<1>1. /\ s \o t \in Seq(S) /\ Len(s \o t) = Len(s) + Len(t)
      /\ \A k \in 1..(Len(s) + Len(t)) : (s \o t)[k] = IF k <= Len(s) THEN s[k] ELSE t[k - Len(s)]
  BY ConcatProperties
<1> DEFINE n == Len(s)
           m == Len(t)
           u == s \o t
<1>2. n \in Nat /\ m \in Nat /\ DOMAIN s = 1..n /\ DOMAIN t = 1..m /\ DOMAIN u = 1..(n + m)
  BY <1>1, SeqParts
<1>3. \A k \in 1..(n + m) : u[k] = IF k <= n THEN s[k] ELSE t[k - n]  BY <1>1
<1>4. \A i, j \in DOMAIN u : u[i] = v /\ u[j] = v => i = j  BY DEF Once
<1> HIDE DEF n, m, u
<1>5. \A k \in DOMAIN s : k \in DOMAIN u /\ u[k] = s[k] /\ k <= n
  <2> SUFFICES ASSUME NEW k \in DOMAIN s PROVE k \in DOMAIN u /\ u[k] = s[k] /\ k <= n  OBVIOUS
  <2>1. k \in 1..(n + m) /\ k <= n  BY <1>2
  <2> QED  BY <1>2, <1>3, <2>1
<1>6. \A k \in DOMAIN t : k + n \in DOMAIN u /\ u[k + n] = t[k] /\ k \in Int /\ k >= 1
  <2> SUFFICES ASSUME NEW k \in DOMAIN t PROVE k + n \in DOMAIN u /\ u[k + n] = t[k] /\ k \in Int /\ k >= 1  OBVIOUS
  <2> DEFINE j == k + n
  <2>1. j \in 1..(n + m) /\ ~(j <= n) /\ j - n = k /\ k \in Int /\ k >= 1  BY <1>2
  <2> HIDE DEF j
  <2>2. j \in DOMAIN u /\ u[j] = t[k]  BY <1>2, <1>3, <2>1
  <2> QED  BY <2>1, <2>2 DEF j
<1>7. Once(s, v)
  <2> SUFFICES ASSUME NEW i \in DOMAIN s, NEW j \in DOMAIN s, s[i] = v, s[j] = v PROVE i = j  BY DEF Once
  <2>1. i \in DOMAIN u /\ u[i] = v /\ j \in DOMAIN u /\ u[j] = v  BY <1>5
  <2> QED  BY <1>4, <2>1
<1>8. Once(t, v)
  <2> SUFFICES ASSUME NEW i \in DOMAIN t, NEW j \in DOMAIN t, t[i] = v, t[j] = v PROVE i = j  BY DEF Once
  <2> DEFINE p == i + n
             q == j + n
  <2>1. p \in DOMAIN u /\ u[p] = v /\ q \in DOMAIN u /\ u[q] = v /\ i \in Int /\ j \in Int  BY <1>6
  <2>2. p = q  BY <1>4, <2>1
  <2> QED  BY <1>2, <2>1, <2>2
<1>9. ASSUME v \in Range(s), v \in Range(t) PROVE FALSE
  <2>1. PICK i \in DOMAIN s : s[i] = v  BY <1>9 DEF Range
  <2>2. PICK j \in DOMAIN t : t[j] = v  BY <1>9 DEF Range
  <2>3. i \in DOMAIN u /\ u[i] = v /\ i <= n  BY <1>5, <2>1
  <2> DEFINE q == j + n
  <2>4. q \in DOMAIN u /\ u[q] = v /\ j \in Int /\ j >= 1  BY <1>6, <2>2
  <2>5. i = q  BY <1>4, <2>3, <2>4
  <2> QED  BY <1>2, <2>3, <2>4, <2>5
<1> QED  BY <1>7, <1>8, <1>9

LEMMA HeldCounts ==
    ASSUME NEW h \in Heaps, NEW id \in Ids, NEW v
    PROVE  LET a == Holds(h[id].items, v)
               b == Cardinality({e \in DOMAIN h[id].entries : h[id].entries[e].value = v})
           IN  a \in Nat /\ b \in Nat /\ (a = 0 /\ b = 0 => v \notin Parts(h[id]))
<1> DEFINE items == h[id].items
           entries == h[id].entries
           at == {e \in DOMAIN entries : entries[e].value = v}
<1>1. items \in Seq(HeapValues(Ids)) /\ entries \in Seq(MapEntries(Ids))
  <2>1. h[id] \in HeapObjects(Ids) \/ h[id] = Free  BY DEF Heaps
  <2>2. CASE h[id] \in HeapObjects(Ids)  BY <2>2, ObjectParts
  <2>3. CASE h[id] = Free
    <3>1. Free.items = <<>> /\ Free.entries = <<>>  BY DEF Free
    <3>2. items = <<>> /\ entries = <<>>  BY <2>3, <3>1
    <3> QED  BY <3>2
  <2> QED  BY <2>1, <2>2, <2>3
<1>2. Parts(h[id]) = Range(items) \cup {entries[e].value : e \in DOMAIN entries}  BY DEF Parts
<1> HIDE DEF items, entries
<1>3. Holds(items, v) \in Nat /\ (Holds(items, v) = 0 <=> v \notin Range(items))  BY <1>1, HoldsTyped
<1> DEFINE n == Len(entries)
<1>4. n \in Nat /\ DOMAIN entries = 1..n  BY <1>1, SeqParts
<1> HIDE DEF n
<1>5. IsFiniteSet(1..n)  BY <1>4, FS_Interval
<1>6. at \in SUBSET (1..n) /\ \A e : e \in at <=> e \in DOMAIN entries /\ entries[e].value = v  BY <1>4
<1> HIDE DEF at
<1>7. IsFiniteSet(at)  BY <1>5, <1>6, FS_Subset
<1>8. Cardinality(at) \in Nat /\ (Cardinality(at) = 0 => at = {})  BY <1>7, FS_CardinalityType, FS_EmptySet
<1>9. Holds(items, v) = 0 /\ Cardinality(at) = 0 => v \notin Parts(h[id])  BY <1>2, <1>3, <1>6, <1>8
<1> QED  BY <1>3, <1>8, <1>9 DEF items, entries, at

LEMMA CountedOnce ==
    ASSUME MachineInv, Firm, phase = "running", NEW v, IsUnique(v), v \in Range(Stack), Ids # {}
    PROVE  /\ Once(Places(frames) \o inputs \o result, v)
           /\ \A id \in Ids : v \notin Parts(heap[id])
<1> DEFINE u == Places(frames) \o inputs \o result
           all == StrongCount(v)
           out == OutsideHeap(v)
<1>1. /\ frames \in Seq(CallFrames) /\ inputs \in Seq(Slots) /\ heap \in Heaps /\ Frame = Last(frames)
      /\ AllMatch(module, frames)
  BY MachineReady, AreSlots
<1>2. result \in Seq(Slots)
  <2>1. result \in Seq(Sure(heap)) /\ Sure(heap) \subseteq Slots  BY DEF Firm, Sure
  <2> QED  BY <2>1, SeqGrows
<1>3. Places(frames) \in Seq(Slots) /\ Range(Places(frames)) = ValuesOf(frames)  BY <1>1, PlacesTyped
<1>4. Range(Stack) \subseteq ValuesOf(frames)
  <2>1. Last(frames) = frames[Len(frames)] /\ Len(frames) \in DOMAIN frames  BY <1>1, TopFrame
  <2> QED  BY <1>1, <2>1 DEF ValuesOf, HeldBy, Stack
<1>5. u \in Seq(Slots) /\ v \in Range(u)
  <2> DEFINE p == Places(frames)
             q == p \o inputs
  <2>1. u = q \o result  OBVIOUS
  <2>2. v \in Range(p)  BY <1>3, <1>4
  <2> HIDE DEF u, p
  <2>3. q \in Seq(Slots) /\ Range(q) = Range(p) \cup Range(inputs)  BY <1>1, <1>3, RangeJoined DEF p
  <2> HIDE DEF q
  <2>4. u \in Seq(Slots) /\ Range(u) = Range(q) \cup Range(result)  BY <1>2, <2>1, <2>3, RangeJoined
  <2> QED  BY <2>2, <2>3, <2>4
<1>6. out = Holds(u, v)  BY DEF OutsideHeap
<1> HIDE DEF u
<1>7. out \in Nat /\ out # 0 /\ (out = 1 => Once(u, v))  BY <1>5, <1>6, HoldsTyped
<1>8. ASSUME NEW id \in Ids
      PROVE  /\ InItems(id, v) \in Nat /\ InEntries(id, v) \in Nat
             /\ InItems(id, v) = 0 /\ InEntries(id, v) = 0 => v \notin Parts(heap[id])
  BY <1>1, HeldCounts DEF InItems, InEntries
<1>9. \A id \in Ids : \E rest \in Nat : all = out + InItems(id, v) + InEntries(id, v) + rest
  BY <1>7, <1>8, CountAtLeast
<1>10. all = 1  BY DEF IsUnique
<1> HIDE DEF all, out
<1>11. ASSUME NEW id \in Ids PROVE out = 1 /\ v \notin Parts(heap[id])
  <2> DEFINE a == InItems(id, v)
             b == InEntries(id, v)
  <2>1. PICK rest \in Nat : all = out + a + b + rest  BY <1>9
  <2>2. a \in Nat /\ b \in Nat /\ (a = 0 /\ b = 0 => v \notin Parts(heap[id]))  BY <1>8
  <2> HIDE DEF a, b
  <2>3. out = 1 /\ a = 0 /\ b = 0  BY <1>7, <1>10, <2>1, <2>2
  <2> QED  BY <2>2, <2>3
<1> QED  BY <1>7, <1>11 DEF u

\* The only reference to an object is nowhere else.
LEMMA UniqueAlone ==
    ASSUME MachineInv, Firm, phase = "running", NEW q \in DOMAIN Stack, Target = {q}, NEW v, v = Stack[q],
           IsUnique(v), Ids # {}
    PROVE  v \notin Others /\ \A id \in Ids : v \notin Parts(heap[id])
<1> DEFINE p == Places(Front(frames))
           locals == Frame.locals
           stack == Stack
           a == p \o locals
           b == a \o stack
           c == b \o inputs
           d == c \o result
<1>1. /\ frames \in Seq(CallFrames) /\ inputs \in Seq(Slots) /\ Frame = Last(frames) /\ AllMatch(module, frames)
      /\ Stack = Last(frames).stack /\ stack \in Seq(Slots)
  BY MachineReady, AreSlots DEF Stack
<1>2. result \in Seq(Slots)
  <2>1. result \in Seq(Sure(heap)) /\ Sure(heap) \subseteq Slots  BY DEF Firm, Sure
  <2> QED  BY <2>1, SeqGrows
<1>3. frames # <<>> /\ locals \in Seq(Slots)  BY <1>1, TopFrame DEF AllMatch
<1>4. Front(frames) \in Seq(CallFrames) /\ Places(frames) = p \o Last(frames).locals \o Last(frames).stack
  BY <1>1, <1>3, PlacesLast
<1>5. p \in Seq(Slots) /\ Range(p) = ValuesOf(Front(frames))  BY <1>4, PlacesTyped
<1>6. v \in Range(stack)  BY DEF Range
<1>7. Once(Places(frames) \o inputs \o result, v) /\ \A id \in Ids : v \notin Parts(heap[id])
  BY <1>6, CountedOnce
<1>8. Once(d, v)
  <2>1. Places(frames) = b  BY <1>1, <1>4
  <2> QED  BY <1>7, <2>1
<1>9. /\ Range(FrontPlaces) = ValuesOf(Front(frames)) \cup Range(Frame.locals) \cup Range(inputs)
      /\ Others = Range(FrontPlaces) \cup {Stack[k] : k \in DOMAIN Stack \ Target}
  BY FrontHeld
<1>10. Range(FrontPlaces) = Range(p) \cup Range(locals) \cup Range(inputs)  BY <1>5, <1>9
<1> HIDE DEF p, locals
<1>11. a \in Seq(Slots) /\ Range(a) = Range(p) \cup Range(locals)  BY <1>3, <1>5, RangeJoined
<1>12. b \in Seq(Slots) /\ Range(b) = Range(a) \cup Range(stack)
  <2> HIDE DEF a, stack
  <2> QED  BY <1>1, <1>11, RangeJoined
<1>13. c \in Seq(Slots)
  <2> HIDE DEF b
  <2> QED  BY <1>1, <1>12, RangeJoined
<1>14. Once(c, v)
  <2> HIDE DEF c
  <2> QED  BY <1>2, <1>8, <1>13, OnceSplit
<1>15. Once(b, v) /\ ~(v \in Range(b) /\ v \in Range(inputs))
  <2> HIDE DEF b
  <2> QED  BY <1>1, <1>12, <1>14, OnceSplit
<1>16. Once(stack, v) /\ ~(v \in Range(a) /\ v \in Range(stack))
  <2> HIDE DEF a, stack
  <2> QED  BY <1>1, <1>11, <1>15, OnceSplit
<1>17. v \notin Range(FrontPlaces)
  <2>1. v \notin Range(a) /\ v \notin Range(inputs)  BY <1>6, <1>12, <1>15, <1>16
  <2> QED  BY <1>10, <1>11, <2>1
<1>18. v \notin {Stack[k] : k \in DOMAIN Stack \ Target}
  <2>1. \A k \in DOMAIN Stack : Stack[k] = v => k = q  BY <1>16 DEF Once
  <2> QED  BY <2>1
<1> QED  BY <1>7, <1>9, <1>17, <1>18

LEMMA OneReference ==
    ASSUME NEW v \in Slots, NEW w \in Slots, IsHeap(v), IsHeap(w), v.of = w.of
    PROVE  v = w
<1>1. v \in HeapValues(Ids) /\ w \in HeapValues(Ids)
  <2>1. ~IsHeap(None)  BY DEF IsHeap, None
  <2> QED  BY <2>1 DEF Slots
<1> QED  BY <1>1 DEF HeapValues, IsHeap

\* A change to the object that a lone reference refers to is seen by nobody else.
LEMMA InPlaceUntouched ==
    ASSUME MachineInv, Firm, phase = "running", NEW v \in Slots, IsHeap(v), v \notin Others,
           \A id \in Ids : v \notin Parts(heap[id]), NEW h, \A id \in Ids : id # v.of => h[id] = heap[id],
           NEW live, heap' = Collected(h, live)
    PROVE  Untouched
<1> DEFINE C == Ids \ {v.of}
<1>1. Others \subseteq Sure(heap) /\ heap \in Heaps  BY OthersSure, MachineReady
<1>2. Roots(Others) \subseteq C
  <2> SUFFICES ASSUME NEW w \in Others, IsHeap(w) PROVE w.of \in C  BY DEF Roots
  <2>1. w \in Slots  BY <1>1 DEF Sure
  <2>2. w.of \in Ids  BY <2>1, SlotIds
  <2>3. w.of # v.of  BY <2>1, OneReference
  <2> QED  BY <2>2, <2>3
<1>3. \A j \in C : PartIds(heap[j]) \subseteq C
  <2> SUFFICES ASSUME NEW j \in Ids, NEW w \in Parts(heap[j]), IsHeap(w) PROVE w.of \in C  BY DEF PartIds
  <2>1. w \in HeapValues(Ids)  BY <1>1, HeldTyped
  <2>2. w \in Slots  BY <2>1 DEF Slots
  <2>3. w.of \in Ids  BY <2>2, SlotIds
  <2>4. w.of # v.of  BY <2>2, OneReference
  <2> QED  BY <2>3, <2>4
<1>4. Reach(heap, Others) \subseteq C
  <2> HIDE DEF C
  <2> QED  BY <1>2, <1>3, ReachInside
<1>5. \A id \in Ids : heap'[id] \in {h[id], Free}  BY DEF Collected
<1> QED  BY <1>4, <1>5 DEF Untouched

Recorded(o, c, d) == [o EXCEPT !.charge = c, !.depth = d]
ChangedAt(g, id, p) == [g EXCEPT ![id] = p]

LEMMA RecordedParts ==
    ASSUME NEW o \in HeapObjects(Ids), NEW c \in Nat, NEW d \in Nat
    PROVE  /\ Recorded(o, c, d) \in HeapObjects(Ids) /\ Recorded(o, c, d) # Free
           /\ PartIds(Recorded(o, c, d)) = PartIds(o)
<1> DEFINE p == Recorded(o, c, d)
<1>0. p = [o EXCEPT !.charge = c, !.depth = d]  BY DEF Recorded
<1>1. p \in HeapObjects(Ids)  BY RecordedTyped DEF Recorded
<1> HIDE DEF p
<1>2. p # Free
  <2>1. Free.kind = "free"  BY DEF Free
  <2>2. p.kind # "free"  BY <1>1, ObjectParts
  <2> QED  BY <2>1, <2>2
<1>3. p.items = o.items /\ p.entries = o.entries
  <2>1. DOMAIN o = {"kind", "text", "items", "entries", "charge", "depth"}  BY ObjectParts
  <2> QED  BY <1>0, <2>1
<1>4. PartIds(p) = PartIds(o)  BY <1>3 DEF PartIds, Parts
<1> QED  BY <1>1, <1>2, <1>4 DEF p

LEMMA InPlaceFirm ==
    ASSUME NEW g \in Heaps, Sound(g), NEW id \in Ids, g[id] # Free, NEW p \in HeapObjects(Ids), p # Free,
           PartIds(p) \subseteq InUse(g)
    PROVE  LET h == ChangedAt(g, id, p)
           IN  Sound(h) /\ h \in Heaps /\ Sure(g) \subseteq Sure(h) /\ \A j \in Ids : j # id => h[j] = g[j]
<1> DEFINE h == ChangedAt(g, id, p)
<1>1. h \in Heaps /\ \A j \in Ids : h[j] = IF j = id THEN p ELSE g[j]  BY DEF Heaps, ChangedAt
<1> HIDE DEF h
<1>2. \A j \in Ids : h[j] = Free <=> g[j] = Free  BY <1>1
<1>3. InUse(h) = InUse(g)  BY <1>2 DEF InUse
<1>4. Sure(g) \subseteq Sure(h)  BY <1>2, SlotIds DEF Sure
<1>5. Sound(h)
  <2> SUFFICES ASSUME NEW j \in Ids PROVE PartIds(h[j]) \subseteq InUse(h)  BY DEF Sound
  <2>1. CASE j = id  BY <1>1, <1>3, <2>1
  <2>2. CASE j # id  BY <1>1, <1>3, <2>2 DEF Sound
  <2> QED  BY <2>1, <2>2
<1> QED  BY <1>1, <1>4, <1>5 DEF h

\* A collection that is changed in place or copied.
LEMMA ChangesGood ==
    ASSUME MachineInv, Firm, phase = "running", UNCHANGED <<module, inputs>>, Instruction.op \in Plain,
           NEW q \in DOMAIN Stack, Target = {q}, NEW v, v = Stack[q], IsHeap(v),
           NEW o \in HeapObjects(Ids), Parts(o) \subseteq Sure(heap), NEW c \in Nat, NEW d \in Nat, Changes(v, o, c, d)
    PROVE  Firm' /\ Untouched
<1>1. heap \in Heaps /\ Sound(heap) /\ Stack \in Seq(HeapValues(Ids))  BY MachineReady DEF Firm
<1>2. v \in HeapValues(Ids) /\ v \in Sure(heap) /\ v \in Slots
  <2>1. v \in HeapValues(Ids)  BY <1>1, SeqParts
  <2>2. Stack \in Seq(Sure(heap))
    <3>1. Last(frames).stack \in Seq(Sure(heap))  BY TopHeld
    <3> QED  BY <3>1 DEF Stack, Frame
  <2>3. v \in Sure(heap)  BY <2>2, SeqParts
  <2> QED  BY <2>1, <2>3 DEF Sure
<1>3. v.of \in Ids /\ heap[v.of] # Free  BY <1>2, SlotIds DEF Sure
<1>4. CASE IsUnique(v)
  <2> DEFINE p == Recorded(o, c, d)
             h == ChangedAt(heap, v.of, p)
  <2>1. Becomes(Replaced(Required(module, Instruction), v), h, heapBytes + c - heap[v.of].charge, result)
    BY <1>4 DEF Changes, Recorded, ChangedAt
  <2>3. PartIds(o) \subseteq InUse(heap)  BY SlotIds DEF PartIds, Sure, InUse
  <2>2. p \in HeapObjects(Ids) /\ p # Free /\ PartIds(p) = PartIds(o)  BY RecordedParts
  <2> HIDE DEF p
  <2>9. PartIds(p) \subseteq InUse(heap)  BY <2>2, <2>3
  <2>4. Sound(h) /\ h \in Heaps /\ Sure(heap) \subseteq Sure(h) /\ \A j \in Ids : j # v.of => h[j] = heap[j]
    BY <1>1, <1>3, <2>2, <2>9, InPlaceFirm
  <2> HIDE DEF h
  <2>5. Firm'  BY <1>2, <2>1, <2>4, PlainFirm
  <2>6. \E live : heap' = Collected(h, live)  BY <2>1 DEF Becomes
  <2>7. v \notin Others /\ \A id \in Ids : v \notin Parts(heap[id])  BY <1>3, <1>4, UniqueAlone
  <2>8. Untouched  BY <1>2, <2>4, <2>6, <2>7, InPlaceUntouched
  <2> QED  BY <2>5, <2>8
<1>5. CASE ~IsUnique(v)
  <2> DEFINE h == Allocated(heap, o, c, d)
             r == Reference(NewId(heap))
  <2>1. /\ HasRoom(heap, 1)
        /\ Becomes(Replaced(Required(module, Instruction), r), h, heapBytes + c, result)
    BY <1>5 DEF Changes
  <2>2. HasRoom(heap, 0 + 1)  BY <2>1
  <2>3. NewId(heap) \in Ids  BY <1>1, <2>2, RoomGivesId
  <2>4. r \in HeapValues(Ids) /\ h \in Heaps  BY <1>1, <2>3, ScalarsTyped, AllocatedTyped
  <2>5. Took(heap, h, r)  BY <1>1, <2>2, AllocatedFirm
  <2> HIDE DEF h, r
  <2> QED  BY <2>1, <2>4, <2>5, PlainGood
<1> QED  BY <1>4, <1>5

\* The k-th operand is where it is counted from the top.
LEMMA OperandPlace ==
    ASSUME MachineInv, phase = "running", NEW k \in Nat, 1 <= k, k <= Required(module, Instruction)
    PROVE  Len(Stack) + 1 - k \in DOMAIN Stack /\ Operand(k) = Stack[Len(Stack) + 1 - k]
<1> DEFINE n == Len(Stack)
           j == n + 1 - k
           r == Required(module, Instruction)
<1>1. Stack \in Seq(HeapValues(Ids)) /\ r \in Nat /\ n >= r  BY MachineReady, InstructionReady
<1>2. n \in Nat /\ DOMAIN Stack = 1..n  BY <1>1, SeqParts
<1>3. Operand(k) = Stack[j]  BY DEF Operand
<1>4. k <= r  OBVIOUS
<1> HIDE DEF n, r
<1>5. j \in 1..n  BY <1>1, <1>2, <1>4
<1> QED  BY <1>2, <1>3, <1>5 DEF n

LEMMA PushedParts ==
    ASSUME NEW o \in HeapObjects(Ids), NEW v \in HeapValues(Ids)
    PROVE  Parts([o EXCEPT !.items = Append(@, v)]) \subseteq Parts(o) \cup {v}
<1> DEFINE items == Append(o.items, v)
           new == [o EXCEPT !.items = Append(@, v)]
           n == Len(o.items)
<1>1. o.items \in Seq(HeapValues(Ids))  BY ObjectParts
<1>2. new.items = items /\ new.entries = o.entries
  <2>1. DOMAIN o = {"kind", "text", "items", "entries", "charge", "depth"}  BY ObjectParts
  <2> QED  BY <2>1
<1>3. n \in Nat /\ DOMAIN o.items = 1..n  BY <1>1, SeqParts
<1>4. DOMAIN items = 1..(n + 1) /\ \A j \in 1..(n + 1) : items[j] = IF j = n + 1 THEN v ELSE o.items[j]
  BY <1>1
<1> HIDE DEF items, new, n
<1>5. \A j \in 1..(n + 1) : j # n + 1 => j \in DOMAIN o.items  BY <1>3
<1>6. Range(items) \subseteq Range(o.items) \cup {v}  BY <1>4, <1>5 DEF Range
<1>7. Parts(new) \subseteq Parts(o) \cup {v}  BY <1>2, <1>6 DEF Parts
<1> QED  BY <1>7 DEF new

LEMMA InsertedParts ==
    ASSUME NEW o \in HeapObjects(Ids), NEW name, NEW v \in HeapValues(Ids)
    PROVE  Parts(Inserted(o, name, v)) \subseteq Parts(o) \cup {v}
<1> DEFINE new == [key |-> name, value |-> v]
           more == Append(o.entries, new)
           changed == [e \in DOMAIN o.entries |-> IF e \in Entry(o, name) THEN new ELSE o.entries[e]]
           n == Len(o.entries)
           p == Inserted(o, name, v)
<1>1. o.entries \in Seq(MapEntries(Ids))  BY ObjectParts
<1>2. p.items = o.items /\ p.entries \in {more, changed}
  <2>1. DOMAIN o = {"kind", "text", "items", "entries", "charge", "depth"}  BY ObjectParts
  <2>2. p \in {[o EXCEPT !.entries = more], [o EXCEPT !.entries = changed]}  BY DEF Inserted
  <2> HIDE DEF p, more, changed
  <2> QED  BY <2>1, <2>2
<1>3. n \in Nat /\ DOMAIN o.entries = 1..n  BY <1>1, SeqParts
<1>4. new.value = v  OBVIOUS
<1> HIDE DEF new
<1>5. DOMAIN more = 1..(n + 1) /\ \A j \in 1..(n + 1) : more[j] = IF j = n + 1 THEN new ELSE o.entries[j]
  BY <1>1
<1>6. DOMAIN changed = DOMAIN o.entries /\ \A e \in DOMAIN o.entries : changed[e] \in {new, o.entries[e]}
  OBVIOUS
<1> HIDE DEF more, changed, n, p
<1>7. \A j \in 1..(n + 1) : j # n + 1 => j \in DOMAIN o.entries  BY <1>3
<1>8. ASSUME NEW e \in DOMAIN p.entries
      PROVE  p.entries[e] = new \/ (e \in DOMAIN o.entries /\ p.entries[e] = o.entries[e])
  <2>1. CASE p.entries = more
    <3>1. e \in 1..(n + 1)  BY <1>5, <2>1
    <3> QED  BY <1>5, <1>7, <2>1, <3>1
  <2>2. CASE p.entries = changed  BY <1>6, <2>2
  <2> QED  BY <1>2, <2>1, <2>2
<1>9. \A e \in DOMAIN p.entries : p.entries[e].value \in Parts(o) \cup {v}  BY <1>4, <1>8 DEF Parts
<1>10. Range(p.items) \subseteq Parts(o)  BY <1>2 DEF Parts
<1>11. Parts(p) \subseteq Parts(o) \cup {v}  BY <1>9, <1>10 DEF Parts
<1> QED  BY <1>11 DEF p

LEMMA ListPushGood == MachineInv /\ Firm /\ ListPush => Firm' /\ Untouched
<1> SUFFICES ASSUME MachineInv, Firm, ListPush PROVE Firm' /\ Untouched  OBVIOUS
<1> DEFINE o == [ObjectAt(2) EXCEPT !.items = Append(@, Operand(1))]
           c == ValueCharge + IF IsUnique(Operand(2)) THEN ObjectAt(2).charge ELSE ChargeOf(ObjectAt(2))
           d == Deepens(Instruction)
           q == Len(Stack) + 1 - 2
<1>1. Runs({"ListPush"}) /\ Changes(Operand(2), o, c, d) /\ phase' = phase  BY DEF ListPush, Counts
<1>2. /\ phase = "running" /\ Instruction.op = "ListPush" /\ ~Mistyped(Instruction)
      /\ UNCHANGED <<module, inputs>>
  BY <1>1, RunsWhat
<1>3. Required(module, Instruction) = 2  BY <1>2 DEF Required, Pushing, Binary
<1>4. KindOf(Operand(2)) = "list"  BY <1>2 DEF Mistyped
<1>5. /\ \A v \in Parts(ObjectAt(2)) : v \in HeapValues(Ids) /\ v \in Sure(heap)
      /\ ObjectAt(2) \in HeapObjects(Ids) /\ IsHeap(Operand(2))
  BY <1>2, <1>3, <1>4, ObjectHeld
<1>6. /\ Operand(1) \in HeapValues(Ids) /\ Operand(2) \in HeapValues(Ids)
      /\ heap \in Heaps /\ Len(Stack) \in Nat /\ Len(Stack) >= 2
  BY <1>2, <1>3, InstructionReady, MachineReady
<1>7. Operand(1) \in Sure(heap)
  <2>1. \A k \in Nat : 1 <= k /\ k <= Len(Stack) => Operand(k) \in Sure(heap)  BY <1>2, TopHeld
  <2>2. 1 <= Len(Stack)  BY <1>6
  <2> QED  BY <2>1, <2>2
<1>8. q \in DOMAIN Stack /\ Operand(2) = Stack[q]  BY <1>2, <1>3, OperandPlace
<1>9. Target = {q}
  <2>1. Target = {Len(Stack) - 1}  BY <1>2 DEF Target
  <2>2. q = Len(Stack) - 1
    <3> DEFINE n == Len(Stack)
    <3>1. n \in Nat  BY <1>6
    <3> HIDE DEF n
    <3>2. n + 1 - 2 = n - 1  BY <3>1
    <3> QED  BY <3>2 DEF n
  <2> QED  BY <2>1, <2>2
<1>10. o \in HeapObjects(Ids)  BY <1>5, <1>6, PushedTyped
<1>11. Parts(o) \subseteq Sure(heap)
  <2>1. Parts(o) \subseteq Parts(ObjectAt(2)) \cup {Operand(1)}  BY <1>5, <1>6, PushedParts
  <2> HIDE DEF o
  <2> QED  BY <1>5, <1>7, <2>1
<1>12. c \in Nat
  <2>1. ValueCharge \in Nat /\ ObjectAt(2).charge \in Nat  BY <1>5, HeapAssumption, ObjectParts
  <2>2. ChargeOf(ObjectAt(2)) \in Nat  BY <1>5, ChargeOfTyped
  <2> DEFINE a == ObjectAt(2).charge
             b == ChargeOf(ObjectAt(2))
             u == IsUnique(Operand(2))
  <2>3. a \in Nat /\ b \in Nat  BY <2>1, <2>2
  <2>4. c = ValueCharge + IF u THEN a ELSE b  OBVIOUS
  <2> HIDE DEF a, b, u, c
  <2> QED  BY <2>1, <2>3, <2>4
<1>13. d \in Nat
  <2>1. Deepens(Instruction) = PushedDepth(heap, Operand(2), Operand(1))  BY <1>2 DEF Deepens
  <2> QED  BY <1>5, <1>6, <2>1, PushedDepthTyped
<1>14. Instruction.op \in Plain  BY <1>2 DEF Plain, Ops, Binary
<1> HIDE DEF o, c, d, q
<1> QED  BY <1>1, <1>2, <1>5, <1>8, <1>9, <1>10, <1>11, <1>12, <1>13, <1>14, ChangesGood

LEMMA MapInsertGood == MachineInv /\ Firm /\ MapInsert => Firm' /\ Untouched
<1> SUFFICES ASSUME MachineInv, Firm, MapInsert PROVE Firm' /\ Untouched  OBVIOUS
<1> DEFINE name == ObjectAt(2).text
           o == Inserted(ObjectAt(3), name, Operand(1))
           c == ObjectAt(3).charge + InsertCharge(ObjectAt(3), name)
           d == Deepens(Instruction)
           q == Len(Stack) + 1 - 3
<1>1. Runs({"MapInsert"}) /\ Changes(Operand(3), o, c, d) /\ phase' = phase  BY DEF MapInsert, Counts
<1>2. /\ phase = "running" /\ Instruction.op = "MapInsert" /\ ~Mistyped(Instruction)
      /\ UNCHANGED <<module, inputs>>
  BY <1>1, RunsWhat
<1>3. Required(module, Instruction) = 3  BY <1>2 DEF Required, Pushing, Binary
<1>4. KindOf(Operand(2)) = "text" /\ KindOf(Operand(3)) = "map"  BY <1>2 DEF Mistyped
<1>5. /\ \A v \in Parts(ObjectAt(3)) : v \in HeapValues(Ids) /\ v \in Sure(heap)
      /\ ObjectAt(3) \in HeapObjects(Ids) /\ IsHeap(Operand(3))
  BY <1>2, <1>3, <1>4, ObjectHeld
<1>6. ObjectAt(2) \in HeapObjects(Ids)  BY <1>2, <1>3, <1>4, ObjectReady
<1>7. Operand(1) \in HeapValues(Ids) /\ heap \in Heaps /\ Len(Stack) \in Nat /\ Len(Stack) >= 3
  BY <1>2, <1>3, InstructionReady, MachineReady
<1>8. Operand(1) \in Sure(heap)
  <2>1. \A k \in Nat : 1 <= k /\ k <= Len(Stack) => Operand(k) \in Sure(heap)  BY <1>2, TopHeld
  <2>2. 1 <= Len(Stack)  BY <1>7
  <2> QED  BY <2>1, <2>2
<1>9. q \in DOMAIN Stack /\ Operand(3) = Stack[q]  BY <1>2, <1>3, OperandPlace
<1>10. Target = {q}
  <2>1. Target = {Len(Stack) - 2}  BY <1>2 DEF Target
  <2>2. q = Len(Stack) - 2
    <3> DEFINE n == Len(Stack)
    <3>1. n \in Nat  BY <1>7
    <3> HIDE DEF n
    <3>2. n + 1 - 3 = n - 2  BY <3>1
    <3> QED  BY <3>2 DEF n
  <2> QED  BY <2>1, <2>2
<1>11. name \in Names \cup {""}  BY <1>6, ObjectParts
<1>12. d \in Nat
  <2>1. Deepens(Instruction) = InsertedDepth(heap, ObjectAt(3), name, Operand(1))  BY <1>2 DEF Deepens
  <2> HIDE DEF name
  <2> QED  BY <1>5, <1>7, <2>1, InsertedDepthTyped
<1> HIDE DEF name
<1>13. o \in HeapObjects(Ids)  BY <1>5, <1>7, <1>11, InsertedTyped
<1>14. Parts(o) \subseteq Sure(heap)
  <2>1. Parts(o) \subseteq Parts(ObjectAt(3)) \cup {Operand(1)}  BY <1>5, <1>7, InsertedParts
  <2> HIDE DEF o
  <2> QED  BY <1>5, <1>8, <2>1
<1>15. c \in Nat
  <2>1. ObjectAt(3).charge \in Nat  BY <1>5, ObjectParts
  <2>2. InsertCharge(ObjectAt(3), name) \in Nat  BY HeapAssumption DEF InsertCharge
  <2> QED  BY <2>1, <2>2
<1>16. Instruction.op \in Plain  BY <1>2 DEF Plain, Ops
<1> HIDE DEF o, c, d, q
<1> QED  BY <1>1, <1>2, <1>5, <1>9, <1>10, <1>12, <1>13, <1>14, <1>15, <1>16, ChangesGood

LEMMA FirmStarts == ModuleInit => Firm
<1> SUFFICES ASSUME ModuleInit PROVE Firm  OBVIOUS
<1>1. heap = [id \in Ids |-> Free] /\ frames = <<>> /\ inputs = <<>> /\ result = <<>>  BY DEF ModuleInit
<1>2. Sound(heap)  BY <1>1, FreeIsEmpty DEF Sound
<1>3. FramesIn(Sure(heap), frames)
  <2>1. DOMAIN frames = {}  BY <1>1
  <2> QED  BY <2>1 DEF FramesIn
<1>4. inputs \in Seq(Sure(heap)) /\ result \in Seq(Sure(heap))
  <2> DEFINE K == Sure(heap)
  <2> HIDE DEF K
  <2>1. <<>> \in Seq(K)  OBVIOUS
  <2> QED  BY <1>1, <2>1 DEF K
<1> QED  BY <1>2, <1>3, <1>4 DEF Firm

LEMMA FirmStep ==
    MachineInv /\ Firm /\ [ModuleNext]_moduleVars => Firm' /\ (phase = "running" => Untouched)
<1> SUFFICES ASSUME MachineInv, Firm, [ModuleNext]_moduleVars PROVE Firm' /\ (phase = "running" => Untouched)
  OBVIOUS
<1>1. CASE RefuseModule  BY <1>1, SameFirm DEF RefuseModule
<1>2. CASE StartBare \/ StartWithInputs
  <2>1. phase # "running"  BY <1>2 DEF StartBare, StartWithInputs
  <2> QED  BY <1>2, <2>1, StartGood
<1>3. CASE Push  BY <1>3, PushGood
<1>4. CASE LocalTake  BY <1>4, LocalTakeGood
<1>5. CASE LocalSet  BY <1>5, LocalSetGood
<1>6. CASE Compute  BY <1>6, ComputeGood
<1>7. CASE PushConstant  BY <1>7, PushConstantGood
<1>8. CASE NewCollection  BY <1>8, NewCollectionGood
<1>9. CASE ListPush  BY <1>9, ListPushGood
<1>10. CASE MapInsert  BY <1>10, MapInsertGood
<1>11. CASE Lookup  BY <1>11, LookupGood
<1>12. CASE Jump  BY <1>12, JumpGood
<1>13. CASE Call  BY <1>13, CallGood
<1>14. CASE Return  BY <1>14, ReturnGood
<1>15. CASE Import  BY <1>15, SameFirm DEF Import, Runs
<1>16. CASE Resume
  <2>1. phase # "running"  BY <1>16 DEF Resume
  <2> QED  BY <1>16, <2>1, ResumeGood
<1>17. CASE Fail  BY <1>17, SameFirm DEF Fail
<1>18. CASE UNCHANGED moduleVars  BY <1>18, SameFirm DEF moduleVars
<1> QED
  BY <1>1, <1>2, <1>3, <1>4, <1>5, <1>6, <1>7, <1>8, <1>9, <1>10, <1>11, <1>12, <1>13, <1>14, <1>15, <1>16,
     <1>17, <1>18 DEF ModuleNext

\* The heap of a machine is sound (Rc and the value stack of module.rs): whatever the
\* frames, the inputs, the result or an object in use refer to is in use.
THEOREM NothingHeldIsDropped == ModuleSpec => []Firm
<1>1. ModuleInit => Firm  BY FirmStarts
<1>2. MachineInv /\ Firm /\ [ModuleNext]_moduleVars => Firm'  BY FirmStep
<1> QED  BY <1>1, <1>2, MachineKeepsTyping, PTL DEF ModuleSpec

\* Values are values (Rc::get_mut in list_push and map_insert): no instruction changes
\* an object that anything but the operand it consumes can still reach, for every
\* module, every sharing of objects and every heap; a change in place needs a count
\* of one, and an object counted once is held by that operand alone.
THEOREM SharedObjectsNeverChange == ModuleSpec => SharedValuesNeverChange
<1>1. MachineInv /\ Firm /\ [ModuleNext]_moduleVars =>
         [phase = "running" => \A id \in Reach(heap, Others) : heap'[id] \in {heap[id], Free}]_moduleVars
  BY FirmStep DEF Untouched
<1> QED  BY <1>1, MachineKeepsTyping, NothingHeldIsDropped, PTL DEF ModuleSpec, SharedValuesNeverChange
=============================================================================
