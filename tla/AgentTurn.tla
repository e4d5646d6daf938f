------------------------------ MODULE AgentTurn ------------------------------
(***************************************************************************)
(* One agent and its turns (src/src/agent/turn.rs): the loop of model      *)
(* steps and tool batches, the guards that end it, the permission of each  *)
(* call and the conversation kept for the next turn.                       *)
(*                                                                         *)
(* A call is its tool with its arguments, and what is permitted or denied  *)
(* is its target: the tool with the path or the command.  What a tool, a   *)
(* model or a person answers is a free choice.  A message is its role, its turn, which call  *)
(* of the turn it is about, and its size.                                  *)
(***************************************************************************)
EXTENDS Integers, Sequences, FiniteSets, SequencesExt

CONSTANTS
    Calls,
    Guarded,      \* calls with a permission request
    Target,       \* of each guarded call
    Preapproved,  \* read-only commands
    NoCall,
    MaxSteps, MaxToolCalls, MaxMessages, MaxChars,
    Sizes,        \* of tool results
    MaxBatch,     \* bound of the model: calls in one response
    MaxTurns      \* bound of the model

ASSUME TurnAssumption ==
    /\ Guarded \subseteq Calls /\ DOMAIN Target = Guarded /\ Preapproved \subseteq Calls /\ NoCall \notin Calls
    /\ {MaxSteps, MaxToolCalls, MaxMessages, MaxChars, MaxBatch, MaxTurns} \subseteq Nat
    /\ Sizes \subseteq Nat \ {0}

VARIABLES
    conversation, \* Agent.conversation
    policy,       \* what the rules say of a target
    approvals,    \* Agent.session_approvals
    cancel,       \* Agent.cancel
    pc, turn,
    context,      \* turn_context
    steps,
    batch,        \* calls of this response that are still to come
    ran,          \* calls of this response that were answered
    executed,     \* calls of this turn, the last of them last_call
    granted,      \* targets somebody allowed under these rules
    newest        \* what the last turn committed

agentVars == <<conversation, policy, approvals, cancel, pc, turn, context, steps, batch, ran, executed, granted, newest>>
turnVars == <<turn, context, steps, batch, ran, executed, newest>>

Effects == {"deny", "allow", "ask", "none"}
Targets == {Target[c] : c \in Guarded}
Policies == [Targets -> Effects]

Message == [role: {"user", "assistant", "call", "tool"}, turn: 0..MaxTurns,
            id: 0..MaxToolCalls, size: Sizes \cup {1}]
Says(role, n) == [role |-> role, turn |-> n, id |-> 0, size |-> 1]

TurnTypeOK ==
    /\ conversation \in Seq(Message) /\ context \in Seq(Message)
    /\ policy \in Policies
    /\ approvals \subseteq Targets /\ granted \subseteq Targets
    /\ cancel \in BOOLEAN
    /\ pc \in {"idle", "top", "model", "batch", "asking"}
    /\ turn \in 0..MaxTurns /\ steps \in 0..MaxSteps
    /\ batch \in Seq(Calls) /\ executed \in Seq(Calls)
    /\ Len(executed) <= MaxToolCalls /\ Len(ran) <= Len(executed)
    /\ Len(context) <= 1 + 2 * MaxToolCalls

TurnInit ==
    /\ conversation = <<>> /\ context = <<>>
    /\ policy \in Policies
    /\ approvals = {} /\ granted = {}
    /\ cancel = FALSE
    /\ pc = "idle" /\ turn = 0 /\ steps = 0
    /\ batch = <<>> /\ ran = <<>> /\ executed = <<>> /\ newest = <<>>

----------------------------------------------------------------------------
\* The conversation and its budget.
Chars(c) == FoldLeft(LAMBDA n, m : n + m.size, 0, c)

Fits(c, messages, chars) == Len(c) <= messages /\ Chars(c) <= chars

\* Mutant: a trimmed history may begin anywhere.
Opens_Anywhere(m) == m.role # "assistant"

\* A message a trimmed history may begin with.
Opens(m) == m.role = "user"

\* newest_within: the longest suffix that fits and begins with a user message.
NewestWithin(c, messages, chars) ==
    LET from == {k \in 1..Len(c) : Opens(c[k]) /\ Fits(SubSeq(c, k, Len(c)), messages, chars)} IN
      IF from = {} THEN <<>>
      ELSE SubSeq(c, CHOOSE k \in from : \A j \in from : k <= j, Len(c))

Half(n) == n \div 2
AtLeastOne(n) == IF n = 0 THEN 1 ELSE n

\* An overfull history is cut to half its budget, or else to the whole of it.
Trimmed(c) ==
    LET half == NewestWithin(c, AtLeastOne(Half(MaxMessages)), Half(MaxChars)) IN
      IF half # <<>> THEN half ELSE NewestWithin(c, MaxMessages, MaxChars)

\* commit_turn
Committed(messages) ==
    LET c == conversation \o messages IN
      IF Fits(c, MaxMessages, MaxChars) THEN c ELSE Trimmed(c)

----------------------------------------------------------------------------
\* run_turn ends with what the turn has said; a cancelled turn that did nothing
\* leaves no trace, and one without an answer says why.
Conclude(reason, said) ==
    /\ newest' = IF reason = "cancelled" /\ Len(said) = 1 THEN <<>>
                  ELSE IF reason = "answered" THEN said
                  ELSE Append(said, Says("assistant", turn))
    /\ conversation' = IF newest' = <<>> THEN conversation ELSE Committed(newest')
    /\ pc' = "idle"
    /\ context' = <<>> /\ steps' = 0 /\ batch' = <<>> /\ ran' = <<>> /\ executed' = <<>>
    /\ UNCHANGED <<policy, cancel, turn>>

Begin ==
    /\ pc = "idle" /\ turn < MaxTurns
    /\ turn' = turn + 1
    /\ context' = <<Says("user", turn + 1)>>
    /\ pc' = "top"
    /\ UNCHANGED <<conversation, policy, approvals, cancel, steps, batch, ran, executed, granted, newest>>

\* The top of the loop: out of steps, cancelled, out of time, or on.
Top ==
    /\ pc = "top"
    /\ IF steps = MaxSteps THEN Conclude("steps", context)
       ELSE IF cancel THEN Conclude("cancelled", context)
       ELSE \/ Conclude("timeout", context)
            \/ pc' = "model" /\ UNCHANGED <<conversation, policy, cancel, turnVars>>
    /\ UNCHANGED <<approvals, granted>>

\* The model fails, and a failure after a cancel is the cancel's.
ModelFails ==
    /\ pc = "model"
    /\ Conclude(IF cancel THEN "cancelled" ELSE "model", context)
    /\ UNCHANGED <<approvals, granted>>

ModelAnswers ==
    /\ pc = "model"
    /\ Conclude("answered", Append(context, Says("assistant", turn)))
    /\ UNCHANGED <<approvals, granted>>

ModelCalls(calls) ==
    /\ pc = "model"
    /\ IF calls = <<>> THEN Conclude("empty", context)
       ELSE /\ pc' = "batch" /\ batch' = calls
            /\ steps' = steps + 1
            /\ UNCHANGED <<conversation, policy, cancel, turn, context, ran, executed, newest>>
    /\ UNCHANGED <<approvals, granted>>

----------------------------------------------------------------------------
\* The calls of a response, then their results.
Said(answers) ==
    context \o [k \in 1..Len(answers) |->
                  [role |-> "call", turn |-> turn, id |-> answers[k].id, size |-> 1]]
            \o [k \in 1..Len(answers) |->
                  [role |-> "tool", turn |-> turn, id |-> answers[k].id, size |-> answers[k].size]]

Blocks(s, n) == SubSeq(s, Len(s) - n + 1, Len(s)) = SubSeq(s, Len(s) - 2 * n + 1, Len(s) - n)

\* The last two blocks of two or three calls are the same.
Loops(s) == \E period \in {2, 3} : Len(s) >= 2 * period /\ Blocks(s, period)

LastCall == IF executed = <<>> THEN NoCall ELSE Last(executed)

\* The head of the batch has its result.
Answered(done, size) ==
    LET call == Head(batch)
        answers == Append(ran, [id |-> Len(executed) + 1, call |-> call, done |-> done, size |-> size])
        all == Append(executed, call)
    IN
      IF Loops(all) THEN Conclude("pattern", Said(answers))
      ELSE /\ ran' = answers /\ executed' = all /\ batch' = Tail(batch)
           /\ pc' = "batch"
           /\ UNCHANGED <<conversation, policy, cancel, turn, context, steps, newest>>

\* What the rules say of a call; one without a permission request just runs.
Rule(call) == IF call \in Guarded THEN policy[Target[call]] ELSE "allow"

Refused(call) == Rule(call) = "deny"

Permitted(call) ==
    \/ Rule(call) = "allow"
    \/ call \in Guarded /\ ~Refused(call) /\ Target[call] \in approvals
    \/ Rule(call) = "none" /\ call \in Preapproved

\* A guard ends the turn before the next call.
Guard ==
    /\ pc = "batch" /\ batch # <<>>
    /\ \/ Len(executed) >= MaxToolCalls /\ Conclude("calls", Said(ran))
       \/ /\ Len(executed) < MaxToolCalls /\ Head(batch) = LastCall
          /\ Conclude("repeated", Said(ran))
    /\ UNCHANGED <<approvals, granted>>

Proceeds ==
    /\ pc = "batch" /\ batch # <<>>
    /\ Len(executed) < MaxToolCalls /\ Head(batch) # LastCall

Execute ==
    /\ Proceeds /\ Permitted(Head(batch))
    /\ \E size \in Sizes : Answered(TRUE, size)
    /\ UNCHANGED <<approvals, granted>>

RuleRefuses ==
    /\ Proceeds /\ Refused(Head(batch))
    /\ Answered(FALSE, 1)
    /\ UNCHANGED <<approvals, granted>>

Ask ==
    /\ Proceeds /\ ~Permitted(Head(batch)) /\ ~Refused(Head(batch))
    /\ pc' = "asking"
    /\ UNCHANGED <<conversation, policy, approvals, cancel, turnVars, granted>>

Allow ==
    /\ pc = "asking"
    /\ approvals' = approvals \cup {Target[Head(batch)]}
    /\ granted' = granted \cup {Target[Head(batch)]}
    /\ \E size \in Sizes : Answered(TRUE, size)

Deny ==
    /\ pc = "asking"
    /\ Answered(FALSE, 1)
    /\ UNCHANGED <<approvals, granted>>

\* The batch is done: back to the top.
EndBatch ==
    /\ pc = "batch" /\ batch = <<>>
    /\ context' = Said(ran) /\ ran' = <<>>
    /\ pc' = "top"
    /\ UNCHANGED <<conversation, policy, approvals, cancel, turn, steps, batch, executed, granted, newest>>

----------------------------------------------------------------------------
\* Mutant: approvals outlive the rules they were given under.
SetPolicy_Remembers(p) ==
    /\ pc = "idle" /\ policy' = p /\ granted' = {}
    /\ UNCHANGED <<conversation, approvals, cancel, pc, turnVars>>

\* set_permission_policy
SetPolicy(p) ==
    /\ pc = "idle" /\ policy' = p /\ approvals' = {} /\ granted' = {}
    /\ UNCHANGED <<conversation, cancel, pc, turnVars>>

\* The cancel token, set from outside at any time and cleared between turns.
Cancel ==
    /\ ~cancel /\ cancel' = TRUE
    /\ UNCHANGED <<conversation, policy, approvals, pc, turnVars, granted>>

ClearCancel ==
    /\ pc = "idle" /\ cancel /\ cancel' = FALSE
    /\ UNCHANGED <<conversation, policy, approvals, pc, turnVars, granted>>

Responses == UNION {[1..n -> Calls] : n \in 0..MaxBatch}

TurnStep ==
    \/ Top \/ ModelFails \/ ModelAnswers
    \/ \E calls \in Responses : ModelCalls(calls)
    \/ Guard \/ Execute \/ RuleRefuses \/ Ask \/ Allow \/ Deny \/ EndBatch

TurnNext ==
    \/ Begin \/ TurnStep \/ Cancel \/ ClearCancel
    \/ \E p \in Policies : SetPolicy(p)

TurnSpec == TurnInit /\ [][TurnNext]_agentVars

----------------------------------------------------------------------------
\* What is sent to a provider is well formed: every call has its result and
\* every result its call, before anything else is said, and it begins with a
\* user message, however the history was cut and wherever a guard stopped a
\* batch (run_tool_batch, newest_within).
CallsHaveResults ==
    LET about(role, m) == {k \in 1..Len(conversation) :
                             /\ conversation[k].role = role
                             /\ conversation[k].turn = m.turn /\ conversation[k].id = m.id}
    IN
      /\ conversation # <<>> => conversation[1].role = "user"
      /\ \A k \in 1..Len(conversation) :
           LET m == conversation[k] IN
             /\ m.role = "call" => \E j \in about("tool", m) :
                  j > k /\ \A i \in k..j : conversation[i].role \in {"call", "tool"}
             /\ m.role = "tool" => \E j \in about("call", m) : j < k
             /\ m.role \in {"call", "tool"} => Cardinality(about(m.role, m)) = 1

\* "Commit every other turn, not only answered ones, so the next turn still
\* sees the prompt, the tool work already done, and why it stopped"
\* (src/src/agent/turn.rs:271-273).
NextTurnSees == IsSuffix(newest, conversation)

\* A guarded call runs only if a rule allows it, somebody allowed it since the
\* rules were set, or it is preapproved and no rule speaks; never against a
\* deny rule, whatever was allowed before (execute_with_approval,
\* set_permission_policy).
RunsAreLicensed ==
    \A k \in 1..Len(ran) : ran[k].done /\ ran[k].call \in Guarded =>
      LET c == ran[k].call
          rule == policy[Target[c]]
      IN
        /\ rule # "deny"
        /\ rule = "allow" \/ Target[c] \in granted \/ (rule = "none" /\ c \in Preapproved)

==============================================================================
