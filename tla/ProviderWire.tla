---------------------------- MODULE ProviderWire ----------------------------
(***************************************************************************)
(* What crosses the wire of a model: the messages of a request and the     *)
(* answer made of a provider's chunks (openrouter.rs), of a model process's *)
(* lines (agent/process_model.rs) and of a local service's reply           *)
(* (persistent_model.rs).  Text is a sequence of pieces, a tool's arguments *)
(* a sequence of fragments of JSON; both are told apart only as far as the  *)
(* code looks.  ModelCall drives these operators.                           *)
(***************************************************************************)
EXTENDS Naturals, Sequences, SequencesExt, FiniteSets

CONSTANTS
    MaxCalls,        \* MAX_TOOL_CALLS_PER_STEP
    MaxArgs,         \* MAX_TOOL_ARGS_BYTES, in fragments
    MaxLine,         \* MAX_STREAM_LINE_BYTES
    MaxStream        \* MAX_STREAM_BYTES

ASSUME WireAssumption == {MaxCalls, MaxArgs, MaxLine, MaxStream} \subseteq Nat \ {0}

\* An absent field of a message.
Absent == "absent"

(***************************************************************************)
(* Answers                                                                 *)
(***************************************************************************)
Failed(why) == [kind |-> "error", why |-> why]
TextAnswer(pieces) == [kind |-> "text", text |-> pieces]
CallsAnswer(calls) == [kind |-> "calls", calls |-> calls]

\* White space only: a piece that trims to nothing.
Blank == " "
IsBlank(pieces) == \A i \in DOMAIN pieces : pieces[i] = Blank

\* The text without the white space around it.
Trimmed(pieces) ==
    LET solid == {i \in DOMAIN pieces : pieces[i] # Blank}
    IN  IF solid = {} THEN <<>>
        ELSE SubSeq(pieces, CHOOSE i \in solid : \A j \in solid : i <= j,
                            CHOOSE i \in solid : \A j \in solid : j <= i)

\* The text of an answer, which must not be blank.
TextResponse(pieces) ==
    IF IsBlank(pieces) THEN Failed("empty response") ELSE TextAnswer(Trimmed(pieces))

\* The arguments of a call read as JSON: nothing stands for {}, and anything
\* but an object is refused.
ArgumentsOf(raw) == IF IsBlank(raw) THEN <<"{", "}">> ELSE raw
IsObject(raw) == ArgumentsOf(raw) = <<"{", "}">>

\* The id of a call: its own, or one made from its place in the step.
CallId(call, place) == IF call.id = Absent THEN <<"call", place>> ELSE <<call.id, 0>>

\* The calls of one step: between one and MaxCalls, each with a name and an
\* object of arguments, no id twice.
ToolCallsResponse(calls) ==
    LET ids == [i \in DOMAIN calls |-> CallId(calls[i], i)]
    IN  IF calls = <<>> THEN Failed("no calls")
        ELSE IF Len(calls) > MaxCalls THEN Failed("too many calls")
        ELSE IF \E i \in DOMAIN calls :
                    \/ IsBlank(calls[i].name)
                    \/ Len(calls[i].args) > MaxArgs
                    \/ ~IsObject(calls[i].args)
             THEN Failed("bad call")
        ELSE IF \E i, j \in DOMAIN calls : i # j /\ ids[i] = ids[j]
             THEN Failed("duplicate ids")
        ELSE CallsAnswer([i \in DOMAIN calls |-> [id |-> ids[i], name |-> calls[i].name]])

(***************************************************************************)
(* A reply in one piece                                                    *)
(***************************************************************************)
\* A body that parses: an error, no choice, calls (an empty list too), or text.
ParseChat(body) ==
    CASE body.kind = "junk"  -> Failed("invalid response")
      [] body.kind = "large" -> Failed("too large")
      [] body.kind = "error" -> Failed("provider error")
      [] body.kind = "bare"  -> Failed("no choices")
      [] body.kind = "calls" -> ToolCallsResponse(body.calls)
      [] body.kind = "text"  -> TextResponse(body.text)

\* The reply of the local service: a text that holds an object of the shape
\* asked for, or that is the answer itself.
ParseModelText(body) ==
    CASE body.kind = "junk"   -> Failed("invalid response")
      [] body.kind = "text"   -> TextResponse(body.text)
      [] body.kind = "object" -> TextAnswer(body.text)
      [] body.kind = "calls" /\ Len(body.calls) = 1 /\ body.calls[1].id # Absent ->
            IF ~IsObject(body.calls[1].args) THEN Failed("bad call")
            ELSE CallsAnswer(<<[id |-> <<body.calls[1].id, 0>>, name |-> body.calls[1].name]>>)
      [] OTHER                -> TextAnswer(<<"raw">>)

(***************************************************************************)
(* A reply in chunks                                                       *)
(***************************************************************************)
\* What a stream has given so far: its text, its partial calls by index, and
\* whether it reported its usage.
NewStream == [text |-> <<>>, calls |-> <<>>, usage |-> FALSE, size |-> 0]

NewCall == [id |-> Absent, name |-> <<>>, args |-> <<>>]

\* One fragment of a call joins the call of its index.
Joined(calls, fragment) ==
    LET old == IF fragment.index \in DOMAIN calls THEN calls[fragment.index] ELSE NewCall
        new == [id   |-> IF fragment.id = Absent THEN old.id ELSE fragment.id,
                name |-> old.name \o fragment.name,
                args |-> old.args \o fragment.args]
    IN  [i \in DOMAIN calls \cup {fragment.index} |->
            IF i = fragment.index THEN new ELSE calls[i]]

\* A line is refused by its size, as junk, or as the provider's error; its
\* arguments may grow too large.
LineError(stream, line) ==
    CASE line.size > MaxLine               -> "line too large"
      [] stream.size + line.size > MaxStream -> "too large"
      [] line.kind = "junk"                -> "invalid chunk"
      [] line.kind = "error"               -> "provider error"
      [] line.kind = "chunk" /\ \E i \in DOMAIN FoldLeft(Joined, stream.calls, line.fragments) :
             Len(FoldLeft(Joined, stream.calls, line.fragments)[i].args) > MaxArgs
                                           -> "arguments too large"
      [] OTHER                             -> Absent

\* The stream after a line that was not refused.
After(stream, line) ==
    IF line.kind # "chunk" THEN [stream EXCEPT !.size = @ + line.size]
    ELSE [text  |-> stream.text \o line.text,
          calls |-> FoldLeft(Joined, stream.calls, line.fragments),
          usage |-> stream.usage \/ line.usage,
          size  |-> stream.size + line.size]

\* The answer of a stream that came to its end: its calls in the order of
\* their indexes, or else its text.
StreamAnswer(stream) ==
    IF DOMAIN stream.calls # {}
    THEN ToolCallsResponse([i \in 1..Cardinality(DOMAIN stream.calls) |->
             stream.calls[SetToSortSeq(DOMAIN stream.calls, <)[i]]])
    ELSE TextResponse(stream.text)

(***************************************************************************)
(* The events of a model process                                           *)
(***************************************************************************)
\* A line is refused if it is junk, an error, a call over the limit or a call
\* whose id the step already has.
EventError(stream, line) ==
    CASE line.kind = "junk"  -> "invalid event"
      [] line.kind = "error" -> "model error"
      [] line.kind = "call" /\ Len(stream.calls) >= MaxCalls -> "too many calls"
      [] line.kind = "call" /\ \E i \in DOMAIN stream.calls : stream.calls[i].id = line.id
                             -> "duplicate ids"
      [] OTHER               -> Absent

\* The stream after an event that was not refused.
AfterEvent(stream, line) ==
    CASE line.kind = "text" -> [stream EXCEPT !.text = @ \o line.text]
      [] line.kind = "call" -> [stream EXCEPT !.calls =
                                    Append(@, [id |-> line.id, name |-> <<"tool">>])]
      [] OTHER              -> stream

\* The answer of a process that exited well: its calls, or else its text.
ProcessAnswer(stream) ==
    IF Len(stream.calls) > 0 THEN CallsAnswer(stream.calls)
    ELSE IF stream.text = <<>> THEN Failed("no response")
    ELSE TextAnswer(stream.text)

(***************************************************************************)
(* The messages of a request                                               *)
(***************************************************************************)
\* One message of the history as a provider takes it.
WireMessage(entry) ==
    [role  |-> IF entry.call # Absent THEN "assistant"
               ELSE IF entry.result # Absent THEN "tool" ELSE entry.role,
     calls |-> IF entry.call # Absent THEN <<entry.call>> ELSE <<>>,
     of    |-> IF entry.call # Absent THEN Absent ELSE entry.result,
     marked |-> FALSE]

\* A call joins the message of the call before it; every other entry is a
\* message of its own.
\* Mutant: every entry is a message of its own.
Placed_Apart(messages, entry) == Append(messages, WireMessage(entry))

Placed(messages, entry) ==
    LET message == WireMessage(entry)
    IN  IF /\ entry.call # Absent
           /\ entry.plain
           /\ messages # <<>>
           /\ messages[Len(messages)].calls # <<>>
        THEN [messages EXCEPT ![Len(messages)].calls = @ \o message.calls]
        ELSE Append(messages, message)

\* The system prompt and the newest message carry a cache mark for the models
\* that need one, if they have a text.
Marked(messages) ==
    [i \in DOMAIN messages |->
        IF i \in {1, Len(messages)} /\ messages[i].calls = <<>>
        THEN [messages[i] EXCEPT !.marked = TRUE] ELSE messages[i]]

\* A plain message of the host.
Plain(role) == [role |-> role, calls |-> <<>>, of |-> Absent, marked |-> FALSE]

\* The messages of a request: the system prompt, the history, the turn so far
\* or else the prompt, and the marks.
RequestMessages(system, conversation, turn, marks) ==
    LET first == IF system THEN <<Plain("system")>> ELSE <<>>
        told  == FoldLeft(Placed, first, conversation \o turn)
        all   == IF turn = <<>> THEN Append(told, Plain("user")) ELSE told
    IN  IF marks THEN Marked(all) ELSE all
=============================================================================
