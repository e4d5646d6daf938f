----------------------------- MODULE ModelCall -----------------------------
(***************************************************************************)
(* One decision of a model as the agent's thread obtains it: the routes of *)
(* the router in turn (agent/router.rs), and behind a route a remote       *)
(* provider with retries and a stream (openrouter.rs), a child process     *)
(* that writes events (agent/process_model.rs), or a local service         *)
(* (persistent_model.rs).  The provider, the child and the clock are the   *)
(* environment; the cancel flag is HostTurn's.                             *)
(***************************************************************************)
EXTENDS HostTurn, ModelRouter, ProviderWire

CONSTANTS
    Asks,           \* the decisions asked for: [router, request, stream]
    Bodies,         \* the replies in one piece
    Lines,          \* the lines of a remote stream
    Events,         \* the lines of a model process
    MaxRetries,     \* MAX_RETRIES
    MaxLines        \* bound on the lines a provider sends in one attempt

\* Text comes in the chunks of a remote stream, in the text events of a process
\* and in a reply in one piece.
ASSUME ModelAssumption ==
    /\ {MaxRetries, MaxLines} \subseteq Nat
    /\ \A ask \in Asks :
          /\ ask.stream \in BOOLEAN
          /\ \A name \in DOMAIN ask.router.models :
                ask.router.models[name].kind \in {"remote", "process", "local"}
    /\ \A line \in Lines \cup Events : line.text \in Seq(STRING)
    /\ \A line \in Lines : line.kind # "chunk" => line.text = <<>>
    /\ \A event \in Events : event.kind # "text" => event.text = <<>>
    /\ \A body \in Bodies : body.text \in Seq(STRING)

VARIABLES model     \* the call in progress

IdleModel == [pc |-> "idle"]

\* The steps of a call and the states of the child of a process model.
ModelSteps == {"route", "send", "sleep", "body", "check", "read", "last",
               "local", "headers", "payload", "spin", "spawn", "poll", "recv", "reap", "explain", "ended"}
Children == {"none", "running", "well", "badly", "killed"}

ModelTypeOK ==
    \/ model = IdleModel
    \/ /\ model.pc \in ModelSteps
       /\ model.child \in Children
       /\ model.attempt \in 0..MaxRetries
       /\ {model.emitted, model.late, model.held, model.stream} \subseteq BOOLEAN

(***************************************************************************)
(* The router                                                              *)
(***************************************************************************)
\* The agent asks for a decision, in one piece or as a stream.
AskModel ==
    /\ model = IdleModel
    /\ \E ask \in Asks :
        model' = [pc |-> "route", router |-> ask.router, request |-> ask.request,
                  routes |-> CandidateNames(ask.router, ask.request), stream |-> ask.stream,
                  name |-> NoModel, attempt |-> 0, sends |-> 0, left |-> MaxLines,
                  got |-> NewStream, emitted |-> FALSE, shown |-> <<>>,
                  child |-> "none", held |-> FALSE, late |-> FALSE,
                  result |-> Failed("no route")]

\* The call ends with a result.
Ended(m, result) == [m EXCEPT !.pc = "ended", !.result = result]

\* A route failed: the call ends if the user saw some of its output, and the
\* next route is tried otherwise.
\* Mutant: the next route is tried in any case.
RouteFailed_Always(m, why) == [m EXCEPT !.pc = "route", !.result = Failed(why)]

RouteFailed(m, why) ==
    IF m.emitted THEN Ended(m, Failed(why))
    ELSE [m EXCEPT !.pc = "route", !.result = Failed(why)]

\* A route answered or failed.
RouteDone(m, answer) ==
    IF answer.kind = "error" THEN RouteFailed(m, answer.why) ELSE Ended(m, answer)

\* Some output of a route reaches the user.
Shown(m, pieces) ==
    IF pieces = <<>> \/ ~m.stream THEN m
    ELSE [m EXCEPT !.emitted = TRUE,
                   !.shown = @ \o [i \in DOMAIN pieces |-> <<m.name, m.sends, pieces[i]>>]]

FirstStep == [remote |-> "send", process |-> "spawn", local |-> "local"]

\* The next route, if it serves the request.
TryRoute ==
    /\ model.pc = "route"
    /\ IF model.routes = <<>> THEN model' = Ended(model, model.result)
       ELSE LET name == Head(model.routes)
                next == [model EXCEPT !.routes = Tail(@)]
            IN  model' = IF Serves(model.router, name, model.request)
                         THEN [next EXCEPT !.pc = FirstStep[model.router.models[name].kind],
                                           !.name = name, !.attempt = 0, !.left = MaxLines,
                                           !.got = NewStream, !.child = "none",
                                           !.held = FALSE, !.late = FALSE]
                         ELSE next

(***************************************************************************)
(* A remote provider                                                       *)
(***************************************************************************)
\* Another attempt, or the failure of the last one.
Retried(m, why) ==
    IF m.attempt < MaxRetries THEN [m EXCEPT !.pc = "sleep"] ELSE RouteFailed(m, why)

\* The statuses worth another attempt.
Transient == {"timeout", "busy", "server error"}
Permanent == {"refused"}

\* The request is sent, and the network fails, the provider accepts it, or it
\* answers with an error whose body is read, or cannot be.
Send ==
    /\ model.pc = "send"
    /\ LET sent == [model EXCEPT !.sends = @ + 1]
       IN  \/ model' = Retried(sent, "network")
           \/ model' = [sent EXCEPT !.pc = IF sent.stream THEN "check" ELSE "body"]
           \/ \E status \in Transient \cup Permanent :
                model' = IF status \in Transient THEN Retried(sent, status)
                         ELSE RouteFailed(sent, status)
           \/ model' = RouteFailed(sent, "unreadable error")

\* The wait between two attempts.
Sleep ==
    /\ model.pc = "sleep"
    /\ model' = [model EXCEPT !.pc = "send", !.attempt = @ + 1]

\* A reply in one piece.
ReadBody ==
    /\ model.pc = "body"
    /\ \/ \E body \in Bodies : model' = RouteDone(model, ParseChat(body))
       \/ model' = RouteFailed(model, "unreadable reply")

\* The stream looks at the cancel flag before every line.
CheckStream ==
    /\ model.pc = "check"
    /\ model' = IF cancel THEN RouteFailed(model, "cancelled")
                ELSE [model EXCEPT !.pc = "read"]

\* A line that may come next: it is read, what it says is shown, and an error
\* in it ends the stream.
ReadLine ==
    /\ model.pc = "read"
    /\ model.left > 0
    /\ \E line \in Lines :
        LET read  == [model EXCEPT !.left = @ - 1]
            wrong == LineError(model.got, line)
        IN  model' =
              IF wrong = Absent
              THEN Shown([read EXCEPT !.pc = IF line.kind = "done" THEN "last" ELSE "check",
                                      !.got = After(@, line)], line.text)
              ELSE IF wrong = "arguments too large" THEN RouteFailed(Shown(read, line.text), wrong)
              ELSE RouteFailed(read, wrong)

\* The stream breaks, or the request's timeout cuts it.
StreamFails ==
    /\ model.pc = "read"
    /\ model' = RouteFailed(model, "stream failed")

\* The stream ends, with or without its last mark.
EndOfStream ==
    /\ model.pc = "read"
    /\ model' = [model EXCEPT !.pc = "last"]

\* The usage is shown last, and the answer is made of what came.
FinishStream ==
    /\ model.pc = "last"
    /\ LET told_ == [model EXCEPT !.emitted = @ \/ model.got.usage]
       IN  model' = RouteDone(told_, StreamAnswer(model.got))

(***************************************************************************)
(* A local service                                                         *)
(***************************************************************************)
\* One request under the service's lock, on a connection of its own.
AskLocal ==
    /\ model.pc = "local"
    /\ \/ model' = RouteFailed(model, "not sent")
       \/ model' = [model EXCEPT !.pc = "headers", !.sends = @ + 1]

\* The status and the headers arrive, or are cut short by an error, by the read
\* timeout or by the end of the connection.  The loop over the headers does not
\* know the end of a connection from a header: it then reads nothing for ever.
ReadHeaders ==
    /\ model.pc = "headers"
    /\ model' \in {RouteFailed(model, "local service"), [model EXCEPT !.pc = "payload"],
                  [model EXCEPT !.pc = "spin"]}

\* The body arrives, by chunks, by its length or until the connection ends, or
\* does not, or comes with a bad status; its text is shown in one piece.
ReadPayload ==
    /\ model.pc = "payload"
    /\ \/ model' = RouteFailed(model, "local service")
       \/ \E body \in Bodies :
            LET answer == ParseModelText(body)
            IN  model' = RouteDone(IF answer.kind = "text" THEN Shown(model, answer.text)
                                   ELSE model, answer)

\* The read timeout restarts with every byte, so nothing bounds these waits.
LocalPending == model.pc \in {"headers", "payload", "spin"}

(***************************************************************************)
(* A model process                                                         *)
(***************************************************************************)
\* The guard of the child: leaving it behind kills it.
Dropped(m) == [m EXCEPT !.child = IF @ = "running" THEN "killed" ELSE @]

\* The child is started and given the request.
Spawn ==
    /\ model.pc = "spawn"
    /\ \/ model' = RouteFailed(model, "not started")
       \/ model' = [model EXCEPT !.pc = "poll", !.child = "running", !.sends = @ + 1]

\* The deadline and the cancel flag are looked at before every event.
\* Mutant: the deadline is not.
Poll_Patient ==
    /\ model.pc = "poll"
    /\ model' = IF cancel THEN RouteFailed(Dropped(model), "cancelled")
                ELSE [model EXCEPT !.pc = "recv"]

Poll ==
    /\ model.pc = "poll"
    /\ model' = IF model.late THEN RouteFailed(Dropped(model), "timed out")
                ELSE IF cancel THEN RouteFailed(Dropped(model), "cancelled")
                ELSE [model EXCEPT !.pc = "recv"]

\* An event of the child.
Receive ==
    /\ model.pc = "recv"
    /\ model.left > 0
    /\ \E line \in Events :
        LET read  == [model EXCEPT !.left = @ - 1]
            wrong == EventError(model.got, line)
        IN  model' =
              IF wrong # Absent THEN RouteFailed(Dropped(read), wrong)
              ELSE Shown([read EXCEPT !.pc = IF line.kind = "done" THEN "reap" ELSE "poll",
                                      !.got = AfterEvent(@, line)], line.text)

\* No event within the polling interval.
Nothing ==
    /\ model.pc = "recv"
    /\ model' = [model EXCEPT !.pc = "poll"]

\* The child closed its output.
OutputEnds ==
    /\ model.pc = "recv"
    /\ model' = [model EXCEPT !.pc = "reap"]

\* The child is waited for until the deadline.
Reap ==
    /\ model.pc = "reap"
    /\ \/ /\ model.child = "well"
          /\ model' = RouteDone(model, ProcessAnswer(model.got))
       \/ /\ model.child = "badly"
          /\ model' = [model EXCEPT !.pc = "explain"]
       \/ /\ model.child = "running"
          /\ model.late
          /\ model' = RouteFailed(Dropped(model), "timed out")

\* What a failed child said on its error output, which is read to its end
\* whatever the deadline: a process the child left behind may hold it open.
Explain ==
    /\ model.pc = "explain"
    /\ ~model.held
    /\ model' = RouteFailed(model, "exited badly")

\* The environment of the child: it exits, well or badly, and may leave a
\* process that holds its error output; time passes.
ChildExits ==
    /\ model.pc \in {"poll", "recv", "reap"}
    /\ model.child = "running"
    /\ \E how \in {"well", "badly"}, held \in BOOLEAN :
        model' = [model EXCEPT !.child = how, !.held = held]

\* A process the child left behind lets go of its error output.
HolderExits ==
    /\ model.pc = "explain"
    /\ model.held
    /\ model' = [model EXCEPT !.held = FALSE]

Deadline ==
    /\ model.pc \in {"poll", "recv", "reap"}
    /\ ~model.late
    /\ model' = [model EXCEPT !.late = TRUE]

\* The steps of the host's thread, and of what it does not control.
ModelStep ==
    \/ TryRoute \/ Send \/ Sleep \/ ReadBody \/ CheckStream \/ StreamFails \/ FinishStream
    \/ AskLocal \/ Spawn \/ Poll \/ Nothing \/ Reap \/ Explain
ModelEnvironment == ReadLine \/ EndOfStream \/ Receive \/ OutputEnds \/ ChildExits
                    \/ HolderExits \/ ReadHeaders \/ ReadPayload

\* A call that has only begun, and one that is over.
ModelAsked == model.pc = "route" /\ model.name = NoModel
ModelEnded == model.pc = "ended"

(***************************************************************************)
(* Properties                                                              *)
(***************************************************************************)
\* agent/router.rs promises a "safe fallback", "before output": what the user
\* saw of one decision comes from one attempt of one route, and a text answer
\* is what was shown.
OneAnswer ==
    model # IdleModel =>
        /\ \A i, j \in DOMAIN model.shown :
              SubSeq(model.shown[i], 1, 2) = SubSeq(model.shown[j], 1, 2)
        /\ ModelEnded /\ model.stream /\ model.result.kind = "text" =>
              Trimmed(model.result.text) = Trimmed([i \in DOMAIN model.shown |-> model.shown[i][3]])
=============================================================================
