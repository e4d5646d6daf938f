------------------------------ MODULE McpCall ------------------------------
(***************************************************************************)
(* A request to an MCP server (mcp.rs): every request has a server process *)
(* of its own, which is initialized, asked once and killed with everything *)
(* it started.  A tool list is a request per page; the names it gives make *)
(* the registry of the server's tools.  The server is the environment: it  *)
(* answers what it received, late, twice or never, and says other things   *)
(* in between.  No call of the client looks at the cancel flag.            *)
(***************************************************************************)
EXTENDS Naturals, Sequences, SequencesExt, FiniteSets

CONSTANTS
    Pages,          \* the pages a server may list: [tools, next]
    RegistryName(_),\* the name a remote name is registered under; "" if none
    MaxPages,       \* MAX_MCP_PAGES
    MaxSkipped,     \* MAX_MCP_INTERLEAVED_MESSAGES
    MaxSaid         \* bound on the messages of a server

ASSUME McpAssumption ==
    /\ {MaxPages, MaxSkipped} \subseteq Nat \ {0}
    /\ MaxSaid \in Nat

VARIABLES mcp       \* the request in progress

IdleMcp == [pc |-> "idle"]

McpSteps == {"spawn", "greet", "greeted", "request", "answer", "grace", "drop", "done", "ended"}

InitializeId == 1
RequestId == 2

McpTypeOK ==
    \/ mcp = IdleMcp
    \/ /\ mcp.pc \in McpSteps
       /\ mcp.method \in {"tools/list", "tools/call"}
       /\ mcp.page \in 0..MaxPages
       /\ mcp.skipped \in 0..(MaxSkipped + 1)
       /\ {mcp.child, mcp.group, mcp.late} \subseteq BOOLEAN

(***************************************************************************)
(* Messages                                                                *)
(***************************************************************************)
\* A message of a server: an answer has an id and no method, a request of the
\* server has both, a notification a method only.
Answer(id, body) == [id |-> id, method |-> FALSE, body |-> body]
ServerRequest(id) == [id |-> id, method |-> TRUE, body |-> "none"]
Notification == [id |-> 0, method |-> TRUE, body |-> "none"]

\* A line that is not JSON, is blank or too long, or the end of the output.
BadLine == [id |-> 0, method |-> FALSE, body |-> "bad"]

\* What the client waits for is the answer to its request.
\* Mutant: any answer is taken, whatever its id.
IsResponse_Any(message, id) == ~message.method

IsResponse(message, id) == ~message.method /\ message.id = id

(***************************************************************************)
(* A round trip                                                            *)
(***************************************************************************)
NewRequest(method) ==
    [pc |-> "spawn", method |-> method, page |-> 0, tools |-> <<>>, skipped |-> 0,
     child |-> FALSE, group |-> FALSE, inbox |-> <<>>, received |-> {}, performed |-> 0,
     said |-> 0, late |-> FALSE, reply |-> "none", result |-> "none"]

\* A tool is called, or a server's tools are listed.
CallTool == mcp = IdleMcp /\ mcp' = NewRequest("tools/call")
ListTools == mcp = IdleMcp /\ mcp' = NewRequest("tools/list")

\* Leaving the round trip drops the guard of the child.
Left(m, result) == [m EXCEPT !.pc = "drop", !.result = result]

\* The server is started.
SpawnServer ==
    /\ mcp.pc = "spawn"
    /\ \/ mcp' = [mcp EXCEPT !.pc = "ended", !.result = "not started"]
       \/ mcp' = [mcp EXCEPT !.pc = "greet", !.child = TRUE, !.inbox = <<>>,
                             !.received = {}, !.late = FALSE, !.skipped = 0]

\* A line is written to the server, unless it has gone.
Write(id, next) ==
    IF mcp.child
    THEN mcp' = [mcp EXCEPT !.pc = next, !.received = @ \cup {id}, !.skipped = 0]
    ELSE mcp' = Left(mcp, "not sent")

Greet == mcp.pc = "greet" /\ Write(InitializeId, "greeted")

\* The next line the server said, or the deadline.
Await(id, next) ==
    IF mcp.late THEN mcp' = Left(mcp, "timed out")
    ELSE /\ mcp.inbox # <<>>
         /\ LET message == Head(mcp.inbox)
                read == [mcp EXCEPT !.inbox = Tail(@)]
            IN  mcp' = IF message.body = "bad" THEN Left(read, "bad line")
                       ELSE IF IsResponse(message, id)
                       THEN IF message.body = "error" THEN Left(read, "refused")
                            ELSE [read EXCEPT !.pc = next, !.reply = message.body]
                       ELSE IF read.skipped >= MaxSkipped THEN Left(read, "no answer")
                       ELSE [read EXCEPT !.skipped = @ + 1]

AwaitGreeting == mcp.pc = "greeted" /\ Await(InitializeId, "request")

\* The request goes out once the server is initialized, before the deadline.
SendRequest ==
    /\ mcp.pc = "request"
    /\ IF mcp.late THEN mcp' = Left(mcp, "timed out") ELSE Write(RequestId, "answer")

AwaitAnswer == mcp.pc = "answer" /\ Await(RequestId, "grace")

\* The answer stands; a server that does not exit in time is killed.
Grace ==
    /\ mcp.pc = "grace"
    /\ mcp' = [mcp EXCEPT !.pc = "drop", !.child = FALSE, !.result = "answered"]

\* The guard kills the group and the server.
\* Mutant: it kills the server only.
DropServer_Child ==
    /\ mcp.pc = "drop"
    /\ mcp' = [mcp EXCEPT !.pc = "done", !.child = FALSE]

DropServer ==
    /\ mcp.pc = "drop"
    /\ mcp' = [mcp EXCEPT !.pc = "done", !.child = FALSE, !.group = FALSE]

(***************************************************************************)
(* What an answer means                                                    *)
(***************************************************************************)
\* The tools of a page and the cursor of the next, which may be absent.
ListedTools(page) == page.tools
NextPage(page) == page.next

\* The registry of a list: a name that cannot be registered, or that another
\* tool has already, refuses the list.
RegistryOf(tools) ==
    LET names == [i \in DOMAIN tools |-> RegistryName(tools[i])]
    IN  IF "" \in {names[i] : i \in DOMAIN names} \/ ~IsInjective(names)
        THEN "conflict" ELSE "registered"

\* A call is answered by a content or an error of the tool; a page by its
\* tools, and the next page is asked for up to MaxPages times.
Conclude ==
    /\ mcp.pc = "done"
    /\ IF mcp.result # "answered"
       THEN mcp' = [mcp EXCEPT !.pc = "ended"]
       ELSE IF mcp.method = "tools/call"
       THEN mcp' = [mcp EXCEPT !.pc = "ended",
                               !.result = IF mcp.reply = "content" THEN "content" ELSE "tool error"]
       ELSE IF mcp.reply \notin DOMAIN Pages \/ "" \in {Pages[mcp.reply].tools[i] :
                                                  i \in DOMAIN Pages[mcp.reply].tools}
       THEN mcp' = [mcp EXCEPT !.pc = "ended", !.result = "bad list"]
       ELSE LET page == Pages[mcp.reply]
                all  == mcp.tools \o ListedTools(page)
            IN  mcp' = [mcp EXCEPT
                   !.tools = all, !.page = @ + 1,
                   !.pc = IF NextPage(page) /\ mcp.page + 1 < MaxPages THEN "spawn" ELSE "ended",
                   !.result = IF NextPage(page)
                              THEN IF mcp.page + 1 < MaxPages THEN "none" ELSE "too many pages"
                              ELSE RegistryOf(all)]

(***************************************************************************)
(* The server                                                              *)
(***************************************************************************)
Serving == mcp # IdleMcp /\ mcp.pc \in {"greet", "greeted", "request", "answer", "grace", "drop"}

\* The answers a server may give to a request it received.
AnswersTo(id) ==
    IF id = InitializeId THEN {Answer(id, "ready"), Answer(id, "error")}
    ELSE IF mcp.method = "tools/call"
    THEN {Answer(id, "content"), Answer(id, "tool error"), Answer(id, "error")}
    ELSE {Answer(id, p) : p \in DOMAIN Pages} \cup {Answer(id, "error")}

\* The server carries out the call it received.
ServerPerforms ==
    /\ Serving /\ mcp.child
    /\ RequestId \in mcp.received
    /\ mcp.method = "tools/call"
    /\ mcp.performed = 0
    /\ mcp' = [mcp EXCEPT !.performed = 1]

\* The server says something; a call's content follows the call.
ServerSays ==
    /\ Serving /\ mcp.child
    /\ mcp.said < MaxSaid
    /\ \E message \in (UNION {AnswersTo(id) : id \in mcp.received})
                        \cup {ServerRequest(RequestId), Notification, BadLine} :
        /\ message.body = "content" => mcp.performed = 1
        /\ mcp' = [mcp EXCEPT !.inbox = Append(@, message), !.said = @ + 1]

\* The server starts a process, or exits, which ends its output unless that
\* process holds it.
ServerForks ==
    /\ Serving /\ mcp.child /\ ~mcp.group
    /\ mcp' = [mcp EXCEPT !.group = TRUE]

ServerExits ==
    /\ Serving /\ mcp.child
    /\ \E over \in {TRUE, ~mcp.group} :
        mcp' = [mcp EXCEPT !.child = FALSE, !.inbox = IF over THEN Append(@, BadLine) ELSE @]

McpLate ==
    /\ Serving /\ ~mcp.late
    /\ mcp' = [mcp EXCEPT !.late = TRUE]

McpStep == SpawnServer \/ Greet \/ AwaitGreeting \/ SendRequest \/ AwaitAnswer \/ Grace
              \/ DropServer \/ Conclude
McpEnvironment == ServerPerforms \/ ServerSays \/ ServerForks \/ ServerExits

McpEnded == mcp # IdleMcp /\ mcp.pc = "ended"

(***************************************************************************)
(* Properties                                                              *)
(***************************************************************************)
\* The answer a request is given is one to that request, and a tool whose
\* content comes back was performed: an answer to the initialization, late or
\* repeated, and a request of the server under the same id are never taken for
\* it, and no call is sent twice.
AnswersMatch ==
    mcp # IdleMcp /\ mcp.pc \in {"grace", "drop", "done"} /\ mcp.result \in {"none", "answered"} =>
        /\ \E answer \in AnswersTo(RequestId) : answer.body = mcp.reply
        /\ mcp.reply = "content" => mcp.performed = 1

\* No process of a server is left when a request is over, however it ended.
ServersEndWhole == McpEnded => ~mcp.child /\ ~mcp.group
=============================================================================
