---------------------------- MODULE MCHostCalls ----------------------------
(***************************************************************************)
(* A small host for HostCalls: a workspace with a link that leaves it, a   *)
(* directory of notes and the settings of git; two routers; the lines a    *)
(* provider, a model process and an MCP server may send.                   *)
(***************************************************************************)
EXTENDS HostCalls

(***************************************************************************)
(* The tree: /w is the workspace, /w/a a directory, /w/out a link to /o    *)
(***************************************************************************)
MCRoot == <<"w">>
MCFirst == (<<"w">> :> Dir) @@ (<<"w", "a">> :> Dir) @@ (<<"w", "a", "f">> :> File(<<"x", "y">>))
           @@ (<<"w", "a", "tmp">> :> Nothing_)
           @@ (<<"w", "out">> :> Link(<<"o">>)) @@ (<<"o">> :> Dir)
           @@ (<<"o", "f">> :> File(<<"x">>))
           @@ (<<"w", ".git">> :> Dir) @@ (<<"w", ".git", "config">> :> File(<<"x">>))
MCPlaces == DOMAIN MCFirst
MCFirstTrees == {MCFirst}
MCTexts == {<<"x", "z">>}
\* Every f, but not the one of a; and, from the workspace, all of a.
MCIgnored == <<[glob |-> {<<"f">>}, negated |-> FALSE, directories |-> FALSE, anchored |-> FALSE],
               [glob |-> {<<"a", "f">>}, negated |-> TRUE, directories |-> FALSE, anchored |-> TRUE],
               [glob |-> {<<"a">>}, negated |-> FALSE, directories |-> TRUE, anchored |-> TRUE]>>
MCLonger == {<<"a", "ab">>}

Relative(names) == [absolute |-> FALSE, names |-> names]
Absolute(names) == [absolute |-> TRUE, names |-> names]
NoEdit == [old |-> "x", new |-> "x", all |-> FALSE, text |-> <<>>,
           pattern |-> [by_name |-> TRUE, glob |-> {<<"f">>}]]
XtoZ(all) == [NoEdit EXCEPT !.new = "z", !.all = all]

MCFileCalls ==
    {[tool |-> "edit_file", request |-> Relative(<<"a", "f">>), edit |-> XtoZ(FALSE)],
     [tool |-> "edit_file", request |-> Absolute(<<"w", "a", "f">>), edit |-> XtoZ(TRUE)],
     [tool |-> "write_file", request |-> Relative(<<"out", "f">>),
      edit |-> [NoEdit EXCEPT !.text = <<"y">>]],
     [tool |-> "write_file", request |-> Relative(<<".git", "config">>),
      edit |-> [NoEdit EXCEPT !.text = <<"risky">>]],
     [tool |-> "read_file", request |-> Relative(<<"out", "f">>), edit |-> NoEdit],
     [tool |-> "search_files", request |-> Relative(<<>>), edit |-> NoEdit],
     [tool |-> "find_files", request |-> Relative(<<"a">>), edit |-> NoEdit],
     [tool |-> "list_files", request |-> Absolute(<<"o">>), edit |-> NoEdit]}

(***************************************************************************)
(* Rules and commands                                                      *)
(***************************************************************************)
Mark(mark) == [dir |-> "", base |-> mark, value |-> NoValue]
Named(value) == [dir |-> "", base |-> "path", value |-> value]

MCCommands ==
    {<<Mark("cat"), Named(Relative(<<"a", "f">>))>>,
     <<Mark("git"), Mark("diff"), Named(Relative(<<"out", "f">>))>>,
     <<Mark("rm"), Mark("-r"), Mark("/")>>,
     <<Mark("make"), Mark("&"), [Mark("rm") EXCEPT !.dir = "/bin"]>>}

Text(effect, tool, path, targets) ==
    [effect |-> effect, tools |-> 1, tool |-> tool, targets |-> targets, path |-> path,
     words |-> <<>>]
RmRule == [Text("ask", "run_command", NoValue, 1) EXCEPT !.words = <<Mark("rm")>>]

\* Rules from the flags, the configuration and the stored ones, among which one
\* that is no rule was never stored.
Denied == ParsedRule(Text("deny", "write_file", Relative(<<"a">>), 1))
MCPolicies ==
    {MergedPolicy(<<Text("allow", "write_file", Relative(<<"a">>), 1)>>, <<>>, <<>>),
     MergedPolicy(<<>>, Denied, SavedRule(SavedRule(SavedRule(<<>>, RmRule), Text("maybe", "*", NoValue, 0)),
                                          Text("allow", "*", NoValue, 0)))}

(***************************************************************************)
(* Models                                                                  *)
(***************************************************************************)
Kind(kind) == [kind |-> kind, tools |-> TRUE, streaming |-> TRUE]
Fallback ==
    WithRole(WithRole(Registered(Registered(NewRouter, "m", Kind("remote")), "p", Kind("process")),
                      "default", "m"), "fallback", "p")
CommandLine == CommandLineRouter("m", "m", "s", Kind("remote"))
Program == ProcessRouter("p", Kind("process"))
Service == WithRole(Registered(NewRouter, "l", [Kind("local") EXCEPT !.streaming = FALSE]),
                    "default", "l")

Request(mode, streaming) ==
    [requested |-> NoModel, mode |-> mode, tools |-> TRUE, streaming |-> streaming]
Ask(router, mode, streaming, stream) ==
    [router |-> router, request |-> Request(mode, streaming), stream |-> stream]
MCAsks == {Ask(CommandLine, "fast", FALSE, FALSE), Ask(CommandLine, "strong", TRUE, TRUE),
           Ask(Program, "default", FALSE, TRUE), Ask(Fallback, "default", FALSE, TRUE),
           Ask(Service, "strong", FALSE, TRUE), Ask(Service, "strong", TRUE, TRUE)}

Object == <<"{", "}">>
Asked(id, args) == [id |-> id, name |-> <<"t">>, args |-> args]
MCBodies == {[kind |-> "junk", text |-> <<>>, calls |-> <<>>],
             [kind |-> "text", text |-> <<Blank, "hi">>, calls |-> <<>>],
             [kind |-> "calls", text |-> <<>>, calls |-> <<Asked("c", <<>>)>>],
             [kind |-> "calls", text |-> <<>>, calls |-> <<Asked("c", <<>>), Asked(Absent, <<>>)>>]}

Chunk(text, fragments, usage) ==
    [kind |-> "chunk", size |-> 1, text |-> text, fragments |-> fragments, usage |-> usage]
Fragment(index, id, args) == [index |-> index, id |-> id, name |-> IF id = Absent THEN <<>> ELSE <<"t">>,
                              args |-> args]
MCLines == {Chunk(<<"hi">>, <<>>, FALSE), Chunk(<<>>, <<>>, TRUE),
            Chunk(<<>>, <<Fragment(1, "c", <<"{">>)>>, FALSE),
            Chunk(<<>>, <<Fragment(1, Absent, <<"}">>), Fragment(2, Absent, <<>>)>>, FALSE),
            [Chunk(<<>>, <<>>, FALSE) EXCEPT !.kind = "done"],
            [Chunk(<<>>, <<>>, FALSE) EXCEPT !.kind = "error"]}

Event(kind, text, id) == [kind |-> kind, text |-> text, id |-> id]
MCEvents == {Event("text", <<"hi">>, Absent), Event("call", <<>>, "c"), Event("call", <<>>, "d"),
             Event("done", <<>>, Absent), Event("junk", <<>>, Absent)}

(***************************************************************************)
(* The MCP server                                                          *)
(***************************************************************************)
MCPages == [p |-> [tools |-> <<"x">>, next |-> TRUE],
            q |-> [tools |-> <<"x">>, next |-> FALSE]]
MCRegistryName(name) == name

\* An earlier turn of two steps, of two calls and of one.
MCEarlier == <<2, 1>>
=============================================================================
