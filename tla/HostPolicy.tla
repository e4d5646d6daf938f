----------------------------- MODULE HostPolicy -----------------------------
(***************************************************************************)
(* Which calls of the agent run without a question: the permission rules   *)
(* (permissions.rs) gathered from the flags, the configuration and the     *)
(* stored rules (cli/permission.rs), the commands that only read           *)
(* (read_only_commands.rs), and the commands that never run                *)
(* (workspace.rs).  The approvals of a session are AgentTurn's.            *)
(*                                                                         *)
(* A path is [absolute, names]; a command is a sequence of words           *)
(* [dir, base, value], where value is what the word names when it is read  *)
(* as a path.  The text of one name may begin with another: Longer.        *)
(***************************************************************************)
EXTENDS HostFiles

CONSTANTS
    Longer          \* the pairs of names <<n, m>> where m begins with n

ASSUME PolicyAssumption == IsFiniteSet(Longer)

\* The words of a command, and the rules as they are parsed.
Words == [dir : STRING, base : STRING, value : Paths]
Rules == [effect : {"allow", "ask", "deny"}, tool : STRING, all : BOOLEAN, path : Paths,
          words : Seq(Words)]

\* A word that names no path.
NoValue == [absolute |-> FALSE, names |-> <<>>]

\* The marks that let a line run several commands or redirect one.
ControlMarks == {";", "&", "|", ">", "$"}
\* The characters a read-only command may not have.
SpecialMarks == ControlMarks \cup {"*", "'"}

(***************************************************************************)
(* Rules                                                                   *)
(***************************************************************************)
\* A rule's text: an effect, one tool, and one target or none.
ParsedRule(text) ==
    IF /\ text.effect \in {"allow", "ask", "deny"}
       /\ text.tools = 1
       /\ text.targets <= 1
    THEN <<[effect |-> text.effect, tool |-> text.tool, all |-> text.targets = 0,
            path |-> text.path, words |-> text.words]>>
    ELSE <<>>

\* A text joins the stored rules if it is one.
SavedRule(stored, text) == IF ParsedRule(text) = <<>> THEN stored ELSE Append(stored, text)

Invalid == <<"invalid">>

\* The rules in the order they are tried: the flags', the configuration's, the
\* stored ones.  One that cannot be read refuses them all.
MergedPolicy(flags, config, stored) ==
    IF \E t \in Range(flags \o stored) : ParsedRule(t) = <<>> THEN Invalid
    ELSE FlattenSeq([i \in DOMAIN flags |-> ParsedRule(flags[i])]) \o config
            \o FlattenSeq([i \in DOMAIN stored |-> ParsedRule(stored[i])])

\* A rule for writes governs edits too.
RuleCoversTool(rule, tool) ==
    \/ rule.tool \in {"*", tool}
    \/ rule.tool = "write_file" /\ tool = "edit_file"

\* The text of the joined names begins with that of the prefix.
BeginsWith(names, prefix) ==
    \/ prefix = <<>>
    \/ /\ Len(prefix) <= Len(names)
       /\ Front(prefix) = SubSeq(names, 1, Len(prefix) - 1)
       /\ LET n == Last(prefix)
              m == names[Len(prefix)]
          IN  n = m \/ <<n, m>> \in Longer

\* An allow rule covers whole components; the others any text that begins so,
\* and a relative one at any component of an absolute target.
\* Mutant: a relative rule is tried at the start of an absolute target only.
PathMatches_Start(prefix, target, restrictive) ==
    LET p == PathComponents(prefix)
        t == PathComponents(target)
    IN  IF ~restrictive THEN prefix.absolute = target.absolute /\ IsPrefix(p, t)
        ELSE (prefix.absolute => target.absolute) /\ BeginsWith(t, p)

PathMatches(prefix, target, restrictive) ==
    LET p == PathComponents(prefix)
        t == PathComponents(target)
    IN  IF ~restrictive THEN prefix.absolute = target.absolute /\ IsPrefix(p, t)
        ELSE IF prefix.absolute = target.absolute THEN BeginsWith(t, p)
        ELSE /\ ~prefix.absolute
             /\ \E start \in 1..Len(t) : BeginsWith(SubSeq(t, start, Len(t)), p)

\* A command begins with the words of a rule.
StartsWithWords(words, prefix) ==
    /\ Len(prefix) <= Len(words)
    /\ \A i \in DOMAIN prefix :
          prefix[i].dir = words[i].dir /\ prefix[i].base = words[i].base

\* The commands of a line.
Segments(words) ==
    LET cuts == {0, Len(words) + 1} \cup {i \in DOMAIN words : words[i].base \in ControlMarks}
    IN  {SubSeq(words, cut[1] + 1, cut[2] - 1) : cut \in
            {c \in cuts \X cuts : c[1] < c[2] /\ \A k \in cuts : k <= c[1] \/ k >= c[2]}}

\* The program without its directory.
WithoutDirectory(words) == IF words = <<>> THEN words ELSE [words EXCEPT ![1].dir = ""]

\* An allow rule covers a line that is one command; the others cover a line
\* any of whose commands they name, from whatever directory.
CommandMatches(prefix, words, restrictive) ==
    IF restrictive
    THEN \E segment \in Segments(words) : StartsWithWords(WithoutDirectory(segment), prefix)
    ELSE /\ \A i \in DOMAIN words : words[i].base \notin ControlMarks
         /\ StartsWithWords(words, prefix)

RuleMatches(rule, call) ==
    /\ RuleCoversTool(rule, call.tool)
    /\ \/ rule.all
       \/ LET restrictive == rule.effect # "allow"
          IN  IF call.tool = "run_command"
              THEN CommandMatches(rule.words, call.words, restrictive)
              ELSE PathMatches(rule.path, call.path, restrictive)

\* The effect of the first rule that matches, if there is one.
MatchingEffect(rules, call) ==
    LET matching == {i \in DOMAIN rules : RuleMatches(rules[i], call)}
    IN  IF matching = {} THEN "none"
        ELSE rules[CHOOSE i \in matching : \A j \in matching : i <= j].effect

(***************************************************************************)
(* Read-only commands                                                      *)
(***************************************************************************)
\* The programs that only read, the flags of theirs that do more, and the
\* subcommands of git that read.
ReadOnlyPrograms == {"cat", "ls", "wc", "grep", "rg", "head", "tail"}
BannedFlags(program) ==
    CASE program \in {"head", "tail"} -> {"--follow", "-f", "-F"}
      [] program = "grep"             -> {"--dereference-recursive", "-R"}
      [] program = "rg"               -> {"--pre", "--search-zip", "--follow", "-z", "-L"}
      [] program = "git"              -> {"--output", "--ext-diff", "--textconv", "-O", "--exec"}
      [] OTHER                        -> {}
GitReads == {"status", "diff", "log", "show"}

\* What a word names stays in the workspace: it is relative, goes up nowhere,
\* and the nearest place that exists on its way is inside, links followed.
ArgumentStaysInside(word) ==
    LET path == Candidate(word.value)
        there == {n \in 0..Len(path) : n = 0 \/ Present(SubSeq(path, 1, n))}
        near == SubSeq(path, 1, CHOOSE n \in there : \A m \in there : m <= n)
    IN  /\ ~word.value.absolute
        /\ ".." \notin Range(word.value.names)
        /\ Canonical(near).exists
        /\ IsPrefix(Root, Canonical(near).path)

\* The repository around the workspace configures nothing that runs a program.
GitConfigIsPlain ==
    LET above == {n \in 1..Len(Root) : At(Append(SubSeq(Root, 1, n), ".git")).kind # "nothing"}
        git == Append(SubSeq(Root, 1, CHOOSE n \in above : \A m \in above : m <= n), ".git")
    IN  above # {} => /\ At(git).kind = "dir"
                      /\ \A name \in {"config", "config.worktree"} :
                            "risky" \notin Range(At(Append(git, name)).text)

\* A command that runs without a question if no rule speaks of it.
IsReadOnlyCommand(words) ==
    LET program == Head(words).base
        rest    == Tail(words)
        named   == {rest[i].base : i \in DOMAIN rest}
    IN  /\ words # <<>>
        /\ \A i \in DOMAIN words : words[i].base \notin SpecialMarks
        /\ Head(words).dir = ""
        /\ \/ program \in ReadOnlyPrograms
           \/ program = "pwd" /\ rest = <<>>
           \/ /\ program = "git"
              /\ rest # <<>>
              /\ Head(rest).base \in GitReads
              /\ GitConfigIsPlain
        /\ named \cap BannedFlags(program) = {}
        /\ \A i \in DOMAIN rest : ArgumentStaysInside(rest[i])

\* A command the tool refuses outright.
IsDangerous(words) ==
    \/ \E i \in DOMAIN words : words[i].base \in {"shutdown", "reboot", "halt", "poweroff", "mkfs"}
    \/ LET bases == {words[i].base : i \in DOMAIN words}
       IN  \/ {"dd", "of=/dev/"} \subseteq bases
           \/ "rm" \in bases /\ {"-r", "-rf"} \cap bases # {} /\ {"/", "~"} \cap bases # {}

(***************************************************************************)
(* The decision                                                            *)
(***************************************************************************)
\* What becomes of a call: it is refused, runs, or is asked about.
Licence(rules, call) ==
    LET effect == MatchingEffect(rules, call)
    IN  CASE effect = "deny"  -> "deny"
          [] effect = "allow" -> "run"
          [] effect = "none" /\ call.tool = "run_command" /\ ~IsDangerous(call.words)
                /\ IsReadOnlyCommand(call.words) -> "run"
          [] OTHER            -> "ask"
=============================================================================
