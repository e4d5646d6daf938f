----------------------------- MODULE HostFiles -----------------------------
(***************************************************************************)
(* The agent's file tools on the host's tree (workspace.rs): how a path is *)
(* resolved, links followed, and held inside the workspace; reading,       *)
(* listing, searching; and the write and the edit, which show the user a   *)
(* preview, wait for the permission, resolve again, and replace the file   *)
(* through a temporary sibling.  Other programs change files meanwhile.    *)
(*                                                                         *)
(* A path is a sequence of names from the root of the host, with at most   *)
(* two links on its way; a text is a sequence of pieces.  Other programs   *)
(* write and remove files; they do not turn directories into links under   *)
(* the tools' feet.  A pattern is the set of the paths it matches.         *)
(***************************************************************************)
EXTENDS Naturals, Sequences, SequencesExt, FiniteSets

CONSTANTS
    Places,         \* the paths that may hold something
    FirstTrees,     \* the trees the run starts with
    Root,           \* the workspace
    Additional,     \* the additional directories
    Ignored,        \* the patterns of the workspace's .gitignore
    Texts,          \* what another program may write into a file
    MaxFile,        \* MAX_FILE_BYTES, in pieces
    MaxMeddles      \* bound on the changes of other programs

\* The names of a path that mean something.
PathComponents(path) == SelectSeq(path.names, LAMBDA n : n \notin {"", "."})

\* The paths somebody may write.
Paths == {path \in [absolute : BOOLEAN, names : Seq(STRING)] : PathComponents(path) \in Seq(STRING)}

\* The pieces of a text that is whole, and what a place may hold.
WholePieces == STRING \ {"torn"}
Contents == [kind : {"nothing", "dir", "file", "link"}, text : Seq(WholePieces), to : Seq(STRING)]

\* A tree holds something only in its directories; the names of temporary files
\* are made to be new, so no directory has one.
IsTree(places) ==
    \A p \in Places :
        /\ places[p].kind # "nothing" =>
              \A n \in 1..(Len(p) - 1) :
                 SubSeq(p, 1, n) \in Places /\ places[SubSeq(p, 1, n)].kind = "dir"
        /\ Last(p) = "tmp" => places[p].kind # "dir"

ASSUME FilesAssumption ==
    /\ Places \subseteq Seq(STRING)
    /\ {Root} \cup Additional \subseteq Seq(STRING)
    /\ FirstTrees \subseteq [Places -> Contents]
    /\ \A first \in FirstTrees : IsTree(first)
    /\ Texts \subseteq Seq(WholePieces)
    /\ MaxMeddles \in Nat

VARIABLES
    tree,           \* what is at each place
    file,           \* the file tool in progress
    meddles         \* changes of other programs (bound)

fileVars == <<tree, file, meddles>>

\* What a place may hold.
Nothing_ == [kind |-> "nothing", text |-> <<>>, to |-> <<>>]
Dir == [kind |-> "dir", text |-> <<>>, to |-> <<>>]
File(text) == [kind |-> "file", text |-> text, to |-> <<>>]
Link(path) == [kind |-> "link", text |-> <<>>, to |-> path]

At(path) == IF path \in Places THEN tree[path] ELSE Nothing_

\* A half-written text.
Torn == <<"torn">>

(***************************************************************************)
(* Paths                                                                   *)
(***************************************************************************)
\* The path with its first link followed.
Followed(path) ==
    LET links == {n \in DOMAIN path : At(SubSeq(path, 1, n)).kind = "link"}
        first == CHOOSE n \in links : \A m \in links : n <= m
    IN  IF links = {} THEN path
        ELSE At(SubSeq(path, 1, first)).to \o SubSeq(path, first + 1, Len(path))

\* The path with every link followed (fs::canonicalize), if all of it exists.
Canonical(path) ==
    LET end == Followed(Followed(path))
    IN  [path |-> end,
         exists |-> \A n \in DOMAIN end :
                       At(SubSeq(end, 1, n)).kind \notin {"nothing", "link"}]

\* Something is at the path itself, a dangling link included.
Present(path) ==
    LET parent == Canonical(Front(path))
    IN  parent.exists /\ At(Append(parent.path, Last(path))).kind # "nothing"

WithinWorkspace(path) == \E base \in {Root} \cup Additional : IsPrefix(base, path)

\* A request names a path from the workspace or from the host's root.
Candidate(request) ==
    IF request.absolute THEN PathComponents(request) ELSE Root \o PathComponents(request)

NoPath == <<"no path">>

\* The place a request names, which must be inside; it may be missing if its
\* parent is not, and is then no dangling link.
\* Mutant: where the path leads is not looked at.
Resolve_Unchecked(request, allow_missing) ==
    LET candidate == Candidate(request)
        end    == Canonical(candidate)
    IN  IF ".." \in Range(request.names) THEN NoPath
        ELSE IF end.exists THEN end.path
        ELSE IF ~allow_missing \/ candidate = <<>> \/ Present(candidate) THEN NoPath
        ELSE LET parent == Canonical(Front(candidate))
             IN  IF parent.exists THEN Append(parent.path, Last(candidate)) ELSE NoPath

Resolve(request, allow_missing) ==
    LET candidate == Candidate(request)
        end    == Canonical(candidate)
        parent == Canonical(Front(candidate))
        found  == IF end.exists THEN end.path
                  ELSE IF allow_missing /\ candidate # <<>> /\ ~Present(candidate)
                          /\ parent.exists
                  THEN Append(parent.path, Last(candidate))
                  ELSE NoPath
    IN  IF ".." \in Range(request.names) \/ ~WithinWorkspace(found) THEN NoPath ELSE found

\* A place to write is not in the .git directory of its base.
ResolveForWrite(request, allow_missing) ==
    LET path == Resolve(request, allow_missing)
        base == CHOOSE b \in {Root} \cup Additional : IsPrefix(b, path)
    IN  IF path = NoPath \/ ".git" \in Range(SubSeq(path, Len(base) + 1, Len(path)))
        THEN NoPath ELSE path

(***************************************************************************)
(* Reading                                                                 *)
(***************************************************************************)
\* The text of a file, or none: it must be a file within the limit, as text.
Unreadable == <<"unreadable">>
BoundedText(path) ==
    IF At(path).kind # "file" \/ Len(At(path).text) > MaxFile \/ "not text" \in Range(At(path).text)
    THEN Unreadable ELSE At(path).text

\* The entries of a directory: links and skipped names are left out.
Skipped == {".git", "target"}
Listed(path) ==
    {q \in Places : /\ Len(q) = Len(path) + 1
                    /\ IsPrefix(path, q)
                    /\ tree[q].kind \in {"dir", "file"}
                    /\ Last(q) \notin Skipped}

\* A path of the workspace is ignored if the last pattern that matches it says
\* so: an anchored one matches the path, another one the name alone.
IsIgnored(names, directory) ==
    LET hits == {i \in DOMAIN Ignored :
                    /\ Ignored[i].directories => directory
                    /\ (IF Ignored[i].anchored THEN names ELSE <<Last(names)>>) \in Ignored[i].glob}
    IN  hits # {} /\ ~Ignored[CHOOSE i \in hits : \A j \in hits : j <= i].negated

\* The files of a walk: those below a directory, through no link, no skipped
\* directory and nothing ignored.
Walked(path) ==
    {q \in Places :
        /\ tree[q].kind = "file"
        /\ IsStrictPrefix(path, q)
        /\ \A n \in (Len(path) + 1)..Len(q) :
              /\ At(SubSeq(q, 1, n)).kind # "link"
              /\ n < Len(q) => q[n] \notin Skipped
              /\ ~IsIgnored(SubSeq(q, Len(Root) + 1, n), n < Len(q))}

\* The files of a walk whose name, or path below its start, a pattern matches.
Found(path, pattern) ==
    {q \in Walked(path) :
        (IF pattern.by_name THEN <<Last(q)>> ELSE SubSeq(q, Len(path) + 1, Len(q)))
            \in pattern.glob}

\* The files whose text holds a piece.
Searched(path, piece) ==
    {q \in Walked(path) : BoundedText(q) # Unreadable /\ piece \in Range(BoundedText(q))}

(***************************************************************************)
(* Editing                                                                 *)
(***************************************************************************)
Occurrences(text, old) == {i \in DOMAIN text : text[i] = old}

\* Every occurrence replaced, or the only one.
Replaced(text, old, new) == [i \in DOMAIN text |-> IF text[i] = old THEN new ELSE text[i]]

\* An edit that can be made: the old piece is there, once or all of them.
Editable(text, edit) ==
    /\ text # Unreadable
    /\ edit.old # edit.new
    /\ Occurrences(text, edit.old) # {}
    /\ edit.all \/ Cardinality(Occurrences(text, edit.old)) = 1

(***************************************************************************)
(* The tools                                                               *)
(***************************************************************************)
IdleFile == [pc |-> "idle"]
FileTools == {"write_file", "edit_file", "read_file", "list_files", "search_files", "find_files"}
FileSteps == {"asked", "resolve", "read", "stage", "fill", "rename", "ended"}

FileTypeOK ==
    /\ DOMAIN tree = Places
    /\ \A p \in Places : tree[p].kind \in {"nothing", "dir", "file", "link"}
    /\ meddles \in 0..MaxMeddles
    /\ \/ file = IdleFile
       \/ /\ file.pc \in FileSteps
          /\ file.tool \in FileTools

FileInit ==
    /\ tree \in FirstTrees
    /\ file = IdleFile
    /\ meddles = 0

\* A tool that reads runs in one step and asks nobody; what it looked at is
\* kept.
LookedAt(tool, path, sought) ==
    CASE tool = "read_file"    -> IF BoundedText(path) = Unreadable THEN {} ELSE {path}
      [] tool = "list_files"   -> IF At(path).kind = "dir" THEN Listed(path) ELSE {}
      [] tool = "search_files" -> IF At(path).kind = "dir" THEN Searched(path, sought.old) ELSE {}
      [] tool = "find_files"   -> IF At(path).kind = "dir" THEN Found(path, sought.pattern) ELSE {}

Look(tool, request, sought) ==
    /\ file = IdleFile
    /\ \E path \in {Resolve(request, FALSE)} :
        file' = [pc |-> "ended", tool |-> tool, request |-> request, edit |-> <<>>,
                    unasked |-> TRUE, path |-> path, text |-> <<>>, seen |-> {},
                    touched |-> IF path = NoPath THEN {} ELSE LookedAt(tool, path, sought)]
    /\ UNCHANGED <<tree, meddles>>

\* A write or an edit shows what it would do to the file as it is.
Preview(request) ==
    LET path == Resolve(request, FALSE)
    IN  IF path = NoPath \/ At(path).kind # "file" THEN Unreadable ELSE At(path).text

Propose(tool, request, edit, unasked) ==
    /\ file = IdleFile
    /\ file' = [pc |-> IF unasked THEN "resolve" ELSE "asked", tool |-> tool,
                request |-> request, edit |-> edit, unasked |-> unasked,
                path |-> NoPath, text |-> Preview(request), seen |-> {}, touched |-> {}]
    /\ UNCHANGED <<tree, meddles>>

\* The user answers.
AnswerFile ==
    /\ file.pc = "asked"
    /\ \E allowed \in BOOLEAN :
        file' = [file EXCEPT !.pc = IF allowed THEN "resolve" ELSE "ended"]
    /\ UNCHANGED <<tree, meddles>>

\* The path is resolved again; a write needs no file there, an edit does.
ResolveFile ==
    /\ file.pc = "resolve"
    /\ \E path \in {ResolveForWrite(file.request, file.tool = "write_file")} :
        file' = [file EXCEPT
                   !.path = path,
                   !.seen = IF path = NoPath THEN {} ELSE {At(path).text},
                   !.pc = IF path = NoPath \/ At(path).kind = "dir" THEN "ended"
                          ELSE IF file.tool = "edit_file" THEN "read" ELSE "stage",
                   !.text = IF file.tool = "edit_file" THEN @ ELSE file.edit.text]
    /\ UNCHANGED <<tree, meddles>>

\* The edit is made on the text as it is now.
\* Mutant: on the text the user was shown.
ReadForEdit_Shown ==
    /\ file.pc = "read"
    /\ file' = IF Editable(file.text, file.edit)
               THEN [file EXCEPT !.pc = "stage",
                                 !.text = Replaced(@, file.edit.old, file.edit.new)]
               ELSE [file EXCEPT !.pc = "ended"]
    /\ UNCHANGED <<tree, meddles>>

ReadForEdit ==
    /\ file.pc = "read"
    /\ LET text == BoundedText(file.path)
       IN  file' = IF Editable(text, file.edit)
                   THEN [file EXCEPT !.pc = "stage",
                                     !.text = Replaced(text, file.edit.old, file.edit.new)]
                   ELSE [file EXCEPT !.pc = "ended"]
    /\ UNCHANGED <<tree, meddles>>

\* The temporary sibling of a path.
Temporary(path) == Append(Front(path), "tmp")

IsDirectory(path) == path = <<>> \/ At(path).kind = "dir"

\* A new temporary file is opened, or cannot be, and what is there is removed.
Stage ==
    /\ file.pc = "stage"
    /\ \/ /\ IsDirectory(Front(file.path))
          /\ At(Temporary(file.path)).kind = "nothing"
          /\ file' = [file EXCEPT !.pc = "fill"]
          /\ tree' = [tree EXCEPT ![Temporary(file.path)] = File(Torn)]
       \/ /\ file' = [file EXCEPT !.pc = "ended"]
          /\ tree' = [tree EXCEPT ![Temporary(file.path)] = Nothing_]
    /\ UNCHANGED meddles

\* It is filled and synced, or removed.
Fill ==
    /\ file.pc = "fill"
    /\ \/ /\ file' = [file EXCEPT !.pc = "rename"]
          /\ tree' = [tree EXCEPT ![Temporary(file.path)] = File(file.text)]
       \/ /\ file' = [file EXCEPT !.pc = "ended"]
          /\ tree' = [tree EXCEPT ![Temporary(file.path)] = Nothing_]
    /\ UNCHANGED meddles

\* It takes the place of the file, or is removed.
Rename ==
    /\ file.pc = "rename"
    /\ \/ /\ file' = [file EXCEPT !.pc = "ended", !.touched = @ \cup {file.path}]
          /\ tree' = [tree EXCEPT ![file.path] = File(file.text),
                                  ![Temporary(file.path)] = Nothing_]
       \/ /\ file' = [file EXCEPT !.pc = "ended"]
          /\ tree' = [tree EXCEPT ![Temporary(file.path)] = Nothing_]
    /\ UNCHANGED meddles

\* Another program writes or removes a file of the workspace.
Meddle ==
    /\ meddles < MaxMeddles
    /\ file # IdleFile /\ file.pc # "ended"
    /\ meddles' = meddles + 1
    /\ \E p \in Places, content \in {Nothing_} \cup {File(t) : t \in Texts} :
        /\ tree[p].kind = "file"
        /\ WithinWorkspace(p)
        /\ Last(p) # "tmp"
        /\ tree' = [tree EXCEPT ![p] = content]
        /\ file' = IF file.path = p THEN [file EXCEPT !.seen = @ \cup {content.text}] ELSE file

FileStep == ResolveFile \/ ReadForEdit \/ Stage \/ Fill \/ Rename

FileEnded == file # IdleFile /\ file.pc = "ended"

(***************************************************************************)
(* Properties                                                              *)
(***************************************************************************)
\* The tools stay where they were allowed: no file outside the workspace is
\* looked at or changed, and none in a .git of its is changed, whatever links a
\* path goes through.
StaysInside ==
    file # IdleFile =>
        \A p \in file.touched :
            \E base \in {Root} \cup Additional :
                /\ IsPrefix(base, p)
                /\ file.tool \in {"write_file", "edit_file"} =>
                      ".git" \notin Range(SubSeq(p, Len(base) + 1, Len(p)))

\* workspace.rs: a crash "never leaves a half-written file", whenever it comes;
\* and an edit that another program's change preceded is made on that change:
\* it is never the text the user was shown that comes back.
EditsAreCurrent ==
    /\ \A p \in Places : Last(p) # "tmp" => tree[p].text # Torn
    /\ file # IdleFile /\ file.tool = "edit_file" /\ file.pc \in {"stage", "fill", "rename"} =>
          \E text \in file.seen : file.text = Replaced(text, file.edit.old, file.edit.new)
=============================================================================
