--------------------------- MODULE GuestFilesystem ---------------------------
(***************************************************************************)
(* The filesystem of one guest VM (src/src/runtime.rs): VirtualFileSystem  *)
(* with its inode and byte quotas, and the snapshot that carries it over a *)
(* restart, VmInstance::snapshot and from_snapshot.                        *)
(*                                                                         *)
(* A path is the sequence of its components.  The tree maps every path     *)
(* below the root to its node; nothing is ever deleted.  A file is its     *)
(* size: no property tells contents of one size apart.  from_snapshot      *)
(* replays the entries of a snapshot with mkdir and write_file on a new    *)
(* filesystem, one entry a step.                                           *)
(***************************************************************************)
EXTENDS Integers, FiniteSets, Sequences, SequencesExt, FiniteSetsExt

CONSTANTS
    Names,           \* component names
    Defaults,        \* /workspace, /tmp and /home
    RawPaths,        \* the paths callers write, "." and ".." included
    Sizes,           \* sizes of the files written
    MaxInodes, MaxBytes,    \* ResourceLimits
    MaxEntries,      \* MAX_SNAPSHOT_ENTRIES
    MaxComponents,   \* MAX_SNAPSHOT_PATH_COMPONENTS
    MaxSnapshotBytes,\* MAX_SNAPSHOT_BYTES
    Foreign          \* snapshots that were not captured by this code

Escapes == <<"..">>

\* normalize_path: "." vanishes, ".." takes the last component back, and a
\* path that climbs over the root is refused.
Normalize(raw) ==
    FoldLeft(LAMBDA path, c :
                IF path = Escapes \/ c = "." THEN path
                ELSE IF c = ".." THEN (IF path = <<>> THEN Escapes ELSE Front(path))
                ELSE Append(path, c),
             <<>>, raw)

Dir == [kind |-> "dir", size |-> 0]
File(n) == [kind |-> "file", size |-> n]
Node == {Dir} \cup {File(n) : n \in Sizes}

\* A snapshot entry; a directory entry should carry no bytes.
Entry == [path: RawPaths, kind: {"dir", "file"}, size: Sizes]

ASSUME FilesystemAssumption ==
    /\ {".", ".."} \cap Names = {}
    /\ Defaults \subseteq Names /\ IsFiniteSet(Defaults)
    /\ RawPaths \subseteq Seq(Names \cup {".", ".."})
    /\ Sizes \subseteq Nat
    /\ MaxInodes \in Nat /\ MaxInodes >= 1 + Cardinality(Defaults)
    /\ MaxBytes \in Nat /\ MaxEntries \in Nat /\ MaxComponents \in Nat
    /\ MaxSnapshotBytes \in Nat
    /\ Foreign \subseteq Seq(Entry)

VARIABLES
    tree,    \* the nodes below the root
    inodes,  \* inode_count, the root included
    bytes,   \* byte_count
    phase,   \* "live", "restoring" or "unusable"
    saved,   \* the tree of the last snapshot taken, and its validity
    todo,    \* entries a restore still has to replay
    seen,    \* paths a restore has replayed
    own      \* whether the snapshot restored was captured here

fsVars == <<tree, inodes, bytes, phase, saved, todo, seen, own>>

Paths == DOMAIN tree

FsTypeOK ==
    /\ \A p \in Paths : p \in Seq(Names) \ {<<>>} /\ tree[p] \in Node
    /\ inodes \in Nat /\ bytes \in Nat
    /\ phase \in {"live", "restoring", "unusable"}
    /\ own \in BOOLEAN
    /\ \A p \in DOMAIN saved : saved[p] \in Node
    /\ \A k \in 1..Len(todo) : todo[k].kind \in {"dir", "file"} /\ todo[k].size \in Nat

\* VirtualFileSystem::new makes the default directories.
Fresh == [p \in {<<d>> : d \in Defaults} |-> Dir]
FreshInodes == 1 + Cardinality(Defaults)

NoTree == <<>>

FsInit ==
    /\ tree = Fresh
    /\ inodes = FreshInodes
    /\ bytes = 0
    /\ phase = "live"
    /\ saved = NoTree
    /\ todo = <<>>
    /\ seen = {}
    /\ own = TRUE

----------------------------------------------------------------------------
(* Operations.  Each says what it does when it succeeds; an operation that *)
(* fails changes nothing.                                                  *)

Exists(p) == p = <<>> \/ p \in Paths
IsDir(p) == p = <<>> \/ (p \in Paths /\ tree[p].kind = "dir")
IsFile(p) == p \in Paths /\ tree[p].kind = "file"

OldSize(p) == IF IsFile(p) THEN tree[p].size ELSE 0

\* Mutant: replacing a file pays for its old content too.
NewBytes_NoRefund(p, n) == bytes + n

NewBytes(p, n) == bytes - OldSize(p) + n

CanWrite(p, n) ==
    /\ p # <<>> /\ p # Escapes
    /\ ~IsDir(p)
    /\ NewBytes(p, n) <= MaxBytes
    /\ ~Exists(p) => inodes < MaxInodes
    /\ IsDir(Front(p))

Write(p, n) ==
    /\ tree' = [q \in Paths \cup {p} |-> IF q = p THEN File(n) ELSE tree[q]]
    /\ inodes' = IF Exists(p) THEN inodes ELSE inodes + 1
    /\ bytes' = NewBytes(p, n)

\* The directories mkdir has to make for p, p included.
Ancestors(p) == {SubSeq(p, 1, k) : k \in 1..Len(p)}
Missing(p) == Ancestors(p) \ Paths

CanMkdir(p, recursive) ==
    /\ p # Escapes
    /\ \A q \in Ancestors(p) : ~IsFile(q)
    /\ recursive \/ Missing(p) \subseteq {p}
    /\ Missing(p) # {} => inodes + Cardinality(Missing(p)) <= MaxInodes

Mkdir(p) ==
    /\ tree' = [q \in Paths \cup Missing(p) |-> IF q \in Paths THEN tree[q] ELSE Dir]
    /\ inodes' = inodes + Cardinality(Missing(p))
    /\ bytes' = bytes

WriteFile(raw, n) ==
    /\ phase = "live"
    /\ CanWrite(Normalize(raw), n)
    /\ Write(Normalize(raw), n)
    /\ UNCHANGED <<phase, saved, todo, seen, own>>

MakeDirectory(raw, recursive) ==
    /\ phase = "live"
    /\ CanMkdir(Normalize(raw), recursive)
    /\ Mkdir(Normalize(raw))
    /\ UNCHANGED <<phase, saved, todo, seen, own>>

----------------------------------------------------------------------------
(* Snapshot and restore. *)

Snapshot ==
    /\ phase = "live"
    /\ saved' = tree
    /\ UNCHANGED <<tree, inodes, bytes, phase, todo, seen, own>>

\* Mutant: only files are captured.
SavedEntries_FilesOnly ==
    SetToSeqs({[path |-> p, kind |-> "file", size |-> saved[p].size] :
                 p \in {q \in DOMAIN saved : saved[q].kind = "file"}})

\* collect_snapshot_entries lists a directory before what it holds; among
\* siblings the order is that of their names, here any order.
SavedEntries ==
    {entries \in SetToSeqs({[path |-> p, kind |-> saved[p].kind, size |-> saved[p].size] :
                               p \in DOMAIN saved}) :
        \A j, k \in 1..Len(entries) :
            j < k => ~IsStrictPrefix(entries[k].path, entries[j].path)}

TotalBytes(entries) == FoldLeft(LAMBDA sum, e : sum + e.size, 0, entries)

\* validate_snapshot_bounds.
InBounds(entries) ==
    /\ Len(entries) <= MaxEntries
    /\ \A k \in 1..Len(entries) :
          /\ Normalize(entries[k].path) # Escapes
          /\ Len(Normalize(entries[k].path)) <= MaxComponents
    /\ TotalBytes(entries) <= MaxSnapshotBytes /\ TotalBytes(entries) <= MaxBytes

\* from_snapshot starts on a new filesystem; the old one died with its process.
Load(entries) ==
    /\ tree' = Fresh /\ inodes' = FreshInodes /\ bytes' = 0
    /\ seen' = {}
    /\ IF InBounds(entries)
         THEN phase' = "restoring" /\ todo' = entries
         ELSE phase' = "unusable" /\ todo' = <<>>

Restart ==
    /\ phase = "live" /\ saved # NoTree
    /\ \E entries \in SavedEntries : Load(entries)
    /\ own' = TRUE
    /\ UNCHANGED saved

\* The process that ran before leaves nothing behind, so a new one stands for
\* all of them.
RestartForeign(entries) ==
    /\ phase = "live" /\ tree = Fresh /\ saved = NoTree
    /\ Load(entries)
    /\ own' = FALSE
    /\ UNCHANGED saved

\* What is asked of an entry before it is replayed.
Acceptable(e) ==
    LET p == Normalize(e.path)
    IN  /\ p # <<>> /\ p \notin seen
        /\ e.kind = "dir" => e.size = 0

\* An entry becomes a directory...
ReplayDir ==
    /\ phase = "restoring" /\ todo # <<>>
    /\ Head(todo).kind = "dir" /\ Acceptable(Head(todo))
    /\ LET p == Normalize(Head(todo).path)
       IN  /\ CanMkdir(p, TRUE)
           /\ Mkdir(p)
           /\ seen' = seen \cup {p}
    /\ todo' = Tail(todo)
    /\ UNCHANGED <<phase, saved, own>>

\* ... or a file whose parent is made first.
CanReplayFile(p, n) ==
    /\ CanMkdir(Front(p), TRUE)
    /\ ~IsDir(p)
    /\ NewBytes(p, n) <= MaxBytes
    /\ ~Exists(p) => inodes + Cardinality(Missing(Front(p))) < MaxInodes

ReplayFile ==
    /\ phase = "restoring" /\ todo # <<>>
    /\ Head(todo).kind = "file" /\ Acceptable(Head(todo))
    /\ LET p == Normalize(Head(todo).path)
           n == Head(todo).size
           made == Missing(Front(p))
       IN  /\ CanReplayFile(p, n)
           /\ tree' = [q \in Paths \cup made \cup {p} |->
                         IF q = p THEN File(n) ELSE IF q \in Paths THEN tree[q] ELSE Dir]
           /\ inodes' = inodes + Cardinality(made) + (IF Exists(p) THEN 0 ELSE 1)
           /\ bytes' = NewBytes(p, n)
           /\ seen' = seen \cup {p}
    /\ todo' = Tail(todo)
    /\ UNCHANGED <<phase, saved, own>>

Replayable(e) ==
    LET p == Normalize(e.path)
    IN  /\ Acceptable(e)
        /\ IF e.kind = "dir" THEN CanMkdir(p, TRUE) ELSE CanReplayFile(p, e.size)

\* The first entry that cannot be replayed fails the whole restore.
RefuseEntry ==
    /\ phase = "restoring" /\ todo # <<>>
    /\ ~Replayable(Head(todo))
    /\ phase' = "unusable"
    /\ tree' = Fresh /\ inodes' = FreshInodes /\ bytes' = 0
    /\ todo' = <<>> /\ seen' = {}
    /\ UNCHANGED <<saved, own>>

FinishRestore ==
    /\ phase = "restoring" /\ todo = <<>>
    /\ phase' = "live"
    /\ seen' = {}
    /\ UNCHANGED <<tree, inodes, bytes, saved, todo, own>>

FsNext ==
    \/ \E raw \in RawPaths :
          \/ \E n \in Sizes : WriteFile(raw, n)
          \/ \E recursive \in BOOLEAN : MakeDirectory(raw, recursive)
    \/ Snapshot \/ Restart
    \/ \E entries \in Foreign : RestartForeign(entries)
    \/ ReplayDir \/ ReplayFile \/ RefuseEntry \/ FinishRestore

FsSpec == FsInit /\ [][FsNext]_fsVars

----------------------------------------------------------------------------
(* Properties. *)

\* inode_count and byte_count, kept by hand along every path of write_file,
\* mkdir and the restore, are what the tree holds, and stay within limits.
Accounting ==
    /\ inodes = 1 + Cardinality(Paths) /\ inodes <= MaxInodes
    /\ bytes = MapThenSumSet(LAMBDA p : tree[p].size, Paths) /\ bytes <= MaxBytes

\* A restore that goes through brings back exactly what was captured, and it
\* goes through whatever the filesystem was, as long as no path is longer than
\* MaxComponents: the live operations do not know that bound.
RoundTrip ==
    [][/\ phase = "restoring" /\ phase' = "live" /\ own => tree = saved
       /\ phase' = "unusable" => ~own']_fsVars
=============================================================================
