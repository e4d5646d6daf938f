------------------------- MODULE MCGuestFilesystem -------------------------
(***************************************************************************)
(* Small instances of GuestFilesystem for TLC.                             *)
(***************************************************************************)
EXTENDS GuestFilesystem

\* Two names, paths of up to three components, with detours.
Plain == UNION {[1..n -> {"w", "a"}] : n \in 1..3}
Detours == {<<>>, <<"..">>, <<"w", "..", "..">>, <<"w", "..", "a">>, <<"a", ".", "w">>}
ShortPaths == {p \in Plain : Len(p) <= 2} \cup {<<"w", "a", "w">>} \cup Detours

\* Snapshots edited by hand: duplicates, roots, orphans, files in files.
ForeignPaths == {<<"w">>, <<"w", "a">>, <<"a", "w">>, <<"..">>, <<"w", "..", "a">>, <<>>}
ForeignEntries == [path: ForeignPaths, kind: {"dir", "file"}, size: {0, 1}]
ForeignSnapshots == SeqOf(ForeignEntries, 2)
            \cup {<<d, e, f>> : d, e, f \in {x \in ForeignEntries : x.size = 1 \/ x.kind = "dir"}}

=============================================================================
