----------------------------- MODULE MCJobStore -----------------------------
(***************************************************************************)
(* One uploaded name, a table and a PDF under it, a request of every kind, *)
(* and snapshots nobody captured, for TLC: the same id twice, a counter    *)
(* behind its records, no id, outputs that are gone or never named, too    *)
(* many records, jobs that were queued or running.                         *)
(***************************************************************************)
EXTENDS JobStore, TLC

Sheet == [text |-> TRUE, document |-> TRUE, pdf |-> FALSE, size |-> 1,
          rows |-> <<<<"name", "count">>, <<"x", "2">>>>]
Pdf == [text |-> FALSE, document |-> FALSE, pdf |-> TRUE, size |-> 2, rows |-> <<>>]

SomeContents == {Sheet, Pdf}

Request(kind, name, text) == [kind |-> kind, name |-> name, text |-> text]

SomeRequests ==
    {Request(k, "a", <<>>) :
        k \in {"tabulate", "pdf", "docs open_upload", "sheets open_upload"}}
    \cup {Request(k, "", <<>>) : k \in {"docs open", "sheets open", "other"}}
    \cup {Request("docs replace", "", <<Sheet>>), Request("docs append", "", <<Sheet, Sheet>>),
           Request("sheets import", "", <<Sheet>>)}

AnyHandler == Permutations(Handlers)

Record(i, s, o) == [id |-> i, state |-> s, out |-> o]
Tabulated(i) == Record(i, "Succeeded", TableOf("a"))

ForeignSnapshots ==
    {[next |-> n, jobs |-> js, files |-> f] :
       n \in {1, 3},
       js \in {<<Tabulated(1)>>, <<Tabulated(1), Tabulated(1)>>, <<Tabulated(2), Tabulated(1)>>,
               <<Tabulated(0)>>,
               <<Record(1, "Succeeded", Absent)>>,
               <<Record(1, "Queued", Absent), Tabulated(2)>>,
               <<Tabulated(1), Record(3, "Running", Absent), Tabulated(2)>>,
               <<Tabulated(1), Tabulated(2), Tabulated(3), Record(4, "Failed", Absent)>>},
       f \in {NoFiles, [NoFiles EXCEPT ![TableOf("a")] = <<Sheet>>]}}
=============================================================================
