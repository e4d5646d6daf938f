------------------------------ MODULE GuestApps ------------------------------
(***************************************************************************)
(* What the jobs of a guest session do to its files: uploads               *)
(* (src/src/server.rs), tables and PDF summaries (src/src/jobs.rs), and    *)
(* the document and the sheet of the built-in applications                 *)
(* (src/src/apps.rs).                                                      *)
(*                                                                         *)
(* An operation works under the lock of the VM, so it is the set of its    *)
(* outcomes [files, ok]: every write may fail, when the guest is full, and *)
(* what was written before it stays.  A content is a record: whether it is *)
(* text, what the readers of documents and PDFs make of it, and the rows   *)
(* of its cells.                                                           *)
(***************************************************************************)
EXTENDS Integers, Sequences, FiniteSets, FiniteSetsExt, Functions

CONSTANTS
    Names,        \* names that uploads may have
    Contents,     \* contents of uploads: [text, document, pdf, rows, size]
    Absent,       \* no file
    MaxFiles,     \* MAX_FILES_PER_SESSION
    MaxBytes,     \* MAX_TOTAL_BYTES_PER_SESSION
    MaxDocument,  \* MAX_DOCUMENT_BYTES, in pieces
    MaxRows,      \* MAX_TABLE_ROWS and MAX_SHEET_ROWS
    MaxColumns,   \* MAX_TABLE_COLUMNS and MAX_SHEET_COLUMNS
    MaxCells      \* MAX_SHEET_CELLS

ASSUME AppsAssumption ==
    /\ IsFiniteSet(Names) /\ IsFiniteSet(Contents)
    /\ \A limit \in {MaxFiles, MaxBytes, MaxDocument, MaxRows, MaxColumns, MaxCells} :
          limit \in Nat

Upload(name) == <<"uploads", name>>
TableOf(name) == <<"output", name, "table">>
PdfOf(name) == <<"output", name, "pdf">>
DocumentText == <<"docs", "text">>
DocumentLabel == <<"docs", "label">>
SheetInput == <<"sheets", "input">>
SheetSummary == <<"sheets", "summary">>

Paths == {Upload(n) : n \in Names} \cup {TableOf(n) : n \in Names} \cup {PdfOf(n) : n \in Names}
         \cup {DocumentText, DocumentLabel, SheetInput, SheetSummary}

\* A file is the contents it was made from: one for an upload and its
\* summaries, any number for the text of the document, none for a new document
\* and for the label of plain text.
NoFiles == [p \in Paths |-> Absent]

(***************************************************************************)
(* Outcomes                                                                *)
(***************************************************************************)
Succeeds(fs) == {[files |-> fs, ok |-> TRUE]}
Fails(fs) == {[files |-> fs, ok |-> FALSE]}

\* A file is written whole, or the guest has no room for it.
Written(fs, path, content) == Succeeds([fs EXCEPT ![path] = content]) \cup Fails(fs)

\* The next part of an operation, when the part before it went well.
AndThen(outcomes, Part(_)) ==
    UNION {IF o.ok THEN Part(o.files) ELSE {o} : o \in outcomes}

(***************************************************************************)
(* Uploads                                                                 *)
(***************************************************************************)
Size(fs, path) ==
    IF fs[path] = Absent THEN 0
    ELSE MapThenSumSet(LAMBDA i : fs[path][i].size, DOMAIN fs[path])

Bytes(fs) == MapThenSumSet(LAMBDA p : Size(fs, p), Paths)

\* handle_upload: the number of uploads and the bytes of the guest are looked at
\* before anything is written.
Uploaded(fs, name, content) ==
    IF \/ /\ Cardinality({n \in Names : fs[Upload(n)] # Absent}) >= MaxFiles
          /\ fs[Upload(name)] = Absent
       \/ Bytes(fs) - Size(fs, Upload(name)) + content.size > MaxBytes
    THEN Fails(fs)
    ELSE Written(fs, Upload(name), <<content>>)

\* What a path to an upload, or its name, leads to; other paths lead nowhere.
UploadAt(fs, name) == IF name \in Names THEN fs[Upload(name)] ELSE Absent

(***************************************************************************)
(* Tables and PDFs                                                         *)
(***************************************************************************)
\* The columns have names, no name twice, and every row has every column.
IsTable(rows, least) ==
    /\ rows # <<>>
    /\ Len(rows[1]) \in least..MaxColumns
    /\ "" \notin Range(rows[1])
    /\ Cardinality(Range(rows[1])) = Len(rows[1])
    /\ Len(rows) - 1 <= MaxRows
    /\ \A i \in DOMAIN rows : Len(rows[i]) = Len(rows[1])

Tabulate(fs, name) ==
    LET upload == UploadAt(fs, name)
    IN  IF upload = Absent THEN Fails(fs)
        ELSE IF ~upload[1].text \/ ~IsTable(upload[1].rows, 1) THEN Fails(fs)
        ELSE Written(fs, TableOf(name), upload)

InspectPdf(fs, name) ==
    LET upload == UploadAt(fs, name)
    IN  IF upload = Absent THEN Fails(fs)
        ELSE IF ~upload[1].pdf THEN Fails(fs)
        ELSE Written(fs, PdfOf(name), upload)

(***************************************************************************)
(* The document                                                            *)
(***************************************************************************)
TooLong(pieces) == Len(pieces) > MaxDocument

ReadDocument(fs) ==
    IF fs[DocumentText] = Absent THEN Fails(fs)
    ELSE IF TooLong(fs[DocumentText]) THEN Fails(fs)
    ELSE Succeeds(fs)

Opened(fs) ==
    IF fs[DocumentText] = Absent THEN Written(fs, DocumentText, <<>>) ELSE Succeeds(fs)

OpenDocs(fs) == AndThen(Opened(fs), ReadDocument)

\* The text and then what it is: a failure between leaves the older label.
ReplaceDocument(fs, pieces, label) ==
    IF TooLong(pieces) THEN Fails(fs)
    ELSE AndThen(AndThen(Written(fs, DocumentText, pieces),
                         LAMBDA f : Written(f, DocumentLabel, label)),
                 ReadDocument)

\* Mutant: only the new piece is measured.
AppendDocument_PieceOnly(fs, pieces) ==
    IF TooLong(pieces) THEN Fails(fs)
    ELSE AndThen(OpenDocs(fs), LAMBDA f : Written(f, DocumentText, f[DocumentText] \o pieces))

AppendDocument(fs, pieces) ==
    LET appended(f) ==
          LET both == f[DocumentText] \o pieces
          IN  IF TooLong(both) THEN Fails(f)
              ELSE AndThen(Written(f, DocumentText, both), ReadDocument)
    IN  IF TooLong(pieces) THEN Fails(fs) ELSE AndThen(OpenDocs(fs), appended)

\* import_uploaded_document, with the lock again: what the upload is parsed to.
OpenUploadedDocument(fs, upload) ==
    IF upload[1].document THEN ReplaceDocument(fs, upload, upload) ELSE Fails(fs)

(***************************************************************************)
(* The sheet                                                               *)
(***************************************************************************)
IsSheet(rows) ==
    /\ IsTable(rows, 2)
    /\ MapThenSumSet(LAMBDA i : Len(rows[i]), DOMAIN rows) <= MaxCells

Example == [text |-> TRUE, document |-> TRUE, pdf |-> FALSE, size |-> 1,
            rows |-> <<<<"item", "quantity">>, <<"example", "1">>>>]

\* The cells and then their summary.
ImportSheet(fs, text) ==
    IF ~IsSheet(text[1].rows) THEN Fails(fs)
    ELSE AndThen(Written(fs, SheetInput, text), LAMBDA f : Written(f, SheetSummary, text))

SummarizeExisting(fs) ==
    IF ~IsSheet(fs[SheetInput][1].rows) THEN Fails(fs)
    ELSE Written(fs, SheetSummary, fs[SheetInput])

OpenSheets(fs) ==
    IF fs[SheetInput] = Absent THEN ImportSheet(fs, <<Example>>) ELSE SummarizeExisting(fs)

\* An upload becomes the summary, not the cells that "open" reads.
ImportRecords(fs, upload) ==
    IF ~IsSheet(upload[1].rows) THEN Fails(fs) ELSE Written(fs, SheetSummary, upload)
=============================================================================
