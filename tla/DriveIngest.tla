----------------------------- MODULE DriveIngest -----------------------------
(***************************************************************************)
(* The ingest path of `paperclaw serve`: the scan worker                   *)
(* (internal/serve/worker.go) drives document.ProcessOne                   *)
(* (internal/document/pipeline.go) over the Drive backend                  *)
(* (internal/storage/drive) and the SQLite store (internal/store).         *)
(*                                                                         *)
(* One worker goroutine files PDFs one at a time.  Its steps interleave    *)
(* with the people who share the Drive inbox, with the trigger sources     *)
(* that call Enqueue, with failing or half-succeeding API calls, with the  *)
(* expiry of the per-file context, with SIGTERM and with a crash.          *)
(***************************************************************************)
EXTENDS Integers, FiniteSets

CONSTANTS
    Files,        \* Drive file ids that may be dropped into the inbox
    Contents,     \* file contents, told apart by their SHA-256
    Unreadable,   \* the contents pdftotext cannot extract
    Bases,        \* the names FormatDirName may give an entry
    NameOf,       \* NameOf[f]: the file name of f; two ids may share it
    None,
    MaxSuffix,    \* bound: longest run of colliding directory names
    MaxScans,     \* bound: scans started
    MaxEdits,     \* bound: in-place edits per inbox file
    MaxFaults,    \* bound: failing calls and expired file contexts
    MaxCrashes    \* bound: crashes of the daemon

Names == {NameOf[f] : f \in Files}

\* A library directory: base name and collision suffix, 1 for the bare name.
Dirs == Bases \X (1..MaxSuffix)

\* What the scan cache keeps of a listed file.
CachedFile == [id : Files, rev : 0..MaxEdits]

ASSUME BoundsAssumption ==
    /\ MaxSuffix \in Nat /\ MaxScans \in Nat /\ MaxEdits \in Nat
    /\ MaxFaults \in Nat /\ MaxCrashes \in Nat

ASSUME ValuesAssumption ==
    /\ IsFiniteSet(Contents) /\ Unreadable \subseteq Contents
    /\ None \notin Contents /\ None \notin Files /\ None \notin Dirs
    /\ None \notin CachedFile

ScanChanCap == 1

VARIABLES
    drive,      \* the inbox files: place, content, revision, stable
    library,    \* library folder: what each entry directory holds
    quarantine, \* what library/_quarantine holds, per file name
    documents,  \* SQLite documents: entry_name of the row per content hash
    status,     \* SQLite daemon_status: counters and last_error
    requests,   \* tokens in the coalescing scan-request channel
    shutting,   \* the daemon's context has been cancelled by a signal
    pc,         \* next step of the worker goroutine
    pending,    \* positions of ListInbox's result not yet processed
    scanFiles,  \* name -> file id and revision, the cache of the current scan
    current,    \* name being processed
    hash,       \* content hash of the downloaded temp file
    dir,        \* directory WriteEntry is filling
    outcome,    \* Result.Status of the last file, "error" for a non-nil error
    expired,    \* the per-file context (perFileTimeout) is done
    faults, crashes, scans   \* used-up bounds

stores == <<library, quarantine, documents, status>>
job    == <<pending, scanFiles, current, hash, dir, outcome, expired>>
bounds == <<faults, crashes, scans>>
vars   == <<drive, stores, requests, shutting, pc, job, bounds>>

Filing   == {"folder", "pdf", "transcript", "metadata", "record"}
InFile   == Filing \cup {"recheck", "download", "duplicate", "ocr", "classify",
                         "validate", "quarantine", "move", "report"}
Outcomes == {"none", "processed", "skipped", "quarantined", "error"}

NoFile  == [place |-> "absent", content |-> None, rev |-> 0, stable |-> FALSE]
NoEntry == [folder |-> FALSE, pdf |-> None, transcript |-> FALSE,
            metadata |-> None]

Init ==
    /\ drive = [f \in Files |-> NoFile]
    /\ library = [d \in Dirs |-> NoEntry]
    /\ quarantine = [n \in Names |-> [folders |-> 0, pdfs |-> 0, reports |-> 0]]
    /\ documents = [c \in Contents |-> None]
    /\ status = [processed |-> 0, skipped |-> 0, quarantine |-> 0,
                 lastError |-> FALSE]
    /\ requests = 1           \* the poll ticker enqueues once at startup
    /\ shutting = FALSE
    /\ pc = "idle" /\ pending = {}
    /\ scanFiles = [n \in Names |-> None]
    /\ current = None /\ hash = None /\ dir = None
    /\ outcome = "none" /\ expired = FALSE
    /\ faults = 0 /\ crashes = 0 /\ scans = 0

-----------------------------------------------------------------------------
(* Calls made with the per-file context.  A call succeeds only while that  *)
(* context is live; a live call may fail at the price of one fault, and a  *)
(* mutating Drive call may fail after Drive has applied it.                *)

Succeeds == ~expired /\ UNCHANGED faults
Breaks   == ~expired /\ faults < MaxFaults /\ faults' = faults + 1
Fails    == Breaks \/ (expired /\ UNCHANGED faults)

\* The file the worker holds, by the scan cache.
Held == scanFiles[current].id

Goto(step) == pc' = step

\* Every stage failure quarantines the file before ProcessOne returns.
StageFails == Fails /\ Goto("quarantine")

-----------------------------------------------------------------------------
(* The people who share the Drive folder.                                  *)

Upload(f, c) ==
    /\ drive[f].place = "absent"
    /\ drive' = [drive EXCEPT ![f] = [place |-> "inbox", content |-> c,
                                      rev |-> 0, stable |-> FALSE]]
    /\ UNCHANGED <<stores, requests, shutting, pc, job, bounds>>

\* The file gets its checksum and grows older than the stable threshold.
Settle(f) ==
    /\ drive[f].place = "inbox" /\ ~drive[f].stable
    /\ drive' = [drive EXCEPT ![f].stable = TRUE]
    /\ UNCHANGED <<stores, requests, shutting, pc, job, bounds>>

\* A new revision is uploaded in place: same id, new content and time.
Edit(f, c) ==
    /\ drive[f].place = "inbox" /\ drive[f].rev < MaxEdits
    /\ c # drive[f].content
    /\ drive' = [drive EXCEPT ![f] = [place |-> "inbox", content |-> c,
                                      rev |-> @.rev + 1, stable |-> FALSE]]
    /\ UNCHANGED <<stores, requests, shutting, pc, job, bounds>>

Delete(f) ==
    /\ drive[f].place = "inbox"
    /\ drive' = [drive EXCEPT ![f].place = "gone"]
    /\ UNCHANGED <<stores, requests, shutting, pc, job, bounds>>

-----------------------------------------------------------------------------
(* Triggers, shutdown and crash.                                           *)

\* Mutant: a send that does not respect the channel's capacity.
UncappedEnqueue ==
    /\ pc # "down" /\ requests <= ScanChanCap
    /\ requests' = requests + 1
    /\ UNCHANGED <<drive, stores, shutting, pc, job, bounds>>

\* Ticker, webhook and OAuth callback; a full channel drops the request.
Enqueue ==
    /\ pc # "down" /\ requests < ScanChanCap
    /\ requests' = requests + 1
    /\ UNCHANGED <<drive, stores, shutting, pc, job, bounds>>

Signal ==
    /\ pc # "down" /\ ~shutting
    /\ shutting' = TRUE
    /\ UNCHANGED <<drive, stores, requests, pc, job, bounds>>

\* The file context's deadline passes.
Expire ==
    /\ pc \in InFile \ {"report"} /\ ~expired
    /\ faults < MaxFaults /\ faults' = faults + 1
    /\ expired' = TRUE
    /\ UNCHANGED <<drive, stores, requests, shutting, pc, pending, scanFiles,
                   current, hash, dir, outcome, crashes, scans>>

\* What dies with the process: the scan, its cache and the queued request.
LoseMemory ==
    /\ pc' = "down" /\ requests' = 0 /\ shutting' = FALSE
    /\ pending' = {} /\ scanFiles' = [n \in Names |-> None]
    /\ current' = None /\ hash' = None /\ dir' = None
    /\ outcome' = "none" /\ expired' = FALSE

Crash ==
    /\ pc # "down" /\ crashes < MaxCrashes
    /\ crashes' = crashes + 1
    /\ LoseMemory
    /\ UNCHANGED <<drive, stores, faults, scans>>

Restart ==
    /\ pc = "down"
    /\ pc' = "idle" /\ requests' = 1
    /\ UNCHANGED <<drive, stores, shutting, job, bounds>>

-----------------------------------------------------------------------------
(* Worker.Run and Worker.runScan.                                          *)

\* Run returns on ctx.Done and, with every goroutine, so does the process.
StopRun ==
    /\ pc = "idle" /\ shutting
    /\ LoseMemory
    /\ UNCHANGED <<drive, stores, bounds>>

\* The token is taken before the inbox is listed.  The select may still
\* choose it when the context is done.
StartScan ==
    /\ pc = "idle" /\ requests > 0 /\ scans < MaxScans
    /\ requests' = requests - 1 /\ scans' = scans + 1
    /\ Goto("list")
    /\ UNCHANGED <<drive, stores, shutting, job, faults, crashes>>

Listed(n) == {f \in Files : /\ NameOf[f] = n
                            /\ drive[f].place = "inbox" /\ drive[f].stable}

\* One result per stable file, but one cache entry per name: the last file
\* of a name in Drive's listing order is the one the scan can reach.
ListInbox ==
    /\ pc = "list" /\ ~shutting
    /\ pending' = UNION {Listed(n) : n \in Names}
    /\ \E last \in [Names -> Files \cup {None}] :
          /\ \A n \in Names : IF Listed(n) = {} THEN last[n] = None
                                                ELSE last[n] \in Listed(n)
          /\ scanFiles' = [n \in Names |->
                IF last[n] = None THEN None
                ELSE [id |-> last[n], rev |-> drive[last[n]].rev]]
    /\ Goto("next")
    /\ UNCHANGED <<drive, stores, requests, shutting, current, hash, dir,
                   outcome, expired, bounds>>

\* RecordError uses the daemon's context: it does nothing once that is done.
ListFails ==
    /\ pc = "list"
    /\ \/ shutting /\ UNCHANGED <<status, faults>>
       \/ /\ ~shutting /\ faults < MaxFaults /\ faults' = faults + 1
          /\ status' = [status EXCEPT !.lastError = TRUE]
    /\ Goto("idle")
    /\ UNCHANGED <<drive, library, quarantine, documents, requests, shutting,
                   job, crashes, scans>>

\* Shutdown is honoured between two files.
AbandonScan ==
    /\ pc = "next" /\ shutting /\ pending # {}
    /\ pending' = {} /\ outcome' = "none"
    /\ Goto("idle")
    /\ UNCHANGED <<drive, stores, requests, shutting, scanFiles, current, hash,
                   dir, expired, bounds>>

\* Mutant: the shutdown not looked at between two files.
StartFileAnyway(f) ==
    /\ pc = "next" /\ f \in pending
    /\ pending' = pending \ {f}
    /\ current' = NameOf[f]
    /\ outcome' = "none" /\ expired' = FALSE
    /\ Goto("recheck")
    /\ UNCHANGED <<drive, stores, requests, shutting, scanFiles, hash, dir,
                   bounds>>

StartFile(f) ==
    /\ pc = "next" /\ ~shutting /\ f \in pending
    /\ pending' = pending \ {f}
    /\ current' = NameOf[f]
    /\ outcome' = "none" /\ expired' = FALSE
    /\ Goto("recheck")
    /\ UNCHANGED <<drive, stores, requests, shutting, scanFiles, hash, dir,
                   bounds>>

\* RecordPoll also clears last_error; it fails once the context is done.
RecordPoll ==
    /\ pc = "next" /\ pending = {}
    /\ status' = IF shutting THEN status ELSE [status EXCEPT !.lastError = FALSE]
    /\ outcome' = "none"
    /\ Goto("idle")
    /\ UNCHANGED <<drive, library, quarantine, documents, requests, shutting,
                   pending, scanFiles, current, hash, dir, expired, bounds>>

-----------------------------------------------------------------------------
(* document.ProcessOne over drive.Storage.                                 *)

fileState == <<drive, requests, shutting, pending, scanFiles, current, expired,
               crashes, scans>>

\* ReadPDF, first half: fetch the metadata again and compare.
Recheck ==
    /\ pc = "recheck"
    /\ \/ /\ Succeeds
          /\ IF drive[Held].place # "gone" /\ drive[Held].rev = scanFiles[current].rev
             THEN Goto("download") ELSE Goto("quarantine")
       \/ StageFails
    /\ UNCHANGED <<fileState, stores, hash, dir, outcome>>

\* ReadPDF, second half: whatever the file holds now is hashed.
Download ==
    /\ pc = "download"
    /\ \/ /\ Succeeds /\ drive[Held].place # "gone"
          /\ hash' = drive[Held].content
          /\ Goto("duplicate")
       \/ /\ Succeeds /\ drive[Held].place = "gone"
          /\ Goto("quarantine") /\ UNCHANGED hash
       \/ StageFails /\ UNCHANGED hash
    /\ UNCHANGED <<fileState, stores, dir, outcome>>

\* Mutant: the duplicate check forgotten.
NoDuplicateCheck ==
    /\ pc = "duplicate"
    /\ Succeeds /\ Goto("ocr")
    /\ UNCHANGED <<fileState, stores, hash, dir, outcome>>

\* An index failure is the one error ProcessOne hands to its caller.
IsDuplicate ==
    /\ pc = "duplicate"
    /\ \/ /\ Succeeds /\ documents[hash] = None
          /\ Goto("ocr") /\ UNCHANGED outcome
       \/ /\ Succeeds /\ documents[hash] # None
          /\ outcome' = "skipped" /\ Goto("report")
       \/ Fails /\ outcome' = "error" /\ Goto("report")
    /\ UNCHANGED <<fileState, stores, hash, dir>>

RunOCR ==
    /\ pc = "ocr"
    /\ \/ Succeeds /\ IF hash \in Unreadable THEN Goto("quarantine")
                                             ELSE Goto("classify")
       \/ StageFails
    /\ UNCHANGED <<fileState, stores, hash, dir, outcome>>

RunClassify ==
    /\ pc = "classify"
    /\ \/ Succeeds /\ Goto("validate")
       \/ StageFails
    /\ UNCHANGED <<fileState, stores, hash, dir, outcome>>

\* Validation takes no context: it can fail, but never by expiry.
RunValidate ==
    /\ pc = "validate"
    /\ \/ UNCHANGED faults /\ Goto("folder")
       \/ Breaks /\ Goto("quarantine")
    /\ UNCHANGED <<fileState, stores, hash, dir, outcome>>

\* Mutant: the collision check forgotten.
BareDirName(d) == d[2] = 1

\* UniqueDirName: the bare name, or the first free suffix.
UniqueDirName(d) ==
    /\ ~library[d].folder
    /\ \A n \in 1..(d[2] - 1) : library[<<d[1], n>>].folder

\* WriteEntry lists the library and creates the entry's folder.
CreateFolder ==
    /\ pc = "folder"
    /\ \/ \E d \in Dirs :
             /\ UniqueDirName(d)
             /\ library' = [library EXCEPT ![d].folder = TRUE]
             /\ \/ Succeeds /\ dir' = d /\ Goto("pdf")
                \/ Breaks /\ UNCHANGED dir /\ Goto("quarantine")
       \/ StageFails /\ UNCHANGED <<library, dir>>
    /\ UNCHANGED <<fileState, quarantine, documents, status, hash, outcome>>

\* One upload of WriteEntry: applied and acknowledged, applied and not
\* acknowledged, or not applied.
UploadPart(step, entry, next) ==
    /\ pc = step
    /\ \/ /\ Succeeds /\ Goto(next)
          /\ library' = [library EXCEPT ![dir] = entry]
       \/ /\ Breaks /\ Goto("quarantine")
          /\ library' = [library EXCEPT ![dir] = entry]
       \/ StageFails /\ UNCHANGED library
    /\ UNCHANGED <<fileState, quarantine, documents, status, hash, dir, outcome>>

UploadPDF ==
    UploadPart("pdf", [library[dir] EXCEPT !.pdf = hash], "transcript")
UploadTranscript ==
    UploadPart("transcript", [library[dir] EXCEPT !.transcript = TRUE], "metadata")
\* Mutant: the row recorded without waiting for the metadata.
SkippedMetadata == UploadPart("metadata", library[dir], "record")

UploadMetadata ==
    UploadPart("metadata", [library[dir] EXCEPT !.metadata = hash], "record")

\* Mutant: an index failure taken for success.
UncheckedPutDocument ==
    /\ pc = "record"
    /\ \/ Succeeds /\ documents' = [documents EXCEPT ![hash] = dir]
       \/ Fails /\ UNCHANGED documents
    /\ Goto("move")
    /\ UNCHANGED <<fileState, library, quarantine, status, hash, dir, outcome>>

\* Mutant: the row is never recorded.
ForgottenPutDocument ==
    /\ pc = "record"
    /\ Succeeds /\ Goto("move")
    /\ UNCHANGED <<fileState, stores, hash, dir, outcome>>

\* INSERT OR IGNORE of the row that makes the content a duplicate.
PutDocument ==
    /\ pc = "record"
    /\ \/ /\ Succeeds /\ Goto("move")
          /\ documents' = [documents EXCEPT ![hash] = IF @ = None THEN dir ELSE @]
       \/ StageFails /\ UNCHANGED documents
    /\ UNCHANGED <<fileState, library, quarantine, status, hash, dir, outcome>>

\* Mutant: the file to move looked up by its name.
MoveByName ==
    /\ pc = "move" /\ Succeeds
    /\ \E f \in Files :
          /\ NameOf[f] = current /\ drive[f].place = "inbox"
          /\ drive' = [drive EXCEPT ![f].place = "processed"]
    /\ outcome' = "processed"
    /\ Goto("report")
    /\ UNCHANGED <<stores, requests, shutting, pending, scanFiles, current,
                   hash, dir, expired, crashes, scans>>

\* A failing move is only reported: the document counts as processed.
MoveToProcessed ==
    /\ pc = "move"
    /\ \/ /\ Succeeds \/ Breaks
          /\ drive[Held].place # "gone"
          /\ drive' = [drive EXCEPT ![Held].place = "processed"]
       \/ Succeeds /\ drive[Held].place = "gone" /\ UNCHANGED drive
       \/ Fails /\ UNCHANGED drive
    /\ outcome' = "processed"
    /\ Goto("report")
    /\ UNCHANGED <<stores, requests, shutting, pending, scanFiles, current,
                   hash, dir, expired, crashes, scans>>

\* Quarantine: a new subfolder per call, then best-effort copies of the PDF
\* and of the error report.  The inbox file is left where it is, every error
\* is dropped by the caller, and nothing happens on an expired context.
Quarantine ==
    /\ pc = "quarantine"
    /\ \/ \E pdf, report \in BOOLEAN :
             /\ ~expired
             /\ IF report /\ (pdf \/ drive[Held].place = "gone")
                THEN UNCHANGED faults ELSE Breaks
             /\ pdf => drive[Held].place # "gone"
             /\ quarantine' = [quarantine EXCEPT ![current] =
                   [folders |-> @.folders + 1,
                    pdfs    |-> @.pdfs + IF pdf THEN 1 ELSE 0,
                    reports |-> @.reports + IF report THEN 1 ELSE 0]]
       \/ Fails /\ UNCHANGED quarantine
    /\ outcome' = "quarantined"
    /\ Goto("report")
    /\ UNCHANGED <<fileState, library, documents, status, hash, dir>>

\* Mutant: a duplicate counted as quarantined.
CountedTwice ==
    CASE outcome = "processed" -> [status EXCEPT !.processed = @ + 1]
      [] outcome = "error"     -> [status EXCEPT !.lastError = TRUE]
      [] OTHER                 -> [status EXCEPT !.quarantine = @ + 1]

\* Worker.processOne after ProcessOne returned.  BumpCounter and RecordError
\* use the daemon's context: nothing is counted once that is done.
Counted ==
    CASE outcome = "processed"   -> [status EXCEPT !.processed = @ + 1]
      [] outcome = "skipped"     -> [status EXCEPT !.skipped = @ + 1]
      [] outcome = "quarantined" -> [status EXCEPT !.quarantine = @ + 1]
      [] OTHER                   -> [status EXCEPT !.lastError = TRUE]

Report ==
    /\ pc = "report"
    /\ status' = IF shutting THEN status ELSE Counted
    /\ current' = None /\ hash' = None /\ dir' = None
    /\ Goto("next")
    /\ UNCHANGED <<drive, library, quarantine, documents, requests, shutting,
                   pending, scanFiles, outcome, expired, bounds>>

-----------------------------------------------------------------------------

Environment ==
    \E f \in Files :
       \/ Settle(f) \/ Delete(f)
       \/ \E c \in Contents : Upload(f, c) \/ Edit(f, c)

RunLoop ==
    \/ StopRun \/ StartScan \/ ListInbox \/ ListFails \/ AbandonScan
    \/ RecordPoll \/ \E f \in Files : StartFile(f)

ProcessOne ==
    \/ Recheck \/ Download \/ IsDuplicate \/ RunOCR \/ RunClassify
    \/ RunValidate \/ CreateFolder \/ UploadPDF \/ UploadTranscript
    \/ UploadMetadata \/ PutDocument \/ MoveToProcessed \/ Quarantine \/ Report

Next ==
    \/ Environment \/ Enqueue \/ Signal \/ Expire \/ Crash \/ Restart
    \/ RunLoop \/ ProcessOne

Spec == Init /\ [][Next]_vars
-----------------------------------------------------------------------------
(* Properties.                                                             *)

InboxFile  == [place : {"absent", "inbox", "processed", "gone"},
               content : Contents \cup {None}, rev : 0..MaxEdits,
               stable : BOOLEAN]
EntryDir   == [folder : BOOLEAN, pdf : Contents \cup {None},
               transcript : BOOLEAN, metadata : Contents \cup {None}]
Quarantined == [folders : Nat, pdfs : Nat, reports : Nat]
StatusRow  == [processed : Nat, skipped : Nat, quarantine : Nat,
               lastError : BOOLEAN]

\* What every variable may hold.
TypeOK ==
    /\ drive \in [Files -> InboxFile]
    /\ library \in [Dirs -> EntryDir]
    /\ quarantine \in [Names -> Quarantined]
    /\ documents \in [Contents -> Dirs \cup {None}]
    /\ status \in StatusRow
    /\ requests \in 0..ScanChanCap /\ shutting \in BOOLEAN
    /\ pc \in InFile \cup {"idle", "list", "next", "down"}
    /\ pending \subseteq Files
    /\ scanFiles \in [Names -> CachedFile \cup {None}]
    /\ current \in Names \cup {None} /\ hash \in Contents \cup {None}
    /\ dir \in Dirs \cup {None}
    /\ outcome \in Outcomes /\ expired \in BOOLEAN
    /\ faults \in Nat /\ crashes \in Nat /\ scans \in Nat

Complete(d, c) == library[d] = [folder |-> TRUE, pdf |-> c,
                                transcript |-> TRUE, metadata |-> c]

\* A row of the dedup index always names a complete library entry holding
\* exactly the content the row is keyed by (WriteEntry records the row last,
\* drive.go:177-235): a content is never skipped as a duplicate unless it can
\* be read in the library.
IndexSound ==
    \A c \in Contents : documents[c] # None => Complete(documents[c], c)

\* No two documents share a library directory (UniqueDirName against the
\* folder listing, drive.go:186-193), whatever names the classifier chooses.
RowsOwnEntries ==
    \A c1, c2 \in Contents :
        c1 # c2 /\ documents[c1] # None => documents[c1] # documents[c2]

\* A file that left the inbox for the processed folder, and was not edited
\* while it lay in the inbox, has been filed: its content is in the index
\* (pipeline.go:120-127 moves only after WriteEntry succeeded).
ProcessedWasFiled ==
    \A f \in Files :
        drive[f].place = "processed" /\ drive[f].rev = 0
            => documents[drive[f].content] # None

Rows == {c \in Contents : documents[c] # None}

\* Across crashes, lost counter updates and retries, the status page never
\* claims more processed documents than the index holds (worker.go:127-133
\* counts after PutDocument, and one worker serialises the files).
ProcessedIsFiled == status.processed <= Cardinality(Rows)

Owned == {documents[c] : c \in Contents}

\* Entry directories no row names, other than the one being written.
Orphans ==
    {d \in Dirs : library[d].folder /\ d \notin Owned}
        \ (IF pc \in Filing \ {"folder"} THEN {dir} ELSE {})

\* Every library directory without an index row, which is to say every
\* directory a retry duplicates, is the work of one failed or interrupted
\* WriteEntry; without failures and crashes a content is filed at most once.
OrphansAccounted == Cardinality(Orphans) <= faults + crashes

\* The folders under _quarantine: per file name the first, the second, ...
QuarantineFolders == UNION {{n} \X (1..quarantine[n].folders) : n \in Names}

\* pipeline.go:76-77: a file that is counted as quarantined has its folder
\* under _quarantine, whatever stage failed and however often it is tried
\* again; only a failing call or an expired file context, whose Quarantine does
\* nothing (worker.go:100, pipeline.go:85), loses one.
QuarantineCounted ==
    status.quarantine <= Cardinality(QuarantineFolders) + faults

\* What the index says is filed stays filed: no later scan, retry, crash or
\* restart changes a row or any part of the entry it names.
FiledForGood ==
    [][\A c \in Contents : documents[c] # None =>
          /\ documents'[c] = documents[c]
          /\ library'[documents[c]] = library[documents[c]]]_vars

-----------------------------------------------------------------------------
(* The inductive invariant behind the safety properties: what the worker   *)
(* knows at each step about the file it holds and the entry it writes.     *)

Hashed == Filing \cup {"duplicate", "ocr", "classify", "validate", "move"}

\* The scan cache and the held file name files that have been uploaded.
ScanInv ==
    /\ \A f \in Files : drive[f].place # "absent" => drive[f].content \in Contents
    /\ \A n \in Names : scanFiles[n] # None =>
          drive[scanFiles[n].id].place # "absent"
    /\ \A f \in pending : scanFiles[NameOf[f]] # None
    /\ pc \in InFile => current \in Names /\ scanFiles[current] # None

\* The hash in hand is the content of the held file, unless it was edited.
HashInv ==
    pc \in Hashed =>
        /\ hash \in Contents
        /\ drive[Held].rev = 0 => drive[Held].content = hash

\* The entry being written belongs to no row and is filled in order.
EntryInv ==
    /\ pc \in Filing \cup {"ocr", "classify", "validate"} => documents[hash] = None
    /\ pc \in Filing \ {"folder"} =>
          dir \in Dirs /\ library[dir].folder /\ dir \notin Owned
    /\ pc \in {"transcript", "metadata", "record"} => library[dir].pdf = hash
    /\ pc \in {"metadata", "record"} => library[dir].transcript
    /\ pc = "record" => library[dir].metadata = hash
    /\ pc = "move" => documents[hash] # None

\* The parts of the inductive invariant, all of which every step keeps.
IInv ==
    /\ TypeOK /\ ScanInv /\ HashInv /\ EntryInv
    /\ IndexSound /\ RowsOwnEntries /\ ProcessedWasFiled

-----------------------------------------------------------------------------
(* A statement of the repository's docs that the code does not keep.       *)

\* docs/plan.md:105: a file whose content_hash a library entry already has is
\* skipped.  IsDuplicate (drive.go:171-173) asks SQLite, not the library, and
\* the row is written only after the entry is complete.
SkipsFiledContent ==
    [][pc = "duplicate" /\ pc' = "ocr"
          => \A d \in Dirs : library[d].metadata # hash]_vars
===========================================================================
