----------------------------- MODULE LocalIngest -----------------------------
(***************************************************************************)
(* `paperclaw process`: the command-line ingest over local directories.    *)
(* runProcess (cmd/paperclaw/main.go) lists the inbox and runs ProcessOne  *)
(* (internal/document/pipeline.go) on each file over the local backend     *)
(* (internal/storage/local/local.go).                                      *)
(*                                                                         *)
(* A document is its content; its SHA-256 is the content itself.  The      *)
(* files of the inbox are read where they lie: hash, transcript and copy   *)
(* are three separate reads.  The classifier gives a document any of the   *)
(* Titles, all with one date; DirName makes the directory name of it.      *)
(***************************************************************************)
EXTENDS DirName

CONSTANTS
    Procs,      \* processes of the CLI
    Names,      \* file names, numbered in the order of os.ReadDir
    Contents,   \* PDF contents
    Date,       \* the date of every document
    Titles,     \* what the classifier answers: vendor and file description
    Stem,       \* a file's name without its extension
    MaxRuns, MaxDrops,  \* bounds, ...
    MaxTroubles,        \* ... this one on rewrites, faults and crashes together
    None,       \* no file
    Torn        \* a file whose write was cut short

ASSUME ConstantsAssumption ==
    /\ Names \subseteq Nat /\ None \notin Contents /\ Torn \notin Contents
    /\ None # Torn /\ None \notin Names
    /\ \A t \in Titles : /\ DOMAIN t = {"vendor", "description"}
                         /\ IsText(t.vendor) /\ IsText(t.description)
    /\ DOMAIN Stem = Names /\ IsText(Date) /\ \A n \in Names : IsText(Stem[n])
    /\ MaxRuns \in Nat /\ MaxDrops \in Nat /\ MaxTroubles \in Nat

VARIABLES
    inbox,       \* [Names -> content or None]
    library,     \* per entry directory: document.pdf, transcript.md and
                 \* metadata.json (its id and content_hash, which are equal)
    processed,   \* [Names \X (Contents \cup {None}) -> file]: <<n, None>> is
                 \* named n, <<n, h>> is named n-h
    quarantined, \* names with a directory under _quarantine
    log,         \* lines of process.log: name, status and hash
    pc, todo,    \* per process: next step, names still to be processed
    job,         \* per process: the locals of ProcessOne
    given,       \* history: contents ever put in the inbox
    missed,      \* history: per document, the lookups that passed over it
    runs, drops, rewrites, faults, crashes   \* used-up bounds

disk    == <<inbox, library, processed, quarantined, log>>
local   == <<pc, todo, job>>
history == <<given, missed, runs, drops, rewrites>>
vars    == <<disk, local, history, faults, crashes>>

File  == Contents \cup {None, Torn}
Entry == [pdf : File, text : File, meta : File]
NoJob == [name |-> None, hash |-> None, text |-> None, dir |-> << >>,
          status |-> None]
Empty == [pdf |-> None, text |-> None, meta |-> None]
Slots == Names \X (Contents \cup {None})

Init ==
    /\ inbox = [n \in Names |-> None]
    /\ library = [d \in {} |-> Empty] /\ quarantined = {} /\ log = {}
    /\ processed = [s \in Slots |-> None]
    /\ pc = [p \in Procs |-> "idle"] /\ todo = [p \in Procs |-> {}]
    /\ job = [p \in Procs |-> NoJob]
    /\ given = {} /\ missed = [c \in Contents |-> 0]
    /\ runs = 0 /\ drops = 0 /\ rewrites = 0 /\ faults = 0 /\ crashes = 0

-----------------------------------------------------------------------------
(* The steps of a process.                                                 *)

Trouble == rewrites + faults + crashes < MaxTroubles

OK     == UNCHANGED faults
Breaks == Trouble /\ faults' = faults + 1

Goto(p, s) == pc' = [pc EXCEPT ![p] = s]
Set(p, j)  == job' = [job EXCEPT ![p] = j]
Cur(p)     == inbox[job[p].name]    \* the inbox file, read again

\* Quarantine: its own failures are ignored and the file stays in the inbox.
Quarantine(p) ==
    /\ \/ quarantined' = quarantined \cup {job[p].name}
       \/ Breaks /\ UNCHANGED quarantined
    /\ Set(p, [job[p] EXCEPT !.status = "quarantined"])
    /\ Goto(p, "log")

\* runProcess up to ListInbox.
Start(p) ==
    /\ pc[p] = "idle" /\ runs < MaxRuns
    /\ runs' = runs + 1
    /\ \/ OK /\ todo' = [todo EXCEPT ![p] = {n \in Names : inbox[n] # None}]
          /\ Goto(p, "next")
       \/ Breaks /\ UNCHANGED <<todo, pc>>
    /\ UNCHANGED <<disk, job, given, missed, drops, rewrites, crashes>>

NextName(p) ==
    /\ pc[p] = "next"
    /\ \E n \in todo[p] :
        /\ \A m \in todo[p] : n <= m
        /\ todo' = [todo EXCEPT ![p] = @ \ {n}]
        /\ Set(p, [NoJob EXCEPT !.name = n])
    /\ Goto(p, "read")
    /\ UNCHANGED <<disk, history, faults, crashes>>

Finish(p) ==
    /\ pc[p] = "next" /\ todo[p] = {}
    /\ Goto(p, "idle") /\ Set(p, NoJob)
    /\ UNCHANGED <<disk, todo, history, faults, crashes>>

ReadPDF(p) ==
    /\ pc[p] = "read"
    /\ \/ /\ OK /\ Cur(p) # None /\ UNCHANGED quarantined
          /\ Set(p, [job[p] EXCEPT !.hash = Cur(p)]) /\ Goto(p, "dup")
       \/ (Breaks \/ (OK /\ Cur(p) = None)) /\ Quarantine(p)
    /\ UNCHANGED <<inbox, library, processed, log, todo, history, crashes>>

\* Mutants: any entry with the PDF taken for a filed one; the processed
\* directory searched instead of the library.
AnyEntry(h)    == \E d \in DOMAIN library : library[d].pdf = h
AnyOriginal(h) == \E s \in Slots : processed[s] = h

\* An entry whose metadata.json is not there or is torn is passed over.
InLibrary(h) == \E d \in DOMAIN library : library[d].meta = h

\* Mutant: a lookup that finds the document does not end the job.
FileAnyway(p) ==
    /\ pc[p] = "dup" /\ OK
    /\ Goto(p, "extract")
    /\ UNCHANGED <<disk, todo, job, history, crashes>>

\* A failing walk of the library ends the whole run.  A failing read of a
\* metadata.json does not: the entry is passed over.  When the reads of all
\* entries of a document fail in one walk, it is taken for a new one.
IsDuplicate(p) ==
    /\ pc[p] = "dup"
    /\ \/ /\ OK /\ InLibrary(job[p].hash)
          /\ Set(p, [job[p] EXCEPT !.status = "skipped"]) /\ Goto(p, "log")
          /\ UNCHANGED <<todo, missed>>
       \/ /\ OK /\ ~InLibrary(job[p].hash)
          /\ Goto(p, "extract") /\ UNCHANGED <<job, todo, missed>>
       \/ /\ Breaks /\ InLibrary(job[p].hash)
          /\ missed' = [missed EXCEPT ![job[p].hash] = @ + 1]
          /\ Goto(p, "extract") /\ UNCHANGED <<job, todo>>
       \/ /\ Breaks
          /\ Goto(p, "idle") /\ Set(p, NoJob)
          /\ todo' = [todo EXCEPT ![p] = {}]
          /\ UNCHANGED missed
    /\ UNCHANGED <<disk, given, runs, drops, rewrites, crashes>>

\* runOCR, runClassify and runValidate: only the first reads shared state.
Extract(p) ==
    /\ pc[p] = "extract"
    /\ \/ /\ OK /\ Cur(p) # None /\ UNCHANGED quarantined
          /\ Set(p, [job[p] EXCEPT !.text = Cur(p)]) /\ Goto(p, "pick")
       \/ (Breaks \/ (OK /\ Cur(p) = None)) /\ Quarantine(p)
    /\ UNCHANGED <<inbox, library, processed, log, todo, history, crashes>>

\* The base name of an entry.  A missing description is replaced by the name
\* of the file.
BaseName(t, n) ==
    FormatDirName(Date, t.vendor,
                  IF t.description = << >> THEN Stem[n] ELSE t.description)

\* Mutant: the collision check forgotten.
BaseOnly(base) == {base}

\* Only whether there is an entry of the name is asked, not what is in it.  A
\* Stat that fails although the entry is there, which the code takes for a free
\* name, is left out here and in Target.
FreeName(base) == UniqueDirName(base, DOMAIN library)

\* WriteEntry: choose the name, ...
PickDir(p) ==
    /\ pc[p] = "pick"
    /\ \E t \in Titles : \E d \in FreeName(BaseName(t, job[p].name)) :
           Set(p, [job[p] EXCEPT !.dir = d])
    /\ Goto(p, "mkdir")
    /\ UNCHANGED <<disk, todo, history, faults, crashes>>

\* ... make the directory (MkdirAll takes an existing one), ...
MkDir(p) ==
    /\ pc[p] = "mkdir"
    /\ \/ /\ OK /\ Goto(p, "pdf") /\ UNCHANGED <<quarantined, job>>
          /\ library' = [d \in DOMAIN library \cup {job[p].dir} |->
                            IF d \in DOMAIN library THEN library[d] ELSE Empty]
       \/ Breaks /\ Quarantine(p) /\ UNCHANGED library
    /\ UNCHANGED <<inbox, processed, log, todo, history, crashes>>

Put(p, field, v) == library' = [library EXCEPT ![job[p].dir][field] = v]

\* Mutant: the error of a write ignored.
WriteAnyway(p, field, v, next) ==
    /\ \/ OK /\ v # None /\ Put(p, field, v)
       \/ Breaks /\ Put(p, field, Torn)
    /\ Goto(p, next) /\ UNCHANGED <<quarantined, job>>

\* ... and write one file after the other.  A failing write may leave a torn
\* file.
WriteFile(p, field, v, next) ==
    \/ OK /\ v # None /\ Put(p, field, v) /\ Goto(p, next)
       /\ UNCHANGED <<quarantined, job>>
    \/ /\ Breaks \/ (OK /\ v = None)
       /\ Put(p, field, Torn) \/ UNCHANGED library
       /\ Quarantine(p)

CopyPDF(p) ==
    /\ pc[p] = "pdf" /\ WriteFile(p, "pdf", Cur(p), "text")
    /\ UNCHANGED <<inbox, processed, log, todo, history, crashes>>

WriteTranscript(p) ==
    /\ pc[p] = "text" /\ WriteFile(p, "text", job[p].text, "meta")
    /\ UNCHANGED <<inbox, processed, log, todo, history, crashes>>

WriteMetadata(p) ==
    /\ pc[p] = "meta" /\ WriteFile(p, "meta", job[p].hash, "move")
    /\ UNCHANGED <<inbox, processed, log, todo, history, crashes>>

\* Mutant: a name already taken is overwritten.
SameName(p) == <<job[p].name, None>>

\* A name already taken in the processed directory gets the hash as suffix.
Target(p) == IF processed[SameName(p)] = None THEN SameName(p)
             ELSE <<job[p].name, job[p].hash>>

\* MoveToProcessed: rename, or else copy and remove.  No failure is reported.
Move(p) ==
    /\ pc[p] = "move"
    /\ Set(p, [job[p] EXCEPT !.status = "processed"])
    /\ \/ /\ OK /\ Cur(p) # None
          /\ processed' = [processed EXCEPT ![Target(p)] = Cur(p)]
          /\ inbox' = [inbox EXCEPT ![job[p].name] = None]
          /\ Goto(p, "log")
       \/ /\ Breaks /\ Cur(p) # None
          /\ processed' = [processed EXCEPT ![Target(p)] = Cur(p)]
          /\ UNCHANGED inbox /\ Goto(p, "remove")
       \/ /\ Breaks \/ (OK /\ Cur(p) = None)
          /\ \/ processed' = [processed EXCEPT ![Target(p)] = Torn]
                /\ Cur(p) # None
             \/ UNCHANGED processed
          /\ UNCHANGED inbox /\ Goto(p, "log")
    /\ UNCHANGED <<library, quarantined, log, todo, history, crashes>>

RemoveSource(p) ==
    /\ pc[p] = "remove"
    /\ \/ OK /\ inbox' = [inbox EXCEPT ![job[p].name] = None]
       \/ Breaks /\ UNCHANGED inbox
    /\ Goto(p, "log")
    /\ UNCHANGED <<library, processed, quarantined, log, todo, job, history,
                   crashes>>

Line(p) == [name |-> job[p].name, status |-> job[p].status, hash |-> job[p].hash]

WriteLog(p) ==
    /\ pc[p] = "log"
    /\ \/ OK /\ log' = log \cup {Line(p)}
       \/ Breaks /\ UNCHANGED log
    /\ Goto(p, "next")
    /\ UNCHANGED <<inbox, library, processed, quarantined, todo, job, history,
                   crashes>>

-----------------------------------------------------------------------------
(* The user and the machine.                                               *)

Drop(n, c) ==
    /\ inbox[n] = None /\ drops < MaxDrops
    /\ inbox' = [inbox EXCEPT ![n] = c] /\ given' = given \cup {c}
    /\ drops' = drops + 1
    /\ UNCHANGED <<library, processed, quarantined, log, local, missed, runs,
                   rewrites, faults, crashes>>

\* The file is replaced in place.
Rewrite(n, c) ==
    /\ inbox[n] \in Contents \ {c} /\ Trouble
    /\ inbox' = [inbox EXCEPT ![n] = c]
    /\ given' = given \cup {c}
    /\ rewrites' = rewrites + 1
    /\ UNCHANGED <<library, processed, quarantined, log, local, missed, runs,
                   drops, faults, crashes>>

\* A process dies, possibly in the middle of a write.
Crash(p) ==
    /\ pc[p] # "idle" /\ Trouble
    /\ crashes' = crashes + 1
    /\ Goto(p, "idle") /\ Set(p, NoJob) /\ todo' = [todo EXCEPT ![p] = {}]
    /\ \/ UNCHANGED <<library, processed>>
       \/ pc[p] \in {"pdf", "text", "meta"} /\ Put(p, pc[p], Torn)
          /\ UNCHANGED processed
       \/ /\ pc[p] = "move" /\ Cur(p) # None
          /\ processed' = [processed EXCEPT ![Target(p)] = Torn]
          /\ UNCHANGED library
    /\ UNCHANGED <<inbox, quarantined, log, history, faults>>

Step(p) ==
    \/ NextName(p) \/ Finish(p) \/ ReadPDF(p) \/ IsDuplicate(p) \/ Extract(p)
    \/ PickDir(p) \/ MkDir(p) \/ CopyPDF(p) \/ WriteTranscript(p)
    \/ WriteMetadata(p) \/ Move(p) \/ RemoveSource(p) \/ WriteLog(p)

Next ==
    \/ \E p \in Procs : Start(p) \/ Step(p) \/ Crash(p)
    \/ \E n \in Names, c \in Contents : Drop(n, c) \/ Rewrite(n, c)

Spec == Init /\ [][Next]_vars

-----------------------------------------------------------------------------
(* Properties of one process at a time, with crashes, failing calls and     *)
(* replaced inbox files.                                                    *)

\* The date, the two slugs, their separators and a number.
NameMax == Len(Date) + 1 + VendorMax + 1 + DescriptionMax + 2

TypeOK ==
    /\ inbox \in [Names -> Contents \cup {None}]
    /\ library \in [DOMAIN library -> Entry]
    /\ \A d \in DOMAIN library : IsPrefix(Date, d) /\ Len(d) <= NameMax
    /\ processed \in [Slots -> File]
    /\ quarantined \subseteq Names
    /\ log \subseteq [name : Names, hash : Contents \cup {None},
                     status : {"processed", "skipped", "quarantined"}]
    /\ pc \in [Procs -> {"idle", "next", "read", "dup", "extract", "pick",
                         "mkdir", "pdf", "text", "meta", "move", "remove",
                         "log"}]
    /\ todo \in [Procs -> SUBSET Names]
    /\ \A p \in Procs :
           /\ job[p].name \in Names \cup {None}
           /\ job[p].hash \in Contents \cup {None}
           /\ job[p].text \in Contents \cup {None}
           /\ pc[p] \in {"pdf", "text", "meta"} => job[p].dir \in DOMAIN library
    /\ given \subseteq Contents /\ missed \in [Contents -> Nat]

Filed(c)  == {d \in DOMAIN library : library[d].meta = c}
Archived  == {c \in Contents : \E s \in Slots : processed[s] = c}

\* pipeline.go:70: a duplicate is skipped.  Whatever crashed or failed between
\* the entry and the move, a document is filed a second time only by a lookup
\* that could not read the metadata.json of any of its entries (local.go:76-79):
\* every entry but the first is charged to one such lookup.
FiledOnce == \A c \in Contents : Cardinality(Filed(c)) <= 1 + missed[c]

\* pipeline.go:70 and 78-79: a document that is in the library is skipped, and
\* an error of IsDuplicate aborts the run.  The local lookup reports no error for
\* a metadata.json it cannot read: the document is filed again.
SkipsFiled == \A c \in Contents : Cardinality(Filed(c)) <= 1

\* metadata.json is written last: an entry that has one is complete, and all
\* its files are of the document whose hash it carries, except for one entry
\* for each inbox file that was replaced while it was read.
EntryIntact ==
    Cardinality({d \in DOMAIN library :
                    /\ library[d].meta \in Contents
                    /\ \/ library[d].pdf # library[d].meta
                       \/ library[d].text # library[d].meta}) <= rewrites

\* pipeline.go:126-127: an original is archived after its entry is written.
\* Each replaced file may bring one into the processed directory unfiled.
ArchivedIsFiled ==
    Cardinality({c \in Archived : Filed(c) = {}}) <= rewrites

\* MoveToProcessed never loses an original, although it renames over, copies
\* and removes and reports no failure: a document put in the inbox is still
\* there or in the processed directory, except for one per replaced file
\* (the replaced one, or the new one if it came between copy and remove).
NothingLost ==
    Cardinality(given \ (Archived \cup {inbox[n] : n \in Names})) <= rewrites

\* main.go:149-157: a line of the process log is true: the document of a
\* processed or skipped file is in the library.
LogIsTrue ==
    \A l \in log : l.status \in {"processed", "skipped"} => Filed(l.hash) # {}

\* document.go:52-65: WriteEntry only writes to a directory of its own.  A
\* complete entry is never touched again.
EntriesFrozen ==
    [][\A d \in DOMAIN library : library[d].meta \in Contents
            => d \in DOMAIN library' /\ library'[d] = library[d]]_vars

\* The local backend implements the abstract ingest: until an inbox file is
\* replaced, each step is a step of Ingest or leaves its state alone.
Abstract == INSTANCE Ingest
    WITH entries <- [c \in Contents |-> Cardinality(Filed(c))],
         archived <- Archived
ImplementsIngest ==
    Abstract!Init /\ [][rewrites' = 0 => Abstract!Next]_(Abstract!vars)

=============================================================================
