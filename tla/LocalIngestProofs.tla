-------------------------- MODULE LocalIngestProofs --------------------------
(* Proofs about LocalIngest: its types, for any number of processes of the   *)
(* command line, and, for one process, that a document is filed once,        *)
(* complete entries are never touched again, and the process log is true.    *)
EXTENDS LocalIngest, DirNameProofs, FiniteSetTheorems

OneProcess == \A p, q \in Procs : p = q

-----------------------------------------------------------------------------
(* Directory names.                                                          *)

NameChars == Range(Date) \cup Alnum \cup {Dash, "_"} \cup {ToString(i) : i \in Nat}

\* A text that begins with the date and has at most k characters more.
Dated(d, k) ==
    /\ d \in Seq(NameChars) /\ Len(Date) <= Len(d) /\ Len(d) <= Len(Date) + k
    /\ \A i \in 1..Len(Date) : d[i] = Date[i]

DirTail == VendorMax + DescriptionMax + 2

LEMMA DateGoesOn ==
    ASSUME NEW d, NEW k \in Nat, Dated(d, k), Date \in Seq(NameChars),
           NEW t \in Seq(NameChars), NEW m \in Nat, Len(t) <= m, NEW n, n = k + m
    PROVE  Dated(d \o t, n)
<1>1. /\ Len(d) \in Nat /\ Len(t) \in Nat /\ Len(Date) \in Nat
      /\ Len(Date) <= Len(d) /\ Len(d) <= Len(Date) + k
  BY DEF Dated
<1>2. d \o t \in Seq(NameChars) /\ Len(d \o t) = Len(d) + Len(t)
      /\ \A i \in 1..Len(d) : (d \o t)[i] = d[i]
  BY ConcatProperties DEF Dated
<1>3. Len(Date) <= Len(d) + Len(t) /\ Len(d) + Len(t) <= Len(Date) + n
  BY <1>1
<1>4. \A i \in 1..Len(Date) : (d \o t)[i] = Date[i]
  BY <1>1, <1>2 DEF Dated
<1> QED
  BY <1>2, <1>3, <1>4 DEF Dated

LEMMA ShortText ==
    ASSUME NEW Chars, NEW c \in Chars, NEW d \in Chars
    PROVE  /\ <<c>> \in Seq(Chars) /\ Len(<<c>>) = 1
           /\ <<c, d>> \in Seq(Chars) /\ Len(<<c, d>>) = 2
  OBVIOUS

LEMMA DateIsText == Date \in Seq(NameChars) /\ Len(Date) \in Nat
<1>1. Range(Date) \subseteq NameChars
  BY DEF NameChars
<1> QED
  BY <1>1, ConstantsAssumption, SeqMonotonic DEF IsText

\* A slug that was cut is part of a name.
LEMMA SlugInName ==
    ASSUME NEW text, IsText(text), NEW max \in Nat \ {0}
    PROVE  /\ TruncateSlug(ToSlug(text), max) \in Seq(NameChars)
           /\ Len(TruncateSlug(ToSlug(text), max)) <= max
<1>1. Alnum \cup {Dash} \subseteq NameChars
  BY DEF NameChars
<1> QED
  BY <1>1, SlugIsMade, SlugIsCut, SeqMonotonic DEF Slugs

LEMMA NameIsFormatted ==
    ASSUME NEW v, IsText(v), NEW d, IsText(d)
    PROVE  Dated(FormatDirName(Date, v, d), DirTail)
<1> DEFINE sep == <<"_">>
           vs  == TruncateSlug(ToSlug(v), VendorMax)
           ds  == TruncateSlug(ToSlug(d), DescriptionMax)
<1>1. /\ VendorMax \in Nat /\ DescriptionMax \in Nat
      /\ vs \in Seq(NameChars) /\ Len(vs) <= VendorMax
      /\ ds \in Seq(NameChars) /\ Len(ds) <= DescriptionMax
  BY DirNameAssumption, SlugInName
<1>2. FormatDirName(Date, v, d) = (((Date \o sep) \o vs) \o sep) \o ds
  BY DEF FormatDirName
<1>3. sep \in Seq(NameChars) /\ Len(sep) <= 1
  <2>1. "_" \in NameChars
    BY DEF NameChars
  <2>2. sep \in Seq(NameChars) /\ Len(sep) = 1
    BY <2>1, ShortText
  <2> HIDE DEF sep
  <2> QED
    BY <2>2
<1>4. Dated(Date, 0)
  BY DateIsText DEF Dated
<1>5. PICK k \in Nat, m \in Nat : k = 1 + VendorMax /\ m = k + 1
                               /\ DirTail = m + DescriptionMax
  BY <1>1 DEF DirTail
<1> HIDE DEF vs, ds, sep
<1>6. Dated(Date \o sep, 1)
  BY <1>3, <1>4, DateIsText, DateGoesOn
<1>7. Dated((Date \o sep) \o vs, k)
  BY <1>1, <1>5, <1>6, DateIsText, DateGoesOn
<1>8. Dated(((Date \o sep) \o vs) \o sep, m)
  BY <1>3, <1>5, <1>7, DateIsText, DateGoesOn
<1>9. Dated((((Date \o sep) \o vs) \o sep) \o ds, DirTail)
  BY <1>1, <1>5, <1>8, DateIsText, DateGoesOn
<1> QED
  BY <1>2, <1>9

\* The name of an entry directory.
IsEntryName(d) == Dated(d, DirTail + 2)

\* A number at the end is a dash and one more character.
LEMMA NameIsNumbered ==
    ASSUME NEW base, Dated(base, DirTail), NEW i \in Nat
    PROVE  IsEntryName(Numbered(base, i))
<1>1. DirTail \in Nat /\ DirTail + 2 \in Nat
  BY DirNameAssumption DEF DirTail
<1>2. CASE i = 1
  <2>1. Len(base) \in Nat /\ Len(base) <= Len(Date) + (DirTail + 2)
    BY <1>1, DateIsText DEF Dated
  <2> QED
    BY <1>2, <2>1 DEF Numbered, IsEntryName, Dated
<1>3. CASE i # 1
  <2> DEFINE tail == <<Dash, ToString(i)>>
  <2>1. tail \in Seq(NameChars) /\ Len(tail) <= 2
    <3>1. Dash \in NameChars /\ ToString(i) \in NameChars
      BY DEF NameChars
    <3>2. tail \in Seq(NameChars) /\ Len(tail) = 2
      BY <3>1, ShortText
    <3> QED
      BY <3>2
  <2>2. Numbered(base, i) = base \o tail
    BY <1>3 DEF Numbered
  <2> HIDE DEF tail
  <2> QED
    BY <1>1, <2>1, <2>2, DateIsText, DateGoesOn DEF IsEntryName
<1> QED
  BY <1>2, <1>3

\* A name that WriteEntry chooses.
LEMMA NameIsChosen ==
    ASSUME NEW t \in Titles, NEW n \in Names, NEW d \in FreeName(BaseName(t, n))
    PROVE  IsEntryName(d)
<1>1. IsText(t.vendor) /\ IsText(t.description) /\ IsText(Stem[n])
  BY ConstantsAssumption
<1>2. Dated(BaseName(t, n), DirTail)
  BY <1>1, NameIsFormatted DEF BaseName
<1>3. PICK i \in 1..Cardinality(DOMAIN library) + 1 : d = Numbered(BaseName(t, n), i)
  BY DEF FreeName, UniqueDirName
<1>4. i \in Nat
  BY <1>3
<1> QED
  BY <1>2, <1>3, <1>4, NameIsNumbered

\* What TypeOK says of a name.
LEMMA EntryNameIsTyped ==
    ASSUME NEW d, IsEntryName(d) PROVE IsPrefix(Date, d) /\ Len(d) <= NameMax
<1>1. /\ Date \in Seq(NameChars) /\ d \in Seq(NameChars)
      /\ Len(Date) \in Nat /\ Len(d) \in Nat
      /\ Len(Date) <= Len(d) /\ Len(d) <= Len(Date) + (DirTail + 2)
      /\ \A i \in 1..Len(Date) : d[i] = Date[i]
  BY DateIsText DEF IsEntryName, Dated
<1>2. Len(d) <= NameMax
  BY <1>1, DirNameAssumption DEF NameMax, DirTail
<1>3. SubSeq(Date, 1, Len(Date)) = SubSeq(d, 1, Len(Date))
  <2>1. /\ SubSeq(Date, 1, Len(Date)) \in Seq(NameChars)
        /\ Len(SubSeq(Date, 1, Len(Date))) = Len(Date)
        /\ \A i \in 1..Len(Date) : SubSeq(Date, 1, Len(Date))[i] = Date[i]
    BY <1>1, SubSeqProperties
  <2>2. /\ SubSeq(d, 1, Len(Date)) \in Seq(NameChars)
        /\ Len(SubSeq(d, 1, Len(Date))) = Len(Date)
        /\ \A i \in 1..Len(Date) : SubSeq(d, 1, Len(Date))[i] = d[i]
    BY <1>1, SubSeqProperties
  <2> QED
    BY <1>1, <2>1, <2>2, SeqEqual
<1> QED
  BY <1>1, <1>2, <1>3 DEF IsPrefix

-----------------------------------------------------------------------------
(* The inductive invariant.                                                  *)

Writing == {"pdf", "text", "meta"}
Unfiled == Writing \cup {"extract", "pick", "mkdir"}
InHand  == Unfiled \cup {"dup", "move"}
Busy    == InHand \cup {"read", "remove", "log"}

\* The types the argument needs: a directory name is left open.
JobShape(j) ==
    /\ DOMAIN j = {"name", "hash", "text", "dir", "status"}
    /\ j.name \in Names \cup {None}
    /\ j.hash \in Contents \cup {None}
    /\ j.text \in Contents \cup {None}

ShapeInv ==
    /\ inbox \in [Names -> Contents \cup {None}]
    /\ library \in [DOMAIN library -> Entry]
    /\ processed \in [Slots -> File]
    /\ pc \in [Procs -> Busy \cup {"idle", "next"}]
    /\ todo \in [Procs -> SUBSET Names]
    /\ DOMAIN job = Procs
    /\ \A p \in Procs : JobShape(job[p])
    /\ rewrites \in Nat /\ missed \in [Contents -> Nat]
    /\ IsFiniteSet(DOMAIN library)

\* One more entry of the document is paid for by the lookups that passed it over.
Room(c) == Cardinality(Filed(c)) <= missed[c]

\* What a process knows of the file in hand and of the library.
Knows(p) ==
    /\ pc[p] \in Busy => job[p].name \in Names
    /\ pc[p] \in InHand \cup {"remove"} => job[p].hash \in Contents
    /\ pc[p] \in Unfiled => Room(job[p].hash)
    /\ pc[p] = "mkdir" => job[p].dir \notin DOMAIN library
    /\ pc[p] \in Writing =>
          job[p].dir \in DOMAIN library /\ library[job[p].dir].meta = None
    /\ pc[p] \in {"move", "remove"} => Filed(job[p].hash) # {}
    /\ pc[p] = "log" /\ job[p].status \in {"processed", "skipped"}
          => Filed(job[p].hash) # {} /\ job[p].hash \in Contents

JobInv == \A p \in Procs : Knows(p)

\* The part of it that no other process can undo.
Holds(p) ==
    /\ pc[p] \in Busy => job[p].name \in Names
    /\ pc[p] \in InHand \cup {"remove"} => job[p].hash \in Contents
    /\ pc[p] \in Writing => job[p].dir \in DOMAIN library

HandInv == \A p \in Procs : Holds(p)

\* The lines of the process log that LogIsTrue is about.
LogInv ==
    \A l \in log : l.status \in {"processed", "skipped"}
        => l.hash \in Contents /\ Filed(l.hash) # {}

IInv == ShapeInv /\ JobInv /\ FiledOnce /\ LogInv

-----------------------------------------------------------------------------
(* Counting.                                                                 *)

\* A set that gains one member, and one that gains none.
LEMMA OneMore ==
    ASSUME NEW S, IsFiniteSet(S), NEW x, NEW T, T \subseteq S \cup {x}
    PROVE  IsFiniteSet(T) /\ Cardinality(T) <= Cardinality(S) + 1
           /\ Cardinality(S) \in Nat /\ Cardinality(T) \in Nat
<1>1. IsFiniteSet(S \cup {x}) /\ Cardinality(S \cup {x}) <= Cardinality(S) + 1
      /\ Cardinality(S) \in Nat
  <2>1. /\ IsFiniteSet(S \cup {x})
        /\ Cardinality(S \cup {x}) = IF x \in S THEN Cardinality(S) ELSE Cardinality(S) + 1
    BY FS_AddElement
  <2>2. Cardinality(S) \in Nat
    BY FS_CardinalityType
  <2> QED
    BY <2>1, <2>2
<1>2. IsFiniteSet(T) /\ Cardinality(T) <= Cardinality(S \cup {x})
  BY <1>1, FS_Subset
<1>3. Cardinality(T) \in Nat /\ Cardinality(S \cup {x}) \in Nat
  BY <1>1, <1>2, FS_CardinalityType
<1> QED
  BY <1>1, <1>2, <1>3

LEMMA Fewer ==
    ASSUME NEW S, IsFiniteSet(S), NEW T, T \subseteq S
    PROVE  IsFiniteSet(T) /\ Cardinality(T) <= Cardinality(S)
           /\ Cardinality(S) \in Nat /\ Cardinality(T) \in Nat
BY FS_Subset, FS_CardinalityType

-----------------------------------------------------------------------------
(* The library.                                                              *)

\* Writing one file of an entry changes that file only.
LEMMA EntryWritten ==
    ASSUME NEW e \in Entry, NEW field \in Writing, NEW v \in File
    PROVE  /\ [e EXCEPT ![field] = v] \in Entry
           /\ field # "meta" => [e EXCEPT ![field] = v].meta = e.meta
           /\ field = "meta" => [e EXCEPT ![field] = v].meta = v
<1>1. CASE field = "pdf"
  BY <1>1 DEF Entry
<1>2. CASE field = "text"
  BY <1>2 DEF Entry
<1>3. CASE field = "meta"
  BY <1>3 DEF Entry
<1> QED
  BY <1>1, <1>2, <1>3 DEF Writing

\* A write goes to the entry that is being written.
LEMMA PutKeeps ==
    ASSUME ShapeInv, JobInv, NEW p \in Procs, pc[p] \in Writing, NEW v \in File,
           Put(p, pc[p], v)
    PROVE  /\ DOMAIN library' = DOMAIN library /\ library' \in [DOMAIN library -> Entry]
           /\ \A d \in DOMAIN library : d # job[p].dir => library'[d] = library[d]
           /\ library'[job[p].dir].meta = IF pc[p] = "meta" THEN v ELSE None
<1> DEFINE D == job[p].dir
<1>1. D \in DOMAIN library /\ library[D] \in Entry /\ library[D].meta = None
  BY DEF ShapeInv, JobInv, Knows
<1>2. library' = [library EXCEPT ![D] = [library[D] EXCEPT ![pc[p]] = v]]
  BY DEF Put
<1>3. /\ [library[D] EXCEPT ![pc[p]] = v] \in Entry
      /\ [library[D] EXCEPT ![pc[p]] = v].meta = IF pc[p] = "meta" THEN v ELSE None
  BY <1>1, EntryWritten
<1> QED
  BY <1>1, <1>2, <1>3 DEF ShapeInv

\* What is filed after a step, said of the documents and not of the entries.
SameFiled == \A c \in Contents : Filed(c)' = Filed(c)
FiledAt(p) ==
    /\ pc[p] = "meta" /\ OK /\ Goto(p, "move") /\ UNCHANGED <<quarantined, job, missed>>
    /\ job[p].dir \notin Filed(job[p].hash)
    /\ Filed(job[p].hash)' = Filed(job[p].hash) \cup {job[p].dir}
    /\ \A c \in Contents \ {job[p].hash} : Filed(c)' = Filed(c)

\* Complete entries are kept.
Frozen ==
    \A d \in DOMAIN library : library[d].meta \in Contents
        => d \in DOMAIN library' /\ library'[d] = library[d]

EntriesKept == library' \in [DOMAIN library' -> Entry] /\ Frozen
OneFiled    == SameFiled \/ \E p \in Procs : WriteMetadata(p) /\ FiledAt(p)

\* Making a directory files nothing.
LEMMA MkDirKeeps ==
    ASSUME ShapeInv, JobInv, NEW p \in Procs, MkDir(p)
    PROVE  /\ library' \in [DOMAIN library' -> Entry] /\ Frozen /\ SameFiled
           /\ pc'[p] = "pdf" => job[p].dir \in DOMAIN library'
                                /\ library'[job[p].dir].meta = None
<1> USE ConstantsAssumption
<1> DEFINE D == job[p].dir
<1>1. pc[p] = "mkdir" /\ D \notin DOMAIN library
  BY DEF MkDir, JobInv, Knows
<1>2. Empty \in Entry /\ Empty.meta = None
  BY DEF Empty, Entry, File
<1>3. CASE library' = [d \in DOMAIN library \cup {D} |->
                       IF d \in DOMAIN library THEN library[d] ELSE Empty]
  <2>2. /\ DOMAIN library' = DOMAIN library \cup {D}
        /\ library'[D] = Empty /\ \A d \in DOMAIN library : library'[d] = library[d]
    BY <1>1, <1>3
  <2>3. library' \in [DOMAIN library' -> Entry]
    BY <1>2, <1>3, <2>2 DEF ShapeInv
  <2>4. SameFiled
    BY <1>2, <2>2, ConstantsAssumption DEF SameFiled, Filed
  <2> QED
    BY <1>2, <2>2, <2>3, <2>4 DEF Frozen
<1>4. CASE UNCHANGED library /\ Goto(p, "log")
  BY <1>4 DEF ShapeInv, Frozen, SameFiled, Filed, Goto
<1> QED
  BY <1>3, <1>4 DEF MkDir, Quarantine

\* Writing a file files a document only when metadata.json has been written.
LEMMA WriteKeeps ==
    ASSUME ShapeInv, JobInv, NEW p \in Procs, pc[p] \in Writing, NEW v \in File,
           Put(p, pc[p], v), pc[p] = "meta" => v \notin Contents
    PROVE  library' \in [DOMAIN library' -> Entry] /\ Frozen /\ SameFiled
<1>1. job[p].dir \in DOMAIN library /\ library[job[p].dir].meta = None
  BY DEF JobInv, Knows
<1>2. None \notin Contents
  BY ConstantsAssumption
<1> QED
  BY <1>1, <1>2, PutKeeps DEF Frozen, SameFiled, Filed

\* The write of metadata.json files the document in hand.
LEMMA MetaKeeps ==
    ASSUME ShapeInv, JobInv, NEW p \in Procs, pc[p] = "meta", OK,
           Put(p, "meta", job[p].hash), Goto(p, "move"),
           UNCHANGED <<quarantined, job, missed>>
    PROVE  library' \in [DOMAIN library' -> Entry] /\ Frozen /\ FiledAt(p)
<1>1. job[p].dir \in DOMAIN library /\ library[job[p].dir].meta = None
      /\ job[p].hash \in Contents
  BY DEF JobInv, Knows, Writing, Unfiled, InHand
<1>2. None \notin Contents
  BY ConstantsAssumption
<1>3. /\ DOMAIN library' = DOMAIN library /\ library' \in [DOMAIN library -> Entry]
      /\ \A d \in DOMAIN library : d # job[p].dir => library'[d] = library[d]
      /\ library'[job[p].dir].meta = job[p].hash
  BY <1>1, PutKeeps DEF Writing, File
<1>4. /\ job[p].dir \notin Filed(job[p].hash)
      /\ Filed(job[p].hash)' = Filed(job[p].hash) \cup {job[p].dir}
  BY <1>1, <1>2, <1>3 DEF Filed
<1>5. \A c \in Contents \ {job[p].hash} : Filed(c)' = Filed(c)
  BY <1>1, <1>2, <1>3 DEF Filed
<1> QED
  BY <1>1, <1>2, <1>3, <1>4, <1>5 DEF Frozen, FiledAt

\* Every step keeps complete entries, and only one files a document.
LEMMA LibraryKept ==
    ASSUME ShapeInv, JobInv, [Next]_vars
    PROVE  EntriesKept /\ OneFiled
<1> DEFINE Kept == EntriesKept /\ OneFiled
<1> USE ConstantsAssumption DEF disk, local
<1>1. ASSUME UNCHANGED library PROVE Kept
  BY <1>1 DEF ShapeInv, EntriesKept, OneFiled, Frozen, SameFiled, Filed
<1>2. ASSUME NEW p \in Procs, MkDir(p) PROVE Kept
  BY <1>2, MkDirKeeps DEF EntriesKept, OneFiled
<1>3. ASSUME NEW p \in Procs, CopyPDF(p) \/ WriteTranscript(p) PROVE Kept
  <2>1. PICK v \in File : /\ pc[p] \in {"pdf", "text"}
                          /\ Put(p, pc[p], v) \/ UNCHANGED library
    <3>1. job[p].name \in Names /\ JobShape(job[p])
      BY <1>3 DEF ShapeInv, JobInv, Knows, CopyPDF, WriteTranscript, Busy, InHand,
                  Unfiled, Writing
    <3>2. Cur(p) \in File /\ job[p].text \in File
      BY <3>1 DEF ShapeInv, JobShape, Cur, File
    <3> QED
      BY <1>3, <3>2 DEF CopyPDF, WriteTranscript, WriteFile, File
  <2> QED
    BY <1>1, <2>1, WriteKeeps DEF Writing, EntriesKept, OneFiled
<1>4. ASSUME NEW p \in Procs, WriteMetadata(p) PROVE Kept
  <2>1. CASE OK /\ Put(p, "meta", job[p].hash) /\ Goto(p, "move")
             /\ UNCHANGED <<quarantined, job>>
    BY <1>4, <2>1, MetaKeeps DEF WriteMetadata, history, EntriesKept, OneFiled
  <2>2. CASE Put(p, "meta", Torn)
    BY <1>4, <2>2, WriteKeeps DEF WriteMetadata, Writing, File, EntriesKept, OneFiled
  <2> QED
    BY <1>1, <1>4, <2>1, <2>2 DEF WriteMetadata, WriteFile
<1>5. ASSUME NEW p \in Procs, Crash(p) PROVE Kept
  <2>1. CASE pc[p] \in Writing /\ Put(p, pc[p], Torn)
    BY <2>1, WriteKeeps DEF File, EntriesKept, OneFiled
  <2> QED
    BY <1>1, <1>5, <2>1 DEF Crash, Writing
<1>6. ASSUME NEW p \in Procs,
             \/ Start(p) \/ NextName(p) \/ Finish(p) \/ ReadPDF(p) \/ IsDuplicate(p)
             \/ Extract(p) \/ PickDir(p) \/ Move(p) \/ RemoveSource(p) \/ WriteLog(p)
      PROVE  Kept
  BY <1>1, <1>6 DEF Start, NextName, Finish, ReadPDF, IsDuplicate, Extract, PickDir,
                    Move, RemoveSource, WriteLog
<1>7. ASSUME NEW n \in Names, NEW c \in Contents, Drop(n, c) \/ Rewrite(n, c)
      PROVE  Kept
  BY <1>1, <1>7 DEF Drop, Rewrite
<1>8. CASE UNCHANGED vars
  BY <1>1, <1>8 DEF vars
<1> QED
  BY <1>2, <1>3, <1>4, <1>5, <1>6, <1>7, <1>8 DEF Next, Step

\* Entry directories are made, one at a time, and never removed.
LEMMA DirectoriesStep ==
    ASSUME [Next]_vars
    PROVE  \/ DOMAIN library' = DOMAIN library
           \/ \E p \in Procs : /\ MkDir(p)
                               /\ DOMAIN library' = DOMAIN library \cup {job[p].dir}
<1>1. CASE UNCHANGED library
  BY <1>1
<1>2. ASSUME NEW p \in Procs, NEW field, NEW v, Put(p, field, v)
      PROVE  DOMAIN library' = DOMAIN library
  BY <1>2 DEF Put
<1>3. ASSUME NEW p \in Procs, MkDir(p)
      PROVE  DOMAIN library' \in {DOMAIN library, DOMAIN library \cup {job[p].dir}}
  BY <1>3 DEF MkDir
<1>4. ASSUME NEW p \in Procs,
             CopyPDF(p) \/ WriteTranscript(p) \/ WriteMetadata(p) \/ Crash(p)
      PROVE  DOMAIN library' = DOMAIN library
  BY <1>2, <1>4 DEF CopyPDF, WriteTranscript, WriteMetadata, WriteFile, Crash
<1>5. ASSUME NEW p \in Procs,
             \/ Start(p) \/ NextName(p) \/ Finish(p) \/ ReadPDF(p) \/ IsDuplicate(p)
             \/ Extract(p) \/ PickDir(p) \/ Move(p) \/ RemoveSource(p) \/ WriteLog(p)
      PROVE  UNCHANGED library
  BY <1>5 DEF disk, Start, NextName, Finish, ReadPDF, IsDuplicate, Extract, PickDir,
              Move, RemoveSource, WriteLog
<1>6. ASSUME NEW n \in Names, NEW c \in Contents, Drop(n, c) \/ Rewrite(n, c)
      PROVE  UNCHANGED library
  BY <1>6 DEF Drop, Rewrite
<1>7. CASE UNCHANGED vars
  BY <1>1, <1>7 DEF vars, disk
<1> QED
  BY <1>1, <1>3, <1>4, <1>5, <1>6, <1>7 DEF Next, Step

LEMMA EntriesStay ==
    ASSUME [Next]_vars PROVE DOMAIN library \subseteq DOMAIN library'
BY DirectoriesStep

LEMMA FiniteStep ==
    ASSUME ShapeInv, [Next]_vars PROVE IsFiniteSet(DOMAIN library')
<1>1. IsFiniteSet(DOMAIN library)
  BY DEF ShapeInv
<1>2. CASE DOMAIN library' = DOMAIN library
  BY <1>1, <1>2
<1>3. ASSUME NEW p \in Procs, DOMAIN library' = DOMAIN library \cup {job[p].dir}
      PROVE  IsFiniteSet(DOMAIN library')
  BY <1>1, <1>3, FS_AddElement
<1> QED
  BY <1>2, <1>3, DirectoriesStep

\* The entries of a document can be counted.
LEMMA FiledFinite ==
    ASSUME ShapeInv, NEW c \in Contents
    PROVE  IsFiniteSet(Filed(c)) /\ Cardinality(Filed(c)) \in Nat /\ missed[c] \in Nat
<1>1. Filed(c) \subseteq DOMAIN library
  BY DEF Filed
<1> QED
  BY <1>1, FS_Subset, FS_CardinalityType DEF ShapeInv

\* A lookup that passes over a filed document.
Missing(p) ==
    /\ pc[p] = "dup" /\ InLibrary(job[p].hash)
    /\ missed' = [missed EXCEPT ![job[p].hash] = @ + 1]
    /\ Goto(p, "extract")
    /\ UNCHANGED <<disk, job, given, rewrites>>

LEMMA MissedStep ==
    ASSUME [Next]_vars PROVE UNCHANGED missed \/ \E p \in Procs : Missing(p)
<1> USE DEF history
<1>1. ASSUME NEW p \in Procs, Start(p) \/ Crash(p) \/ NextName(p) \/ Finish(p) \/ ReadPDF(p)
      PROVE  UNCHANGED missed
  BY <1>1 DEF Start, Crash, NextName, Finish, ReadPDF
<1>2. ASSUME NEW p \in Procs, Extract(p) \/ PickDir(p) \/ MkDir(p) \/ CopyPDF(p)
      PROVE  UNCHANGED missed
  BY <1>2 DEF Extract, PickDir, MkDir, CopyPDF
<1>3. ASSUME NEW p \in Procs,
             \/ WriteTranscript(p) \/ WriteMetadata(p) \/ Move(p) \/ RemoveSource(p)
             \/ WriteLog(p)
      PROVE  UNCHANGED missed
  BY <1>3 DEF WriteTranscript, WriteMetadata, Move, RemoveSource, WriteLog
<1>4. ASSUME NEW p \in Procs, IsDuplicate(p) PROVE UNCHANGED missed \/ Missing(p)
  BY <1>4 DEF IsDuplicate, Missing
<1>5. ASSUME NEW n \in Names, NEW c \in Contents, Drop(n, c) \/ Rewrite(n, c)
      PROVE  UNCHANGED missed
  BY <1>5 DEF Drop, Rewrite
<1>6. CASE UNCHANGED vars
  BY <1>6 DEF vars
<1> QED
  BY <1>1, <1>2, <1>3, <1>4, <1>5, <1>6 DEF Next, Step

\* Lookups that missed are counted, and the count never goes down.
LEMMA MissedCounts ==
    ASSUME missed \in [Contents -> Nat], [Next]_vars
    PROVE  missed' \in [Contents -> Nat] /\ \A c \in Contents : missed[c] <= missed'[c]
BY MissedStep DEF Missing

\* A filed document stays filed.
LEMMA FiledKept ==
    ASSUME ShapeInv, JobInv, [Next]_vars, NEW c \in Contents
    PROVE  Filed(c) \subseteq Filed(c)'
BY LibraryKept DEF EntriesKept, Frozen, Filed

-----------------------------------------------------------------------------
(* The job in hand.                                                          *)

\* The locals of a process after it has set one of them.
LEMMA StatusSet ==
    ASSUME NEW j, JobShape(j), NEW s, NEW k, k = [j EXCEPT !.status = s]
    PROVE  JobShape(k) /\ k.status = s /\ k.hash = j.hash /\ k.name = j.name
BY DEF JobShape

LEMMA DirSet ==
    ASSUME NEW j, JobShape(j), NEW d, NEW k, k = [j EXCEPT !.dir = d]
    PROVE  /\ JobShape(k) /\ k.dir = d /\ k.hash = j.hash /\ k.name = j.name
           /\ k.text = j.text
BY DEF JobShape

LEMMA HashSet ==
    ASSUME NEW j, JobShape(j), NEW c \in Contents, NEW k, k = [j EXCEPT !.hash = c]
    PROVE  JobShape(k) /\ k.hash = c /\ k.name = j.name
BY DEF JobShape

LEMMA TextSet ==
    ASSUME NEW j, JobShape(j), NEW c \in Contents, NEW k, k = [j EXCEPT !.text = c]
    PROVE  JobShape(k) /\ k.hash = j.hash /\ k.name = j.name /\ k.text = c
BY DEF JobShape

LEMMA NameSet ==
    ASSUME NEW j, JobShape(j), NEW n \in Names, NEW k, k = [j EXCEPT !.name = n]
    PROVE  JobShape(k) /\ k.name = n
BY DEF JobShape

LEMMA NoJobShape == JobShape(NoJob)
BY DEF JobShape, NoJob

\* The library and its entries stay typed.
LEMMA LibraryTyped ==
    ASSUME ShapeInv, HandInv, [Next]_vars
    PROVE  library' \in [DOMAIN library' -> Entry]
<1>1. library \in [DOMAIN library -> Entry]
  BY DEF ShapeInv
<1>2. ASSUME UNCHANGED library PROVE library' \in [DOMAIN library' -> Entry]
  BY <1>1, <1>2
<1>3. ASSUME NEW p \in Procs, pc[p] \in Writing, NEW v \in File, Put(p, pc[p], v)
      PROVE  library' \in [DOMAIN library' -> Entry]
  <2>1. job[p].dir \in DOMAIN library
    BY <1>3 DEF HandInv, Holds
  <2>2. library[job[p].dir] \in Entry
    BY <1>1, <2>1
  <2>3. PICK e \in Entry : e = [library[job[p].dir] EXCEPT ![pc[p]] = v]
    BY <1>3, <2>2, EntryWritten
  <2>4. library' = [library EXCEPT ![job[p].dir] = e]
    BY <1>3, <2>3 DEF Put
  <2> QED
    BY <1>1, <2>4
<1>4. ASSUME NEW p \in Procs, MkDir(p) PROVE library' \in [DOMAIN library' -> Entry]
  <2>1. Empty \in Entry
    BY DEF Empty, Entry, File
  <2> QED
    BY <1>1, <1>2, <1>4, <2>1 DEF MkDir
<1>5. ASSUME NEW p \in Procs, CopyPDF(p) \/ WriteTranscript(p) \/ WriteMetadata(p)
      PROVE  library' \in [DOMAIN library' -> Entry]
  <2>1. /\ Holds(p) /\ JobShape(job[p]) /\ Torn \in File
        /\ inbox \in [Names -> Contents \cup {None}]
    BY DEF HandInv, ShapeInv, File
  <2>2. pc[p] \in Writing /\ job[p].name \in Names
    BY <1>5, <2>1 DEF CopyPDF, WriteTranscript, WriteMetadata, Holds, Busy, InHand,
                      Unfiled, Writing
  <2>3. Cur(p) \in File /\ job[p].text \in File /\ job[p].hash \in File
    BY <2>1, <2>2 DEF Cur, File, JobShape
  <2>4. UNCHANGED library \/ \E v \in File : Put(p, pc[p], v)
    BY <1>5, <2>1, <2>3 DEF CopyPDF, WriteTranscript, WriteMetadata, WriteFile
  <2> QED
    BY <1>2, <1>3, <2>2, <2>4
<1>6. ASSUME NEW p \in Procs, Crash(p) PROVE library' \in [DOMAIN library' -> Entry]
  <2>1. UNCHANGED library \/ (pc[p] \in Writing /\ Put(p, pc[p], Torn))
    BY <1>6 DEF Crash, Writing
  <2> QED
    BY <1>2, <1>3, <2>1 DEF File
<1>7. ASSUME NEW p \in Procs,
             \/ Start(p) \/ NextName(p) \/ Finish(p) \/ ReadPDF(p) \/ IsDuplicate(p)
             \/ Extract(p) \/ PickDir(p) \/ Move(p) \/ RemoveSource(p) \/ WriteLog(p)
      PROVE  UNCHANGED library
  BY <1>7 DEF disk, Start, NextName, Finish, ReadPDF, IsDuplicate, Extract, PickDir,
              Move, RemoveSource, WriteLog
<1>8. ASSUME NEW n \in Names, NEW c \in Contents, Drop(n, c) \/ Rewrite(n, c)
      PROVE  UNCHANGED library
  BY <1>8 DEF Drop, Rewrite
<1>9. CASE UNCHANGED vars
  BY <1>2, <1>9 DEF vars, disk
<1> QED
  BY <1>2, <1>4, <1>5, <1>6, <1>7, <1>8, <1>9 DEF Next, Step

LEMMA ShapeKept ==
    ASSUME ShapeInv, HandInv, [Next]_vars PROVE ShapeInv'
<1>1. library' \in [DOMAIN library' -> Entry]
  BY LibraryTyped
<1> USE ConstantsAssumption
<1> DEFINE Local == /\ pc' \in [Procs -> Busy \cup {"idle", "next"}]
                    /\ todo' \in [Procs -> SUBSET Names]
                    /\ DOMAIN job' = Procs
                    /\ \A q \in Procs : JobShape(job'[q])
           Files == /\ inbox' \in [Names -> Contents \cup {None}]
                    /\ processed' \in [Slots -> File]
                    /\ rewrites' \in Nat
<1>2. Files
  <2> USE DEF disk, local, history, Slots, File
  <2>1. ASSUME UNCHANGED <<inbox, processed, rewrites>> PROVE Files
    BY <2>1 DEF ShapeInv
  <2>2. ASSUME NEW p \in Procs, Move(p) PROVE Files
    <3>1. /\ job[p].name \in Names /\ job[p].hash \in Contents
          /\ inbox[job[p].name] \in Contents \cup {None}
      BY <2>2 DEF Move, HandInv, Holds, ShapeInv, Busy, InHand
    <3>2. Target(p) \in Slots
      BY <3>1 DEF Target, SameName
    <3> QED
      BY <2>2, <3>1, <3>2 DEF Move, ShapeInv, Cur
  <2>3. ASSUME NEW p \in Procs, RemoveSource(p) PROVE Files
    BY <2>3 DEF RemoveSource, ShapeInv
  <2>4. ASSUME NEW p \in Procs, Crash(p) PROVE Files
    BY <2>4 DEF Crash, ShapeInv
  <2>5. ASSUME NEW n \in Names, NEW c \in Contents, Drop(n, c) PROVE Files
    BY <2>5 DEF Drop, ShapeInv
  <2>6. ASSUME NEW n \in Names, NEW c \in Contents, Rewrite(n, c) PROVE Files
    BY <2>6 DEF Rewrite, ShapeInv
  <2>7. ASSUME NEW p \in Procs,
               \/ Start(p) \/ NextName(p) \/ Finish(p) \/ ReadPDF(p) \/ IsDuplicate(p)
               \/ Extract(p) \/ PickDir(p) \/ MkDir(p) \/ CopyPDF(p)
               \/ WriteTranscript(p) \/ WriteMetadata(p) \/ WriteLog(p)
        PROVE  Files
    BY <2>1, <2>7 DEF Start, NextName, Finish, ReadPDF, IsDuplicate, Extract, PickDir,
                      MkDir, CopyPDF, WriteTranscript, WriteMetadata, WriteLog
  <2>8. CASE UNCHANGED vars
    BY <2>1, <2>8 DEF vars
  <2> QED
    BY <2>2, <2>3, <2>4, <2>5, <2>6, <2>7, <2>8 DEF Next, Step
<1>3. Local
  <2> DEFINE Steps == Busy \cup {"idle", "next"}
             Ran(p) == /\ pc' = pc \/ \E s \in Steps : Goto(p, s)
                       /\ todo' = todo \/ \E N \in SUBSET Names :
                                              todo' = [todo EXCEPT ![p] = N]
                       /\ job' = job \/ \E j : JobShape(j) /\ Set(p, j)
  <2> USE DEF local
  <2>1. ASSUME UNCHANGED local PROVE Local
    BY <2>1 DEF ShapeInv
  <2>2. ASSUME NEW p \in Procs, Ran(p) PROVE Local
    <3>1. pc' \in [Procs -> Steps]
      BY <2>2 DEF ShapeInv, Goto
    <3>2. todo' \in [Procs -> SUBSET Names]
      BY <2>2 DEF ShapeInv
    <3>3. DOMAIN job' = Procs /\ \A q \in Procs : JobShape(job'[q])
      BY <2>2 DEF ShapeInv, Set
    <3> QED
      BY <3>1, <3>2, <3>3
  <2>3. \A p \in Procs : JobShape(job[p])
    BY DEF ShapeInv
  <2>4. \A p \in Procs : todo[p] \in SUBSET Names
    BY DEF ShapeInv
  <2> USE DEF Busy, InHand, Unfiled, Writing
  <2>5. ASSUME NEW p \in Procs, Quarantine(p) PROVE Ran(p) \/ todo' # todo
    BY <2>3, <2>5, StatusSet DEF Quarantine
  <2>6. ASSUME NEW p \in Procs,
               Start(p) \/ Finish(p) \/ Crash(p) \/ WriteLog(p) \/ RemoveSource(p)
        PROVE  Ran(p)
    BY <2>6, NoJobShape DEF Start, Finish, Crash, WriteLog, RemoveSource
  <2>7. ASSUME NEW p \in Procs, NextName(p) PROVE Ran(p)
    BY <2>4, <2>7, NoJobShape, NameSet DEF NextName
  <2>8. ASSUME NEW p \in Procs, ReadPDF(p) \/ Extract(p) PROVE Ran(p)
    <3>1. Cur(p) \in Contents \cup {None}
      BY <2>8 DEF ReadPDF, Extract, HandInv, Holds, ShapeInv, Cur
    <3> QED
      BY <2>3, <2>5, <2>8, <3>1, HashSet, TextSet DEF ReadPDF, Extract
  <2>9. ASSUME NEW p \in Procs, IsDuplicate(p) PROVE Ran(p)
    BY <2>3, <2>9, NoJobShape, StatusSet DEF IsDuplicate
  <2>10. ASSUME NEW p \in Procs, PickDir(p) PROVE Ran(p)
    BY <2>3, <2>10, DirSet DEF PickDir
  <2>11. ASSUME NEW p \in Procs, MkDir(p) PROVE Ran(p)
    BY <2>5, <2>11 DEF MkDir
  <2>12. ASSUME NEW p \in Procs, CopyPDF(p) \/ WriteTranscript(p) \/ WriteMetadata(p)
         PROVE  Ran(p)
    BY <2>5, <2>12 DEF CopyPDF, WriteTranscript, WriteMetadata, WriteFile
  <2>13. ASSUME NEW p \in Procs, Move(p) PROVE Ran(p)
    BY <2>3, <2>13, StatusSet DEF Move
  <2>14. ASSUME NEW n \in Names, NEW c \in Contents, Drop(n, c) \/ Rewrite(n, c)
         PROVE  Local
    BY <2>1, <2>14 DEF Drop, Rewrite
  <2>15. CASE UNCHANGED vars
    BY <2>1, <2>15 DEF vars
  <2> HIDE DEF Ran, Local
  <2> QED
    BY <2>2, <2>6, <2>7, <2>8, <2>9, <2>10, <2>11, <2>12, <2>13, <2>14, <2>15
    DEF Next, Step
<1>4. IsFiniteSet(DOMAIN library') /\ missed' \in [Contents -> Nat]
  BY FiniteStep, MissedCounts DEF ShapeInv
<1> QED
  BY <1>1, <1>2, <1>3, <1>4 DEF ShapeInv

LEMMA ShapeStep ==
    ASSUME ShapeInv, JobInv, [Next]_vars PROVE ShapeInv'
<1>1. HandInv
  BY DEF JobInv, Knows, HandInv, Holds
<1> QED
  BY <1>1, ShapeKept

\* After a step that ends the job, or puts the file aside, there is nothing to know.
LEMMA NothingToKnow ==
    ASSUME NEW p \in Procs, pc'[p] \in {"idle", "next"} PROVE Knows(p)'
BY DEF Knows, Busy, InHand, Unfiled, Writing

LEMMA PutAside ==
    ASSUME ShapeInv, NEW p \in Procs, job[p].name \in Names, Quarantine(p)
    PROVE  Knows(p)'
<1>1. pc'[p] = "log"
  BY DEF ShapeInv, Quarantine, Goto
<1>2. job'[p] = [job[p] EXCEPT !.status = "quarantined"] /\ JobShape(job[p])
  BY DEF ShapeInv, Quarantine, Set
<1>3. job'[p].status = "quarantined" /\ job'[p].name \in Names
  BY <1>2, StatusSet
<1> QED
  BY <1>1, <1>3 DEF Knows, Busy, InHand, Unfiled, Writing

\* Nobody else files or removes anything between two steps of the one process.
LEMMA JobStep ==
    ASSUME OneProcess, ShapeInv, JobInv, FiledOnce, [Next]_vars PROVE JobInv'
<1> SUFFICES ASSUME NEW p \in Procs PROVE Knows(p)'
  BY DEF JobInv
<1> USE DEF disk, local
<1>1. /\ Knows(p) /\ JobShape(job[p]) /\ DOMAIN job = Procs /\ DOMAIN pc = Procs
      /\ inbox \in [Names -> Contents \cup {None}]
  BY DEF JobInv, ShapeInv
<1>2. \A c \in Contents : Filed(c) # {} => Filed(c)' # {}
  BY FiledKept
<1>3. ASSUME UNCHANGED library PROVE \A c : Filed(c)' = Filed(c)
  BY <1>3 DEF Filed
<1>4. ASSUME UNCHANGED <<pc, job, library, missed>> PROVE Knows(p)'
  BY <1>1, <1>3, <1>4 DEF Knows, Room
<1>5. CASE Start(p) \/ Finish(p) \/ Crash(p) \/ WriteLog(p)
  <2>1. pc'[p] \in {"idle", "next"} \/ UNCHANGED <<pc, job, library, missed>>
    BY <1>1, <1>5 DEF Start, Finish, Crash, WriteLog, Goto
  <2> QED
    BY <1>4, <2>1, NothingToKnow
<1>6. CASE NextName(p)
  <2>1. PICK n \in Names : job' = [job EXCEPT ![p] = [NoJob EXCEPT !.name = n]]
    BY <1>6 DEF NextName, Set, ShapeInv
  <2>2. job'[p].name \in Names
    BY <1>1, <2>1, NoJobShape, NameSet
  <2>3. pc'[p] = "read"
    BY <1>1, <1>6 DEF NextName, Goto
  <2> QED
    BY <2>2, <2>3 DEF Knows, Busy, InHand, Unfiled, Writing
<1>7. CASE ReadPDF(p)
  <2>1. job[p].name \in Names
    BY <1>1, <1>7 DEF ReadPDF, Knows, Busy
  <2>2. CASE Quarantine(p)
    BY <2>1, <2>2, PutAside
  <2>3. CASE Cur(p) # None /\ Set(p, [job[p] EXCEPT !.hash = Cur(p)]) /\ Goto(p, "dup")
    <3>1. Cur(p) \in Contents
      BY <1>1, <2>1, <2>3 DEF Cur
    <3>2. job'[p] = [job[p] EXCEPT !.hash = Cur(p)] /\ pc'[p] = "dup"
      BY <1>1, <2>3 DEF Set, Goto
    <3>3. job'[p].hash \in Contents /\ job'[p].name \in Names
      BY <1>1, <2>1, <3>1, <3>2, HashSet
    <3> QED
      BY <3>2, <3>3 DEF Knows, Busy, InHand, Unfiled, Writing
  <2> QED
    BY <1>7, <2>2, <2>3 DEF ReadPDF
<1>8. CASE IsDuplicate(p)
  <2>1. job[p].name \in Names /\ job[p].hash \in Contents /\ UNCHANGED library
    BY <1>1, <1>8 DEF IsDuplicate, Knows, Busy, InHand
  <2>2. CASE InLibrary(job[p].hash) /\ Set(p, [job[p] EXCEPT !.status = "skipped"])
             /\ Goto(p, "log")
    <3>1. PICK c \in Contents : c = job[p].hash /\ Filed(c)' # {}
      BY <1>3, <2>1, <2>2 DEF InLibrary, Filed
    <3>2. job'[p] = [job[p] EXCEPT !.status = "skipped"] /\ pc'[p] = "log"
      BY <1>1, <2>2 DEF Set, Goto
    <3>3. job'[p].hash = job[p].hash /\ job'[p].name = job[p].name
      BY <1>1, <3>2, StatusSet
    <3> QED
      BY <2>1, <3>1, <3>2, <3>3 DEF Knows, Busy, InHand, Unfiled, Writing, Filed
  <2>3. ASSUME Goto(p, "extract"), UNCHANGED job, Room(job[p].hash)' PROVE Knows(p)'
    <3>1. job'[p] = job[p] /\ pc'[p] = "extract"
      BY <1>1, <2>3 DEF Goto
    <3> QED
      BY <2>1, <2>3, <3>1 DEF Knows, Busy, InHand, Unfiled, Writing
  <2>4. PICK h \in Contents : h = job[p].hash
    BY <2>1
  <2>5. /\ Filed(h)' = Filed(h) /\ Cardinality(Filed(h)) \in Nat
        /\ missed[h] \in Nat /\ Cardinality(Filed(h)) <= 1 + missed[h]
    BY <1>3, <2>1, FiledFinite DEF FiledOnce
  <2>6. CASE ~InLibrary(h) /\ Goto(p, "extract") /\ UNCHANGED <<job, missed>>
    <3>1. Cardinality(Filed(h)) = 0
      <4>1. Filed(h) = {}
        BY <2>6 DEF InLibrary, Filed
      <4> QED
        BY <4>1, FS_EmptySet
    <3>2. Room(h)'
      BY <2>5, <2>6, <3>1 DEF Room
    <3> QED
      BY <2>3, <2>4, <2>6, <3>2
  <2>7. CASE /\ missed' = [missed EXCEPT ![h] = @ + 1]
             /\ Goto(p, "extract") /\ UNCHANGED job
    <3>1. missed'[h] = missed[h] + 1
      BY <2>7 DEF ShapeInv
    <3>2. Room(h)'
      BY <2>5, <3>1 DEF Room
    <3> QED
      BY <2>3, <2>4, <2>7, <3>2
  <2>8. CASE Goto(p, "idle")
    BY <1>1, <2>8, NothingToKnow DEF Goto
  <2> QED
    BY <1>8, <2>2, <2>4, <2>6, <2>7, <2>8 DEF IsDuplicate
<1>9. CASE Extract(p)
  <2>1. /\ job[p].name \in Names /\ UNCHANGED library
        /\ \E c \in Contents : c = job[p].hash /\ Room(c)'
    BY <1>1, <1>3, <1>9 DEF Extract, history, Knows, Room, Busy, InHand, Unfiled
  <2>2. CASE Quarantine(p)
    BY <2>1, <2>2, PutAside
  <2>3. CASE Cur(p) # None /\ Set(p, [job[p] EXCEPT !.text = Cur(p)]) /\ Goto(p, "pick")
    <3>1. Cur(p) \in Contents
      BY <1>1, <2>1, <2>3 DEF Cur
    <3>2. job'[p] = [job[p] EXCEPT !.text = Cur(p)] /\ pc'[p] = "pick"
      BY <1>1, <2>3 DEF Set, Goto
    <3>3. job'[p].hash = job[p].hash /\ job'[p].name = job[p].name
      BY <1>1, <3>1, <3>2, TextSet
    <3> QED
      BY <2>1, <3>2, <3>3 DEF Knows, Busy, InHand, Unfiled, Writing, Room, Filed
  <2> QED
    BY <1>9, <2>2, <2>3 DEF Extract
<1>10. CASE PickDir(p)
  <2>1. /\ job[p].name \in Names /\ UNCHANGED library
        /\ \E c \in Contents : c = job[p].hash /\ Room(c)'
    BY <1>1, <1>3, <1>10 DEF PickDir, history, Knows, Room, Busy, InHand, Unfiled
  <2>2. PICK d : d \notin DOMAIN library /\ Set(p, [job[p] EXCEPT !.dir = d])
    BY <1>10 DEF PickDir, FreeName, UniqueDirName
  <2>3. job'[p] = [job[p] EXCEPT !.dir = d] /\ pc'[p] = "mkdir"
    BY <1>1, <1>10, <2>2 DEF PickDir, Set, Goto
  <2>4. job'[p].hash = job[p].hash /\ job'[p].name = job[p].name /\ job'[p].dir = d
    BY <1>1, <2>3, DirSet
  <2> QED
    BY <2>1, <2>2, <2>3, <2>4 DEF Knows, Busy, InHand, Unfiled, Writing, Room, Filed
<1>11. CASE MkDir(p)
  <2>1. /\ job[p].name \in Names /\ job[p].hash \in Contents
        /\ Room(job[p].hash) /\ UNCHANGED missed
    BY <1>1, <1>11 DEF MkDir, history, Knows, Busy, InHand, Unfiled
  <2>2. CASE Quarantine(p)
    BY <2>1, <2>2, PutAside
  <2>3. CASE Goto(p, "pdf") /\ UNCHANGED job
    <3>1. pc'[p] = "pdf" /\ job'[p] = job[p]
      BY <1>1, <2>3 DEF Goto
    <3>2. /\ job[p].dir \in DOMAIN library' /\ library'[job[p].dir].meta = None
          /\ Room(job[p].hash)'
      BY <1>11, <2>1, <2>3, <3>1, MkDirKeeps DEF SameFiled, Room
    <3> QED
      BY <2>1, <3>1, <3>2 DEF Knows, Busy, InHand, Unfiled, Writing, Room, Filed
  <2> QED
    BY <1>11, <2>2, <2>3 DEF MkDir
<1>12. CASE CopyPDF(p) \/ WriteTranscript(p)
  <2>1. /\ job[p].name \in Names /\ job[p].hash \in Contents
        /\ Room(job[p].hash) /\ UNCHANGED missed /\ pc[p] \in {"pdf", "text"}
    BY <1>1, <1>12 DEF CopyPDF, WriteTranscript, history, Knows, Busy, InHand, Unfiled, Writing
  <2>2. CASE Quarantine(p)
    BY <2>1, <2>2, PutAside
  <2>3. ASSUME NEW v, v \in File, Put(p, pc[p], v), pc'[p] \in {"text", "meta"},
               UNCHANGED job
        PROVE  Knows(p)'
    <3>1. /\ job[p].dir \in DOMAIN library'
          /\ library'[job[p].dir].meta = None
          /\ Room(job[p].hash)'
      BY <1>1, <2>1, <2>3, PutKeeps, WriteKeeps DEF Writing, SameFiled, Room, Knows
    <3> QED
      BY <2>1, <2>3, <3>1 DEF Knows, Busy, InHand, Unfiled, Writing, Room, Filed
  <2>4. Cur(p) \in File /\ job[p].text \in File
    BY <1>1, <2>1 DEF Cur, File, JobShape
  <2> QED
    BY <1>1, <1>12, <2>2, <2>3, <2>4 DEF CopyPDF, WriteTranscript, WriteFile, Goto
<1>13. CASE WriteMetadata(p)
  <2>1. /\ job[p].name \in Names /\ job[p].hash \in Contents /\ pc[p] = "meta"
    BY <1>1, <1>13 DEF WriteMetadata, Knows, Busy, InHand, Unfiled, Writing
  <2>2. CASE Quarantine(p)
    BY <2>1, <2>2, PutAside
  <2>3. CASE /\ OK /\ Put(p, "meta", job[p].hash) /\ Goto(p, "move")
             /\ UNCHANGED <<quarantined, job>>
    <3>1. Filed(job[p].hash)' # {}
      BY <1>13, <2>1, <2>3, MetaKeeps DEF WriteMetadata, history, FiledAt
    <3>2. pc'[p] = "move" /\ job'[p] = job[p]
      BY <1>1, <2>3 DEF Goto
    <3> QED
      BY <2>1, <3>1, <3>2 DEF Knows, Busy, InHand, Unfiled, Writing, Filed
  <2> QED
    BY <1>13, <2>2, <2>3 DEF WriteMetadata, WriteFile
<1>14. CASE Move(p)
  <2>1. /\ job[p].name \in Names
        /\ \E c \in Contents : c = job[p].hash /\ Filed(c)' # {}
    BY <1>1, <1>2, <1>14 DEF Move, Knows, Busy, InHand
  <2>2. job'[p] = [job[p] EXCEPT !.status = "processed"]
        /\ pc'[p] \in {"remove", "log"}
    BY <1>1, <1>14 DEF Move, Set, Goto
  <2>3. job'[p].hash = job[p].hash /\ job'[p].name = job[p].name
    BY <1>1, <2>2, StatusSet
  <2> QED
    BY <2>1, <2>2, <2>3 DEF Knows, Busy, InHand, Unfiled, Writing, Filed
<1>15. CASE RemoveSource(p)
  <2>1. /\ job[p].name \in Names /\ job[p].hash \in Contents
        /\ Filed(job[p].hash)' # {}
    BY <1>1, <1>2, <1>15 DEF RemoveSource, Knows, Busy, InHand
  <2>2. job'[p] = job[p] /\ pc'[p] = "log"
    BY <1>1, <1>15 DEF RemoveSource, Goto
  <2> QED
    BY <2>1, <2>2 DEF Knows, Busy, InHand, Unfiled, Writing, Filed
<1>16. CASE \E n \in Names, c \in Contents : Drop(n, c) \/ Rewrite(n, c)
  BY <1>4, <1>16 DEF Drop, Rewrite
<1>17. CASE UNCHANGED vars
  BY <1>4, <1>17 DEF vars, history
<1> QED
  <2>1. CASE \E q \in Procs : Start(q) \/ Step(q) \/ Crash(q)
    <3>1. Start(p) \/ Step(p) \/ Crash(p)
      BY <2>1 DEF OneProcess
    <3> QED
      BY <1>5, <1>6, <1>7, <1>8, <1>9, <1>10, <1>11, <1>12, <1>13, <1>14, <1>15, <3>1
      DEF Step
  <2> QED
    BY <1>16, <1>17, <2>1 DEF Next

-----------------------------------------------------------------------------
(* The library and the log.                                                  *)

LEMMA FiledOnceStep ==
    ASSUME ShapeInv, JobInv, FiledOnce, [Next]_vars PROVE FiledOnce'
<1> SUFFICES ASSUME NEW c \in Contents PROVE Cardinality(Filed(c)') <= 1 + missed'[c]
  BY DEF FiledOnce
<1>1. /\ IsFiniteSet(Filed(c)) /\ Cardinality(Filed(c)) \in Nat
      /\ missed[c] \in Nat /\ missed'[c] \in Nat /\ missed[c] <= missed'[c]
      /\ Cardinality(Filed(c)) <= 1 + missed[c]
  BY FiledFinite, MissedCounts DEF ShapeInv, FiledOnce
<1>2. CASE Filed(c)' = Filed(c)
  BY <1>1, <1>2
<1>3. ASSUME NEW p \in Procs, FiledAt(p), c = job[p].hash
      PROVE  Cardinality(Filed(c)') <= 1 + missed'[c]
  <2>1. Cardinality(Filed(c)) <= missed[c]
    BY <1>3 DEF FiledAt, JobInv, Knows, Room, Unfiled, Writing
  <2>2. Filed(c)' = Filed(c) \cup {job[p].dir}
    <3>1. c = job'[p].hash
      BY <1>3 DEF FiledAt
    <3> QED
      BY <1>3, <3>1 DEF FiledAt
  <2>3. Cardinality(Filed(c)') <= Cardinality(Filed(c)) + 1
        /\ Cardinality(Filed(c)') \in Nat
    BY <1>1, <2>2, OneMore
  <2> QED
    BY <1>1, <2>1, <2>3
<1> QED
  BY <1>2, <1>3, LibraryKept DEF OneFiled, SameFiled, FiledAt

LEMMA LogStep ==
    ASSUME ShapeInv, JobInv, LogInv, [Next]_vars PROVE LogInv'
<1> USE DEF disk, local
<1>1. ASSUME NEW l \in log, l.status \in {"processed", "skipped"}
      PROVE  l.hash \in Contents /\ Filed(l.hash)' # {}
  BY <1>1, FiledKept DEF LogInv
<1>2. CASE UNCHANGED log
  BY <1>1, <1>2 DEF LogInv
<1>3. ASSUME NEW p \in Procs, WriteLog(p) PROVE LogInv'
  <2>1. UNCHANGED library /\ (log' = log \/ log' = log \cup {Line(p)})
    BY <1>3 DEF WriteLog
  <2>2. /\ Line(p).status = job[p].status /\ Line(p).hash = job[p].hash
        /\ Knows(p) /\ pc[p] = "log"
    BY <1>3 DEF WriteLog, JobInv, Line
  <2>3. Line(p).status \in {"processed", "skipped"}
            => Line(p).hash \in Contents /\ Filed(Line(p).hash) # {}
    BY <2>2 DEF Knows
  <2>4. \A c : Filed(c)' = Filed(c)
    BY <2>1 DEF Filed
  <2>5. \A l \in log' : l.status \in {"processed", "skipped"}
            => l.hash \in Contents /\ Filed(l.hash)' # {}
    BY <1>1, <2>1, <2>3, <2>4
  <2> QED
    BY <2>5 DEF LogInv
<1>4. ASSUME NEW p \in Procs,
             \/ Start(p) \/ NextName(p) \/ Finish(p) \/ ReadPDF(p) \/ IsDuplicate(p)
             \/ Extract(p) \/ PickDir(p) \/ MkDir(p) \/ CopyPDF(p)
             \/ WriteTranscript(p) \/ WriteMetadata(p) \/ Move(p) \/ RemoveSource(p)
             \/ Crash(p)
      PROVE  UNCHANGED log
  BY <1>4 DEF Start, NextName, Finish, ReadPDF, IsDuplicate, Extract, PickDir, MkDir,
              CopyPDF, WriteTranscript, WriteMetadata, Move, RemoveSource, Crash
<1>5. ASSUME NEW n \in Names, NEW c \in Contents, Drop(n, c) \/ Rewrite(n, c)
      PROVE  UNCHANGED log
  BY <1>5 DEF Drop, Rewrite
<1>6. CASE UNCHANGED vars
  BY <1>2, <1>6 DEF vars
<1> QED
  BY <1>2, <1>3, <1>4, <1>5, <1>6 DEF Next, Step

-----------------------------------------------------------------------------
(* Types, for any number of processes.                                       *)

Outcomes == {"processed", "skipped", "quarantined"}
Lines    == [name : Names, hash : Contents \cup {None}, status : Outcomes]

\* A directory that is about to be made, and a line that is about to be written.
Promised(p) ==
    /\ pc[p] = "mkdir" => IsEntryName(job[p].dir)
    /\ pc[p] \in {"remove", "log"} => job[p].status \in Outcomes

TypeInv ==
    /\ ShapeInv
    /\ \A p \in Procs : Holds(p) /\ Promised(p)
    /\ \A d \in DOMAIN library : IsEntryName(d)
    /\ quarantined \subseteq Names /\ log \subseteq Lines /\ given \subseteq Contents

\* Putting a file aside is the end of it.
LEMMA AsideHeld ==
    ASSUME ShapeInv, NEW p \in Procs, job[p].name \in Names, Quarantine(p)
    PROVE  Holds(p)' /\ Promised(p)'
<1>1. JobShape(job[p]) /\ DOMAIN job = Procs /\ DOMAIN pc = Procs
  BY DEF ShapeInv
<1>2. pc'[p] = "log" /\ job'[p] = [job[p] EXCEPT !.status = "quarantined"]
  BY <1>1 DEF Quarantine, Goto, Set
<1>3. job'[p].name = job[p].name /\ job'[p].status = "quarantined"
  BY <1>1, <1>2, StatusSet
<1> QED
  BY <1>2, <1>3 DEF Holds, Promised, Outcomes, Busy, InHand, Unfiled, Writing

\* A process keeps hold of the file in hand, of its hash and of its directory.
LEMMA HeldStep ==
    ASSUME ShapeInv, HandInv, [Next]_vars, NEW p \in Procs, Promised(p)
    PROVE  Holds(p)' /\ Promised(p)'
<1> DEFINE Held == Holds(p)' /\ Promised(p)'
<1> SUFFICES Held
  OBVIOUS
<1> USE DEF disk, local
<1>1. /\ Holds(p) /\ JobShape(job[p]) /\ DOMAIN job = Procs /\ DOMAIN pc = Procs
      /\ inbox \in [Names -> Contents \cup {None}]
  BY DEF HandInv, ShapeInv
<1>2. DOMAIN library \subseteq DOMAIN library'
  BY EntriesStay
<1>3. ASSUME pc'[p] = pc[p], job'[p] = job[p] PROVE Held
  BY <1>1, <1>2, <1>3 DEF Holds, Promised
<1>4. ASSUME pc'[p] \in {"idle", "next"} PROVE Held
  BY <1>4 DEF Holds, Promised, Busy, InHand, Unfiled, Writing
<1>5. CASE Start(p) \/ Finish(p) \/ Crash(p) \/ WriteLog(p)
  <2>1. pc'[p] \in {"idle", "next"} \/ UNCHANGED <<pc, job>>
    BY <1>1, <1>5 DEF Start, Finish, Crash, WriteLog, Goto
  <2> QED
    BY <1>3, <1>4, <2>1
<1>6. CASE NextName(p)
  <2>1. PICK n \in Names : job' = [job EXCEPT ![p] = [NoJob EXCEPT !.name = n]]
    BY <1>6 DEF NextName, Set, ShapeInv
  <2>2. job'[p].name \in Names
    BY <1>1, <2>1, NoJobShape, NameSet
  <2>3. pc'[p] = "read"
    BY <1>1, <1>6 DEF NextName, Goto
  <2> QED
    BY <2>2, <2>3 DEF Holds, Promised, Busy, InHand, Unfiled, Writing
<1>7. CASE ReadPDF(p) \/ Extract(p)
  <2>1. job[p].name \in Names /\ (pc[p] = "extract" => job[p].hash \in Contents)
    BY <1>1, <1>7 DEF ReadPDF, Extract, Holds, Busy, InHand, Unfiled
  <2>2. CASE Quarantine(p)
    BY <2>1, <2>2, AsideHeld
  <2>3. CASE ~Quarantine(p)
    <3>1. PICK c \in Contents : c = Cur(p)
      BY <1>1, <1>7, <2>1, <2>3 DEF ReadPDF, Extract, Cur
    <3>2. CASE ReadPDF(p)
      <4>1. pc'[p] = "dup" /\ job'[p] = [job[p] EXCEPT !.hash = c]
        BY <1>1, <2>3, <3>1, <3>2 DEF ReadPDF, Goto, Set
      <4>2. job'[p].name \in Names /\ job'[p].hash \in Contents
        BY <1>1, <2>1, <4>1, HashSet
      <4> QED
        BY <4>1, <4>2 DEF Holds, Promised, Busy, InHand, Unfiled, Writing
    <3>3. CASE Extract(p)
      <4>1. /\ pc[p] = "extract" /\ pc'[p] = "pick"
            /\ job'[p] = [job[p] EXCEPT !.text = c]
        BY <1>1, <2>3, <3>1, <3>3 DEF Extract, Goto, Set
      <4>2. job'[p].name \in Names /\ job'[p].hash \in Contents
        BY <1>1, <2>1, <4>1, TextSet
      <4> QED
        BY <4>1, <4>2 DEF Holds, Promised, Busy, InHand, Unfiled, Writing
    <3> QED
      BY <1>7, <3>2, <3>3
  <2> QED
    BY <2>2, <2>3
<1>8. CASE IsDuplicate(p)
  <2>1. job[p].name \in Names /\ job[p].hash \in Contents
    BY <1>1, <1>8 DEF IsDuplicate, Holds, Busy, InHand
  <2>2. CASE Set(p, [job[p] EXCEPT !.status = "skipped"]) /\ Goto(p, "log")
    <3>1. job'[p] = [job[p] EXCEPT !.status = "skipped"] /\ pc'[p] = "log"
      BY <1>1, <2>2 DEF Set, Goto
    <3>2. job'[p].status = "skipped" /\ job'[p].name = job[p].name
      BY <1>1, <3>1, StatusSet
    <3> QED
      BY <2>1, <3>1, <3>2
         DEF Holds, Promised, Outcomes, Busy, InHand, Unfiled, Writing
  <2>3. CASE Goto(p, "extract") /\ UNCHANGED job
    BY <1>1, <2>1, <2>3 DEF Goto, Holds, Promised, Busy, InHand, Unfiled, Writing
  <2>4. CASE Goto(p, "idle")
    BY <1>1, <1>4, <2>4 DEF Goto
  <2> QED
    BY <1>8, <2>2, <2>3, <2>4 DEF IsDuplicate
<1>9. CASE PickDir(p)
  <2>1. job[p].name \in Names /\ job[p].hash \in Contents
    BY <1>1, <1>9 DEF PickDir, Holds, Busy, InHand, Unfiled
  <2>2. PICK d : IsEntryName(d) /\ Set(p, [job[p] EXCEPT !.dir = d])
    BY <1>9, <2>1, NameIsChosen DEF PickDir
  <2>3. job'[p] = [job[p] EXCEPT !.dir = d] /\ pc'[p] = "mkdir"
    BY <1>1, <1>9, <2>2 DEF PickDir, Set, Goto
  <2>4. job'[p].hash = job[p].hash /\ job'[p].name = job[p].name /\ job'[p].dir = d
    BY <1>1, <2>3, DirSet
  <2> QED
    BY <2>1, <2>2, <2>3, <2>4 DEF Holds, Promised, Busy, InHand, Unfiled, Writing
<1>10. CASE MkDir(p)
  <2>1. job[p].name \in Names /\ job[p].hash \in Contents
    BY <1>1, <1>10 DEF MkDir, Holds, Busy, InHand, Unfiled
  <2>2. CASE Quarantine(p)
    BY <2>1, <2>2, AsideHeld
  <2>3. CASE ~Quarantine(p)
    <3>1. pc'[p] = "pdf" /\ job'[p] = job[p] /\ job[p].dir \in DOMAIN library'
      BY <1>1, <1>10, <2>3 DEF MkDir, Goto
    <3> QED
      BY <2>1, <3>1 DEF Holds, Promised, Busy, InHand, Unfiled, Writing
  <2> QED
    BY <2>2, <2>3
<1>11. CASE CopyPDF(p) \/ WriteTranscript(p) \/ WriteMetadata(p)
  <2>1. /\ job[p].name \in Names /\ job[p].hash \in Contents
        /\ job[p].dir \in DOMAIN library'
    BY <1>1, <1>2, <1>11 DEF CopyPDF, WriteTranscript, WriteMetadata, Holds, Busy,
                             InHand, Unfiled, Writing
  <2>2. CASE Quarantine(p)
    BY <2>1, <2>2, AsideHeld
  <2>3. CASE ~Quarantine(p)
    <3>1. pc'[p] \in {"text", "meta", "move"} /\ job'[p] = job[p]
      BY <1>1, <1>11, <2>3
         DEF CopyPDF, WriteTranscript, WriteMetadata, WriteFile, Goto
    <3> QED
      BY <2>1, <3>1 DEF Holds, Promised, Busy, InHand, Unfiled, Writing
  <2> QED
    BY <2>2, <2>3
<1>12. CASE Move(p)
  <2>1. job[p].name \in Names /\ job[p].hash \in Contents
    BY <1>1, <1>12 DEF Move, Holds, Busy, InHand
  <2>2. /\ pc'[p] \in {"remove", "log"}
        /\ job'[p] = [job[p] EXCEPT !.status = "processed"]
    BY <1>1, <1>12 DEF Move, Goto, Set
  <2>3. /\ job'[p].name = job[p].name /\ job'[p].hash = job[p].hash
        /\ job'[p].status = "processed"
    BY <1>1, <2>2, StatusSet
  <2> QED
    BY <2>1, <2>2, <2>3 DEF Holds, Promised, Outcomes, Busy, InHand, Unfiled, Writing
<1>13. CASE RemoveSource(p)
  <2>1. /\ pc[p] = "remove" /\ pc'[p] = "log" /\ job' = job
        /\ job[p].name \in Names /\ job[p].status \in Outcomes
    BY <1>1, <1>13 DEF RemoveSource, Goto, Holds, Promised, Busy
  <2> QED
    BY <2>1 DEF Holds, Promised, Busy, InHand, Unfiled, Writing
<1>14. ASSUME NEW q \in Procs, q # p, Start(q) \/ Step(q) \/ Crash(q) PROVE Held
  <2>1. \A s : Goto(q, s) => pc'[p] = pc[p]
    BY <1>1, <1>14 DEF Goto
  <2>2. \A j : Set(q, j) => job'[p] = job[p]
    BY <1>1, <1>14 DEF Set
  <2>3. Quarantine(q) => pc'[p] = pc[p] /\ job'[p] = job[p]
    BY <2>1, <2>2 DEF Quarantine
  <2>4. CASE Start(q) \/ Crash(q) \/ NextName(q) \/ Finish(q)
    BY <1>3, <2>1, <2>2, <2>4 DEF Start, Crash, NextName, Finish
  <2>5. CASE ReadPDF(q) \/ IsDuplicate(q) \/ Extract(q) \/ PickDir(q)
    BY <1>3, <2>1, <2>2, <2>3, <2>5 DEF ReadPDF, IsDuplicate, Extract, PickDir
  <2>6. CASE MkDir(q) \/ CopyPDF(q) \/ WriteTranscript(q) \/ WriteMetadata(q)
    BY <1>3, <2>1, <2>3, <2>6
       DEF MkDir, CopyPDF, WriteTranscript, WriteMetadata, WriteFile
  <2>7. CASE Move(q) \/ RemoveSource(q) \/ WriteLog(q)
    BY <1>3, <2>1, <2>2, <2>7 DEF Move, RemoveSource, WriteLog
  <2> QED
    BY <1>14, <2>4, <2>5, <2>6, <2>7 DEF Step
<1>15. ASSUME NEW n \in Names, NEW c \in Contents, Drop(n, c) \/ Rewrite(n, c)
       PROVE  Held
  BY <1>3, <1>15 DEF Drop, Rewrite
<1>16. CASE UNCHANGED vars
  BY <1>3, <1>16 DEF vars
<1>17. CASE Start(p) \/ Step(p) \/ Crash(p)
  BY <1>5, <1>6, <1>7, <1>8, <1>9, <1>10, <1>11, <1>12, <1>13, <1>17 DEF Step
<1> HIDE DEF Held
<1> QED
  BY <1>14, <1>15, <1>16, <1>17 DEF Next

\* A new entry is of the name that WriteEntry has chosen.
LEMMA EntryNamesStep ==
    ASSUME [Next]_vars, \A p \in Procs : Promised(p),
           \A d \in DOMAIN library : IsEntryName(d)
    PROVE  \A d \in DOMAIN library' : IsEntryName(d)
<1>1. ASSUME NEW p \in Procs, MkDir(p) PROVE IsEntryName(job[p].dir)
  BY <1>1 DEF MkDir, Promised
<1>2. CASE DOMAIN library' = DOMAIN library
  BY <1>2
<1>3. ASSUME NEW p \in Procs, MkDir(p), DOMAIN library' = DOMAIN library \cup {job[p].dir}
      PROVE  \A d \in DOMAIN library' : IsEntryName(d)
  BY <1>1, <1>3
<1> QED
  BY <1>2, <1>3, DirectoriesStep

\* What is put aside is a file of the inbox, and a line is of one.
LEMMA RecordsStep ==
    ASSUME TypeInv, [Next]_vars
    PROVE  quarantined' \subseteq Names /\ log' \subseteq Lines /\ given' \subseteq Contents
<1> DEFINE Kept == /\ quarantined' \subseteq Names /\ log' \subseteq Lines
                   /\ given' \subseteq Contents
<1> SUFFICES Kept
  OBVIOUS
<1> USE DEF disk, history
<1>1. quarantined \subseteq Names /\ log \subseteq Lines /\ given \subseteq Contents
  BY DEF TypeInv
<1>2. ASSUME UNCHANGED <<quarantined, log, given>> PROVE Kept
  BY <1>1, <1>2
<1>3. ASSUME NEW p \in Procs, pc[p] \in Busy, UNCHANGED <<log, given>>,
             Quarantine(p) \/ UNCHANGED quarantined
      PROVE  Kept
  <2>1. job[p].name \in Names
    BY <1>3 DEF TypeInv, Holds
  <2> QED
    BY <1>1, <1>3, <2>1 DEF Quarantine
<1>4. ASSUME NEW p \in Procs, ReadPDF(p) \/ Extract(p) \/ MkDir(p) PROVE Kept
  BY <1>3, <1>4 DEF ReadPDF, Extract, MkDir, Busy, InHand, Unfiled
<1>5. ASSUME NEW p \in Procs, CopyPDF(p) \/ WriteTranscript(p) \/ WriteMetadata(p)
      PROVE  Kept
  BY <1>3, <1>5 DEF CopyPDF, WriteTranscript, WriteMetadata, WriteFile, Busy, InHand,
                    Unfiled, Writing
<1>6. ASSUME NEW p \in Procs, WriteLog(p) PROVE Kept
  <2>1. /\ job[p].name \in Names /\ job[p].status \in Outcomes
        /\ job[p].hash \in Contents \cup {None}
    BY <1>6 DEF WriteLog, TypeInv, ShapeInv, JobShape, Holds, Promised, Busy
  <2>2. Line(p) \in Lines
    BY <2>1 DEF Line, Lines
  <2> QED
    BY <1>1, <1>6, <2>2 DEF WriteLog
<1>7. ASSUME NEW n \in Names, NEW c \in Contents, Drop(n, c) \/ Rewrite(n, c)
      PROVE  Kept
  BY <1>1, <1>7 DEF Drop, Rewrite
<1>8. ASSUME NEW p \in Procs,
             \/ Start(p) \/ NextName(p) \/ Finish(p) \/ IsDuplicate(p) \/ PickDir(p)
             \/ Move(p) \/ RemoveSource(p) \/ Crash(p)
      PROVE  Kept
  BY <1>2, <1>8 DEF Start, NextName, Finish, IsDuplicate, PickDir, Move, RemoveSource,
                    Crash
<1>9. CASE UNCHANGED vars
  BY <1>2, <1>9 DEF vars
<1> HIDE DEF Kept
<1> QED
  BY <1>4, <1>5, <1>6, <1>7, <1>8, <1>9 DEF Next, Step

-----------------------------------------------------------------------------
(* The theorems.                                                             *)

LEMMA InitIInv == Init => IInv
<1> SUFFICES ASSUME Init PROVE IInv
  OBVIOUS
<1> USE ConstantsAssumption
<1>1. ShapeInv
  <2>1. \A p \in Procs : JobShape(job[p])
    BY NoJobShape DEF Init
  <2>2. library \in [DOMAIN library -> Entry] /\ processed \in [Slots -> File]
    BY DEF Init, File
  <2>3. IsFiniteSet(DOMAIN library) /\ missed \in [Contents -> Nat]
    BY FS_EmptySet DEF Init
  <2> QED
    BY <2>1, <2>2, <2>3 DEF Init, ShapeInv
<1>2. JobInv
  BY DEF Init, JobInv, Knows, Busy, InHand, Unfiled, Writing
<1>3. FiledOnce /\ LogInv
  <2>1. \A c \in Contents : Filed(c) = {} /\ missed[c] = 0
    BY DEF Init, Filed
  <2>2. Cardinality({}) = 0
    BY FS_EmptySet
  <2>3. FiledOnce
    <3>1. \A c \in Contents : Cardinality(Filed(c)) = 0 /\ missed[c] = 0
      BY <2>1, <2>2
    <3> QED
      BY <3>1 DEF FiledOnce
  <2>4. LogInv
    BY DEF Init, LogInv
  <2> QED
    BY <2>3, <2>4
<1> QED
  BY <1>1, <1>2, <1>3 DEF IInv

LEMMA InitTypeInv == Init => TypeInv
<1> SUFFICES ASSUME Init PROVE TypeInv
  OBVIOUS
<1>1. ShapeInv
  BY InitIInv DEF IInv
<1>2. \A p \in Procs : Holds(p) /\ Promised(p)
  BY DEF Init, Holds, Promised, Busy, InHand, Unfiled, Writing
<1> QED
  BY <1>1, <1>2 DEF Init, TypeInv

LEMMA TypeInvStep == ASSUME TypeInv, [Next]_vars PROVE TypeInv'
<1>1. ShapeInv /\ HandInv /\ \A p \in Procs : Promised(p)
  BY DEF TypeInv, HandInv
<1>2. ShapeInv'
  BY <1>1, ShapeKept
<1>3. \A p \in Procs : Holds(p)' /\ Promised(p)'
  BY <1>1, HeldStep
<1>4. \A d \in DOMAIN library' : IsEntryName(d)
  BY <1>1, EntryNamesStep DEF TypeInv
<1> QED
  BY <1>2, <1>3, <1>4, RecordsStep DEF TypeInv

\* TypeOK: whatever the processes do at once, every name in the library is a
\* date and two slugs of bounded length (dirname.go), a line of the log is of a
\* file that was there, and a file is written into a directory that was made.
THEOREM TypeCorrect == Spec => []TypeOK
<1>1. TypeInv => TypeOK
  <2> SUFFICES ASSUME TypeInv PROVE TypeOK
    OBVIOUS
  <2>1. \A d \in DOMAIN library : IsPrefix(Date, d) /\ Len(d) <= NameMax
    BY EntryNameIsTyped DEF TypeInv
  <2>2. pc \in [Procs -> {"idle", "next", "read", "dup", "extract", "pick", "mkdir",
                          "pdf", "text", "meta", "move", "remove", "log"}]
    BY DEF TypeInv, ShapeInv, Busy, InHand, Unfiled, Writing
  <2>3. \A p \in Procs :
            /\ job[p].name \in Names \cup {None}
            /\ job[p].hash \in Contents \cup {None}
            /\ job[p].text \in Contents \cup {None}
            /\ pc[p] \in {"pdf", "text", "meta"} => job[p].dir \in DOMAIN library
    BY DEF TypeInv, ShapeInv, JobShape, Holds, Writing
  <2>4. log \subseteq [name : Names, hash : Contents \cup {None},
                       status : {"processed", "skipped", "quarantined"}]
    BY DEF TypeInv, Lines, Outcomes
  <2> QED
    BY <2>1, <2>2, <2>3, <2>4 DEF TypeInv, ShapeInv, TypeOK
<1> QED
  BY <1>1, InitTypeInv, TypeInvStep, PTL DEF Spec

\* With one process, what its duplicate check has found out about the library
\* is still so when it writes metadata.json: the document has no entry, or no
\* more of them than checks that passed it over.
THEOREM InductiveInvariant == ASSUME OneProcess PROVE Spec => []IInv
<1>1. IInv /\ [Next]_vars => IInv'
  BY ShapeStep, JobStep, FiledOnceStep, LogStep DEF IInv
<1> QED
  BY <1>1, InitIInv, PTL DEF Spec

\* FiledOnce: a document is filed once (pipeline.go:70), whatever crashes,
\* fails or is replaced between the duplicate check and the move, and once more
\* at most for each check that could not read its entries (local.go:76-79).
THEOREM FiledOnceHolds == ASSUME OneProcess PROVE Spec => []FiledOnce
<1>1. IInv => FiledOnce
  BY DEF IInv
<1> QED
  BY <1>1, InductiveInvariant, PTL

\* LogIsTrue: the document of a processed or skipped file that the process log
\* (main.go:149-157) names is in the library.
THEOREM LogHolds == ASSUME OneProcess PROVE Spec => []LogIsTrue
<1>1. IInv => LogIsTrue
  BY DEF IInv, LogInv, LogIsTrue
<1> QED
  BY <1>1, InductiveInvariant, PTL

\* EntriesFrozen: no step changes a complete entry (document.go:52-65).
THEOREM FrozenHolds == ASSUME OneProcess PROVE Spec => EntriesFrozen
<1>1. IInv /\ [Next]_vars =>
        [\A d \in DOMAIN library : library[d].meta \in Contents
            => d \in DOMAIN library' /\ library'[d] = library[d]]_vars
  BY LibraryKept DEF IInv, EntriesKept, Frozen
<1> QED
  BY <1>1, InductiveInvariant, PTL DEF Spec, EntriesFrozen

=============================================================================
