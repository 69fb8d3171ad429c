----------------------- MODULE LocalIngestRewriteProofs -----------------------
(* One process of the command line and inbox files that are replaced in       *)
(* place.  Until one is, the process implements Ingest.  What it can lose,    *)
(* archive unfiled or mix up afterwards is paid for by the replaced files:    *)
(* each is charged once.  The charge for a lost original can come late: the   *)
(* replacing file goes under the hash of the document that was read, and is   *)
(* lost only when that document is put in the inbox again and no lookup finds *)
(* it.  Until then it is Stray, and is charged for that.                      *)
EXTENDS LocalIngestProofs

-----------------------------------------------------------------------------
(* The inductive invariant of the refinement, beyond LocalIngestProofs.      *)

\* The document in hand was put in the inbox.
GivenInv ==
    /\ \A n \in Names : inbox[n] # None => inbox[n] \in given
    /\ \A p \in Procs : pc[p] \in InHand => job[p].hash \in given

\* A name that carries a hash is not given to another document.
HashNamed == \A n \in Names, c \in Contents : processed[<<n, c>>] \in {None, Torn, c}

\* The file in hand is still in its place, and has been archived before only if
\* a lookup passed over its document.
InPlace(p) ==
    /\ pc[p] \in InHand => inbox[job[p].name] = job[p].hash
    /\ pc[p] = "move" /\ job[p].hash \in Archived => missed[job[p].hash] > 0

CalmInv ==
    rewrites = 0 => /\ HashNamed
                    /\ \A c \in Archived : Filed(c) # {}
                    /\ \A p \in Procs : InPlace(p)

RInv == IInv /\ GivenInv /\ CalmInv

-----------------------------------------------------------------------------
(* What the steps do to the inbox, the job and the processed directory.      *)

\* A process neither drops a file nor replaces one.
LEMMA UserKept ==
    ASSUME NEW p \in Procs, Start(p) \/ Step(p) \/ Crash(p)
    PROVE  UNCHANGED <<given, rewrites>>
<1> USE DEF history
<1>1. CASE Start(p) \/ Crash(p) \/ NextName(p) \/ Finish(p) \/ ReadPDF(p)
  BY <1>1 DEF Start, Crash, NextName, Finish, ReadPDF
<1>2. CASE IsDuplicate(p) \/ Extract(p) \/ PickDir(p) \/ MkDir(p) \/ CopyPDF(p)
  BY <1>2 DEF IsDuplicate, Extract, PickDir, MkDir, CopyPDF
<1>3. CASE \/ WriteTranscript(p) \/ WriteMetadata(p) \/ Move(p) \/ RemoveSource(p)
           \/ WriteLog(p)
  BY <1>3 DEF WriteTranscript, WriteMetadata, Move, RemoveSource, WriteLog
<1> QED
  BY <1>1, <1>2, <1>3 DEF Step

\* No file has been replaced before this step, nor is one by it.
LEMMA StillCalm ==
    ASSUME ShapeInv, [Next]_vars, rewrites' = 0
    PROVE  rewrites = 0 /\ ~ \E n \in Names, c \in Contents : Rewrite(n, c)
<1> USE DEF disk, local, history
<1>1. rewrites \in Nat
  BY DEF ShapeInv
<1>2. ~ \E n \in Names, c \in Contents : Rewrite(n, c)
  BY <1>1 DEF Rewrite
<1>3. UNCHANGED rewrites
  <2>1. CASE UNCHANGED vars
    BY <2>1 DEF vars
  <2>2. ASSUME NEW p \in Procs, Start(p) \/ Step(p) \/ Crash(p)
        PROVE  UNCHANGED rewrites
    BY <2>2, UserKept
  <2>3. ASSUME NEW n \in Names, NEW c \in Contents, Drop(n, c)
        PROVE  UNCHANGED rewrites
    BY <2>3 DEF Drop
  <2> QED
    BY <1>2, <2>1, <2>2, <2>3 DEF Next
<1> QED
  BY <1>1, <1>2, <1>3

\* A write to the processed directory replaces nothing but a copy of the same
\* document.
LEMMA ArchiveWritten ==
    ASSUME ShapeInv, JobInv, CalmInv, rewrites = 0, NEW p \in Procs, pc[p] = "move",
           NEW v \in {job[p].hash, Torn},
           processed' = [processed EXCEPT ![Target(p)] = v]
    PROVE  /\ HashNamed'
           /\ v # Torn => Archived' = Archived \cup {job[p].hash}
           /\ v = Torn => \/ Archived' = Archived
                          \/ /\ missed[job[p].hash] > 0
                             /\ Archived' = Archived \ {job[p].hash}
<1> USE ConstantsAssumption
<1> DEFINE n == job[p].name  h == job[p].hash
<1>1. /\ n \in Names /\ h \in Contents /\ HashNamed
      /\ h \in Archived => missed[h] > 0
  BY DEF JobInv, Knows, CalmInv, InPlace, Busy, InHand
<1>2. /\ Target(p) \in Slots
      /\ Target(p) = <<n, None>> \/ Target(p) = <<n, h>>
      /\ processed[Target(p)] \in {None, Torn, h}
  <2>1. CASE processed[SameName(p)] = None
    BY <1>1, <2>1 DEF Target, SameName, Slots
  <2>2. CASE processed[SameName(p)] # None
    <3>1. Target(p) = <<n, h>> /\ <<n, h>> \in Slots
      BY <1>1, <2>2 DEF Target, Slots
    <3>2. processed[<<n, h>>] \in {None, Torn, h}
      BY <1>1 DEF HashNamed
    <3> QED
      BY <3>1, <3>2
  <2> QED
    BY <2>1, <2>2
<1>3. \A s \in Slots : processed'[s] = IF s = Target(p) THEN v ELSE processed[s]
  BY DEF ShapeInv
<1>4. HashNamed'
  <2> SUFFICES ASSUME NEW m \in Names, NEW c \in Contents
               PROVE  processed'[<<m, c>>] \in {None, Torn, c}
    BY DEF HashNamed
  <2>1. <<m, c>> \in Slots
    BY DEF Slots
  <2>2. CASE <<m, c>> = Target(p)
    <3>1. c = h
      BY <1>2, <2>2
    <3> QED
      BY <1>3, <2>1, <2>2, <3>1
  <2>3. CASE <<m, c>> # Target(p)
    BY <1>1, <1>3, <2>1, <2>3 DEF HashNamed
  <2> QED
    BY <2>2, <2>3
<1>5. Archived' \subseteq Contents /\ Archived \subseteq Contents
  BY DEF Archived
<1>6. CASE v = h
  <2>1. \A c \in Contents : c \in Archived' <=> c \in Archived \/ c = h
    BY <1>1, <1>2, <1>3, <1>6 DEF Archived
  <2> QED
    BY <1>1, <1>4, <1>5, <1>6, <2>1
<1>7. CASE v = Torn
  <2>1. \A c \in Contents \ {h} : c \in Archived' <=> c \in Archived
    BY <1>1, <1>2, <1>3, <1>7 DEF Archived
  <2>2. h \in Archived' => h \in Archived
    BY <1>1, <1>2, <1>3, <1>7 DEF Archived
  <2>3. Archived' = Archived \/ Archived' = Archived \ {h}
    BY <1>5, <2>1, <2>2
  <2> QED
    BY <1>1, <1>4, <1>7, <2>3
<1> QED
  BY <1>6, <1>7

Rearchived(p) ==
    \/ Archived' = Archived \cup {job[p].hash}
    \/ missed[job[p].hash] > 0 /\ Archived' = Archived \ {job[p].hash}

OneArchived ==
    \/ Archived' = Archived
    \/ \E p \in Procs : /\ pc[p] = "move" /\ pc'[p] # "move"
                        /\ UNCHANGED <<given, missed, library>>
                        /\ Rearchived(p)

\* Only Move, or a crash in it, archives a document.
LEMMA ArchiveStep ==
    ASSUME ShapeInv, JobInv, CalmInv, [Next]_vars, rewrites' = 0
    PROVE  HashNamed' /\ OneArchived
<1> USE ConstantsAssumption DEF disk, local, history
<1>1. rewrites = 0 /\ ~ \E n \in Names, c \in Contents : Rewrite(n, c)
  BY StillCalm
<1>2. ASSUME UNCHANGED processed PROVE HashNamed' /\ OneArchived
  BY <1>1, <1>2 DEF CalmInv, HashNamed, OneArchived, Archived
<1>3. ASSUME NEW p \in Procs, Move(p) PROVE HashNamed' /\ OneArchived
  <2>1. Cur(p) = job[p].hash /\ pc[p] = "move" /\ job[p].hash \in Contents
    BY <1>1, <1>3 DEF Move, CalmInv, InPlace, InHand, Cur, JobInv, Knows
  <2>2. pc'[p] # "move" /\ UNCHANGED <<given, missed, library>>
    BY <1>3 DEF Move, Goto, ShapeInv
  <2>3. \/ \E v \in {job[p].hash, Torn} : processed' = [processed EXCEPT ![Target(p)] = v]
        \/ UNCHANGED processed
    BY <1>3, <2>1 DEF Move
  <2>4. CASE \E v \in {job[p].hash, Torn} : processed' = [processed EXCEPT ![Target(p)] = v]
    <3>1. HashNamed' /\ (Archived' = Archived \/ Rearchived(p))
      BY <1>1, <2>1, <2>4, ArchiveWritten DEF Rearchived
    <3> QED
      BY <2>1, <2>2, <3>1 DEF OneArchived
  <2> QED
    BY <1>2, <2>3, <2>4
<1>4. ASSUME NEW p \in Procs, Crash(p) PROVE HashNamed' /\ OneArchived
  <2>1. CASE pc[p] = "move" /\ processed' = [processed EXCEPT ![Target(p)] = Torn]
    <3>1. pc'[p] # "move" /\ UNCHANGED <<given, missed>>
      BY <1>4 DEF Crash, Goto, ShapeInv
    <3>2. UNCHANGED library
      BY <1>4, <2>1 DEF Crash
    <3>3. HashNamed' /\ (Archived' = Archived \/ Rearchived(p))
      BY <1>1, <2>1, ArchiveWritten DEF Rearchived
    <3> QED
      BY <2>1, <3>1, <3>2, <3>3 DEF OneArchived
  <2> QED
    BY <1>2, <1>4, <2>1 DEF Crash
<1>5. ASSUME NEW p \in Procs,
             \/ Start(p) \/ NextName(p) \/ Finish(p) \/ ReadPDF(p) \/ IsDuplicate(p)
             \/ Extract(p) \/ PickDir(p) \/ MkDir(p) \/ CopyPDF(p)
             \/ WriteTranscript(p) \/ WriteMetadata(p) \/ RemoveSource(p) \/ WriteLog(p)
      PROVE  UNCHANGED processed
  BY <1>5 DEF Start, NextName, Finish, ReadPDF, IsDuplicate, Extract, PickDir, MkDir,
              CopyPDF, WriteTranscript, WriteMetadata, RemoveSource, WriteLog
<1>6. ASSUME NEW n \in Names, NEW c \in Contents, Drop(n, c)
      PROVE  UNCHANGED processed
  BY <1>6 DEF Drop
<1>7. CASE UNCHANGED vars
  BY <1>2, <1>7 DEF vars
<1> QED
  BY <1>1, <1>2, <1>3, <1>4, <1>5, <1>6, <1>7 DEF Next, Step

\* A file comes into hand when it is read, and is handed on by the steps after
\* that; whoever puts a file in the inbox touches no job.
Read(p) ==
    /\ pc'[p] = "dup" /\ UNCHANGED <<inbox, given, processed>>
    /\ job'[p].name \in Names /\ job'[p].hash = inbox[job'[p].name]
    /\ job'[p].hash \in Contents
HandedOn(p) ==
    /\ pc[p] \in InHand /\ UNCHANGED <<inbox, given, processed>>
    /\ job'[p].name = job[p].name /\ job'[p].hash = job[p].hash
    /\ pc'[p] = "move" => pc[p] = "meta"
Untouched(p) ==
    /\ pc'[p] = pc[p] /\ job'[p] = job[p] /\ UNCHANGED library
    /\ \/ UNCHANGED <<inbox, given, processed>>
       \/ \E n \in Names, c \in Contents : Drop(n, c) \/ Rewrite(n, c)

LEMMA HandStep ==
    ASSUME OneProcess, ShapeInv, JobInv, [Next]_vars, NEW p \in Procs,
           pc'[p] \in InHand
    PROVE  Read(p) \/ HandedOn(p) \/ Untouched(p)
<1> DEFINE Fine == Read(p) \/ HandedOn(p) \/ Untouched(p)
<1> USE DEF disk, local, history
<1>1. /\ Knows(p) /\ JobShape(job[p]) /\ DOMAIN job = Procs /\ DOMAIN pc = Procs
      /\ inbox \in [Names -> Contents \cup {None}]
  BY DEF JobInv, ShapeInv
<1>2. ~Quarantine(p)
  BY <1>1 DEF Quarantine, Goto, InHand, Unfiled, Writing
<1>3. CASE Start(p)
  BY <1>1, <1>3 DEF Start, Goto, InHand, Unfiled, Writing, Untouched
<1>4. CASE \/ NextName(p) \/ Finish(p) \/ Move(p) \/ RemoveSource(p) \/ WriteLog(p)
           \/ Crash(p)
  BY <1>1, <1>4 DEF NextName, Finish, Move, RemoveSource, WriteLog, Crash, Goto, InHand,
                    Unfiled, Writing
<1>5. CASE ReadPDF(p)
  <2>1. job[p].name \in Names
    BY <1>1, <1>5 DEF ReadPDF, Knows, Busy
  <2>2. /\ Cur(p) \in Contents /\ pc'[p] = "dup" /\ UNCHANGED <<inbox, given, processed>>
        /\ job'[p] = [job[p] EXCEPT !.hash = Cur(p)]
    BY <1>1, <1>2, <1>5, <2>1 DEF ReadPDF, Cur, Set, Goto
  <2>3. job'[p].hash = Cur(p) /\ job'[p].name = job[p].name
    BY <1>1, <2>2, HashSet
  <2> QED
    BY <2>1, <2>2, <2>3 DEF Read, Cur
<1> DEFINE Same == job'[p].name = job[p].name /\ job'[p].hash = job[p].hash
<1>6. CASE IsDuplicate(p)
  <2>1. pc'[p] = "extract" /\ job' = job
    BY <1>1, <1>6 DEF IsDuplicate, Goto, InHand, Unfiled, Writing
  <2> QED
    BY <1>6, <2>1 DEF IsDuplicate, HandedOn, InHand
<1>7. CASE Extract(p)
  <2>1. job[p].name \in Names
    BY <1>1, <1>7 DEF Extract, Knows, Busy, InHand, Unfiled
  <2>2. /\ Cur(p) \in Contents /\ pc'[p] = "pick"
        /\ job'[p] = [job[p] EXCEPT !.text = Cur(p)]
    BY <1>1, <1>2, <1>7, <2>1 DEF Extract, Cur, Set, Goto
  <2>3. Same
    BY <1>1, <2>2, TextSet
  <2> QED
    BY <1>7, <2>2, <2>3 DEF Extract, HandedOn, InHand, Unfiled
<1>8. CASE PickDir(p)
  <2>1. PICK d : job' = [job EXCEPT ![p] = [job[p] EXCEPT !.dir = d]]
    BY <1>8 DEF PickDir, Set
  <2>2. job'[p] = [job[p] EXCEPT !.dir = d]
    BY <1>1, <2>1
  <2>3. Same
    BY <1>1, <2>2, DirSet
  <2>4. pc'[p] = "mkdir"
    BY <1>1, <1>8 DEF PickDir, Goto
  <2> QED
    BY <1>8, <2>3, <2>4 DEF PickDir, HandedOn, InHand, Unfiled
<1>9. CASE MkDir(p)
  <2>1. pc'[p] = "pdf" /\ job' = job
    BY <1>1, <1>2, <1>9 DEF MkDir, Goto
  <2> QED
    BY <1>9, <2>1 DEF MkDir, HandedOn, InHand, Unfiled
<1>10. CASE CopyPDF(p) \/ WriteTranscript(p) \/ WriteMetadata(p)
  <2>1. /\ pc'[p] \in {"text", "meta", "move"} /\ job' = job
        /\ pc'[p] = "move" => pc[p] = "meta"
    BY <1>1, <1>2, <1>10 DEF CopyPDF, WriteTranscript, WriteMetadata, WriteFile, Goto
  <2> QED
    BY <1>10, <2>1 DEF CopyPDF, WriteTranscript, WriteMetadata, HandedOn, InHand,
                       Unfiled, Writing
<1>11. CASE \E n \in Names, c \in Contents : Drop(n, c) \/ Rewrite(n, c)
  <2>1. UNCHANGED <<pc, job, library>>
    BY <1>11 DEF Drop, Rewrite
  <2> QED
    BY <1>11, <2>1 DEF Untouched
<1>12. CASE UNCHANGED vars
  BY <1>12 DEF vars, Untouched
<1> QED
  <2>1. CASE \E q \in Procs : Start(q) \/ Step(q) \/ Crash(q)
    <3>1. Start(p) \/ Step(p) \/ Crash(p)
      BY <2>1 DEF OneProcess
    <3> QED
      BY <1>3, <1>4, <1>5, <1>6, <1>7, <1>8, <1>9, <1>10, <3>1 DEF Step
  <2> QED
    BY <1>11, <1>12, <2>1 DEF Next

-----------------------------------------------------------------------------
(* The invariant is kept.                                                    *)

LEMMA GivenStep ==
    ASSUME OneProcess, ShapeInv, JobInv, GivenInv, [Next]_vars PROVE GivenInv'
<1> USE ConstantsAssumption DEF disk, local, history
<1>1. \A n \in Names : inbox'[n] # None => inbox'[n] \in given'
  <2>1. CASE UNCHANGED <<inbox, given>>
    BY <2>1 DEF GivenInv
  <2>2. ASSUME NEW p \in Procs, Move(p) \/ RemoveSource(p)
        PROVE  UNCHANGED given /\ \A n \in Names : inbox'[n] \in {inbox[n], None}
    BY <2>2 DEF Move, RemoveSource, ShapeInv
  <2>3. ASSUME NEW n \in Names, NEW c \in Contents, Drop(n, c) \/ Rewrite(n, c)
        PROVE  given' = given \cup {c} /\ \A m \in Names : inbox'[m] \in {inbox[m], c}
    BY <2>3 DEF Drop, Rewrite, ShapeInv
  <2>4. ASSUME NEW p \in Procs,
               \/ Start(p) \/ NextName(p) \/ Finish(p) \/ ReadPDF(p) \/ IsDuplicate(p)
               \/ Extract(p) \/ PickDir(p) \/ MkDir(p) \/ CopyPDF(p)
               \/ WriteTranscript(p) \/ WriteMetadata(p) \/ WriteLog(p) \/ Crash(p)
        PROVE  UNCHANGED <<inbox, given>>
    BY <2>4 DEF Start, NextName, Finish, ReadPDF, IsDuplicate, Extract, PickDir, MkDir,
                CopyPDF, WriteTranscript, WriteMetadata, WriteLog, Crash
  <2>5. CASE UNCHANGED vars
    BY <2>1, <2>5 DEF vars
  <2>6. ASSUME NEW p \in Procs, Move(p) \/ RemoveSource(p)
        PROVE  \A n \in Names : inbox'[n] # None => inbox'[n] \in given'
    <3>1. UNCHANGED given /\ \A n \in Names : inbox'[n] \in {inbox[n], None}
      BY <2>2, <2>6
    <3> QED
      BY <3>1 DEF GivenInv
  <2>7. ASSUME NEW m \in Names, NEW c \in Contents, Drop(m, c) \/ Rewrite(m, c)
        PROVE  \A n \in Names : inbox'[n] # None => inbox'[n] \in given'
    <3>1. given' = given \cup {c} /\ \A n \in Names : inbox'[n] \in {inbox[n], c}
      BY <2>3, <2>7
    <3> QED
      BY <3>1 DEF GivenInv
  <2>8. CASE Next
    BY <2>1, <2>4, <2>6, <2>7, <2>8 DEF Next, Step
  <2> QED
    BY <2>5, <2>8
<1>2. ASSUME NEW p \in Procs, pc'[p] \in InHand PROVE job'[p].hash \in given'
  <2>1. CASE Read(p)
    BY <1>1, <2>1 DEF Read
  <2>2. CASE HandedOn(p)
    BY <2>2 DEF HandedOn, GivenInv
  <2>3. CASE Untouched(p)
    BY <1>2, <2>3 DEF Untouched, GivenInv, Drop, Rewrite
  <2> QED
    BY <1>2, <2>1, <2>2, <2>3, HandStep
<1> QED
  BY <1>1, <1>2 DEF GivenInv

LEMMA MoreMissed ==
    ASSUME ShapeInv, [Next]_vars, NEW c \in Contents, missed[c] > 0 PROVE missed'[c] > 0
<1>1. missed[c] \in Nat /\ missed'[c] \in Nat /\ missed[c] <= missed'[c]
  BY MissedCounts DEF ShapeInv
<1> QED
  BY <1>1

LEMMA CalmStep ==
    ASSUME OneProcess, ShapeInv, JobInv, CalmInv, [Next]_vars PROVE CalmInv'
<1> SUFFICES ASSUME rewrites' = 0
             PROVE  /\ HashNamed'
                    /\ \A c \in Archived' : Filed(c)' # {}
                    /\ \A p \in Procs : InPlace(p)'
  BY DEF CalmInv
<1> USE ConstantsAssumption
<1>1. /\ rewrites = 0 /\ ~ \E n \in Names, c \in Contents : Rewrite(n, c)
      /\ \A c \in Archived : Filed(c) # {}
      /\ \A p \in Procs : InPlace(p)
  BY StillCalm DEF CalmInv
<1>2. HashNamed' /\ OneArchived
  BY ArchiveStep
<1>3. \A c \in Archived' : Filed(c)' # {}
  <2>1. \A c \in Archived : c \in Contents /\ Filed(c)' # {}
    BY <1>1, FiledKept DEF Archived
  <2>2. ASSUME NEW p \in Procs, pc[p] = "move"
        PROVE  \E c \in Contents : c = job[p].hash /\ Filed(c)' # {}
    BY <2>2, FiledKept DEF JobInv, Knows, InHand
  <2> QED
    BY <1>2, <2>1, <2>2 DEF OneArchived, Rearchived
<1>4. ASSUME NEW p \in Procs PROVE InPlace(p)'
  <2>1. CASE pc'[p] \notin InHand
    BY <2>1 DEF InPlace, InHand
  <2>2. CASE Read(p)
    BY <2>2 DEF Read, InPlace
  <2>3. CASE HandedOn(p)
    <3>1. inbox'[job'[p].name] = job'[p].hash
      BY <1>1, <2>3 DEF HandedOn, InPlace
    <3>2. Archived' = Archived
      BY <2>3 DEF HandedOn, Archived
    <3>3. ASSUME pc[p] = "meta", job[p].hash \in Archived PROVE missed'[job[p].hash] > 0
      <4>1. PICK h \in Contents : h = job[p].hash
        BY <3>3 DEF Archived
      <4>2. Room(h) /\ Filed(h) # {}
        BY <1>1, <3>3, <4>1 DEF JobInv, Knows, Unfiled, Writing
      <4>3. missed[h] > 0
        BY <4>2, FiledFinite, FS_EmptySet DEF Room
      <4> QED
        BY <4>1, <4>3, MoreMissed
    <3> QED
      BY <2>3, <3>1, <3>2, <3>3 DEF HandedOn, InPlace
  <2>4. CASE Untouched(p) /\ pc'[p] \in InHand
    <3>1. pc[p] \in InHand /\ InPlace(p) /\ job[p].name \in Names /\ job[p].hash \in Contents
      BY <1>1, <2>4 DEF Untouched, JobInv, Knows, Busy
    <3>2. inbox'[job[p].name] = job[p].hash /\ UNCHANGED processed
      BY <1>1, <2>4, <3>1 DEF Untouched, Drop, InPlace, ShapeInv
    <3>3. missed[job[p].hash] > 0 => missed'[job[p].hash] > 0
      BY <3>1, MoreMissed
    <3> QED
      BY <2>4, <3>1, <3>2, <3>3 DEF Untouched, InPlace, Archived
  <2> QED
    BY <2>1, <2>2, <2>3, <2>4, HandStep
<1> QED
  BY <1>2, <1>3, <1>4

-----------------------------------------------------------------------------
(* The refinement.                                                           *)

\* What Ingest sees of the library.
Entries == [c \in Contents |-> Cardinality(Filed(c))]

LEMMA EntryCount ==
    ASSUME ShapeInv, NEW c \in Contents
    PROVE  Entries[c] \in Nat /\ (Filed(c) # {} => Entries[c] > 0)
<1>1. IsFiniteSet(Filed(c)) /\ Cardinality(Filed(c)) \in Nat
  BY FiledFinite
<1>2. Filed(c) # {} => Cardinality(Filed(c)) # 0
  BY <1>1, FS_EmptySet
<1> QED
  BY <1>1, <1>2 DEF Entries

LEMMA InitRefines == Init => RInv /\ Abstract!Init
<1> SUFFICES ASSUME Init PROVE RInv /\ Abstract!Init
  OBVIOUS
<1> USE ConstantsAssumption
<1>1. Archived = {} /\ \A c \in Contents : Filed(c) = {}
  BY DEF Init, Archived, Filed
<1>2. GivenInv /\ CalmInv
  BY <1>1 DEF Init, GivenInv, CalmInv, HashNamed, InPlace, InHand, Unfiled, Writing, Slots
<1>3. /\ given = {} /\ Entries = [c \in Contents |-> 0]
      /\ missed = [c \in Contents |-> 0]
  BY <1>1, FS_EmptySet DEF Init, Entries
<1> QED
  BY <1>1, <1>2, <1>3, InitIInv DEF RInv, Abstract!Init, Entries

LEMMA OneAdded ==
    ASSUME NEW S, IsFiniteSet(S), NEW x, x \notin S, NEW T, T = S \cup {x}
    PROVE  Cardinality(T) = Cardinality(S) + 1
BY FS_AddElement

\* The write of metadata.json files the document, the move archives it, a file
\* put in the inbox is given, and a lookup may miss; every other step is a
\* stutter.
LEMMA StepRefines ==
    ASSUME OneProcess, RInv, [Next]_vars
    PROVE  [rewrites' = 0 => Abstract!Next]_(Abstract!vars)
<1> SUFFICES ASSUME rewrites' = 0 PROVE Abstract!Next \/ UNCHANGED Abstract!vars
  OBVIOUS
<1> USE DEF RInv, IInv
<1>1. rewrites = 0 /\ ~ \E n \in Names, c \in Contents : Rewrite(n, c)
  BY StillCalm
<1>2. ASSUME SameFiled PROVE Entries' = Entries
  BY <1>2 DEF SameFiled, Entries
<1>3. CASE \E p \in Procs : WriteMetadata(p) /\ FiledAt(p)
  <2>1. PICK p \in Procs : WriteMetadata(p) /\ FiledAt(p)
    BY <1>3
  <2>2. PICK h : h = job[p].hash /\ h \in Contents /\ h \in given /\ Room(h)
    BY <2>1 DEF WriteMetadata, JobInv, Knows, GivenInv, InHand, Unfiled, Writing
  <2>3. /\ UNCHANGED <<given, missed, processed>> /\ job'[p].hash = h
        /\ job[p].dir \notin Filed(h)
        /\ \A c \in Contents \ {h} : Filed(c)' = Filed(c)
    BY <2>1, <2>2 DEF WriteMetadata, FiledAt, history
  <2>4. Filed(h)' = Filed(h) \cup {job[p].dir}
    BY <2>1, <2>2, <2>3 DEF FiledAt
  <2>5. Entries' = [Entries EXCEPT ![h] = @ + 1]
    <3>1. Cardinality(Filed(h)') = Cardinality(Filed(h)) + 1
      <4> HIDE DEF RInv, IInv
      <4>1. IsFiniteSet(Filed(h))
        BY <2>2, FiledFinite DEF RInv, IInv
      <4>2. job[p].dir \notin Filed(h) /\ Filed(h)' = Filed(h) \cup {job[p].dir}
        BY <2>3, <2>4
      <4> QED
        BY <4>1, <4>2, OneAdded
    <3> QED
      BY <2>2, <2>3, <3>1 DEF Entries
  <2>6. Archived' = Archived
    BY <2>3 DEF Archived
  <2>7. Entries[h] <= missed[h]
    BY <2>2 DEF Entries, Room
  <2>8. Abstract!File(h)
    BY <2>2, <2>3, <2>5, <2>6, <2>7 DEF Abstract!File, Entries
  <2> QED
    BY <2>2, <2>8 DEF Abstract!Next
<1>4. CASE SameFiled /\ \E p \in Procs : /\ pc[p] = "move" /\ Rearchived(p)
                                         /\ UNCHANGED <<given, missed>>
  <2>1. PICK p \in Procs : /\ pc[p] = "move" /\ Rearchived(p)
                           /\ UNCHANGED <<given, missed>>
    BY <1>4
  <2>2. PICK h \in Contents : h = job[p].hash /\ Entries[h] > 0
    BY <2>1, EntryCount DEF JobInv, Knows, InHand
  <2>3. Entries' = Entries
    BY <1>2, <1>4
  <2>4. Abstract!Archive(h) \/ Abstract!Overwrite(h)
    BY <2>1, <2>2, <2>3 DEF Rearchived, Abstract!Archive, Abstract!Overwrite, Entries
  <2> QED
    BY <2>4 DEF Abstract!Next
<1>5. CASE SameFiled /\ Archived' = Archived
  <2>1. Entries' = Entries
    BY <1>2, <1>5
  <2>2. CASE \E n \in Names, c \in Contents : Drop(n, c)
    <3>1. PICK c \in Contents : given' = given \cup {c} /\ UNCHANGED missed
      BY <2>2 DEF Drop
    <3>2. Abstract!Give(c)
      BY <1>5, <2>1, <3>1 DEF Abstract!Give, Entries
    <3> QED
      BY <3>2 DEF Abstract!Next
  <2>3. CASE \E p \in Procs : Missing(p)
    <3>1. PICK p \in Procs : Missing(p)
      BY <2>3
    <3>2. PICK h \in Contents : h = job[p].hash /\ Filed(h) # {}
      BY <3>1 DEF Missing, JobInv, Knows, InHand, InLibrary, Filed
    <3>3. Abstract!Miss(h)
      BY <1>5, <2>1, <3>1, <3>2, EntryCount DEF Missing, Abstract!Miss, Entries
    <3> QED
      BY <3>3 DEF Abstract!Next
  <2>4. CASE UNCHANGED <<given, missed>>
    BY <1>5, <2>1, <2>4 DEF Abstract!vars, Entries
  <2>5. UNCHANGED given \/ \E n \in Names, c \in Contents : Drop(n, c)
    BY <1>1, UserKept DEF history, vars, Next
  <2> QED
    BY <2>2, <2>3, <2>4, <2>5, MissedStep
<1>6. OneFiled /\ OneArchived
  BY <1>1, LibraryKept, ArchiveStep
<1> QED
  BY <1>3, <1>4, <1>5, <1>6 DEF OneFiled, OneArchived, SameFiled, Filed

\* ImplementsIngest: what one process of the command line does to the library
\* and the processed directory is what Ingest promises (pipeline.go:66-127),
\* whatever crashes or fails, failing lookups included, until a file of the
\* inbox is replaced.
THEOREM LocalIngestIsIngest == ASSUME OneProcess PROVE Spec => ImplementsIngest
<1>1. RInv /\ [Next]_vars => RInv'
  BY ShapeStep, JobStep, FiledOnceStep, LogStep, GivenStep, CalmStep DEF RInv, IInv
<1>2. RInv /\ [Next]_vars => [rewrites' = 0 => Abstract!Next]_(Abstract!vars)
  BY StepRefines
<1> QED
  BY <1>1, <1>2, InitRefines, PTL DEF Spec, ImplementsIngest

-----------------------------------------------------------------------------
(* The inductive invariant of the charges.                                   *)

\* Nobody but the process takes its file out of the inbox.
HandHere ==
    \A p \in Procs : pc[p] \in InHand \cup {"remove"} => inbox[job[p].name] # None

CInv == IInv /\ HandHere /\ given \subseteq Contents

\* A set that has at most one member for each replaced file.
Charged(S) == IsFiniteSet(S) /\ Cardinality(S) <= rewrites

-----------------------------------------------------------------------------
(* Facts about the steps.                                                    *)

LEMMA RewriteCounts ==
    ASSUME ShapeInv, [Next]_vars
    PROVE  /\ rewrites \in Nat
           /\ \/ UNCHANGED rewrites
              \/ rewrites' = rewrites + 1
           /\ (\E n \in Names, c \in Contents : Rewrite(n, c)) => rewrites' = rewrites + 1
<1>1. (\E n \in Names, c \in Contents : Rewrite(n, c)) => rewrites' = rewrites + 1
  BY DEF Rewrite
<1>2. ASSUME ~ \E n \in Names, c \in Contents : Rewrite(n, c) PROVE UNCHANGED rewrites
  BY <1>2, UserKept DEF history, vars, Next, Drop
<1> QED
  BY <1>1, <1>2 DEF ShapeInv

\* A set grows by at most one member, and only when a file is replaced.
LEMMA ChargedStep ==
    ASSUME ShapeInv, [Next]_vars, NEW S, Charged(S), NEW T,
           \/ T \subseteq S
           \/ \E x : T \subseteq S \cup {x} /\ \E n \in Names, c \in Contents : Rewrite(n, c)
    PROVE  IsFiniteSet(T) /\ Cardinality(T) <= rewrites'
<1>1. /\ rewrites \in Nat /\ (UNCHANGED rewrites \/ rewrites' = rewrites + 1)
      /\ (\E n \in Names, c \in Contents : Rewrite(n, c)) => rewrites' = rewrites + 1
  BY RewriteCounts
<1>2. PICK m, r \in Nat : m = rewrites /\ r = rewrites'
  BY <1>1
<1>3. IsFiniteSet(S) /\ Cardinality(S) <= m
  BY <1>2 DEF Charged
<1>4. CASE T \subseteq S
  <2>1. m <= r
    BY <1>1, <1>2
  <2> QED
    BY <1>2, <1>3, <1>4, <2>1, Fewer
<1>5. CASE \E x : T \subseteq S \cup {x} /\ \E n \in Names, c \in Contents : Rewrite(n, c)
  <2>1. r = m + 1
    BY <1>1, <1>2, <1>5
  <2>2. IsFiniteSet(T) /\ Cardinality(T) <= Cardinality(S) + 1
        /\ Cardinality(S) \in Nat /\ Cardinality(T) \in Nat
    BY <1>3, <1>5, OneMore
  <2> QED
    BY <1>2, <1>3, <2>1, <2>2
<1> QED
  BY <1>4, <1>5

\* The other file of an entry that is being written stays as it is.
LEMMA FieldWritten ==
    ASSUME NEW e \in Entry, NEW v
    PROVE  /\ [e EXCEPT !["pdf"] = v].pdf = v
           /\ [e EXCEPT !["text"] = v].text = v
           /\ [e EXCEPT !["text"] = v].pdf = e.pdf
           /\ [e EXCEPT !["meta"] = v].pdf = e.pdf
           /\ [e EXCEPT !["meta"] = v].text = e.text
BY DEF Entry

\* The file is removed after it has been copied, and by nobody else.
Copied(p) ==
    /\ pc[p] = "move" /\ job'[p].name = job[p].name /\ UNCHANGED inbox

LEMMA RemoveStep ==
    ASSUME OneProcess, ShapeInv, JobInv, [Next]_vars, NEW p \in Procs,
           pc'[p] = "remove"
    PROVE  Copied(p) \/ Untouched(p)
<1> USE DEF disk, local, history
<1>1. /\ Knows(p) /\ JobShape(job[p]) /\ DOMAIN job = Procs /\ DOMAIN pc = Procs
  BY DEF JobInv, ShapeInv
<1>2. ~Quarantine(p)
  BY <1>1 DEF Quarantine, Goto
<1>3. CASE Start(p)
  BY <1>1, <1>3 DEF Start, Goto, Untouched
<1>4. CASE \/ NextName(p) \/ Finish(p) \/ ReadPDF(p) \/ IsDuplicate(p) \/ Extract(p)
           \/ PickDir(p) \/ MkDir(p) \/ CopyPDF(p) \/ WriteTranscript(p)
           \/ WriteMetadata(p) \/ RemoveSource(p) \/ WriteLog(p) \/ Crash(p)
  BY <1>1, <1>2, <1>4
  DEF NextName, Finish, ReadPDF, IsDuplicate, Extract, PickDir, MkDir, CopyPDF,
      WriteTranscript, WriteMetadata, WriteFile, RemoveSource, WriteLog, Crash, Goto
<1>5. CASE Move(p)
  <2>1. /\ job'[p] = [job[p] EXCEPT !.status = "processed"] /\ pc[p] = "move"
        /\ UNCHANGED inbox
    BY <1>1, <1>5 DEF Move, Set, Goto
  <2> QED
    BY <1>1, <2>1, StatusSet DEF Copied
<1>6. CASE \E n \in Names, c \in Contents : Drop(n, c) \/ Rewrite(n, c)
  <2>1. UNCHANGED <<pc, job, library>>
    BY <1>6 DEF Drop, Rewrite
  <2> QED
    BY <1>6, <2>1 DEF Untouched
<1>7. CASE UNCHANGED vars
  BY <1>7 DEF vars, Untouched
<1> QED
  <2>1. CASE \E q \in Procs : Start(q) \/ Step(q) \/ Crash(q)
    <3>1. Start(p) \/ Step(p) \/ Crash(p)
      BY <2>1 DEF OneProcess
    <3> QED
      BY <1>3, <1>4, <1>5, <3>1 DEF Step
  <2> QED
    BY <1>6, <1>7, <2>1 DEF Next

\* Only Move, or a crash in it, writes to the processed directory.
Archives(p, v) ==
    /\ Move(p) \/ Crash(p)
    /\ pc[p] = "move" /\ v \in Contents \cup {Torn} /\ v \in {Cur(p), Torn}
    /\ processed' = [processed EXCEPT ![Target(p)] = v]

LEMMA ProcessedStep ==
    ASSUME ShapeInv, JobInv, HandHere, [Next]_vars
    PROVE  UNCHANGED processed \/ \E p \in Procs : \E v : Archives(p, v)
<1> USE DEF disk, local, history
<1>1. ASSUME NEW p \in Procs, Move(p)
      PROVE  UNCHANGED processed \/ \E v : Archives(p, v)
  <2>1. Cur(p) \in Contents /\ pc[p] = "move"
    BY <1>1 DEF Move, HandHere, JobInv, Knows, ShapeInv, Busy, InHand, Cur
  <2> QED
    BY <1>1, <2>1 DEF Move, Archives
<1>2. ASSUME NEW p \in Procs, Crash(p)
      PROVE  UNCHANGED processed \/ \E v : Archives(p, v)
  BY <1>2 DEF Crash, Archives
<1>3. ASSUME NEW p \in Procs,
             \/ Start(p) \/ NextName(p) \/ Finish(p) \/ ReadPDF(p) \/ IsDuplicate(p)
             \/ Extract(p) \/ PickDir(p) \/ MkDir(p) \/ CopyPDF(p)
             \/ WriteTranscript(p) \/ WriteMetadata(p) \/ RemoveSource(p) \/ WriteLog(p)
      PROVE  UNCHANGED processed
  BY <1>3 DEF Start, NextName, Finish, ReadPDF, IsDuplicate, Extract, PickDir, MkDir,
              CopyPDF, WriteTranscript, WriteMetadata, RemoveSource, WriteLog
<1>4. ASSUME NEW n \in Names, NEW c \in Contents, Drop(n, c) \/ Rewrite(n, c)
      PROVE  UNCHANGED processed
  BY <1>4 DEF Drop, Rewrite
<1>5. CASE UNCHANGED vars
  BY <1>5 DEF vars
<1> QED
  BY <1>1, <1>2, <1>3, <1>4, <1>5 DEF Next, Step

\* The processed directory after such a write.
LEMMA SlotWritten ==
    ASSUME ShapeInv, JobInv, NEW p \in Procs, NEW v, Archives(p, v)
    PROVE  /\ Target(p) \in Slots
           /\ Target(p) = <<job[p].name, None>> \/ Target(p) = <<job[p].name, job[p].hash>>
           /\ Target(p) # <<job[p].name, job[p].hash>> => processed[Target(p)] = None
           /\ \A s \in Slots : processed'[s] = IF s = Target(p) THEN v ELSE processed[s]
<1> USE ConstantsAssumption
<1> DEFINE n == job[p].name  h == job[p].hash
<1>1. n \in Names /\ h \in Contents
  BY DEF Archives, JobInv, Knows, Busy, InHand
<1>2. /\ Target(p) \in Slots
      /\ Target(p) = <<n, None>> \/ Target(p) = <<n, h>>
      /\ Target(p) # <<n, h>> => processed[Target(p)] = None
  BY <1>1 DEF Target, SameName, Slots
<1> QED
  BY <1>2 DEF Archives, ShapeInv

\* Only the file in hand is archived.
LEMMA ArchivedStep ==
    ASSUME ShapeInv, JobInv, HandHere, [Next]_vars
    PROVE  \A c \in Archived' \ Archived : \E p \in Procs : pc[p] = "move" /\ c = Cur(p)
<1>1. CASE UNCHANGED processed
  BY <1>1 DEF Archived
<1>2. ASSUME NEW p \in Procs, NEW v, Archives(p, v)
      PROVE  Archived' \subseteq Archived \cup {Cur(p)}
  <2>1. \A s \in Slots : processed'[s] = IF s = Target(p) THEN v ELSE processed[s]
    BY <1>2, SlotWritten
  <2>2. v \in Contents => v = Cur(p)
    BY <1>2, ConstantsAssumption DEF Archives
  <2> QED
    BY <2>1, <2>2 DEF Archived
<1> QED
  BY <1>1, <1>2, ProcessedStep DEF Archives

-----------------------------------------------------------------------------
(* The invariant is kept.                                                    *)

\* A file that others may drop or replace does not vanish.
LEMMA UntouchedInbox ==
    ASSUME ShapeInv, NEW p \in Procs, Untouched(p), NEW n \in Names, inbox[n] # None
    PROVE  /\ inbox'[n] # None
           /\ inbox'[n] # inbox[n] => \E c \in Contents : Rewrite(n, c) /\ inbox'[n] = c
<1> USE ConstantsAssumption
<1>1. CASE UNCHANGED inbox
  BY <1>1
<1>2. ASSUME NEW m \in Names, NEW c \in Contents, Drop(m, c)
      PROVE  inbox'[n] = inbox[n]
  BY <1>2 DEF Drop, ShapeInv
<1>3. ASSUME NEW m \in Names, NEW c \in Contents, Rewrite(m, c)
      PROVE  /\ m # n => inbox'[n] = inbox[n]
             /\ m = n => inbox'[n] = c
  BY <1>3 DEF Rewrite, ShapeInv
<1> QED
  BY <1>1, <1>2, <1>3 DEF Untouched

LEMMA HandHereStep ==
    ASSUME OneProcess, ShapeInv, JobInv, HandHere, [Next]_vars PROVE HandHere'
<1> SUFFICES ASSUME NEW p \in Procs, pc'[p] \in InHand \cup {"remove"}
             PROVE  inbox'[job'[p].name] # None
  BY DEF HandHere
<1> USE ConstantsAssumption
<1>1. CASE Read(p)
  BY <1>1 DEF Read
<1>2. CASE HandedOn(p)
  BY <1>2 DEF HandedOn, HandHere
<1>3. CASE Copied(p)
  BY <1>3 DEF Copied, HandHere, InHand
<1>4. CASE Untouched(p)
  <2>1. /\ job[p].name \in Names /\ inbox[job[p].name] # None
        /\ job'[p].name = job[p].name
    BY <1>4 DEF Untouched, HandHere, JobInv, Knows, Busy
  <2> QED
    BY <1>4, <2>1, UntouchedInbox
<1> QED
  BY <1>1, <1>2, <1>3, <1>4, HandStep, RemoveStep

LEMMA GivenTyped ==
    ASSUME given \subseteq Contents, [Next]_vars PROVE given' \subseteq Contents
<1>1. ASSUME NEW n \in Names, NEW c \in Contents, Drop(n, c) \/ Rewrite(n, c)
      PROVE  given' = given \cup {c}
  BY <1>1 DEF Drop, Rewrite
<1>2. CASE UNCHANGED given
  BY <1>2
<1>3. ASSUME NEW p \in Procs, Start(p) \/ Crash(p) PROVE UNCHANGED given
  BY <1>3 DEF history, Start, Crash
<1>4. ASSUME NEW p \in Procs, Step(p) PROVE UNCHANGED given
  BY <1>4 DEF history, Step, NextName, Finish, ReadPDF, IsDuplicate, Extract, PickDir, MkDir,
              CopyPDF, WriteTranscript, WriteMetadata, Move, RemoveSource, WriteLog
<1>5. CASE UNCHANGED vars
  BY <1>2, <1>5 DEF vars, history
<1> QED
  BY <1>1, <1>2, <1>3, <1>4, <1>5 DEF Next

-----------------------------------------------------------------------------
(* Lost originals.                                                           *)

Replaced == \E n \in Names, c \in Contents : Rewrite(n, c)

\* The file that is about to be removed counts as gone.
Removing == {job[p].name : p \in {q \in Procs : pc[q] = "remove"}}
Waiting  == {inbox[n] : n \in Names \ Removing}
AtRisk   == given \ (Archived \cup Waiting)

\* A replaced file in hand goes under the name and the hash of the document
\* that was read.  A later copy of that document, which no lookup finds, then
\* overwrites it.
Stray == {s \in Names \X Contents : processed[s] \in Contents \ {s[2]}}
Spoiled(p) == pc[p] \in InHand /\ inbox[job[p].name] # job[p].hash
Owed == IF \E p \in Procs : Spoiled(p) THEN 1 ELSE 0

\* Such a file is charged in the place of the document that was read, which may
\* be lost or not.
Pardoned == {s[2] : s \in Stray} \cup {job[p].hash : p \in {q \in Procs : Spoiled(q)}}
Lost     == AtRisk \ Pardoned

RiskInv ==
    /\ IsFiniteSet(Stray) /\ IsFiniteSet(Lost)
    /\ Cardinality(Stray) + Cardinality(Lost) + Owed <= rewrites

\* The file in hand is spoiled by nothing but a replacement.
LEMMA SpoiledStep ==
    ASSUME OneProcess, ShapeInv, JobInv, HandHere, [Next]_vars, ~Replaced,
           NEW p \in Procs, Spoiled(p)'
    PROVE  Spoiled(p) /\ job'[p].hash = job[p].hash
<1>1. pc'[p] \in InHand /\ inbox'[job'[p].name] # job'[p].hash
  BY DEF Spoiled
<1>2. ~Read(p)
  BY <1>1 DEF Read
<1>3. CASE HandedOn(p)
  BY <1>1, <1>3 DEF HandedOn, Spoiled
<1>4. CASE Untouched(p)
  <2>1. /\ pc[p] \in InHand /\ job'[p] = job[p] /\ job[p].name \in Names
        /\ inbox[job[p].name] # None
    BY <1>1, <1>4 DEF Untouched, HandHere, JobInv, Knows, Busy
  <2>2. inbox'[job[p].name] = inbox[job[p].name]
    BY <1>4, <2>1, UntouchedInbox DEF Replaced
  <2> QED
    BY <1>1, <2>1, <2>2 DEF Spoiled
<1> QED
  BY <1>1, <1>2, <1>3, <1>4, HandStep

\* A replaced file puts one document at risk, and not the one that replaces it.
LEMMA RewriteRisk ==
    ASSUME OneProcess, ShapeInv, given \subseteq Contents,
           NEW n \in Names, NEW c \in Contents, Rewrite(n, c)
    PROVE  /\ n \in Removing => AtRisk' \subseteq AtRisk \cup {c}
           /\ n \notin Removing => AtRisk' \subseteq AtRisk \cup {inbox[n]} /\ c \notin AtRisk'
<1> USE DEF local
<1>1. /\ given' = given \cup {c} /\ Removing' = Removing /\ Archived' = Archived
      /\ inbox'[n] = c /\ \A m \in Names : m # n => inbox'[m] = inbox[m]
  BY DEF Rewrite, Removing, Archived, ShapeInv
<1>2. CASE n \in Removing
  <2>1. Waiting' = Waiting
    BY <1>1, <1>2 DEF Waiting
  <2> QED
    BY <1>1, <1>2, <2>1 DEF AtRisk
<1>3. CASE n \notin Removing
  <2>1. c \in Waiting' /\ Waiting \subseteq Waiting' \cup {inbox[n]}
    BY <1>1, <1>3 DEF Waiting
  <2> QED
    BY <1>1, <1>3, <2>1 DEF AtRisk
<1> QED
  BY <1>2, <1>3

\* What a replaced file is charged for.
LEMMA RewriteCharged ==
    ASSUME OneProcess, ShapeInv, JobInv, given \subseteq Contents,
           NEW n \in Names, NEW c \in Contents, Rewrite(n, c)
    PROVE  /\ Stray' = Stray
           /\ \/ Lost' \subseteq Lost
              \/ Owed' <= Owed /\ \E x : Lost' \subseteq Lost \cup {x}
<1> USE DEF local
<1>1. /\ UNCHANGED <<pc, job, processed>> /\ inbox[n] # c
      /\ inbox'[n] = c /\ \A m \in Names : m # n => inbox'[m] = inbox[m]
  BY DEF Rewrite, ShapeInv
<1>2. Stray' = Stray
  BY <1>1 DEF Stray
<1>3. CASE \A p \in Procs : pc[p] \in InHand => job[p].name # n
  <2>1. \A p \in Procs : Spoiled(p)' <=> Spoiled(p)
    BY <1>1, <1>3 DEF Spoiled, JobInv, Knows, Busy
  <2>2. Owed' = Owed /\ Pardoned' = Pardoned
    BY <1>1, <1>2, <2>1 DEF Owed, Pardoned
  <2>3. \E x : AtRisk' \subseteq AtRisk \cup {x}
    BY RewriteRisk
  <2>4. Owed' <= Owed
    BY <2>2 DEF Owed
  <2>5. \E x : Lost' \subseteq Lost \cup {x}
    BY <2>2, <2>3 DEF Lost
  <2> QED
    BY <1>2, <2>4, <2>5
<1>4. ASSUME NEW p \in Procs, pc[p] \in InHand, job[p].name = n
      PROVE  \/ Lost' \subseteq Lost
             \/ Owed' <= Owed /\ \E x : Lost' \subseteq Lost \cup {x}
  <2>1. Removing = {}
    BY <1>4 DEF OneProcess, Removing, InHand, Unfiled, Writing
  <2>2. AtRisk' \subseteq AtRisk \cup {inbox[n]} /\ c \notin AtRisk'
    BY <2>1, RewriteRisk
  <2>3. \A q \in Procs : q = p
    BY DEF OneProcess
  <2>4. CASE ~Spoiled(p)
    <3>1. inbox[n] = job[p].hash /\ Spoiled(p)'
      BY <1>1, <1>4, <2>4 DEF Spoiled
    <3>2. job[p].hash \in Pardoned' /\ Pardoned \subseteq Pardoned'
      BY <1>1, <1>2, <2>3, <2>4, <3>1 DEF Pardoned
    <3> QED
      BY <2>2, <3>1, <3>2 DEF Lost
  <2>5. CASE Spoiled(p)
    <3>1. Owed = 1 /\ Owed' <= Owed
      BY <2>5 DEF Owed
    <3>2. CASE Spoiled(p)'
      <4>1. Pardoned' = Pardoned
        BY <1>1, <1>2, <2>3, <2>5, <3>2 DEF Pardoned
      <4> QED
        BY <2>2, <3>1, <4>1 DEF Lost
    <3>3. CASE ~Spoiled(p)'
      <4>1. c = job[p].hash
        BY <1>1, <1>4, <3>3 DEF Spoiled
      <4>2. Pardoned \subseteq Pardoned' \cup {c}
        BY <1>1, <1>2, <2>3, <4>1 DEF Pardoned
      <4> QED
        BY <2>2, <3>1, <4>2 DEF Lost
    <3> QED
      BY <3>2, <3>3
  <2> QED
    BY <2>4, <2>5
<1> QED
  BY <1>2, <1>3, <1>4

\* Every other step but a write to the processed directory puts nothing at risk.
LEMMA QuietRisk ==
    ASSUME OneProcess, ShapeInv, JobInv, HandHere, given \subseteq Contents, [Next]_vars,
           ~Replaced, ~ \E p \in Procs : \E v : Archives(p, v)
    PROVE  UNCHANGED processed /\ AtRisk' \subseteq AtRisk
<1> USE DEF disk, local, history
<1>0. UNCHANGED processed
  BY ProcessedStep
<1>1. Archived' = Archived
  BY <1>0 DEF Archived
<1>2. ASSUME NEW n \in Names, NEW c \in Contents, Drop(n, c)
      PROVE  AtRisk' \subseteq AtRisk
  <2>1. /\ given' = given \cup {c} /\ Removing' = Removing /\ inbox[n] = None
        /\ inbox'[n] = c /\ \A m \in Names : m # n => inbox'[m] = inbox[m]
    BY <1>2 DEF Drop, Removing, ShapeInv
  <2>2. n \notin Removing
    BY <2>1 DEF Removing, HandHere
  <2>3. c \in Waiting' /\ Waiting \subseteq Waiting' \cup {None}
    BY <2>1, <2>2 DEF Waiting
  <2>4. None \notin given
    BY ConstantsAssumption
  <2> QED
    BY <1>1, <2>1, <2>3, <2>4 DEF AtRisk
<1>3. ASSUME NEW p \in Procs, Start(p) \/ Step(p) \/ Crash(p)
      PROVE  AtRisk' \subseteq AtRisk
  <2>1. UNCHANGED given
    BY <1>3, UserKept
  <2>2. CASE RemoveSource(p)
    <3>1. pc[p] = "remove" /\ pc'[p] = "log"
      BY <2>2 DEF RemoveSource, Goto, ShapeInv
    <3>2. Removing = {job[p].name} /\ Removing' = {}
      BY <3>1 DEF OneProcess, Removing
    <3>3. \A m \in Names : m # job[p].name => inbox'[m] = inbox[m]
      BY <2>2 DEF RemoveSource, ShapeInv
    <3>4. Waiting \subseteq Waiting'
      BY <3>2, <3>3 DEF Waiting
    <3> QED
      BY <1>1, <2>1, <3>4 DEF AtRisk
  <2>3. CASE ~RemoveSource(p)
    <3>1. Move(p) => UNCHANGED inbox /\ pc'[p] = "log"
      <4>1. ASSUME Move(p) PROVE Cur(p) \in Contents /\ pc[p] = "move"
        BY <4>1 DEF Move, HandHere, JobInv, Knows, ShapeInv, Busy, InHand, Cur
      <4> QED
        BY <4>1 DEF Move, Archives, Goto, ShapeInv
    <3>2. UNCHANGED inbox
      BY <1>3, <2>3, <3>1 DEF Step, Start, NextName, Finish, ReadPDF, IsDuplicate, Extract,
                        PickDir, MkDir, CopyPDF, WriteTranscript, WriteMetadata,
                        WriteLog, Crash
    <3>3. UNCHANGED <<pc, job>> \/ pc'[p] # "remove"
      BY <1>3, <2>3, <3>1
      DEF Step, Start, NextName, Finish, ReadPDF, IsDuplicate, Extract, PickDir, MkDir,
          CopyPDF, WriteTranscript, WriteMetadata, WriteFile, Quarantine, WriteLog,
          Crash, Goto, ShapeInv
    <3>4. Removing' \subseteq Removing
      BY <3>3 DEF OneProcess, Removing
    <3>5. Waiting \subseteq Waiting'
      BY <3>2, <3>4 DEF Waiting
    <3> QED
      BY <1>1, <2>1, <3>5 DEF AtRisk
  <2> QED
    BY <2>2, <2>3
<1>4. CASE UNCHANGED vars
  BY <1>1, <1>4 DEF vars, AtRisk, Waiting, Removing
<1> QED
  BY <1>0, <1>2, <1>3, <1>4 DEF Next, Replaced

LEMMA QuietCharged ==
    ASSUME OneProcess, ShapeInv, JobInv, HandHere, given \subseteq Contents, [Next]_vars,
           ~Replaced, ~ \E p \in Procs : \E v : Archives(p, v)
    PROVE  /\ Stray' = Stray
           /\ \/ Owed' <= Owed /\ Lost' \subseteq Lost
              \/ Owed' = 0 /\ Owed = 1 /\ \E x : Lost' \subseteq Lost \cup {x}
<1>1. UNCHANGED processed /\ AtRisk' \subseteq AtRisk
  BY QuietRisk
<1>2. Stray' = Stray
  BY <1>1 DEF Stray
<1>3. CASE \A p \in Procs : ~Spoiled(p)
  <2>1. \A p \in Procs : ~Spoiled(p)'
    BY <1>3, SpoiledStep
  <2>2. Owed' = Owed /\ Pardoned' = Pardoned /\ Owed = 0
    BY <1>2, <1>3, <2>1 DEF Owed, Pardoned
  <2>3. Owed' <= Owed
    BY <2>2
  <2> QED
    BY <1>1, <1>2, <2>2, <2>3 DEF Lost
<1>4. ASSUME NEW p \in Procs, Spoiled(p), Spoiled(p)'
      PROVE  Owed' <= Owed /\ Lost' \subseteq Lost
  <2>1. job'[p].hash = job[p].hash /\ \A q \in Procs : q = p
    BY <1>4, SpoiledStep DEF OneProcess
  <2>2. Pardoned' = Pardoned
    BY <1>2, <1>4, <2>1 DEF Pardoned
  <2>3. Owed' = 1 /\ Owed = 1
    BY <1>4 DEF Owed
  <2>4. Owed' <= Owed
    BY <2>3
  <2> QED
    BY <1>1, <2>2, <2>4 DEF Lost
<1>5. ASSUME NEW p \in Procs, Spoiled(p), ~Spoiled(p)'
      PROVE  Owed' = 0 /\ Owed = 1 /\ \E x : Lost' \subseteq Lost \cup {x}
  <2>1. \A q \in Procs : q = p
    BY DEF OneProcess
  <2>2. Owed' = 0 /\ Owed = 1
    BY <1>5, <2>1 DEF Owed
  <2>3. Pardoned \subseteq Pardoned' \cup {job[p].hash}
    BY <1>2, <1>5, <2>1 DEF Pardoned
  <2>4. Lost' \subseteq Lost \cup {job[p].hash}
    BY <1>1, <2>3 DEF Lost
  <2> QED
    BY <2>2, <2>4
<1> QED
  BY <1>2, <1>3, <1>4, <1>5

\* A write to the processed directory puts what was there at risk, and not the
\* file in hand.
LEMMA MoveRisk ==
    ASSUME OneProcess, ShapeInv, JobInv, HandHere, [Next]_vars,
           NEW p \in Procs, NEW v, Archives(p, v)
    PROVE  /\ AtRisk' \subseteq AtRisk \cup {processed[Target(p)]} /\ Cur(p) \notin AtRisk'
           /\ \A q \in Procs : ~Spoiled(q)'
<1> USE ConstantsAssumption DEF disk, local, history
<1>1. /\ pc[p] = "move" /\ job[p].name \in Names /\ Cur(p) \in Contents
      /\ JobShape(job[p]) /\ DOMAIN job = Procs /\ DOMAIN pc = Procs
  BY DEF Archives, HandHere, JobInv, Knows, ShapeInv, Busy, InHand, Cur
<1>2. \A q \in Procs : q = p
  BY DEF OneProcess
<1>3. Removing = {}
  BY <1>1, <1>2 DEF Removing
<1>4. /\ Target(p) \in Slots
      /\ \A s \in Slots : processed'[s] = IF s = Target(p) THEN v ELSE processed[s]
  BY SlotWritten
<1>5. Archived \subseteq Archived' \cup {processed[Target(p)]} /\ (v \in Contents => v \in Archived')
  BY <1>4 DEF Archived
<1> DEFINE Aside == UNCHANGED <<inbox, given>> /\ pc'[p] \in {"log", "idle"}
           Taken == /\ UNCHANGED given /\ pc'[p] \in {"log", "remove"} /\ v = Cur(p)
                    /\ job'[p].name = job[p].name
                    /\ \A m \in Names : m # job[p].name => inbox'[m] = inbox[m]
           Safe == AtRisk' \subseteq AtRisk \cup {processed[Target(p)]} /\ Cur(p) \notin AtRisk'
<1>6. CASE Aside
  <2>1. Removing' = {}
    BY <1>2, <1>6 DEF Removing
  <2>2. Waiting' = Waiting /\ Cur(p) \in Waiting'
    BY <1>1, <1>3, <1>6, <2>1 DEF Waiting, Cur
  <2>3. Safe
    BY <1>5, <1>6, <2>2 DEF AtRisk
  <2> QED
    BY <1>2, <1>6, <2>3 DEF Spoiled, InHand, Unfiled, Writing
<1>7. CASE Taken
  <2>1. Removing' \subseteq {job[p].name}
    BY <1>2, <1>7 DEF Removing
  <2>2. Waiting \subseteq Waiting' \cup {Cur(p)}
    BY <1>3, <1>7, <2>1 DEF Waiting, Cur
  <2>3. Safe
    BY <1>1, <1>5, <1>7, <2>2 DEF AtRisk
  <2> QED
    BY <1>2, <1>7, <2>3 DEF Spoiled, InHand, Unfiled, Writing
<1>8. Aside \/ Taken
  <2>1. CASE Move(p)
    <3>1. job'[p] = [job[p] EXCEPT !.status = "processed"]
      BY <1>1, <2>1 DEF Move, Set
    <3>2. job'[p].name = job[p].name
      BY <1>1, <3>1, StatusSet
    <3>3. UNCHANGED given /\ pc'[p] \in {"log", "remove"}
      BY <1>1, <2>1 DEF Move, Goto
    <3>4. CASE UNCHANGED inbox /\ pc'[p] = "log"
      BY <3>3, <3>4
    <3>5. CASE processed' = [processed EXCEPT ![Target(p)] = Cur(p)]
               /\ \A m \in Names : m # job[p].name => inbox'[m] = inbox[m]
      <4>1. v = Cur(p)
        BY <1>4, <3>5 DEF ShapeInv
      <4> QED
        BY <3>2, <3>3, <3>5, <4>1
    <3> QED
      BY <1>1, <2>1, <3>4, <3>5 DEF Move, Goto, ShapeInv
  <2>2. CASE Crash(p)
    BY <1>1, <2>2 DEF Crash, Goto
  <2>3. Move(p) \/ Crash(p)
    BY DEF Archives
  <2> QED
    BY <2>1, <2>2, <2>3
<1> HIDE DEF Aside, Taken
<1> QED
  BY <1>6, <1>7, <1>8

\* What a write to the processed directory does to the files that go under the
\* name and the hash of another document.
LEMMA StrayWritten ==
    ASSUME ShapeInv, JobInv, NEW p \in Procs, NEW v, Archives(p, v),
           NEW t, t = <<job[p].name, job[p].hash>>
    PROVE  /\ Target(p) # t => Stray' = Stray /\ processed[Target(p)] = None
           /\ Target(p) = t /\ v \in {job[p].hash, Torn} => Stray' = Stray \ {t}
           /\ Target(p) = t /\ v \notin {job[p].hash, Torn} => Stray' = Stray \cup {t}
           /\ Target(p) = t /\ t \notin Stray /\ processed[t] \in Contents
                 => processed[t] = job[p].hash
<1> USE ConstantsAssumption
<1>1. t \in Names \X Contents /\ t[2] = job[p].hash
  BY DEF Archives, JobInv, Knows, Busy, InHand
<1>2. Names \X Contents \subseteq Slots
  BY DEF Slots
<1>3. /\ Target(p) \in Slots /\ (Target(p) = <<job[p].name, None>> \/ Target(p) = t)
      /\ Target(p) # t => processed[Target(p)] = None
      /\ \A s \in Slots : processed'[s] = IF s = Target(p) THEN v ELSE processed[s]
  BY SlotWritten
<1>4. CASE Target(p) # t
  <2>1. \A s \in Names \X Contents : processed'[s] = processed[s]
    BY <1>2, <1>3, <1>4
  <2> QED
    BY <1>3, <1>4, <2>1 DEF Stray
<1>5. CASE Target(p) = t
  <2>1. \A s \in Names \X Contents :
            s \in Stray' <=> IF s = t THEN v \in Contents \ {s[2]} ELSE s \in Stray
    BY <1>2, <1>3, <1>5 DEF Stray
  <2>2. v \in Contents \cup {Torn}
    BY DEF Archives
  <2>3. Stray \subseteq Names \X Contents /\ Stray' \subseteq Names \X Contents
    BY DEF Stray
  <2>4. v \in Contents \ {t[2]} <=> v \notin {job[p].hash, Torn}
    BY <1>1, <2>2
  <2>5. v \notin {job[p].hash, Torn} => Stray' = Stray \cup {t}
    BY <1>1, <2>1, <2>3, <2>4
  <2>6. v \in {job[p].hash, Torn} => Stray' = Stray \ {t}
    BY <1>1, <2>1, <2>3, <2>4
  <2>7. t \notin Stray /\ processed[t] \in Contents => processed[t] = job[p].hash
    BY <1>1 DEF Stray
  <2> QED
    BY <1>5, <2>5, <2>6, <2>7
<1> QED
  BY <1>4, <1>5

\* What a write to the processed directory costs, and who pays for it.
LEMMA MoveCharged ==
    ASSUME OneProcess, ShapeInv, JobInv, HandHere, given \subseteq Contents, [Next]_vars,
           NEW p \in Procs, NEW v, Archives(p, v),
           NEW t, t = <<job[p].name, job[p].hash>>
    PROVE  /\ Owed' = 0
           /\ \/ Stray' = Stray /\ Lost' \subseteq Lost
              \/ Stray' = Stray /\ Owed = 1 /\ \E x : Lost' \subseteq Lost \cup {x}
              \/ t \in Stray /\ Stray' = Stray \ {t} /\ \E x : Lost' \subseteq Lost \cup {x}
              \/ t \in Stray /\ Stray' = Stray \ {t} /\ Owed = 1
                   /\ \E x, y : Lost' \subseteq (Lost \cup {x}) \cup {y}
              \/ Owed = 1 /\ Stray' = Stray \cup {t} /\ Lost' \subseteq Lost
<1> USE ConstantsAssumption
<1> DEFINE z == processed[Target(p)]  h == job[p].hash
<1>1. /\ AtRisk' \subseteq AtRisk \cup {z} /\ Cur(p) \notin AtRisk'
      /\ \A q \in Procs : ~Spoiled(q)'
  BY MoveRisk
<1>2. Owed' = 0
  BY <1>1 DEF Owed
<1>3. AtRisk' \subseteq Contents
  BY GivenTyped DEF AtRisk
<1>4. /\ Target(p) # t => Stray' = Stray /\ z = None
      /\ Target(p) = t /\ v \in {h, Torn} => Stray' = Stray \ {t}
      /\ Target(p) = t /\ v \notin {h, Torn} => Stray' = Stray \cup {t}
      /\ Target(p) = t /\ t \notin Stray /\ z \in Contents => z = h
  BY StrayWritten
<1>5. t[2] = h
  OBVIOUS
<1>6. \A q \in Procs : q = p
  BY DEF OneProcess
<1>7. Spoiled(p) <=> Cur(p) # h
  BY DEF Spoiled, Cur, Archives, InHand
<1>8. /\ Spoiled(p) => Owed = 1 /\ Pardoned = {s[2] : s \in Stray} \cup {h}
      /\ ~Spoiled(p) => Pardoned = {s[2] : s \in Stray}
      /\ Pardoned' = {s[2] : s \in Stray'}
  <2>1. Pardoned' = {s[2] : s \in Stray'}
    BY <1>1 DEF Pardoned
  <2>2. ~Spoiled(p) => Pardoned = {s[2] : s \in Stray}
    BY <1>6 DEF Pardoned
  <2>3. Spoiled(p) => Owed = 1
    BY DEF Owed
  <2>4. ASSUME Spoiled(p) PROVE Pardoned = {s[2] : s \in Stray} \cup {h}
    <3>1. {q \in Procs : Spoiled(q)} = {p}
      BY <1>6, <2>4
    <3> QED
      BY <3>1 DEF Pardoned
  <2> QED
    BY <2>1, <2>2, <2>3, <2>4
<1>9. CASE Target(p) # t
  <2>1. Stray' = Stray /\ AtRisk' \subseteq AtRisk
    BY <1>1, <1>3, <1>4, <1>9
  <2>2. CASE Spoiled(p)
    <3>1. Lost' \subseteq Lost \cup {h}
      BY <1>8, <2>1, <2>2 DEF Lost
    <3> QED
      BY <1>2, <1>8, <2>1, <2>2, <3>1
  <2>3. CASE ~Spoiled(p)
    BY <1>2, <1>8, <2>1, <2>3 DEF Lost
  <2> QED
    BY <2>2, <2>3
<1>10. CASE Target(p) = t /\ v \notin {h, Torn}
  <2>1. Spoiled(p) /\ Owed = 1 /\ Stray' = Stray \cup {t}
    BY <1>4, <1>7, <1>8, <1>10 DEF Archives
  <2>2. h \in Pardoned' /\ Pardoned \subseteq Pardoned'
    BY <1>5, <1>8, <2>1
  <2>3. CASE t \in Stray
    <3>1. Stray' = Stray
      BY <2>1, <2>3
    <3>2. Lost' \subseteq Lost \cup {z}
      BY <1>1, <2>2 DEF Lost
    <3> QED
      BY <1>2, <2>1, <3>1, <3>2
  <2>4. CASE t \notin Stray
    <3>1. AtRisk' \subseteq AtRisk \cup {h}
      BY <1>1, <1>3, <1>4, <1>10, <2>4
    <3>2. Lost' \subseteq Lost
      BY <2>2, <3>1 DEF Lost
    <3> QED
      BY <1>2, <2>1, <3>2
  <2> QED
    BY <2>3, <2>4
<1>11. CASE Target(p) = t /\ v \in {h, Torn}
  <2>1. Stray' = Stray \ {t}
    BY <1>4, <1>11
  <2>2. Pardoned \subseteq Pardoned' \cup {h}
    BY <1>5, <1>8, <2>1
  <2>3. t \notin Stray => Stray' = Stray /\ AtRisk' \subseteq AtRisk \cup {h}
    BY <1>1, <1>3, <1>4, <1>11, <2>1
  <2>4. CASE Spoiled(p)
    <3>1. CASE t \in Stray
      <4>1. Lost' \subseteq (Lost \cup {z}) \cup {h}
        BY <1>1, <2>2 DEF Lost
      <4> QED
        BY <1>2, <1>8, <2>1, <2>4, <3>1, <4>1
    <3>2. CASE t \notin Stray
      <4>1. Lost' \subseteq Lost \cup {h}
        BY <2>2, <2>3, <3>2 DEF Lost
      <4> QED
        BY <1>2, <1>8, <2>3, <2>4, <3>2, <4>1
    <3> QED
      BY <3>1, <3>2
  <2>5. CASE ~Spoiled(p)
    <3>1. h \notin AtRisk'
      BY <1>1, <1>7, <2>5
    <3>2. CASE t \in Stray
      <4>1. Lost' \subseteq Lost \cup {z}
        BY <1>1, <2>2, <3>1 DEF Lost
      <4> QED
        BY <1>2, <2>1, <3>2, <4>1
    <3>3. CASE t \notin Stray
      <4>1. Lost' \subseteq Lost
        BY <2>2, <2>3, <3>1, <3>3 DEF Lost
      <4> QED
        BY <1>2, <2>3, <3>3, <4>1
    <3> QED
      BY <3>2, <3>3
  <2> QED
    BY <2>4, <2>5
<1> QED
  BY <1>9, <1>10, <1>11

LEMMA RiskStep ==
    ASSUME OneProcess, CInv, RiskInv, [Next]_vars PROVE RiskInv'
<1> USE DEF CInv, IInv
<1>1. /\ rewrites \in Nat /\ (UNCHANGED rewrites \/ rewrites' = rewrites + 1)
      /\ Replaced => rewrites' = rewrites + 1
  BY RewriteCounts DEF Replaced
<1>2. PICK m, r \in Nat : m = rewrites /\ r = rewrites'
  BY <1>1
<1>3. m <= r /\ (Replaced => r = m + 1)
  BY <1>1, <1>2
<1> HIDE DEF CInv, IInv
<1>4. PICK o, oo \in {0, 1} : o = Owed /\ oo = Owed'
  BY DEF Owed
<1>5. /\ IsFiniteSet(Stray) /\ IsFiniteSet(Lost)
      /\ Cardinality(Stray) + Cardinality(Lost) + o <= m
  BY <1>2, <1>4 DEF RiskInv
<1>6. ASSUME NEW S, NEW L, Stray' = S, Lost' = L, IsFiniteSet(S), IsFiniteSet(L),
             Cardinality(S) + Cardinality(L) + oo <= r
      PROVE  RiskInv'
  BY <1>2, <1>4, <1>6 DEF RiskInv
<1>7. Cardinality(Stray) \in Nat /\ Cardinality(Lost) \in Nat
  BY <1>5, FS_CardinalityType
<1>8. CASE Stray' = Stray /\ Lost' \subseteq Lost /\ (oo <= o \/ r = m + 1)
  <2>1. /\ IsFiniteSet(Lost') /\ Cardinality(Lost') <= Cardinality(Lost)
        /\ Cardinality(Lost') \in Nat
    BY <1>5, <1>8, Fewer
  <2>2. Cardinality(Stray) + Cardinality(Lost') + oo <= r
    BY <1>3, <1>5, <1>7, <1>8, <2>1
  <2> QED
    BY <1>5, <1>6, <1>8, <2>1, <2>2
<1>9. ASSUME NEW x, Lost' \subseteq Lost \cup {x}, Stray' = Stray,
             oo < o \/ (oo <= o /\ r = m + 1)
      PROVE  RiskInv'
  <2>1. /\ IsFiniteSet(Lost') /\ Cardinality(Lost') <= Cardinality(Lost) + 1
        /\ Cardinality(Lost') \in Nat
    BY <1>5, <1>9, OneMore
  <2>2. Cardinality(Stray) + Cardinality(Lost') + oo <= r
    BY <1>3, <1>5, <1>7, <1>9, <2>1
  <2> QED
    BY <1>5, <1>6, <1>9, <2>1, <2>2
<1>10. CASE Replaced
  <2>1. PICK n \in Names, c \in Contents : Rewrite(n, c)
    BY <1>10 DEF Replaced
  <2>2. /\ Stray' = Stray
        /\ \/ Lost' \subseteq Lost
           \/ Owed' <= Owed /\ \E x : Lost' \subseteq Lost \cup {x}
    BY <2>1, RewriteCharged DEF CInv, IInv
  <2> QED
    BY <1>3, <1>4, <1>8, <1>9, <1>10, <2>2
<1>11. CASE ~Replaced /\ ~ \E p \in Procs : \E v : Archives(p, v)
  <2>1. /\ Stray' = Stray
        /\ \/ Owed' <= Owed /\ Lost' \subseteq Lost
           \/ Owed' = 0 /\ Owed = 1 /\ \E x : Lost' \subseteq Lost \cup {x}
    BY <1>11, QuietCharged DEF CInv, IInv
  <2>2. CASE Owed' <= Owed /\ Lost' \subseteq Lost
    BY <1>4, <1>8, <2>1, <2>2
  <2>3. CASE Owed' = 0 /\ Owed = 1 /\ \E x : Lost' \subseteq Lost \cup {x}
    <3>1. oo < o
      BY <1>4, <2>3
    <3> QED
      BY <1>9, <2>1, <2>3, <3>1
  <2> QED
    BY <2>1, <2>2, <2>3
<1>12. ASSUME NEW p \in Procs, NEW v, Archives(p, v) PROVE RiskInv'
  <2> DEFINE t == <<job[p].name, job[p].hash>>
  <2>1. /\ Owed' = 0
        /\ \/ Stray' = Stray /\ Lost' \subseteq Lost
           \/ Stray' = Stray /\ Owed = 1 /\ \E x : Lost' \subseteq Lost \cup {x}
           \/ t \in Stray /\ Stray' = Stray \ {t} /\ \E x : Lost' \subseteq Lost \cup {x}
           \/ t \in Stray /\ Stray' = Stray \ {t} /\ Owed = 1
                /\ \E x, y : Lost' \subseteq (Lost \cup {x}) \cup {y}
           \/ Owed = 1 /\ Stray' = Stray \cup {t} /\ Lost' \subseteq Lost
    BY <1>12, MoveCharged DEF CInv, IInv
  <2> HIDE DEF t
  <2>2. oo = 0 /\ (Owed = 1 => o = 1)
    BY <1>4, <2>1
  <2>3. t \in Stray => /\ IsFiniteSet(Stray \ {t}) /\ Cardinality(Stray \ {t}) \in Nat
                       /\ Cardinality(Stray \ {t}) = Cardinality(Stray) - 1
    BY <1>5, FS_RemoveElement, FS_CardinalityType
  <2>4. CASE Stray' = Stray /\ Lost' \subseteq Lost
    <3>1. oo <= o
      BY <2>2
    <3> QED
      BY <1>8, <2>4, <3>1
  <2>5. CASE Stray' = Stray /\ Owed = 1 /\ \E x : Lost' \subseteq Lost \cup {x}
    <3>1. oo < o
      BY <2>2, <2>5
    <3> QED
      BY <1>9, <2>5, <3>1
  <2>6. ASSUME t \in Stray, Stray' = Stray \ {t}, NEW x, Lost' \subseteq Lost \cup {x}
        PROVE  RiskInv'
    <3>1. /\ IsFiniteSet(Lost') /\ Cardinality(Lost') <= Cardinality(Lost) + 1
          /\ Cardinality(Lost') \in Nat
      BY <1>5, <2>6, OneMore
    <3>2. Cardinality(Stray \ {t}) + Cardinality(Lost') + oo <= r
      BY <1>3, <1>5, <1>7, <2>2, <2>3, <2>6, <3>1
    <3> QED
      BY <1>6, <2>3, <2>6, <3>1, <3>2
  <2>7. ASSUME t \in Stray, Stray' = Stray \ {t}, Owed = 1, NEW x, NEW y,
               Lost' \subseteq (Lost \cup {x}) \cup {y}
        PROVE  RiskInv'
    <3>1. /\ IsFiniteSet(Lost \cup {x}) /\ Cardinality(Lost \cup {x}) <= Cardinality(Lost) + 1
          /\ Cardinality(Lost \cup {x}) \in Nat
      BY <1>5, OneMore
    <3>2. /\ IsFiniteSet(Lost') /\ Cardinality(Lost') <= Cardinality(Lost \cup {x}) + 1
          /\ Cardinality(Lost') \in Nat
      BY <2>7, <3>1, OneMore
    <3>3. Cardinality(Stray \ {t}) + Cardinality(Lost') + oo <= r
      BY <1>3, <1>5, <1>7, <2>2, <2>3, <2>7, <3>1, <3>2
    <3> QED
      BY <1>6, <2>3, <2>7, <3>2, <3>3
  <2>8. CASE Owed = 1 /\ Stray' = Stray \cup {t} /\ Lost' \subseteq Lost
    <3>1. /\ IsFiniteSet(Lost') /\ Cardinality(Lost') <= Cardinality(Lost)
          /\ Cardinality(Lost') \in Nat
      BY <1>5, <2>8, Fewer
    <3>2. /\ IsFiniteSet(Stray') /\ Cardinality(Stray') <= Cardinality(Stray) + 1
          /\ Cardinality(Stray') \in Nat
      BY <1>5, <2>8, OneMore
    <3>3. Cardinality(Stray') + Cardinality(Lost') + oo <= r
      BY <1>3, <1>5, <1>7, <2>2, <2>8, <3>1, <3>2
    <3> QED
      BY <1>6, <3>1, <3>2, <3>3
  <2> QED
    BY <2>1, <2>4, <2>5, <2>6, <2>7, <2>8
<1> QED
  BY <1>10, <1>11, <1>12

\* At most as many documents as are charged for a file under their hash.
LEMMA PardonedCount ==
    ASSUME OneProcess, IsFiniteSet(Stray)
    PROVE  /\ IsFiniteSet(Pardoned) /\ Cardinality(Pardoned) \in Nat
           /\ Cardinality(Pardoned) <= Cardinality(Stray) + Owed
<1> DEFINE Hashes == {s[2] : s \in Stray}
<1>1. /\ IsFiniteSet(Hashes) /\ Cardinality(Hashes) <= Cardinality(Stray)
      /\ Cardinality(Hashes) \in Nat /\ Cardinality(Stray) \in Nat
  <2> DEFINE f == [s \in Stray |-> s[2]]
  <2>1. f \in Surjection(Stray, Hashes)
    BY DEF Surjection
  <2> QED
    BY <2>1, FS_Surjection, FS_CardinalityType
<1> HIDE DEF Hashes
<1>2. CASE \A p \in Procs : ~Spoiled(p)
  <2>1. Pardoned = Hashes /\ Owed = 0
    BY <1>2 DEF Pardoned, Owed, Hashes
  <2> QED
    BY <1>1, <2>1
<1>3. ASSUME NEW p \in Procs, Spoiled(p)
      PROVE  /\ IsFiniteSet(Pardoned) /\ Cardinality(Pardoned) \in Nat
             /\ Cardinality(Pardoned) <= Cardinality(Stray) + Owed
  <2>1. Pardoned \subseteq Hashes \cup {job[p].hash} /\ Owed = 1
    BY <1>3 DEF OneProcess, Pardoned, Owed, Hashes
  <2>2. /\ IsFiniteSet(Pardoned) /\ Cardinality(Pardoned) <= Cardinality(Hashes) + 1
        /\ Cardinality(Pardoned) \in Nat
    BY <1>1, <2>1, OneMore
  <2> QED
    BY <1>1, <2>1, <2>2
<1> QED
  BY <1>2, <1>3

LEMMA Together ==
    ASSUME NEW S, IsFiniteSet(S), NEW T, IsFiniteSet(T)
    PROVE  /\ IsFiniteSet(S \cup T) /\ Cardinality(S \cup T) \in Nat
           /\ Cardinality(S \cup T) <= Cardinality(S) + Cardinality(T)
<1>1. /\ IsFiniteSet(S \cup T) /\ IsFiniteSet(S \cap T)
      /\ Cardinality(S \cup T) = Cardinality(S) + Cardinality(T) - Cardinality(S \cap T)
  BY FS_Union, FS_Subset
<1>2. /\ Cardinality(S) \in Nat /\ Cardinality(T) \in Nat /\ Cardinality(S \cup T) \in Nat
      /\ Cardinality(S \cap T) \in Nat
  BY <1>1, FS_CardinalityType
<1> QED
  BY <1>1, <1>2

-----------------------------------------------------------------------------
(* Originals archived without an entry.                                      *)

\* The file in hand may be another one than the one that was read.
Unread(c) == \E p \in Procs : /\ pc[p] \in InHand /\ inbox[job[p].name] = c
                              /\ job[p].hash # c
Astray == {c \in Contents : Filed(c) = {} /\ (c \in Archived \/ Unread(c))}

LEMMA AstrayStep ==
    ASSUME OneProcess, ShapeInv, JobInv, HandHere, [Next]_vars
    PROVE  Astray' \subseteq Astray \/ \E x : Astray' \subseteq Astray \cup {x} /\ Replaced
<1>1. ASSUME NEW c \in Contents, Filed(c)' = {}, c \in Archived'
      PROVE  c \in Astray
  <2>1. Filed(c) = {}
    BY <1>1, FiledKept
  <2>2. CASE c \in Archived
    BY <2>1, <2>2 DEF Astray
  <2>3. CASE c \notin Archived
    <3>1. PICK p \in Procs : pc[p] = "move" /\ c = Cur(p)
      BY <1>1, <2>3, ArchivedStep
    <3>2. Filed(job[p].hash) # {}
      BY <3>1 DEF JobInv, Knows
    <3>3. Unread(c)
      BY <2>1, <3>1, <3>2 DEF Unread, Cur, InHand
    <3> QED
      BY <2>1, <3>3 DEF Astray
  <2> QED
    BY <2>2, <2>3
<1>2. ASSUME NEW c \in Contents, Filed(c)' = {}, NEW p \in Procs, pc'[p] \in InHand,
             inbox'[job'[p].name] = c, job'[p].hash # c
      PROVE  c \in Astray \/ \E n \in Names : Rewrite(n, c)
  <2>1. Filed(c) = {}
    BY <1>2, FiledKept
  <2>2. ~Read(p)
    BY <1>2 DEF Read
  <2>3. CASE HandedOn(p)
    BY <1>2, <2>1, <2>3 DEF HandedOn, Astray, Unread
  <2>4. CASE Untouched(p)
    <3>1. /\ job[p].name \in Names /\ inbox[job[p].name] # None /\ pc[p] \in InHand
          /\ job'[p] = job[p]
      BY <1>2, <2>4 DEF Untouched, HandHere, JobInv, Knows, Busy
    <3>2. CASE inbox'[job[p].name] = inbox[job[p].name]
      BY <1>2, <2>1, <3>1, <3>2 DEF Astray, Unread
    <3>3. CASE inbox'[job[p].name] # inbox[job[p].name]
      BY <1>2, <2>4, <3>1, <3>3, UntouchedInbox
    <3> QED
      BY <3>2, <3>3
  <2> QED
    BY <1>2, <2>2, <2>3, <2>4, HandStep
<1>3. ASSUME NEW c \in Contents, c \in Astray'
      PROVE  c \in Astray \/ \E n \in Names : Rewrite(n, c)
  BY <1>1, <1>2, <1>3 DEF Astray, Unread
<1>4. ASSUME NEW n \in Names, NEW c \in Contents, Rewrite(n, c),
             NEW m \in Names, NEW d \in Contents, Rewrite(m, d)
      PROVE  c = d
  BY <1>4 DEF Rewrite, ShapeInv
<1>5. Astray' \subseteq Contents
  BY DEF Astray
<1> QED
  BY <1>3, <1>4, <1>5 DEF Replaced

-----------------------------------------------------------------------------
(* Entries whose files are not of one document.                              *)

Mixed == {d \in DOMAIN library : /\ library[d].meta \in Contents
                                 /\ \/ library[d].pdf # library[d].meta
                                    \/ library[d].text # library[d].meta}

\* What has been read so far for the entry in hand is not all of one document.
Tainted(p) ==
    \/ pc[p] \in Unfiled \cup {"dup"} /\ inbox[job[p].name] # job[p].hash
    \/ pc[p] \in Writing \cup {"pick", "mkdir"} /\ job[p].text # job[p].hash
    \/ pc[p] \in {"text", "meta"} /\ library[job[p].dir].pdf # job[p].hash
    \/ pc[p] = "meta" /\ library[job[p].dir].text # job[p].hash

MixInv ==
    /\ Charged(Mixed)
    /\ \A p \in Procs : Tainted(p) => Cardinality(Mixed) < rewrites

\* An entry is mixed only if it was tainted when its metadata.json was written.
LEMMA MixedStep ==
    ASSUME ShapeInv, JobInv, [Next]_vars
    PROVE  \/ Mixed' \subseteq Mixed
           \/ \E p \in Procs : /\ Tainted(p) /\ pc'[p] = "move"
                               /\ \E x : Mixed' \subseteq Mixed \cup {x}
<1>1. Frozen
  BY LibraryKept DEF EntriesKept
<1>2. CASE SameFiled
  <2>1. ASSUME NEW d \in Mixed' PROVE d \in Mixed
    <3>1. PICK c \in Contents : library'[d].meta = c /\ d \in Filed(c)'
      BY DEF Mixed, Filed
    <3>2. d \in DOMAIN library /\ library[d].meta = c
      BY <1>2, <3>1 DEF SameFiled, Filed
    <3>3. library'[d] = library[d]
      BY <1>1, <3>2 DEF Frozen
    <3> QED
      BY <3>2, <3>3 DEF Mixed
  <2> QED
    BY <2>1
<1>3. ASSUME NEW p \in Procs, WriteMetadata(p), FiledAt(p)
      PROVE  \/ Mixed' \subseteq Mixed
             \/ Tainted(p) /\ pc'[p] = "move" /\ \E x : Mixed' \subseteq Mixed \cup {x}
  <2> DEFINE D == job[p].dir  h == job[p].hash
  <2>1. /\ pc[p] = "meta" /\ D \in DOMAIN library /\ library[D].meta = None
        /\ library[D] \in Entry /\ h \in Contents
    BY <1>3 DEF FiledAt, JobInv, Knows, ShapeInv, InHand, Unfiled, Writing
  <2>2. pc'[p] = "move" /\ job' = job
    BY <1>3 DEF FiledAt, Goto, ShapeInv
  <2>3. library' = [library EXCEPT ![D] = [library[D] EXCEPT !["meta"] = h]]
    <3>1. ~Quarantine(p)
      BY <2>2 DEF Quarantine, Goto, ShapeInv
    <3>2. Put(p, "meta", h)
      BY <1>3, <3>1 DEF WriteMetadata, WriteFile
    <3> QED
      BY <3>2 DEF Put
  <2>4. /\ library'[D].pdf = library[D].pdf /\ library'[D].text = library[D].text
        /\ library'[D].meta = h
    BY <2>1, <2>3, FieldWritten, EntryWritten DEF Writing, File
  <2>5. DOMAIN library' = DOMAIN library
        /\ \A d \in DOMAIN library : d # D => library'[d] = library[d]
    BY <2>3
  <2>6. Mixed' \subseteq Mixed \cup {D}
    BY <2>5 DEF Mixed
  <2>7. D \in Mixed' => Tainted(p)
    BY <2>1, <2>4 DEF Mixed, Tainted
  <2> QED
    BY <2>2, <2>6, <2>7
<1> QED
  BY <1>2, <1>3, LibraryKept DEF OneFiled

\* Nothing taints the job in hand but a replaced file.
LEMMA TaintStep ==
    ASSUME OneProcess, ShapeInv, JobInv, HandHere, [Next]_vars, NEW p \in Procs,
           Tainted(p)'
    PROVE  Tainted(p) \/ Replaced
<1> USE DEF disk, local, history
<1> DEFINE Before == Unfiled \cup {"dup"}
<1>1. /\ Knows(p) /\ JobShape(job[p]) /\ DOMAIN job = Procs /\ DOMAIN pc = Procs
      /\ inbox \in [Names -> Contents \cup {None}]
  BY DEF JobInv, ShapeInv
<1>2. pc'[p] \in Before
  BY DEF Tainted, Unfiled, Writing
<1>3. CASE Untouched(p) /\ ~Replaced
  <2>1. pc[p] \in Before /\ job[p].name \in Names /\ inbox[job[p].name] # None
    BY <1>1, <1>2, <1>3 DEF Untouched, Knows, HandHere, Busy, InHand
  <2>2. inbox'[job[p].name] = inbox[job[p].name]
    BY <1>3, <2>1, UntouchedInbox DEF Replaced
  <2> QED
    BY <1>3, <2>2 DEF Untouched, Tainted
<1>4. ~Quarantine(p)
  BY <1>1, <1>2 DEF Quarantine, Goto, Unfiled, Writing
<1>5. CASE \/ Start(p) \/ NextName(p) \/ Finish(p) \/ WriteMetadata(p) \/ Move(p)
           \/ RemoveSource(p) \/ WriteLog(p) \/ Crash(p)
  <2>1. Start(p) /\ UNCHANGED <<pc, job, library, inbox, given, processed>>
    BY <1>1, <1>2, <1>4, <1>5
    DEF Start, NextName, Finish, WriteMetadata, WriteFile, Move, RemoveSource, WriteLog,
        Crash, Goto, Unfiled, Writing
  <2> QED
    BY <1>3, <2>1 DEF Untouched
<1>6. CASE ReadPDF(p)
  <2>1. pc'[p] = "dup"
    BY <1>1, <1>4, <1>6 DEF ReadPDF, Goto
  <2>2. job[p].name \in Names /\ pc[p] = "read"
    BY <1>1, <1>6 DEF ReadPDF, Knows, Busy
  <2>3. Read(p)
    BY <2>1, <2>2, HandStep DEF HandedOn, Untouched, InHand, Unfiled, Writing
  <2> QED
    BY <2>1, <2>3 DEF Read, Tainted, Unfiled, Writing
<1>7. CASE IsDuplicate(p)
  <2>1. pc[p] = "dup" /\ pc'[p] = "extract" /\ job' = job /\ inbox' = inbox
    BY <1>1, <1>2, <1>7 DEF IsDuplicate, Goto, Unfiled, Writing
  <2> QED
    BY <2>1 DEF Tainted, Unfiled, Writing
<1>8. CASE Extract(p)
  <2>1. job[p].name \in Names
    BY <1>1, <1>8 DEF Extract, Knows, Busy, InHand, Unfiled
  <2>2. /\ Cur(p) \in Contents /\ pc[p] = "extract" /\ pc'[p] = "pick"
        /\ job'[p] = [job[p] EXCEPT !.text = Cur(p)] /\ inbox' = inbox
    BY <1>1, <1>4, <1>8, <2>1 DEF Extract, Cur, Set, Goto
  <2>3. /\ job'[p].name = job[p].name /\ job'[p].hash = job[p].hash
        /\ job'[p].text = Cur(p)
    BY <1>1, <2>2, TextSet
  <2> QED
    BY <2>2, <2>3 DEF Tainted, Unfiled, Writing, Cur
<1>9. CASE PickDir(p)
  <2>1. PICK d : job' = [job EXCEPT ![p] = [job[p] EXCEPT !.dir = d]]
    BY <1>9 DEF PickDir, Set
  <2>2. job'[p] = [job[p] EXCEPT !.dir = d]
    BY <1>1, <2>1
  <2>3. /\ job'[p].name = job[p].name /\ job'[p].hash = job[p].hash
        /\ job'[p].text = job[p].text
    BY <1>1, <2>2, DirSet
  <2>4. pc[p] = "pick" /\ pc'[p] = "mkdir" /\ inbox' = inbox
    BY <1>1, <1>9 DEF PickDir, Goto
  <2> QED
    BY <2>3, <2>4 DEF Tainted, Unfiled, Writing
<1>10. CASE MkDir(p)
  <2>1. pc[p] = "mkdir" /\ pc'[p] = "pdf" /\ job' = job /\ inbox' = inbox
    BY <1>1, <1>4, <1>10 DEF MkDir, Goto
  <2> QED
    BY <2>1 DEF Tainted, Unfiled, Writing
<1> DEFINE D == job[p].dir
<1>11. CASE CopyPDF(p)
  <2>1. /\ pc[p] = "pdf" /\ pc'[p] = "text" /\ job' = job /\ inbox' = inbox
        /\ library' = [library EXCEPT ![D] = [library[D] EXCEPT !["pdf"] = Cur(p)]]
    BY <1>1, <1>4, <1>11 DEF CopyPDF, WriteFile, Goto, Put
  <2>2. D \in DOMAIN library /\ library[D] \in Entry
    BY <1>1, <2>1 DEF Knows, Writing, ShapeInv
  <2>3. library'[D].pdf = Cur(p)
    BY <2>1, <2>2, FieldWritten
  <2> QED
    BY <2>1, <2>3 DEF Tainted, Unfiled, Writing, Cur
<1>12. CASE WriteTranscript(p)
  <2>1. /\ pc[p] = "text" /\ pc'[p] = "meta" /\ job' = job /\ inbox' = inbox
        /\ library' = [library EXCEPT ![D] = [library[D] EXCEPT !["text"] = job[p].text]]
    BY <1>1, <1>4, <1>12 DEF WriteTranscript, WriteFile, Goto, Put
  <2>2. D \in DOMAIN library /\ library[D] \in Entry
    BY <1>1, <2>1 DEF Knows, Writing, ShapeInv
  <2>3. library'[D].text = job[p].text /\ library'[D].pdf = library[D].pdf
    BY <2>1, <2>2, FieldWritten
  <2> QED
    BY <2>1, <2>3 DEF Tainted, Unfiled, Writing
<1>13. CASE \E n \in Names, c \in Contents : Drop(n, c) \/ Rewrite(n, c)
  <2>1. UNCHANGED <<pc, job, library>>
    BY <1>13 DEF Drop, Rewrite
  <2> QED
    BY <1>3, <1>13, <2>1 DEF Untouched
<1>14. CASE UNCHANGED vars
  BY <1>3, <1>14 DEF vars, Untouched
<1> QED
  <2>1. CASE \E q \in Procs : Start(q) \/ Step(q) \/ Crash(q)
    <3>1. Start(p) \/ Step(p) \/ Crash(p)
      BY <2>1 DEF OneProcess
    <3> QED
      BY <1>5, <1>6, <1>7, <1>8, <1>9, <1>10, <1>11, <1>12, <3>1 DEF Step
  <2> QED
    BY <1>13, <1>14, <2>1 DEF Next

LEMMA MixStep ==
    ASSUME OneProcess, ShapeInv, JobInv, HandHere, MixInv, [Next]_vars PROVE MixInv'
<1>1. /\ rewrites \in Nat /\ (UNCHANGED rewrites \/ rewrites' = rewrites + 1)
      /\ Replaced => rewrites' = rewrites + 1
  BY RewriteCounts DEF Replaced
<1>2. PICK m, r \in Nat : m = rewrites /\ r = rewrites'
  BY <1>1
<1>3. IsFiniteSet(Mixed) /\ Cardinality(Mixed) \in Nat /\ Cardinality(Mixed) <= m
      /\ m <= r /\ (Replaced => r = m + 1)
      /\ \A p \in Procs : Tainted(p) => Cardinality(Mixed) < m
  BY <1>1, <1>2, FS_CardinalityType DEF MixInv, Charged
<1>4. CASE Mixed' \subseteq Mixed
  <2>1. /\ IsFiniteSet(Mixed') /\ Cardinality(Mixed') <= Cardinality(Mixed)
        /\ Cardinality(Mixed') \in Nat
    BY <1>3, <1>4, Fewer
  <2>2. Cardinality(Mixed') <= r
    BY <1>3, <2>1
  <2>3. ASSUME NEW p \in Procs, Tainted(p)' PROVE Cardinality(Mixed') < r
    <3>1. Tainted(p) \/ Replaced
      BY <2>3, TaintStep
    <3>2. CASE Tainted(p)
      <4>1. Cardinality(Mixed) < m
        BY <1>3, <3>2
      <4> QED
        BY <1>3, <2>1, <4>1
    <3>3. CASE Replaced
      <4>1. r = m + 1
        BY <1>3, <3>3
      <4> QED
        BY <1>3, <2>1, <4>1
    <3> QED
      BY <3>1, <3>2, <3>3
  <2> QED
    BY <1>2, <2>1, <2>2, <2>3 DEF MixInv, Charged
<1>5. ASSUME NEW p \in Procs, NEW x, Tainted(p), pc'[p] = "move",
             Mixed' \subseteq Mixed \cup {x}
      PROVE  MixInv'
  <2>1. Cardinality(Mixed) < m
    BY <1>3, <1>5
  <2>2. IsFiniteSet(Mixed') /\ Cardinality(Mixed') <= Cardinality(Mixed) + 1
        /\ Cardinality(Mixed') \in Nat
    BY <1>3, <1>5, OneMore
  <2>3. Cardinality(Mixed') <= r
    BY <1>3, <2>1, <2>2
  <2>4. \A q \in Procs : ~Tainted(q)'
    BY <1>5 DEF OneProcess, Tainted, Unfiled, Writing
  <2> QED
    BY <1>2, <2>2, <2>3, <2>4 DEF MixInv, Charged
<1> QED
  BY <1>4, <1>5, MixedStep

-----------------------------------------------------------------------------
(* The theorems.                                                             *)

CountInv == RiskInv /\ Charged(Astray) /\ MixInv

LEMMA InitCounts == Init => CInv /\ CountInv
<1> SUFFICES ASSUME Init PROVE CInv /\ CountInv
  OBVIOUS
<1>1. HandHere /\ given \subseteq Contents
  BY DEF Init, HandHere, InHand, Unfiled, Writing
<1>2. /\ Lost = {} /\ Stray = {} /\ Owed = 0
      /\ Mixed = {} /\ rewrites = 0 /\ \A p \in Procs : ~Tainted(p)
  BY ConstantsAssumption
  DEF Init, Lost, AtRisk, Stray, Slots, Owed, Spoiled, InHand, Mixed, Tainted, Unfiled,
      Writing
<1>3. Astray = {}
  BY ConstantsAssumption DEF Init, Astray, Unread, Archived, InHand, Unfiled, Writing
<1> QED
  BY <1>1, <1>2, <1>3, InitIInv, FS_EmptySet DEF CInv, CountInv, RiskInv, Charged, MixInv

LEMMA CountStep ==
    ASSUME OneProcess, CInv, CountInv, [Next]_vars PROVE CInv' /\ CountInv'
<1> USE DEF CInv, IInv
<1>1. ShapeInv' /\ JobInv' /\ FiledOnce' /\ LogInv'
  BY ShapeStep, JobStep, FiledOnceStep, LogStep
<1>2. HandHere' /\ given' \subseteq Contents
  BY HandHereStep, GivenTyped
<1>3. RiskInv'
  BY RiskStep DEF CountInv
<1>4. Charged(Astray)'
  BY AstrayStep, ChargedStep DEF CountInv, Charged, Replaced
<1>5. MixInv'
  BY MixStep DEF CountInv
<1> QED
  BY <1>1, <1>2, <1>3, <1>4, <1>5 DEF CountInv

LEMMA CountsHold == ASSUME OneProcess PROVE Spec => [](CInv /\ CountInv)
<1>1. CInv /\ CountInv /\ [Next]_vars => CInv' /\ CountInv'
  BY CountStep
<1> QED
  BY <1>1, InitCounts, PTL DEF Spec

\* NothingLost: MoveToProcessed (local.go:121-144) loses no original that was
\* not replaced, although it copies and removes and reports no failure.
THEOREM OriginalsAreKept == ASSUME OneProcess PROVE Spec => []NothingLost
<1>1. CInv /\ CountInv => NothingLost
  <2> SUFFICES ASSUME CInv, CountInv PROVE NothingLost
    OBVIOUS
  <2>1. given \ (Archived \cup {inbox[n] : n \in Names}) \subseteq Lost \cup Pardoned
    BY DEF Lost, AtRisk, Waiting
  <2>2. PICK r \in Nat : r = rewrites
    BY DEF CInv, IInv, ShapeInv
  <2>3. /\ IsFiniteSet(Lost) /\ Cardinality(Lost) \in Nat /\ Cardinality(Stray) \in Nat
        /\ Owed \in {0, 1} /\ Cardinality(Stray) + Cardinality(Lost) + Owed <= r
    BY <2>2, FS_CardinalityType DEF CountInv, RiskInv, Owed
  <2>4. /\ IsFiniteSet(Pardoned) /\ Cardinality(Pardoned) \in Nat
        /\ Cardinality(Pardoned) <= Cardinality(Stray) + Owed
    BY PardonedCount DEF CountInv, RiskInv
  <2>5. /\ IsFiniteSet(Lost \cup Pardoned) /\ Cardinality(Lost \cup Pardoned) \in Nat
        /\ Cardinality(Lost \cup Pardoned) <= Cardinality(Lost) + Cardinality(Pardoned)
    BY <2>3, <2>4, Together
  <2>6. Cardinality(Lost \cup Pardoned) <= r
    BY <2>3, <2>4, <2>5
  <2>7. /\ Cardinality(given \ (Archived \cup {inbox[n] : n \in Names})) \in Nat
        /\ Cardinality(given \ (Archived \cup {inbox[n] : n \in Names}))
              <= Cardinality(Lost \cup Pardoned)
    BY <2>1, <2>5, Fewer
  <2> QED
    BY <2>2, <2>5, <2>6, <2>7 DEF NothingLost
<1> QED
  BY <1>1, CountsHold, PTL

\* ArchivedIsFiled: an original is archived after its entry is written
\* (pipeline.go:126-127), but for the files that were replaced.
THEOREM ArchivedAreFiled == ASSUME OneProcess PROVE Spec => []ArchivedIsFiled
<1>1. CInv /\ CountInv => ArchivedIsFiled
  <2> SUFFICES ASSUME CInv, CountInv PROVE ArchivedIsFiled
    OBVIOUS
  <2>1. {c \in Archived : Filed(c) = {}} \subseteq Astray
    BY DEF Astray, Archived
  <2>2. rewrites \in Nat
    BY DEF CInv, IInv, ShapeInv
  <2> QED
    BY <2>1, <2>2, Fewer DEF CountInv, Charged, ArchivedIsFiled
<1> QED
  BY <1>1, CountsHold, PTL

\* EntryIntact: the files of a complete entry are all of the document whose
\* hash its metadata.json carries, but for one entry per replaced file.
THEOREM EntriesAreIntact == ASSUME OneProcess PROVE Spec => []EntryIntact
<1>1. CInv /\ CountInv => EntryIntact
  BY DEF CountInv, MixInv, Charged, Mixed, EntryIntact
<1> QED
  BY <1>1, CountsHold, PTL

=============================================================================
