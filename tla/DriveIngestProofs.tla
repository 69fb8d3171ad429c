------------------------- MODULE DriveIngestProofs -------------------------
(* Proofs about DriveIngest: its inductive invariant, the safety properties  *)
(* that follow from it, what the module counts, and that every behaviour is  *)
(* one of ScanLoop, for every value of the constants.                        *)
EXTENDS DriveIngestRefinement, FiniteSetTheorems, TLAPS

-----------------------------------------------------------------------------
(* Type correctness.                                                         *)

\* Updates of one field keep the records of the inbox, of the library and of
\* daemon_status well typed.
LEMMA RecordsTyped ==
    /\ \A r \in InboxFile : /\ [r EXCEPT !.stable = TRUE] \in InboxFile
                            /\ [r EXCEPT !.place = "gone"] \in InboxFile
                            /\ [r EXCEPT !.place = "processed"] \in InboxFile
    /\ \A e \in EntryDir : /\ [e EXCEPT !.folder = TRUE] \in EntryDir
                           /\ [e EXCEPT !.transcript = TRUE] \in EntryDir
    /\ \A e \in EntryDir, c \in Contents :
                           /\ [e EXCEPT !.pdf = c] \in EntryDir
                           /\ [e EXCEPT !.metadata = c] \in EntryDir
    /\ \A s \in StatusRow : /\ [s EXCEPT !.lastError = TRUE] \in StatusRow
                            /\ [s EXCEPT !.lastError = FALSE] \in StatusRow
<1>1. ASSUME NEW r \in InboxFile
      PROVE  /\ [r EXCEPT !.stable = TRUE] \in InboxFile
             /\ [r EXCEPT !.place = "gone"] \in InboxFile
             /\ [r EXCEPT !.place = "processed"] \in InboxFile
  BY DEF InboxFile
<1>2. ASSUME NEW e \in EntryDir
      PROVE  /\ [e EXCEPT !.folder = TRUE] \in EntryDir
             /\ [e EXCEPT !.transcript = TRUE] \in EntryDir
  BY DEF EntryDir
<1>3. ASSUME NEW e \in EntryDir, NEW c \in Contents
      PROVE  /\ [e EXCEPT !.pdf = c] \in EntryDir
             /\ [e EXCEPT !.metadata = c] \in EntryDir
  BY DEF EntryDir
<1>4. ASSUME NEW s \in StatusRow
      PROVE  /\ [s EXCEPT !.lastError = TRUE] \in StatusRow
             /\ [s EXCEPT !.lastError = FALSE] \in StatusRow
  BY DEF StatusRow
<1> QED
  BY <1>1, <1>2, <1>3, <1>4

\* Whatever the outcome of a file, the counters remain counters.
LEMMA CountedTyped == ASSUME status \in StatusRow PROVE Counted \in StatusRow
<1>1. CASE outcome = "processed"
  BY <1>1 DEF Counted, StatusRow
<1>2. CASE outcome = "skipped"
  BY <1>2 DEF Counted, StatusRow
<1>3. CASE outcome = "quarantined"
  BY <1>3 DEF Counted, StatusRow
<1>4. CASE outcome \notin {"processed", "skipped", "quarantined"}
  BY <1>4 DEF Counted, StatusRow
<1> QED
  BY <1>1, <1>2, <1>3, <1>4

\* A process that dies leaves well-typed memory behind.
LEMMA LoseMemoryTyped ==
    ASSUME TypeOK, LoseMemory, UNCHANGED <<drive, stores, faults, scans>>,
           crashes' \in Nat
    PROVE  TypeOK'
<1>1. pending' = {} /\ pending' \subseteq Files
  BY DEF LoseMemory
<1>2. scanFiles' \in [Names -> CachedFile \cup {None}]
  BY DEF LoseMemory
<1>3. requests' \in 0..ScanChanCap
  BY DEF LoseMemory, ScanChanCap
<1>4. pc' \in InFile \cup {"idle", "list", "next", "down"}
  BY DEF LoseMemory
<1>5. /\ current' \in Names \cup {None} /\ hash' \in Contents \cup {None}
      /\ dir' \in Dirs \cup {None}
      /\ outcome' \in Outcomes /\ expired' \in BOOLEAN /\ shutting' \in BOOLEAN
  BY DEF LoseMemory, Outcomes
<1> QED
  BY <1>1, <1>2, <1>3, <1>4, <1>5 DEF TypeOK, stores

\* The file the worker holds is an uploaded file.
LEMMA HeldIsFile ==
    ASSUME TypeOK, ScanInv, pc \in InFile
    PROVE  /\ Held \in Files /\ current \in Names
           /\ scanFiles[current] \in CachedFile
           /\ drive[Held].place # "absent" /\ drive[Held].content \in Contents
<1>1. current \in Names /\ scanFiles[current] \in CachedFile
  BY DEF TypeOK, ScanInv
<1>2. Held \in Files
  BY <1>1 DEF Held, CachedFile
<1> QED
  BY <1>1, <1>2 DEF ScanInv, Held

LEMMA TypeStep == IInv /\ [Next]_vars => TypeOK'
<1> SUFFICES ASSUME IInv, [Next]_vars PROVE TypeOK'
  OBVIOUS
<1> USE BoundsAssumption DEF IInv, TypeOK, stores, job, bounds, fileState,
        InFile, Filing, Outcomes, ScanChanCap, Goto
<1>1. ASSUME NEW f \in Files, NEW c \in Contents, Upload(f, c) PROVE TypeOK'
  BY <1>1 DEF Upload, InboxFile
<1>2. ASSUME NEW f \in Files, Settle(f) PROVE TypeOK'
  <2>1. [drive[f] EXCEPT !.stable = TRUE] \in InboxFile
    BY RecordsTyped
  <2>2. drive' \in [Files -> InboxFile]
    BY <1>2, <2>1 DEF Settle
  <2> QED
    BY <1>2, <2>2 DEF Settle
<1>3. ASSUME NEW f \in Files, NEW c \in Contents, Edit(f, c) PROVE TypeOK'
  BY <1>3 DEF Edit, InboxFile
<1>4. ASSUME NEW f \in Files, Delete(f) PROVE TypeOK'
  <2>1. [drive[f] EXCEPT !.place = "gone"] \in InboxFile
    BY RecordsTyped
  <2>2. drive' \in [Files -> InboxFile]
    BY <1>4, <2>1 DEF Delete
  <2> QED
    BY <1>4, <2>2 DEF Delete
<1>5. ASSUME NEW f \in Files, StartFile(f) PROVE TypeOK'
  BY <1>5 DEF StartFile, Names
<1>6. CASE Enqueue
  BY <1>6 DEF Enqueue
<1>7. CASE Signal
  BY <1>7 DEF Signal
<1>8. CASE Expire
  BY <1>8 DEF Expire
<1>9. CASE Crash
  BY <1>9, LoseMemoryTyped DEF Crash
<1>10. CASE Restart
  BY <1>10 DEF Restart
<1>11. CASE StopRun
  BY <1>11, LoseMemoryTyped DEF StopRun
<1>12. CASE StartScan
  BY <1>12 DEF StartScan
<1>13. CASE ListInbox
  <2>1. PICK last \in [Names -> Files \cup {None}] :
         scanFiles' = [m \in Names |-> IF last[m] = None THEN None
                       ELSE [id |-> last[m], rev |-> drive[last[m]].rev]]
    BY <1>13 DEF ListInbox
  <2>2. \A g \in Files : [id |-> g, rev |-> drive[g].rev] \in CachedFile
    BY DEF CachedFile, InboxFile
  <2>3. scanFiles' \in [Names -> CachedFile \cup {None}]
    BY <2>1, <2>2
  <2>4. pending' \subseteq Files
    BY <1>13 DEF ListInbox, Listed
  <2> QED
    BY <1>13, <2>3, <2>4 DEF ListInbox
<1>14. CASE ListFails
  <2>1. status' \in StatusRow
    BY <1>14, RecordsTyped DEF ListFails
  <2> QED
    BY <1>14, <2>1 DEF ListFails
<1>15. CASE AbandonScan
  BY <1>15 DEF AbandonScan
<1>16. CASE RecordPoll
  <2>1. status' \in StatusRow
    BY <1>16, RecordsTyped DEF RecordPoll
  <2> QED
    BY <1>16, <2>1 DEF RecordPoll
<1>17. CASE Recheck
  BY <1>17 DEF Recheck, Succeeds, Breaks, Fails, StageFails
<1>18. CASE Download
  BY <1>18, HeldIsFile DEF Download, Succeeds, Breaks, Fails, StageFails
<1>19. CASE IsDuplicate
  BY <1>19 DEF IsDuplicate, Succeeds, Breaks, Fails, StageFails
<1>20. CASE RunOCR
  BY <1>20 DEF RunOCR, Succeeds, Breaks, Fails, StageFails
<1>21. CASE RunClassify
  BY <1>21 DEF RunClassify, Succeeds, Breaks, Fails, StageFails
<1>22. CASE RunValidate
  BY <1>22 DEF RunValidate, Succeeds, Breaks, Fails, StageFails
<1>23. CASE CreateFolder
  <2>1. \A d \in Dirs : [library[d] EXCEPT !.folder = TRUE] \in EntryDir
    BY RecordsTyped
  <2>2. library' \in [Dirs -> EntryDir]
    BY <1>23, <2>1 DEF CreateFolder
  <2> QED
    BY <1>23, <2>2 DEF CreateFolder, Succeeds, Breaks, Fails, StageFails
<1>24. CASE UploadPDF
  <2>1. hash \in Contents /\ dir \in Dirs
    BY <1>24 DEF UploadPDF, UploadPart, HashInv, EntryInv, Hashed
  <2>2. [library[dir] EXCEPT !.pdf = hash] \in EntryDir
    BY <2>1, RecordsTyped
  <2>3. library' \in [Dirs -> EntryDir]
    BY <1>24, <2>1, <2>2 DEF UploadPDF, UploadPart
  <2> QED
    BY <1>24, <2>3 DEF UploadPDF, UploadPart, Succeeds, Breaks, Fails, StageFails
<1>25. CASE UploadTranscript
  <2>1. hash \in Contents /\ dir \in Dirs
    BY <1>25 DEF UploadTranscript, UploadPart, HashInv, EntryInv, Hashed
  <2>2. [library[dir] EXCEPT !.transcript = TRUE] \in EntryDir
    BY <2>1, RecordsTyped
  <2>3. library' \in [Dirs -> EntryDir]
    BY <1>25, <2>1, <2>2 DEF UploadTranscript, UploadPart
  <2> QED
    BY <1>25, <2>3 DEF UploadTranscript, UploadPart, Succeeds, Breaks, Fails, StageFails
<1>26. CASE UploadMetadata
  <2>1. hash \in Contents /\ dir \in Dirs
    BY <1>26 DEF UploadMetadata, UploadPart, HashInv, EntryInv, Hashed
  <2>2. [library[dir] EXCEPT !.metadata = hash] \in EntryDir
    BY <2>1, RecordsTyped
  <2>3. library' \in [Dirs -> EntryDir]
    BY <1>26, <2>1, <2>2 DEF UploadMetadata, UploadPart
  <2> QED
    BY <1>26, <2>3 DEF UploadMetadata, UploadPart, Succeeds, Breaks, Fails, StageFails
<1>27. CASE PutDocument
  BY <1>27 DEF PutDocument, Succeeds, Breaks, Fails, StageFails, HashInv, EntryInv, Hashed
<1>28. CASE MoveToProcessed
  <2>1. Held \in Files
    BY <1>28, HeldIsFile DEF MoveToProcessed
  <2>2. [drive[Held] EXCEPT !.place = "processed"] \in InboxFile
    BY <2>1, RecordsTyped
  <2>3. drive' \in [Files -> InboxFile]
    BY <1>28, <2>1, <2>2 DEF MoveToProcessed
  <2> QED
    BY <1>28, <2>3 DEF MoveToProcessed, Succeeds, Breaks, Fails, StageFails
<1>29. CASE Quarantine
  BY <1>29 DEF Quarantine, Quarantined, Succeeds, Breaks, Fails, StageFails
<1>30. CASE Report
  <2>1. status' \in StatusRow
    BY <1>30, CountedTyped DEF Report
  <2> QED
    BY <1>30, <2>1 DEF Report
<1>31. CASE UNCHANGED vars
  BY <1>31 DEF vars
<1> QED
  BY <1>1, <1>2, <1>3, <1>4, <1>5, <1>6, <1>7, <1>8, <1>9, <1>10, <1>11,
     <1>12, <1>13, <1>14, <1>15, <1>16, <1>17, <1>18, <1>19, <1>20, <1>21,
     <1>22, <1>23, <1>24, <1>25, <1>26, <1>27, <1>28, <1>29, <1>30, <1>31
     DEF Next, Environment, RunLoop, ProcessOne

\* The scan cache only names uploaded files, and covers the pending positions.
LEMMA ScanStep == IInv /\ [Next]_vars => ScanInv'
<1> SUFFICES ASSUME IInv, [Next]_vars PROVE ScanInv'
  OBVIOUS
<1> USE DEF IInv, TypeOK, ScanInv, InboxFile, CachedFile, stores, job, bounds,
        fileState, InFile, Filing, Goto
<1>1. ASSUME NEW f \in Files, NEW c \in Contents, Upload(f, c) PROVE ScanInv'
  BY <1>1 DEF Upload
<1>2. ASSUME NEW f \in Files, Settle(f) PROVE ScanInv'
  BY <1>2 DEF Settle
<1>3. ASSUME NEW f \in Files, NEW c \in Contents, Edit(f, c) PROVE ScanInv'
  BY <1>3 DEF Edit
<1>4. ASSUME NEW f \in Files, Delete(f) PROVE ScanInv'
  BY <1>4 DEF Delete
<1>5. ASSUME NEW f \in Files, StartFile(f) PROVE ScanInv'
  BY <1>5 DEF StartFile, Names
<1>6. CASE Enqueue
  BY <1>6 DEF Enqueue
<1>7. CASE Signal
  BY <1>7 DEF Signal
<1>8. CASE Expire
  BY <1>8 DEF Expire
<1>9. CASE Crash
  BY <1>9 DEF Crash, LoseMemory
<1>10. CASE Restart
  BY <1>10 DEF Restart
<1>11. CASE StopRun
  BY <1>11 DEF StopRun, LoseMemory
<1>12. CASE StartScan
  BY <1>12 DEF StartScan
<1>13. CASE ListInbox
  <2>1. PICK last \in [Names -> Files \cup {None}] :
       /\ \A m \in Names : IF Listed(m) = {} THEN last[m] = None
                                            ELSE last[m] \in Listed(m)
       /\ scanFiles' = [m \in Names |-> IF last[m] = None THEN None
                        ELSE [id |-> last[m], rev |-> drive[last[m]].rev]]
    BY <1>13 DEF ListInbox
  <2>2. UNCHANGED drive /\ pc' = "next" /\ pending' = UNION {Listed(m) : m \in Names}
    BY <1>13 DEF ListInbox
  <2>3. ASSUME NEW m \in Names, scanFiles'[m] # None
        PROVE  drive[scanFiles'[m].id].place # "absent"
    <3>1. last[m] # None /\ scanFiles'[m].id = last[m]
      BY <2>1, <2>3
    <3> QED
      BY <3>1, <2>1 DEF Listed
  <2>4. ASSUME NEW f \in pending' PROVE scanFiles'[NameOf[f]] # None
    <3>1. PICK m \in Names : f \in Listed(m)
      BY <2>2, <2>4
    <3>2. NameOf[f] = m /\ last[m] \in Files
      BY <3>1, <2>1 DEF Listed
    <3>3. [id |-> last[m], rev |-> drive[last[m]].rev] \in CachedFile
      BY <3>2
    <3> QED
      BY <3>2, <3>3, <2>1, ValuesAssumption
  <2> QED
    BY <2>2, <2>3, <2>4
<1>14. CASE ListFails
  BY <1>14 DEF ListFails
<1>15. CASE AbandonScan
  BY <1>15 DEF AbandonScan
<1>16. CASE RecordPoll
  BY <1>16 DEF RecordPoll
<1>17. CASE Recheck
  BY <1>17 DEF Recheck
<1>18. CASE Download
  BY <1>18 DEF Download
<1>19. CASE IsDuplicate
  BY <1>19 DEF IsDuplicate
<1>20. CASE RunOCR
  BY <1>20 DEF RunOCR
<1>21. CASE RunClassify
  BY <1>21 DEF RunClassify
<1>22. CASE RunValidate
  BY <1>22 DEF RunValidate
<1>23. CASE CreateFolder
  BY <1>23 DEF CreateFolder
<1>24. CASE UploadPDF
  BY <1>24 DEF UploadPDF, UploadPart
<1>25. CASE UploadTranscript
  BY <1>25 DEF UploadTranscript, UploadPart
<1>26. CASE UploadMetadata
  BY <1>26 DEF UploadMetadata, UploadPart
<1>27. CASE PutDocument
  BY <1>27 DEF PutDocument
<1>28. CASE MoveToProcessed
  <2>1. Held \in Files /\ drive[Held].place # "absent" /\ drive[Held].content \in Contents
    BY <1>28, HeldIsFile DEF MoveToProcessed
  <2>2. \A f \in Files : /\ drive[f].place # "absent" <=> drive'[f].place # "absent"
                        /\ drive'[f].content = drive[f].content
    <3>1. drive' = drive \/ drive' = [drive EXCEPT ![Held].place = "processed"]
      BY <1>28 DEF MoveToProcessed
    <3>2. drive \in [Files -> InboxFile]
      OBVIOUS
    <3> HIDE DEF TypeOK
    <3> QED
      BY <2>1, <3>1, <3>2
  <2>3. UNCHANGED <<pending, scanFiles, current>>
    BY <1>28 DEF MoveToProcessed
  <2>4. pc \in InFile
    BY <1>28 DEF MoveToProcessed
  <2>5. \A f \in Files : drive'[f].place # "absent" => drive'[f].content \in Contents
    BY <2>2
  <2>6. \A n \in Names : scanFiles[n] # None => scanFiles[n].id \in Files
    OBVIOUS
  <2>7. \A n \in Names : scanFiles'[n] # None
                        => drive'[scanFiles'[n].id].place # "absent"
    BY <2>2, <2>3, <2>6
  <2> QED
    BY <2>3, <2>4, <2>5, <2>7
<1>29. CASE Quarantine
  BY <1>29 DEF Quarantine
<1>30. CASE Report
  BY <1>30 DEF Report
<1>31. CASE UNCHANGED vars
  BY <1>31 DEF vars
<1> QED
  BY <1>1, <1>2, <1>3, <1>4, <1>5, <1>6, <1>7, <1>8, <1>9, <1>10, <1>11,
     <1>12, <1>13, <1>14, <1>15, <1>16, <1>17, <1>18, <1>19, <1>20, <1>21,
     <1>22, <1>23, <1>24, <1>25, <1>26, <1>27, <1>28, <1>29, <1>30, <1>31
     DEF Next, Environment, RunLoop, ProcessOne

\* The hash in hand stays that of the held file until the file is edited.
LEMMA HashStep == IInv /\ [Next]_vars => HashInv'
<1> SUFFICES ASSUME IInv, [Next]_vars PROVE HashInv'
  OBVIOUS
<1> USE DEF IInv, TypeOK, HashInv, Hashed, InboxFile, Held, stores, job, bounds,
        fileState, InFile, Filing, Goto
<1>1. ASSUME NEW f \in Files, NEW c \in Contents, Upload(f, c) PROVE HashInv'
  BY <1>1, HeldIsFile DEF Upload
<1>2. ASSUME NEW f \in Files, Settle(f) PROVE HashInv'
  BY <1>2, HeldIsFile DEF Settle
<1>3. ASSUME NEW f \in Files, NEW c \in Contents, Edit(f, c) PROVE HashInv'
  BY <1>3, HeldIsFile DEF Edit
<1>4. ASSUME NEW f \in Files, Delete(f) PROVE HashInv'
  BY <1>4, HeldIsFile DEF Delete
<1>5. ASSUME NEW f \in Files, StartFile(f) PROVE HashInv'
  BY <1>5 DEF StartFile
<1>6. CASE Enqueue
  BY <1>6 DEF Enqueue
<1>7. CASE Signal
  BY <1>7 DEF Signal
<1>8. CASE Expire
  BY <1>8 DEF Expire
<1>9. CASE Crash
  BY <1>9 DEF Crash, LoseMemory
<1>10. CASE Restart
  BY <1>10 DEF Restart
<1>11. CASE StopRun
  BY <1>11 DEF StopRun, LoseMemory
<1>12. CASE StartScan
  BY <1>12 DEF StartScan
<1>13. CASE ListInbox
  BY <1>13 DEF ListInbox
<1>14. CASE ListFails
  BY <1>14 DEF ListFails
<1>15. CASE AbandonScan
  BY <1>15 DEF AbandonScan
<1>16. CASE RecordPoll
  BY <1>16 DEF RecordPoll
<1>17. CASE Recheck
  BY <1>17 DEF Recheck, Succeeds, Breaks, Fails, StageFails
<1>18. CASE Download
  BY <1>18, HeldIsFile DEF Download, StageFails
<1>19. CASE IsDuplicate
  BY <1>19 DEF IsDuplicate, Succeeds, Breaks, Fails, StageFails
<1>20. CASE RunOCR
  BY <1>20 DEF RunOCR, Succeeds, Breaks, Fails, StageFails
<1>21. CASE RunClassify
  BY <1>21 DEF RunClassify, Succeeds, Breaks, Fails, StageFails
<1>22. CASE RunValidate
  BY <1>22 DEF RunValidate, Succeeds, Breaks, Fails, StageFails
<1>23. CASE CreateFolder
  BY <1>23 DEF CreateFolder, Succeeds, Breaks, Fails, StageFails
<1>24. CASE UploadPDF
  BY <1>24 DEF UploadPDF, UploadPart
<1>25. CASE UploadTranscript
  BY <1>25 DEF UploadTranscript, UploadPart
<1>26. CASE UploadMetadata
  BY <1>26 DEF UploadMetadata, UploadPart
<1>27. CASE PutDocument
  BY <1>27 DEF PutDocument, Succeeds, Breaks, Fails, StageFails
<1>28. CASE MoveToProcessed
  BY <1>28 DEF MoveToProcessed
<1>29. CASE Quarantine
  BY <1>29 DEF Quarantine
<1>30. CASE Report
  BY <1>30 DEF Report
<1>31. CASE UNCHANGED vars
  BY <1>31 DEF vars
<1> QED
  BY <1>1, <1>2, <1>3, <1>4, <1>5, <1>6, <1>7, <1>8, <1>9, <1>10, <1>11,
     <1>12, <1>13, <1>14, <1>15, <1>16, <1>17, <1>18, <1>19, <1>20, <1>21,
     <1>22, <1>23, <1>24, <1>25, <1>26, <1>27, <1>28, <1>29, <1>30, <1>31
     DEF Next, Environment, RunLoop, ProcessOne

\* The entry being written belongs to no row and is filled in order.
LEMMA EntryStep == IInv /\ [Next]_vars => EntryInv'
<1> SUFFICES ASSUME IInv, [Next]_vars PROVE EntryInv'
  OBVIOUS
<1> USE DEF IInv, TypeOK, EntryInv, EntryDir, Owned, stores, job, bounds,
        fileState, InFile, Filing, Goto
<1>1. ASSUME NEW f \in Files, NEW c \in Contents, Upload(f, c) PROVE EntryInv'
  BY <1>1 DEF Upload
<1>2. ASSUME NEW f \in Files, Settle(f) PROVE EntryInv'
  BY <1>2 DEF Settle
<1>3. ASSUME NEW f \in Files, NEW c \in Contents, Edit(f, c) PROVE EntryInv'
  BY <1>3 DEF Edit
<1>4. ASSUME NEW f \in Files, Delete(f) PROVE EntryInv'
  BY <1>4 DEF Delete
<1>5. ASSUME NEW f \in Files, StartFile(f) PROVE EntryInv'
  BY <1>5 DEF StartFile
<1>6. CASE Enqueue
  BY <1>6 DEF Enqueue
<1>7. CASE Signal
  BY <1>7 DEF Signal
<1>8. CASE Expire
  BY <1>8 DEF Expire
<1>9. CASE Crash
  BY <1>9 DEF Crash, LoseMemory
<1>10. CASE Restart
  BY <1>10 DEF Restart
<1>11. CASE StopRun
  BY <1>11 DEF StopRun, LoseMemory
<1>12. CASE StartScan
  BY <1>12 DEF StartScan
<1>13. CASE ListInbox
  BY <1>13 DEF ListInbox
<1>14. CASE ListFails
  BY <1>14 DEF ListFails
<1>15. CASE AbandonScan
  BY <1>15 DEF AbandonScan
<1>16. CASE RecordPoll
  BY <1>16 DEF RecordPoll
<1>17. CASE Recheck
  BY <1>17 DEF Recheck, Succeeds, Breaks, Fails, StageFails
<1>18. CASE Download
  BY <1>18 DEF Download, Succeeds, Breaks, Fails, StageFails
<1>19. CASE IsDuplicate
  BY <1>19 DEF IsDuplicate, Succeeds, Breaks, Fails, StageFails
<1>20. CASE RunOCR
  BY <1>20 DEF RunOCR, Succeeds, Breaks, Fails, StageFails
<1>21. CASE RunClassify
  BY <1>21 DEF RunClassify, Succeeds, Breaks, Fails, StageFails
<1>22. CASE RunValidate
  BY <1>22 DEF RunValidate, Succeeds, Breaks, Fails, StageFails
<1>23. CASE CreateFolder
  <2>1. ASSUME NEW d \in Dirs, UniqueDirName(d) PROVE d \notin Owned
    <3> SUFFICES ASSUME NEW c \in Contents, documents[c] = d PROVE FALSE
      OBVIOUS
    <3>1. Complete(d, c)
      BY ValuesAssumption DEF IndexSound
    <3>2. library[d].folder
      BY <3>1 DEF Complete
    <3> QED
      BY <2>1, <3>2 DEF UniqueDirName
  <2>2. ASSUME NEW d \in Dirs, UniqueDirName(d), dir' = d, pc' = "pdf",
               library' = [library EXCEPT ![d].folder = TRUE]
        PROVE  EntryInv'
    BY <1>23, <2>1, <2>2 DEF CreateFolder
  <2>3. ASSUME pc' = "quarantine" PROVE EntryInv'
    BY <2>3
  <2> QED
    BY <1>23, <2>2, <2>3 DEF CreateFolder, StageFails
<1>24. CASE UploadPDF
  BY <1>24 DEF UploadPDF, UploadPart, Succeeds, Breaks, Fails, StageFails
<1>25. CASE UploadTranscript
  BY <1>25 DEF UploadTranscript, UploadPart, Succeeds, Breaks, Fails, StageFails
<1>26. CASE UploadMetadata
  BY <1>26 DEF UploadMetadata, UploadPart, Succeeds, Breaks, Fails, StageFails
<1>27. CASE PutDocument
  BY <1>27 DEF PutDocument, HashInv, Hashed, Succeeds, Breaks, Fails, StageFails
<1>28. CASE MoveToProcessed
  BY <1>28 DEF MoveToProcessed, Succeeds, Breaks, Fails, StageFails
<1>29. CASE Quarantine
  BY <1>29 DEF Quarantine, Succeeds, Breaks, Fails, StageFails
<1>30. CASE Report
  BY <1>30 DEF Report, Succeeds, Breaks, Fails, StageFails
<1>31. CASE UNCHANGED vars
  BY <1>31 DEF vars
<1> QED
  BY <1>1, <1>2, <1>3, <1>4, <1>5, <1>6, <1>7, <1>8, <1>9, <1>10, <1>11,
     <1>12, <1>13, <1>14, <1>15, <1>16, <1>17, <1>18, <1>19, <1>20, <1>21,
     <1>22, <1>23, <1>24, <1>25, <1>26, <1>27, <1>28, <1>29, <1>30, <1>31
     DEF Next, Environment, RunLoop, ProcessOne

\* Only four steps write to the library and only one to the index.
LEMMA LibraryFrame ==
    [Next]_vars => \/ CreateFolder \/ UploadPDF \/ UploadTranscript
                   \/ UploadMetadata \/ PutDocument
                   \/ UNCHANGED <<library, documents>>
<1> SUFFICES ASSUME [Next]_vars
             PROVE  \/ CreateFolder \/ UploadPDF \/ UploadTranscript
                    \/ UploadMetadata \/ PutDocument
                    \/ UNCHANGED <<library, documents>>
  OBVIOUS
<1> USE DEF stores
<1>1. CASE Environment
  BY <1>1 DEF Environment, Upload, Settle, Edit, Delete
<1>2. CASE Enqueue \/ Signal \/ Expire \/ Crash \/ Restart
  BY <1>2 DEF Enqueue, Signal, Expire, Crash, Restart
<1>3. CASE RunLoop
  BY <1>3 DEF RunLoop, StopRun, StartScan, ListInbox, ListFails, AbandonScan,
              RecordPoll, StartFile
<1>4. CASE ProcessOne
  BY <1>4 DEF ProcessOne, Recheck, Download, IsDuplicate, RunOCR, RunClassify,
              RunValidate, MoveToProcessed, Quarantine, Report
<1>5. CASE UNCHANGED vars
  BY <1>5 DEF vars
<1> QED
  BY <1>1, <1>2, <1>3, <1>4, <1>5 DEF Next

\* An upload goes to the entry being written, which no row names.
LEMMA IndexStep == IInv /\ [Next]_vars => IndexSound'
<1> SUFFICES ASSUME IInv, [Next]_vars, NEW c \in Contents, documents'[c] # None
             PROVE  Complete(documents[c], c)'
  BY DEF IndexSound
<1> USE DEF IInv, TypeOK
<1>1. CASE CreateFolder
  <2>1. PICK d \in Dirs : \/ library' = library
                          \/ /\ UniqueDirName(d)
                             /\ library' = [library EXCEPT ![d].folder = TRUE]
    BY <1>1 DEF CreateFolder
  <2>2. documents' = documents /\ Complete(documents[c], c)
    BY <1>1 DEF CreateFolder, IndexSound
  <2>3. library'[documents[c]] = library[documents[c]]
    <3>1. library[documents[c]].folder
      BY <2>2 DEF Complete
    <3> QED
      BY <2>1, <2>2, <3>1 DEF UniqueDirName
  <2> QED
    BY <2>2, <2>3 DEF Complete
<1>2. ASSUME UploadPDF \/ UploadTranscript \/ UploadMetadata
      PROVE  Complete(documents[c], c)'
  <2>1. documents' = documents /\ Complete(documents[c], c)
    BY <1>2 DEF UploadPDF, UploadTranscript, UploadMetadata, UploadPart, IndexSound
  <2>2. documents[c] # dir
    BY <1>2 DEF UploadPDF, UploadTranscript, UploadMetadata, UploadPart, EntryInv,
                Filing, Owned
  <2>3. library'[documents[c]] = library[documents[c]]
    BY <1>2, <2>1, <2>2 DEF UploadPDF, UploadTranscript, UploadMetadata, UploadPart
  <2> QED
    BY <2>1, <2>3 DEF Complete
<1>3. CASE PutDocument
  <2>1. hash \in Contents /\ library' = library
    BY <1>3 DEF PutDocument, HashInv, Hashed, Filing
  <2>2. CASE documents'[c] = documents[c]
    BY <2>1, <2>2 DEF IndexSound, Complete
  <2>3. CASE documents'[c] # documents[c]
    <3>1. c = hash /\ documents'[c] = dir
      BY <1>3, <2>1, <2>3 DEF PutDocument
    <3>2. dir \in Dirs /\ library[dir] \in EntryDir
      BY <1>3 DEF PutDocument, EntryInv, Filing
    <3>3. library[dir].folder /\ library[dir].pdf = hash
          /\ library[dir].transcript /\ library[dir].metadata = hash
      BY <1>3 DEF PutDocument, EntryInv, Filing
    <3> QED
      BY <2>1, <3>1, <3>2, <3>3 DEF Complete, EntryDir
  <2> QED
    BY <2>2, <2>3
<1>4. CASE UNCHANGED <<library, documents>>
  BY <1>4 DEF IndexSound, Complete
<1> QED
  BY <1>1, <1>2, <1>3, <1>4, LibraryFrame

\* The row recorded names a directory no other row names.
LEMMA RowsStep == IInv /\ [Next]_vars => RowsOwnEntries'
<1> SUFFICES ASSUME IInv, [Next]_vars PROVE RowsOwnEntries'
  OBVIOUS
<1> USE DEF IInv, TypeOK
<1>1. CASE documents' = documents
  BY <1>1 DEF RowsOwnEntries
<1>2. CASE PutDocument
  <2>1. hash \in Contents /\ dir \in Dirs /\ dir \notin Owned
    BY <1>2 DEF PutDocument, HashInv, Hashed, EntryInv, Filing
  <2>2. \A c \in Contents \ {hash} : documents'[c] = documents[c]
    BY <1>2, <2>1 DEF PutDocument
  <2>3. documents'[hash] = documents[hash] \/ documents'[hash] = dir
    BY <1>2, <2>1 DEF PutDocument
  <2> QED
    BY <2>1, <2>2, <2>3, ValuesAssumption DEF RowsOwnEntries, Owned
<1>3. CreateFolder \/ UploadPDF \/ UploadTranscript \/ UploadMetadata
      => documents' = documents
  BY DEF CreateFolder, UploadPDF, UploadTranscript, UploadMetadata, UploadPart
<1> QED
  BY <1>1, <1>2, <1>3, LibraryFrame

\* A row, once recorded, and the entry it names are never written again.
LEMMA RowsKept ==
    ASSUME IInv, [Next]_vars, NEW c \in Contents, documents[c] # None
    PROVE  /\ documents'[c] = documents[c]
           /\ library'[documents[c]] = library[documents[c]]
<1> USE DEF IInv, TypeOK
<1>1. documents[c] \in Dirs /\ Complete(documents[c], c)
  BY DEF IndexSound
<1>2. CASE PutDocument
  BY <1>1, <1>2 DEF PutDocument, HashInv, Hashed, Filing
<1>3. CASE CreateFolder
  <2>1. library[documents[c]].folder
    BY <1>1 DEF Complete
  <2> QED
    BY <1>1, <1>3, <2>1 DEF CreateFolder, UniqueDirName
<1>4. CASE UploadPDF \/ UploadTranscript \/ UploadMetadata
  <2>1. dir \in Dirs /\ documents[c] # dir
    BY <1>4 DEF UploadPDF, UploadTranscript, UploadMetadata, UploadPart, EntryInv,
                Filing, Owned
  <2> QED
    BY <1>1, <1>4, <2>1 DEF UploadPDF, UploadTranscript, UploadMetadata, UploadPart
<1> QED
  BY <1>2, <1>3, <1>4, LibraryFrame

\* Only a move takes a file to the processed folder, after its row exists.
LEMMA ProcessedStep == IInv /\ [Next]_vars => ProcessedWasFiled'
<1> SUFFICES ASSUME IInv, [Next]_vars, NEW f \in Files,
                    drive'[f].place = "processed", drive'[f].rev = 0
             PROVE  documents'[drive'[f].content] # None
  BY DEF ProcessedWasFiled
<1> USE DEF IInv, TypeOK
<1>1. CASE drive'[f] = drive[f]
  BY <1>1, RowsKept DEF ProcessedWasFiled, ScanInv
<1>2. CASE MoveToProcessed /\ f = Held
  <2>1. Held \in Files /\ drive[Held].content \in Contents
    BY <1>2, HeldIsFile DEF MoveToProcessed, InFile
  <2>2. drive'[f].content = drive[f].content /\ drive'[f].rev = drive[f].rev
    BY <1>2, <2>1 DEF MoveToProcessed, InboxFile
  <2>3. documents[drive[f].content] # None
    BY <1>2, <2>2 DEF MoveToProcessed, HashInv, Hashed, EntryInv
  <2> QED
    BY <2>1, <2>2, <2>3, <1>2, RowsKept
<1>3. ASSUME MoveToProcessed, f # Held PROVE drive'[f] = drive[f]
  BY <1>3 DEF MoveToProcessed
<1>4. ASSUME Environment PROVE drive'[f] = drive[f]
  <2>1. PICK g \in Files : \/ Settle(g) \/ Delete(g)
                           \/ \E c \in Contents : Upload(g, c) \/ Edit(g, c)
    BY <1>4 DEF Environment
  <2>2. f # g => drive'[f] = drive[f]
    BY <2>1 DEF Settle, Delete, Upload, Edit
  <2>3. drive'[g].place # "processed"
    BY <2>1 DEF Settle, Delete, Upload, Edit, InboxFile
  <2> QED
    BY <2>2, <2>3
<1>5. CASE drive' = drive
  BY <1>5, <1>1
<1>6. Environment \/ MoveToProcessed \/ drive' = drive
  BY DEF Next, RunLoop, ProcessOne, vars, Enqueue, Signal, Expire, Crash, Restart,
         StopRun, StartScan, ListInbox, ListFails, AbandonScan, RecordPoll,
         StartFile, fileState, Recheck, Download, IsDuplicate, RunOCR,
         RunClassify, RunValidate, CreateFolder, UploadPDF, UploadTranscript,
         UploadMetadata, UploadPart, PutDocument, Quarantine, Report
<1> QED
  BY <1>1, <1>2, <1>3, <1>4, <1>5, <1>6

-----------------------------------------------------------------------------
(* The theorems.                                                             *)

\* The initial state satisfies every part of the inductive invariant.
LEMMA InitIInv == Init => IInv
<1> SUFFICES ASSUME Init PROVE IInv
  OBVIOUS
<1> USE BoundsAssumption DEF Init
<1>1. TypeOK
  <2>1. NoFile \in InboxFile
    BY DEF NoFile, InboxFile
  <2>2. NoEntry \in EntryDir
    BY DEF NoEntry, EntryDir
  <2>3. [folders |-> 0, pdfs |-> 0, reports |-> 0] \in Quarantined
    BY DEF Quarantined
  <2>4. status \in StatusRow
    BY DEF StatusRow
  <2>5. requests \in 0..ScanChanCap /\ outcome \in Outcomes
    BY DEF ScanChanCap, Outcomes
  <2> QED
    BY <2>1, <2>2, <2>3, <2>4, <2>5 DEF TypeOK
<1>2. ScanInv /\ HashInv /\ EntryInv
  BY DEF ScanInv, HashInv, EntryInv, NoFile, InFile, Hashed, Filing
<1>3. IndexSound /\ RowsOwnEntries /\ ProcessedWasFiled
  BY DEF IndexSound, RowsOwnEntries, ProcessedWasFiled, NoFile
<1> QED
  BY <1>1, <1>2, <1>3 DEF IInv

LEMMA StepIInv == IInv /\ [Next]_vars => IInv'
  BY TypeStep, ScanStep, HashStep, EntryStep, IndexStep, RowsStep, ProcessedStep
     DEF IInv

\* The inductive invariant holds of every behaviour of the daemon, for any
\* number of files, contents, names, failures and crashes.
THEOREM InductiveInvariant == Spec => []IInv
  BY InitIInv, StepIInv, PTL DEF Spec

\* Every variable keeps its type.
THEOREM TypeCorrect == Spec => []TypeOK
  BY InductiveInvariant, PTL DEF IInv

\* Every index row names a complete entry of its own content: a file skipped
\* as a duplicate can be read in the library.
THEOREM IndexIsSound == Spec => []IndexSound
  BY InductiveInvariant, PTL DEF IInv

\* No two rows share a library directory.
THEOREM EntriesAreOwned == Spec => []RowsOwnEntries
  BY InductiveInvariant, PTL DEF IInv

\* An unedited file in the processed folder has been filed.
THEOREM ProcessedMeansFiled == Spec => []ProcessedWasFiled
  BY InductiveInvariant, PTL DEF IInv

\* Rows and the entries they name are never changed again.
THEOREM FiledStaysFiled == Spec => FiledForGood
<1>1. IInv /\ [Next]_vars =>
        [\A c \in Contents : documents[c] # None =>
            /\ documents'[c] = documents[c]
            /\ library'[documents[c]] = library[documents[c]]]_vars
  BY RowsKept
<1> QED
  BY <1>1, InductiveInvariant, PTL DEF Spec, FiledForGood

-----------------------------------------------------------------------------
(* The processed counter.                                                    *)

\* The file in hand has a row and is not yet counted.
Due == pc = "move" \/ (pc = "report" /\ outcome = "processed")

\* A file that is due has a row of its own, not yet counted.
CountInv ==
    /\ status.processed <= Cardinality(Rows)
    /\ Due => status.processed + 1 <= Cardinality(Rows)

\* Rows are counted, and never lost.
LEMMA RowsCounted ==
    ASSUME IInv, [Next]_vars
    PROVE  /\ Cardinality(Rows) \in Nat /\ Cardinality(Rows') \in Nat
           /\ Cardinality(Rows) <= Cardinality(Rows')
           /\ \A c \in Contents : documents[c] = None /\ documents'[c] # None
                => Cardinality(Rows) + 1 <= Cardinality(Rows')
<1>1. Rows \subseteq Contents /\ Rows' \subseteq Contents
  BY DEF Rows
<1>2. IsFiniteSet(Rows) /\ IsFiniteSet(Rows')
  BY <1>1, ValuesAssumption, FS_Subset
<1>3. Cardinality(Rows) \in Nat /\ Cardinality(Rows') \in Nat
  BY <1>2, FS_CardinalityType
<1>4. Rows \subseteq Rows'
  BY RowsKept DEF Rows
<1>5. Cardinality(Rows) <= Cardinality(Rows')
  BY <1>2, <1>4, FS_Subset
<1>6. ASSUME NEW c \in Contents, documents[c] = None, documents'[c] # None
      PROVE  Cardinality(Rows) + 1 <= Cardinality(Rows')
  <2>1. Rows \cup {c} \subseteq Rows' /\ c \notin Rows
    BY <1>4, <1>6 DEF Rows
  <2>2. Cardinality(Rows \cup {c}) = Cardinality(Rows) + 1
    BY <1>2, <2>1, FS_AddElement
  <2> QED
    BY <1>2, <2>1, <2>2, FS_Subset
<1> QED
  BY <1>3, <1>5, <1>6

\* Only three steps take part in the count.
LEMMA CountFrame ==
    ASSUME TypeOK, [Next]_vars
    PROVE  \/ PutDocument \/ MoveToProcessed \/ Report
           \/ status'.processed = status.processed /\ (Due' => Due)
<1> USE DEF stores, job, Due, Goto
<1>1. CASE Environment \/ Enqueue \/ Signal \/ Expire
  BY <1>1 DEF Environment, Upload, Settle, Edit, Delete, Enqueue, Signal, Expire
<1>2. CASE Crash \/ Restart
  BY <1>2 DEF Crash, Restart, LoseMemory
<1>3. CASE RunLoop
  <2>1. status'.processed = status.processed
    BY <1>3 DEF RunLoop, StopRun, StartScan, ListInbox, ListFails, AbandonScan,
                RecordPoll, StartFile, TypeOK, StatusRow
  <2>2. pc' \notin {"move", "report"}
    BY <1>3 DEF RunLoop, StopRun, StartScan, ListInbox, ListFails, AbandonScan,
                RecordPoll, StartFile, LoseMemory
  <2> QED
    BY <2>1, <2>2
<1>4. CASE Recheck \/ Download \/ RunOCR \/ RunClassify \/ RunValidate
           \/ CreateFolder \/ UploadPDF \/ UploadTranscript \/ UploadMetadata
  BY <1>4 DEF Recheck, Download, RunOCR, RunClassify, RunValidate, CreateFolder,
              UploadPDF, UploadTranscript, UploadMetadata, UploadPart, StageFails
<1>5. CASE IsDuplicate \/ Quarantine
  BY <1>5 DEF IsDuplicate, Quarantine
<1>6. CASE UNCHANGED vars
  BY <1>6 DEF vars
<1> QED
  BY <1>1, <1>2, <1>3, <1>4, <1>5, <1>6 DEF Next, ProcessOne

\* Every step keeps the count.
LEMMA CountStep == IInv /\ CountInv /\ [Next]_vars => CountInv'
<1> SUFFICES ASSUME IInv, CountInv, [Next]_vars PROVE CountInv'
  OBVIOUS
<1>0. TypeOK /\ TypeOK'
  BY TypeStep DEF IInv
<1>1. status.processed \in Nat /\ status'.processed \in Nat
  BY <1>0 DEF TypeOK, StatusRow
<1>2. PICK r \in Nat, s \in Nat : r = Cardinality(Rows) /\ s = Cardinality(Rows')
  BY RowsCounted
<1>3. r <= s /\ status.processed <= r /\ (Due => status.processed + 1 <= r)
  BY <1>2, RowsCounted DEF CountInv
<1>4. SUFFICES /\ status'.processed <= s
               /\ Due' => status'.processed + 1 <= s
  BY <1>2 DEF CountInv
<1>5. CASE PutDocument
  <2>1. UNCHANGED status
    BY <1>5 DEF PutDocument
  <2>2. CASE Goto("quarantine")
    <3>1. ~Due'
      BY <2>2 DEF Due, Goto
    <3> QED
      BY <1>1, <1>2, <1>3, <2>1, <3>1
  <2>3. CASE documents' = [documents EXCEPT ![hash] = IF @ = None THEN dir ELSE @]
    <3>1. hash \in Contents /\ documents[hash] = None /\ dir \in Dirs
      BY <1>5 DEF PutDocument, IInv, HashInv, EntryInv, Hashed, Filing
    <3>2. documents'[hash] # None
      BY <1>0, <2>3, <3>1, ValuesAssumption DEF TypeOK
    <3>3. r + 1 <= s
      BY <1>2, <3>1, <3>2, RowsCounted
    <3> QED
      BY <1>1, <1>2, <1>3, <2>1, <3>3
  <2> QED
    BY <1>5, <2>2, <2>3 DEF PutDocument, StageFails
<1>6. CASE MoveToProcessed
  <2>1. UNCHANGED status /\ Due
    BY <1>6 DEF MoveToProcessed, stores, Due
  <2> QED
    BY <1>1, <1>2, <1>3, <2>1
<1>7. CASE Report
  <2>1. ~Due'
    BY <1>7 DEF Report, Due, Goto
  <2>2. CASE outcome = "processed" /\ ~shutting
    <3>1. status'.processed = status.processed + 1 /\ Due
      BY <1>0, <1>7, <2>2 DEF Report, Counted, Due, TypeOK, StatusRow
    <3> QED
      BY <1>1, <1>2, <1>3, <2>1, <3>1
  <2>3. CASE outcome # "processed" \/ shutting
    <3>1. status'.processed = status.processed
      BY <1>0, <1>7, <2>3 DEF Report, Counted, TypeOK, StatusRow
    <3> QED
      BY <1>1, <1>2, <1>3, <2>1, <3>1
  <2> QED
    BY <2>2, <2>3
<1>8. CASE status'.processed = status.processed /\ (Due' => Due)
  <2>1. status'.processed <= s
    BY <1>1, <1>2, <1>3, <1>8
  <2>2. ASSUME Due PROVE status'.processed + 1 <= s
    BY <1>1, <1>2, <1>3, <1>8, <2>2
  <2> QED
    BY <1>8, <2>1, <2>2
<1> QED
  BY <1>0, <1>5, <1>6, <1>7, <1>8, CountFrame

-----------------------------------------------------------------------------
(* Entries without a row.                                                    *)

Spent == faults + crashes

\* WriteEntry has a directory of its own.
Filling == pc \in Filing \ {"folder"}

\* The directory being filled is going to be left without a row.
Doomed == Filling /\ expired

\* Every orphan, or orphan to be, has a failure or a crash of its own.
OrphanInv ==
    /\ IsFiniteSet(Orphans) /\ Cardinality(Orphans) <= Spent
    /\ Doomed => Cardinality(Orphans) + 1 <= Spent

\* Directories counted: fewer or the same, or one more.
LEMMA Counting ==
    ASSUME NEW S, NEW T, NEW x, IsFiniteSet(S), T \subseteq S \cup {x}
    PROVE  /\ IsFiniteSet(T) /\ Cardinality(S) \in Nat /\ Cardinality(T) \in Nat
           /\ Cardinality(T) <= Cardinality(S) + 1
           /\ T \subseteq S => Cardinality(T) <= Cardinality(S)
<1>1. IsFiniteSet(S \cup {x}) /\ Cardinality(S) \in Nat
  BY FS_AddElement, FS_CardinalityType
<1>2. Cardinality(S \cup {x}) \in Nat /\ Cardinality(S \cup {x}) <= Cardinality(S) + 1
  <2>1. Cardinality(S \cup {x}) \in Nat
    BY <1>1, FS_CardinalityType
  <2>2. \/ Cardinality(S \cup {x}) = Cardinality(S)
        \/ Cardinality(S \cup {x}) = Cardinality(S) + 1
    BY FS_AddElement
  <2> QED
    BY <1>1, <2>1, <2>2
<1>3. IsFiniteSet(T) /\ Cardinality(T) <= Cardinality(S \cup {x})
  BY <1>1, FS_Subset
<1>4. Cardinality(T) \in Nat
  BY <1>3, FS_CardinalityType
<1>5. T \subseteq S => Cardinality(T) <= Cardinality(S)
  BY FS_Subset
<1> QED
  BY <1>1, <1>2, <1>3, <1>4, <1>5

\* The failures and crashes are a number.
LEMMA SpentTyped == (TypeOK => Spent \in Nat) /\ (TypeOK' => Spent' \in Nat)
<1>1. ASSUME TypeOK PROVE faults \in Nat /\ crashes \in Nat
  BY <1>1 DEF TypeOK
<1>2. ASSUME TypeOK' PROVE faults' \in Nat /\ crashes' \in Nat
  BY <1>2 DEF TypeOK
<1> QED
  BY <1>1, <1>2 DEF Spent

\* A step accounts for what it leaves behind: nothing new, or one directory for
\* a failure or for the expiry that doomed it.
LEMMA OrphanKept ==
    ASSUME TypeOK, TypeOK', OrphanInv, NEW x,
           \/ /\ Orphans' \subseteq Orphans /\ Spent' >= Spent
              /\ Doomed' => Doomed \/ Spent' > Spent
           \/ Orphans' \subseteq Orphans \cup {x} /\ Spent' > Spent /\ ~Doomed'
           \/ Orphans' \subseteq Orphans \cup {x} /\ Spent' >= Spent /\ Doomed /\ ~Doomed'
    PROVE  OrphanInv'
<1> DEFINE O == Orphans
           L == Cardinality(O)
           D == Doomed
<1>1. Spent \in Nat /\ Spent' \in Nat
  BY SpentTyped
<1>2. IsFiniteSet(O) /\ O' \subseteq O \cup {x}
  BY DEF OrphanInv
<1> HIDE DEF O
<1>3. /\ IsFiniteSet(O') /\ L \in Nat /\ L' \in Nat /\ L' <= L + 1
      /\ O' \subseteq O => L' <= L
  BY <1>2, Counting
<1>4. L <= Spent /\ (D => L + 1 <= Spent)
  BY DEF OrphanInv, O
<1>5. \/ O' \subseteq O /\ Spent' >= Spent /\ (D' => D \/ Spent' > Spent)
      \/ Spent' > Spent /\ ~D'
      \/ Spent' >= Spent /\ D /\ ~D'
  BY DEF O
<1> HIDE DEF L, D
<1>6. PICK l \in Nat, m \in Nat, s \in Nat, t \in Nat :
          l = L /\ m = L' /\ s = Spent /\ t = Spent'
  BY <1>1, <1>3
<1>7. /\ m <= l /\ l <= s /\ t >= s => m <= t
      /\ m <= l /\ l <= s /\ t > s => m + 1 <= t
      /\ m <= l /\ l + 1 <= s /\ t >= s => m + 1 <= t
      /\ m <= l + 1 /\ l <= s /\ t > s => m <= t
      /\ m <= l + 1 /\ l + 1 <= s /\ t >= s => m <= t
  OBVIOUS
<1>8. \/ O' \subseteq O /\ t >= s /\ (D' => D \/ t > s)
      \/ t > s /\ ~D'
      \/ t >= s /\ D /\ ~D'
  BY <1>5, <1>6
<1>9. /\ m <= l + 1 /\ (O' \subseteq O => m <= l)
      /\ l <= s /\ (D => l + 1 <= s)
  BY <1>3, <1>4, <1>6
<1>10. m <= t /\ (D' => m + 1 <= t)
  BY <1>7, <1>8, <1>9, Zenon
<1>11. L' <= Spent' /\ (D' => L' + 1 <= Spent')
  BY <1>6, <1>10
<1> QED
  BY <1>3, <1>11 DEF OrphanInv, O, L, D

\* Every step accounts for what it leaves behind.
LEMMA OrphanStep == IInv /\ OrphanInv /\ [Next]_vars => OrphanInv'
<1> SUFFICES ASSUME IInv, OrphanInv, [Next]_vars PROVE OrphanInv'
  OBVIOUS
<1>0. TypeOK /\ TypeOK' /\ EntryInv
  BY TypeStep DEF IInv
<1>n. faults \in Nat /\ crashes \in Nat /\ faults' \in Nat /\ crashes' \in Nat
  BY <1>0 DEF TypeOK
<1>a. ASSUME Orphans' \subseteq Orphans, Spent' >= Spent,
             Doomed' => Doomed \/ Spent' > Spent
      PROVE  OrphanInv'
  BY <1>0, <1>a, OrphanKept
<1>b. ASSUME NEW x, Orphans' \subseteq Orphans \cup {x}, Spent' > Spent, ~Doomed'
      PROVE  OrphanInv'
  BY <1>0, <1>b, OrphanKept
<1>c. ASSUME NEW x, Orphans' \subseteq Orphans \cup {x}, Spent' >= Spent, Doomed, ~Doomed'
      PROVE  OrphanInv'
  BY <1>0, <1>c, OrphanKept
<1>f. ASSUME UNCHANGED crashes, faults' = faults \/ faults' = faults + 1
      PROVE  Spent' >= Spent /\ (faults' = faults + 1 => Spent' > Spent)
  <2>1. CASE faults' = faults
    BY <1>n, <1>f, <2>1 DEF Spent
  <2>2. CASE faults' = faults + 1
    BY <1>n, <1>f, <2>2 DEF Spent
  <2> QED
    BY <1>f, <2>1, <2>2
<1>o. ASSUME UNCHANGED documents PROVE Owned' = Owned
  BY <1>o DEF Owned
\* Steps outside WriteEntry.
<1>1. ASSUME UNCHANGED <<library, documents>>, ~Filling, ~Filling', Spent' >= Spent
      PROVE  OrphanInv'
  <2>1. Orphans' = Orphans
    BY <1>1, <1>o DEF Orphans, Filling
  <2> QED
    BY <1>1, <1>a, <2>1 DEF Doomed
\* Steps beside WriteEntry.
<1>2. ASSUME UNCHANGED <<library, documents, dir, pc>>, Spent' >= Spent,
             expired' => expired \/ Spent' > Spent
      PROVE  OrphanInv'
  <2>1. Orphans' = Orphans
    BY <1>2, <1>o DEF Orphans
  <2>2. Doomed' => Doomed \/ Spent' > Spent
    BY <1>2 DEF Doomed, Filling
  <2> QED
    BY <1>2, <1>a, <2>1, <2>2
\* A failing call of WriteEntry leaves the directory behind.
<1>3. ASSUME Filling, UNCHANGED <<documents, expired, crashes>>, StageFails,
             \A d \in Dirs : library'[d].folder => library[d].folder
      PROVE  OrphanInv'
  <2>1. ~Filling' /\ ~Doomed'
    BY <1>3 DEF StageFails, Goto, Filling, Filing, Doomed
  <2>2. Orphans' \subseteq Orphans \cup {dir}
    BY <1>3, <1>o, <2>1 DEF Orphans, Filling
  <2>3. CASE Breaks
    <3>1. Spent' > Spent
      BY <1>3, <1>f, <2>3 DEF Breaks
    <3> QED
      BY <1>b, <2>1, <2>2, <3>1
  <2>4. CASE expired /\ UNCHANGED faults
    <3>1. Spent' >= Spent /\ Doomed
      BY <1>3, <1>f, <2>4 DEF Doomed
    <3> QED
      BY <1>c, <2>1, <2>2, <3>1
  <2> QED
    BY <1>3, <2>3, <2>4 DEF StageFails, Fails
<1>4. CASE Environment \/ Enqueue \/ Signal
  <2>1. UNCHANGED <<library, documents, dir, pc, expired, faults, crashes>>
    BY <1>4 DEF Environment, Upload, Settle, Edit, Delete, Enqueue, Signal,
                stores, job, bounds
  <2> QED
    BY <1>2, <1>f, <2>1
<1>5. CASE Expire
  <2>1. UNCHANGED <<library, documents, dir, pc, crashes>> /\ faults' = faults + 1
    BY <1>5 DEF Expire, stores
  <2> QED
    BY <1>2, <1>f, <2>1
<1>6. CASE Crash
  <2>1. UNCHANGED <<library, documents, faults>> /\ crashes' = crashes + 1 /\ pc' = "down"
    BY <1>6 DEF Crash, stores, LoseMemory
  <2>2. Spent' > Spent
    BY <1>n, <2>1 DEF Spent
  <2>3. ~Filling' /\ ~Doomed'
    BY <2>1 DEF Filling, Filing, Doomed
  <2>4. Orphans' \subseteq Orphans \cup {dir}
    BY <1>o, <2>1, <2>3 DEF Orphans, Filling
  <2> QED
    BY <1>b, <2>2, <2>3, <2>4
<1>7. CASE Restart \/ RunLoop
  <2>1. UNCHANGED <<library, documents>>
    BY <1>7 DEF Restart, RunLoop, StopRun, StartScan, ListInbox, ListFails,
                AbandonScan, RecordPoll, StartFile, stores
  <2>2. ~Filling /\ ~Filling'
    BY <1>7 DEF Restart, RunLoop, StopRun, StartScan, ListInbox, ListFails,
                AbandonScan, RecordPoll, StartFile, LoseMemory, Goto, Filling, Filing
  <2>3. UNCHANGED crashes /\ (faults' = faults \/ faults' = faults + 1)
    BY <1>7 DEF Restart, RunLoop, StopRun, StartScan, ListInbox, ListFails,
                AbandonScan, RecordPoll, StartFile, bounds
  <2> QED
    BY <1>1, <1>f, <2>1, <2>2, <2>3
<1>8. CASE Recheck \/ Download \/ IsDuplicate \/ RunOCR \/ RunClassify
           \/ RunValidate \/ MoveToProcessed \/ Quarantine
  <2>1. UNCHANGED <<library, documents, crashes>>
        /\ (faults' = faults \/ faults' = faults + 1)
    BY <1>8 DEF Recheck, Download, IsDuplicate, RunOCR, RunClassify, RunValidate,
                MoveToProcessed, Quarantine, stores, fileState, Succeeds, StageFails,
                Fails, Breaks
  <2>2. ~Filling /\ ~Filling'
    BY <1>8 DEF Recheck, Download, IsDuplicate, RunOCR, RunClassify, RunValidate,
                MoveToProcessed, Quarantine, StageFails, Goto, Filling, Filing
  <2> QED
    BY <1>1, <1>f, <2>1, <2>2
<1>9. CASE Report
  <2>1. UNCHANGED <<library, documents, faults, crashes>> /\ ~Filling /\ ~Filling'
    BY <1>9 DEF Report, bounds, Goto, Filling, Filing
  <2> QED
    BY <1>1, <1>f, <2>1
<1>10. CASE CreateFolder
  <2>1. pc = "folder" /\ ~Filling /\ UNCHANGED <<documents, expired, crashes>>
    BY <1>10 DEF CreateFolder, fileState, Filling
  <2>2. ASSUME NEW d \in Dirs, library' = [library EXCEPT ![d].folder = TRUE]
        PROVE  \A e \in Dirs : library'[e].folder => e = d \/ library[e].folder
    BY <1>0, <2>2 DEF TypeOK, EntryDir
  <2>3. ASSUME NEW d \in Dirs, library' = [library EXCEPT ![d].folder = TRUE],
               Succeeds, dir' = d, Goto("pdf")
        PROVE  OrphanInv'
    <3>1. Filling' /\ ~Doomed' /\ UNCHANGED faults
      BY <2>1, <2>3 DEF Succeeds, Goto, Filling, Filing, Doomed
    <3>2. Orphans' \subseteq Orphans
      BY <1>o, <2>1, <2>2, <2>3, <3>1 DEF Orphans, Filling
    <3> QED
      BY <1>a, <1>f, <2>1, <3>1, <3>2
  <2>4. ASSUME NEW d \in Dirs, library' = [library EXCEPT ![d].folder = TRUE],
               Breaks, Goto("quarantine")
        PROVE  OrphanInv'
    <3>1. ~Filling' /\ ~Doomed' /\ Spent' > Spent
      BY <1>f, <2>1, <2>4 DEF Breaks, Goto, Filling, Filing, Doomed
    <3>2. Orphans' \subseteq Orphans \cup {d}
      BY <1>o, <2>1, <2>2, <2>4, <3>1 DEF Orphans, Filling
    <3> QED
      BY <1>b, <3>1, <3>2
  <2>5. ASSUME StageFails, UNCHANGED library PROVE OrphanInv'
    <3>1. ~Filling' /\ (faults' = faults \/ faults' = faults + 1)
      BY <2>5 DEF StageFails, Fails, Breaks, Goto, Filling, Filing
    <3> QED
      BY <1>1, <1>f, <2>1, <2>5, <3>1
  <2> QED
    BY <1>10, <2>3, <2>4, <2>5 DEF CreateFolder
<1>11. ASSUME NEW step \in {"pdf", "transcript", "metadata"}, NEW entry \in EntryDir,
              entry.folder, NEW next \in {"transcript", "metadata", "record"},
              UploadPart(step, entry, next)
       PROVE  OrphanInv'
  <2>1. Filling /\ UNCHANGED <<documents, expired, crashes, dir>>
    BY <1>11 DEF UploadPart, fileState, Filling, Filing
  <2>2. dir \in Dirs /\ library[dir].folder
    BY <1>0, <2>1 DEF EntryInv, Filling
  <2>3. ASSUME library' = [library EXCEPT ![dir] = entry]
        PROVE  \A d \in Dirs : library'[d].folder <=> library[d].folder
    BY <1>0, <1>11, <2>2, <2>3 DEF TypeOK
  <2>4. CASE Succeeds /\ Goto(next) /\ library' = [library EXCEPT ![dir] = entry]
    <3>1. Filling' /\ ~Doomed' /\ UNCHANGED faults
      BY <1>11, <2>1, <2>4 DEF Succeeds, Goto, Filling, Filing, Doomed
    <3>2. Orphans' = Orphans
      BY <1>o, <2>1, <2>3, <2>4, <3>1 DEF Orphans, Filling
    <3> QED
      BY <1>a, <1>f, <2>1, <3>1, <3>2
  <2>5. CASE Breaks /\ Goto("quarantine") /\ library' = [library EXCEPT ![dir] = entry]
    BY <1>3, <2>1, <2>3, <2>5 DEF StageFails, Fails
  <2>6. CASE StageFails /\ UNCHANGED library
    BY <1>3, <2>1, <2>6
  <2> QED
    BY <1>11, <2>4, <2>5, <2>6 DEF UploadPart
<1>12. CASE UploadPDF \/ UploadTranscript \/ UploadMetadata
  <2>1. Filling
    BY <1>12 DEF UploadPDF, UploadTranscript, UploadMetadata, UploadPart, Filling, Filing
  <2>2. dir \in Dirs /\ library[dir] \in EntryDir /\ library[dir].folder
        /\ hash \in Contents
    BY <1>0, <2>1 DEF EntryInv, Filling, TypeOK, IInv, HashInv, Hashed
  <2>3. [library[dir] EXCEPT !.pdf = hash] \in EntryDir
        /\ [library[dir] EXCEPT !.pdf = hash].folder
    BY <2>2 DEF EntryDir
  <2>4. [library[dir] EXCEPT !.transcript = TRUE] \in EntryDir
        /\ [library[dir] EXCEPT !.transcript = TRUE].folder
    BY <2>2 DEF EntryDir
  <2>5. [library[dir] EXCEPT !.metadata = hash] \in EntryDir
        /\ [library[dir] EXCEPT !.metadata = hash].folder
    BY <2>2 DEF EntryDir
  <2>6. CASE UploadPDF
    BY <1>11, <2>3, <2>6 DEF UploadPDF
  <2>7. CASE UploadTranscript
    BY <1>11, <2>4, <2>7 DEF UploadTranscript
  <2>8. CASE UploadMetadata
    BY <1>11, <2>5, <2>8 DEF UploadMetadata
  <2> QED
    BY <1>12, <2>6, <2>7, <2>8
<1>13. CASE PutDocument
  <2>1. pc = "record" /\ UNCHANGED <<library, expired, crashes>>
    BY <1>13 DEF PutDocument, fileState
  <2>2. Filling /\ dir \in Dirs /\ hash \in Contents /\ documents[hash] = None
    BY <1>0, <2>1 DEF Filling, Filing, EntryInv, IInv, HashInv, Hashed
  <2>3. CASE /\ Succeeds /\ Goto("move")
             /\ documents' = [documents EXCEPT ![hash] = IF @ = None THEN dir ELSE @]
    <3>1. ~Filling' /\ ~Doomed' /\ UNCHANGED faults
      BY <2>3 DEF Succeeds, Goto, Filling, Filing, Doomed
    <3>2. documents' = [documents EXCEPT ![hash] = dir]
      BY <2>2, <2>3
    <3>3. \A d \in Dirs : d \in Owned \cup {dir} => d \in Owned'
      BY <1>0, <2>2, <3>2, ValuesAssumption DEF Owned, TypeOK
    <3>4. Orphans' \subseteq Orphans
      BY <2>1, <2>2, <3>1, <3>3 DEF Orphans, Filling
    <3> QED
      BY <1>a, <1>f, <2>1, <3>1, <3>4
  <2>4. CASE StageFails /\ UNCHANGED documents
    BY <1>3, <2>1, <2>2, <2>4
  <2> QED
    BY <1>13, <2>3, <2>4 DEF PutDocument
<1>14. CASE UNCHANGED vars
  <2>1. UNCHANGED <<library, documents, dir, pc, expired, faults, crashes>>
    BY <1>14 DEF vars, stores, job, bounds
  <2> QED
    BY <1>2, <1>f, <2>1
<1> QED
  BY <1>4, <1>5, <1>6, <1>7, <1>8, <1>9, <1>10, <1>12, <1>13, <1>14
     DEF Next, ProcessOne

-----------------------------------------------------------------------------
(* The quarantine counter.                                                   *)

\* The file in hand has a folder, or an expired context, that is not yet used
\* up: it may be counted as quarantined.
Reserved == \/ pc \in InFile \ {"report"} /\ expired
            \/ pc = "report" /\ outcome = "quarantined"

\* Each file counted has a folder or a failure of its own.
QuarantineInv ==
    /\ IsFiniteSet(QuarantineFolders) /\ QuarantineCounted
    /\ Reserved => status.quarantine + 1 <= Cardinality(QuarantineFolders) + faults

\* One more folder for one name is one more folder in all.
LEMMA FolderAdded ==
    ASSUME TypeOK, NEW n \in Names, NEW r, r.folders = quarantine[n].folders + 1,
           quarantine' = [quarantine EXCEPT ![n] = r], IsFiniteSet(QuarantineFolders)
    PROVE  /\ IsFiniteSet(QuarantineFolders')
           /\ Cardinality(QuarantineFolders') = Cardinality(QuarantineFolders) + 1
<1> DEFINE k == quarantine[n].folders
<1>1. k \in Nat /\ DOMAIN quarantine = Names /\ DOMAIN quarantine' = Names
  BY DEF TypeOK, Quarantined
<1>2. \A m \in Names : quarantine'[m] = IF m = n THEN r ELSE quarantine[m]
  BY <1>1
<1>3. QuarantineFolders' = QuarantineFolders \cup {<<n, k + 1>>}
  <2>1. \A m, i : <<m, i>> \in QuarantineFolders
                    <=> m \in Names /\ i \in 1..quarantine[m].folders
    BY DEF QuarantineFolders
  <2>2. \A m, i : <<m, i>> \in QuarantineFolders'
                    <=> m \in Names /\ i \in 1..quarantine'[m].folders
    BY DEF QuarantineFolders
  <2>3. \A x \in QuarantineFolders : x = <<x[1], x[2]>>
    BY DEF QuarantineFolders
  <2>4. \A x \in QuarantineFolders' : x = <<x[1], x[2]>>
    BY DEF QuarantineFolders
  <2>5. \A i : i \in 1..(k + 1) <=> i \in 1..k \/ i = k + 1
    BY <1>1
  <2>6. \A m, i : <<m, i>> \in QuarantineFolders'
                    <=> <<m, i>> \in QuarantineFolders \/ (m = n /\ i = k + 1)
    <3> SUFFICES ASSUME NEW m, NEW i
                 PROVE  <<m, i>> \in QuarantineFolders'
                            <=> \/ <<m, i>> \in QuarantineFolders
                                \/ m = n /\ i = k + 1
      OBVIOUS
    <3>1. CASE m = n
      <4>1. quarantine'[m].folders = k + 1 /\ quarantine[m].folders = k
        BY <1>2, <3>1
      <4> QED
        BY <2>1, <2>2, <2>5, <3>1, <4>1
    <3>2. CASE m # n
      <4>1. m \in Names => quarantine'[m] = quarantine[m]
        BY <1>2, <3>2
      <4> QED
        BY <2>1, <2>2, <3>2, <4>1
    <3> QED
      BY <3>1, <3>2
  <2>7. ASSUME NEW x \in QuarantineFolders' PROVE x \in QuarantineFolders \cup {<<n, k + 1>>}
    BY <2>4, <2>6
  <2>8. ASSUME NEW x \in QuarantineFolders PROVE x \in QuarantineFolders'
    BY <2>3, <2>6
  <2>9. <<n, k + 1>> \in QuarantineFolders'
    BY <2>6
  <2> QED
    BY <2>7, <2>8, <2>9
<1>4. <<n, k + 1>> \notin QuarantineFolders
  BY <1>1 DEF QuarantineFolders
<1> QED
  BY <1>3, <1>4, FS_AddElement

\* Three steps take part in the count; the others keep what is reserved.
LEMMA QuarantineFrame ==
    ASSUME TypeOK, [Next]_vars
    PROVE  \/ Quarantine \/ Report \/ Expire
           \/ /\ status'.quarantine = status.quarantine /\ UNCHANGED quarantine
              /\ faults' >= faults /\ (Reserved' => Reserved)
<1> USE DEF stores, job, bounds, Goto
<1> DEFINE Kept == /\ status'.quarantine = status.quarantine /\ UNCHANGED quarantine
                   /\ faults' >= faults /\ (Reserved' => Reserved)
<1>0. faults \in Nat /\ status \in StatusRow
  BY DEF TypeOK
<1>1. CASE Environment \/ Enqueue \/ Signal
  BY <1>0, <1>1 DEF Environment, Upload, Settle, Edit, Delete, Enqueue, Signal, Reserved
<1>2. CASE Crash \/ Restart
  BY <1>0, <1>2 DEF Crash, Restart, LoseMemory, Reserved, InFile, Filing
<1>3. CASE RunLoop
  <2>1. status'.quarantine = status.quarantine /\ UNCHANGED quarantine
    BY <1>0, <1>3 DEF RunLoop, StopRun, StartScan, ListInbox, ListFails, AbandonScan,
                      RecordPoll, StartFile, StatusRow
  <2>2. faults' >= faults
    BY <1>0, <1>3 DEF RunLoop, StopRun, StartScan, ListInbox, ListFails, AbandonScan,
                      RecordPoll, StartFile
  <2>3. pc' \notin InFile \/ (pc' = "recheck" /\ ~expired')
    BY <1>3 DEF RunLoop, StopRun, StartScan, ListInbox, ListFails, AbandonScan,
                RecordPoll, StartFile, LoseMemory, InFile, Filing
  <2> QED
    BY <2>1, <2>2, <2>3 DEF Reserved, InFile
<1>4. CASE Recheck \/ Download \/ IsDuplicate \/ RunOCR \/ RunClassify \/ RunValidate
           \/ CreateFolder \/ UploadPDF \/ UploadTranscript \/ UploadMetadata
           \/ PutDocument \/ MoveToProcessed
  <2> USE DEF Recheck, Download, IsDuplicate, RunOCR, RunClassify, RunValidate,
              CreateFolder, UploadPDF, UploadTranscript, UploadMetadata, UploadPart,
              PutDocument, MoveToProcessed, fileState, Succeeds, Breaks, Fails,
              StageFails
  <2>1. UNCHANGED <<status, quarantine, expired>>
    BY <1>4
  <2>2. faults' >= faults
    BY <1>0, <1>4
  <2>3. pc \in InFile \ {"report"}
    BY <1>4 DEF InFile, Filing
  <2>4. pc' = "report" => outcome' # "quarantined"
    BY <1>4
  <2> QED
    BY <2>1, <2>2, <2>3, <2>4 DEF Reserved
<1>5. CASE UNCHANGED vars
  BY <1>0, <1>5 DEF vars, Reserved
<1> QED
  BY <1>1, <1>2, <1>3, <1>4, <1>5 DEF Next, ProcessOne

\* Every step keeps the count.
LEMMA QuarantineStep == IInv /\ QuarantineInv /\ [Next]_vars => QuarantineInv'
<1> SUFFICES ASSUME IInv, QuarantineInv, [Next]_vars PROVE QuarantineInv'
  OBVIOUS
<1> DEFINE Q == QuarantineFolders
           k == Cardinality(Q)
<1>0. TypeOK /\ TypeOK'
  BY TypeStep DEF IInv
<1>1. /\ status.quarantine \in Nat /\ status'.quarantine \in Nat
      /\ faults \in Nat /\ faults' \in Nat /\ status \in StatusRow
  BY <1>0 DEF TypeOK, StatusRow
<1>2. IsFiniteSet(Q) /\ k \in Nat
  BY FS_CardinalityType DEF QuarantineInv
<1>3. /\ status.quarantine <= k + faults
      /\ Reserved => status.quarantine + 1 <= k + faults
  BY DEF QuarantineInv, QuarantineCounted
<1>4. SUFFICES /\ IsFiniteSet(Q') /\ status'.quarantine <= k' + faults'
               /\ Reserved' => status'.quarantine + 1 <= k' + faults'
  BY DEF QuarantineInv, QuarantineCounted
<1>5. ASSUME UNCHANGED quarantine PROVE Q' = Q /\ k' = k
  BY <1>5 DEF QuarantineFolders
<1> HIDE DEF Q, k
<1>6. CASE Expire
  <2>1. UNCHANGED <<quarantine, status>> /\ faults' = faults + 1
    BY <1>6 DEF Expire, stores
  <2> QED
    BY <1>1, <1>2, <1>3, <1>5, <2>1
<1>7. CASE Quarantine
  <2>1. UNCHANGED status /\ pc = "quarantine" /\ current \in Names
    BY <1>7 DEF Quarantine, IInv, ScanInv, InFile
  <2>2. CASE quarantine' # quarantine
    <3>1. PICK r : /\ quarantine' = [quarantine EXCEPT ![current] = r]
                   /\ r.folders = quarantine[current].folders + 1
                   /\ UNCHANGED faults \/ Breaks
      BY <1>7, <2>2 DEF Quarantine
    <3>2. IsFiniteSet(Q') /\ k' = k + 1
      BY <1>0, <1>2, <2>1, <3>1, FolderAdded DEF Q, k
    <3>3. faults' >= faults
      BY <1>1, <3>1 DEF Breaks
    <3> QED
      BY <1>1, <1>2, <1>3, <2>1, <3>2, <3>3
  <2>3. CASE quarantine' = quarantine
    <3>1. Q' = Q /\ k' = k
      BY <1>5, <2>3
    <3>2. Fails
      <4>1. SUFFICES ASSUME NEW r, quarantine' = [quarantine EXCEPT ![current] = r],
                            r.folders = quarantine[current].folders + 1
                     PROVE  FALSE
        BY <1>7 DEF Quarantine
      <4>2. quarantine[current].folders \in Nat /\ DOMAIN quarantine = Names
        BY <1>0, <2>1 DEF TypeOK, Quarantined
      <4>3. quarantine'[current] = r
        BY <2>1, <4>1, <4>2
      <4> QED
        BY <2>3, <4>1, <4>2, <4>3
    <3>3. CASE Breaks
      BY <1>1, <1>2, <1>3, <2>1, <3>1, <3>3 DEF Breaks
    <3>4. CASE expired /\ UNCHANGED faults
      <4>1. Reserved
        BY <2>1, <3>4 DEF Reserved, InFile
      <4> QED
        BY <1>1, <1>2, <1>3, <2>1, <3>1, <3>4, <4>1
    <3> QED
      BY <3>2, <3>3, <3>4 DEF Fails
  <2> QED
    BY <2>2, <2>3
<1>8. CASE Report
  <2>1. /\ ~Reserved' /\ UNCHANGED <<quarantine, faults>> /\ pc = "report"
        /\ status' = status \/ status' = Counted
    BY <1>8 DEF Report, Reserved, Goto, InFile, Filing, bounds
  <2>2. Q' = Q /\ k' = k
    BY <1>5, <2>1
  <2>3. CASE status'.quarantine = status.quarantine
    BY <1>1, <1>2, <1>3, <2>1, <2>2, <2>3
  <2>4. CASE outcome = "quarantined" /\ status'.quarantine = status.quarantine + 1
    <3>1. Reserved
      BY <2>1, <2>4 DEF Reserved
    <3> QED
      BY <1>1, <1>2, <1>3, <2>1, <2>2, <2>4, <3>1
  <2> QED
    BY <1>1, <2>1, <2>3, <2>4 DEF Counted, StatusRow
<1>9. CASE /\ status'.quarantine = status.quarantine /\ UNCHANGED quarantine
           /\ faults' >= faults /\ (Reserved' => Reserved)
  <2>1. Q' = Q /\ k' = k
    BY <1>5, <1>9
  <2>2. status'.quarantine <= k' + faults'
    BY <1>1, <1>2, <1>3, <1>9, <2>1
  <2>3. ASSUME Reserved PROVE status'.quarantine + 1 <= k' + faults'
    BY <1>1, <1>2, <1>3, <1>9, <2>1, <2>3
  <2> QED
    BY <1>2, <1>9, <2>1, <2>2, <2>3
<1> QED
  BY <1>0, <1>6, <1>7, <1>8, <1>9, QuarantineFrame

-----------------------------------------------------------------------------
(* The theorems.                                                             *)

\* Nothing is filed and nothing written at the first start.
LEMMA InitCounts == Init => CountInv /\ OrphanInv /\ QuarantineInv
<1> SUFFICES ASSUME Init PROVE CountInv /\ OrphanInv /\ QuarantineInv
  OBVIOUS
<1>1. Rows = {} /\ ~Due /\ status.processed = 0
  BY DEF Init, Rows, Due
<1>2. Orphans = {} /\ ~Doomed /\ Spent = 0
  BY DEF Init, Orphans, NoEntry, Doomed, Filling, Filing, Spent
<1>3. QuarantineFolders = {} /\ ~Reserved /\ status.quarantine = 0 /\ faults = 0
  BY DEF Init, QuarantineFolders, Reserved, InFile, Filing
<1> QED
  BY <1>1, <1>2, <1>3, FS_EmptySet
     DEF CountInv, ProcessedIsFiled, OrphanInv, QuarantineInv, QuarantineCounted

\* worker.go:127-133: across crashes, lost counter updates and retries the
\* status page never claims more processed documents than the index holds.
THEOREM CountsAreTrue == Spec => []ProcessedIsFiled
<1>1. CountInv => ProcessedIsFiled
  BY DEF CountInv, ProcessedIsFiled
<1> QED
  BY <1>1, InitCounts, CountStep, InductiveInvariant, PTL DEF Spec

\* drive.go:177-235: every library directory without a row is the work of one
\* failed call, expired file context or crash.
THEOREM OrphansAreAccounted == Spec => []OrphansAccounted
<1>1. OrphanInv => OrphansAccounted
  BY DEF OrphanInv, OrphansAccounted, Spent
<1> QED
  BY <1>1, InitCounts, OrphanStep, InductiveInvariant, PTL DEF Spec

\* pipeline.go:76-77: a file that is counted as quarantined has a folder under
\* _quarantine, or a failed call or expired file context (worker.go:100) took it.
THEOREM QuarantineIsCounted == Spec => []QuarantineCounted
<1>1. QuarantineInv => QuarantineCounted
  BY DEF QuarantineInv
<1> QED
  BY <1>1, InitCounts, QuarantineStep, InductiveInvariant, PTL DEF Spec

-----------------------------------------------------------------------------
(* DriveIngest implements ScanLoop: initial states map to initial states, and *)
(* every step to a step or to a stutter.                                     *)

\* A file that was never uploaded has not settled.
AbsentInv == \A f \in Files : drive[f].place = "absent" => ~drive[f].stable

\* What ScanLoop sees of the inbox and of the scan cache.
Place   == [f \in Files |-> drive[f].place]
Settled == {f \in Files : drive[f].stable}
Cache   == [n \in Names |-> IF scanFiles[n] = None THEN None ELSE scanFiles[n].id]

\* Steps that leave alone what ScanLoop sees.
LEMMA Stutters ==
    ASSUME UNCHANGED <<drive, requests, shutting, pending, scanFiles, current>>,
           LoopStep' = LoopStep
    PROVE  UNCHANGED Scan!vars
<1>1. Place' = Place /\ Settled' = Settled /\ Cache' = Cache
  BY DEF Place, Settled, Cache
<1> QED
  BY <1>1 DEF Scan!vars, Scan!inbox, Scan!loop, Place, Settled, Cache

\* The steps of those who share the folder.
LEMMA EnvironmentStep ==
    ASSUME TypeOK, AbsentInv, Environment PROVE [Scan!Next]_(Scan!vars)
<1>1. PICK f \in Files : Settle(f) \/ Delete(f)
                         \/ \E c \in Contents : Upload(f, c) \/ Edit(f, c)
  BY DEF Environment
<1>2. UNCHANGED <<requests, shutting, pc, pending, scanFiles, current>>
  BY <1>1 DEF Settle, Delete, Upload, Edit, job
<1>3. Cache' = Cache /\ LoopStep' = LoopStep
  BY <1>2 DEF Cache, LoopStep
<1>4. UNCHANGED Scan!loop /\ UNCHANGED <<requests, shutting>>
  BY <1>2, <1>3 DEF Scan!loop, Cache
<1>5. CASE Settle(f)
  <2>1. drive[f].place = "inbox" /\ ~drive[f].stable
        /\ drive' = [drive EXCEPT ![f].stable = TRUE]
    BY <1>5 DEF Settle
  <2>2. Place' = Place
    BY <2>1 DEF Place, TypeOK, InboxFile
  <2>3. Settled' = Settled \cup {f} /\ f \notin Settled /\ Place[f] = "inbox"
    BY <2>1 DEF Place, Settled, TypeOK, InboxFile
  <2>4. Scan!Settle(f)
    BY <1>4, <2>2, <2>3 DEF Scan!Settle, Place, Settled
  <2> QED
    BY <2>4 DEF Scan!Next, Scan!Environment
<1>6. CASE Delete(f)
  <2>1. drive[f].place = "inbox" /\ drive' = [drive EXCEPT ![f].place = "gone"]
    BY <1>6 DEF Delete
  <2>2. Place' = [Place EXCEPT ![f] = "gone"] /\ Place[f] = "inbox"
    BY <2>1 DEF Place, TypeOK, InboxFile
  <2>3. Settled' = Settled
    BY <2>1 DEF Settled, TypeOK, InboxFile
  <2>4. Scan!Remove(f)
    BY <1>4, <2>2, <2>3 DEF Scan!Remove, Place, Settled
  <2> QED
    BY <2>4 DEF Scan!Next, Scan!Environment
<1>7. ASSUME NEW c \in Contents, Upload(f, c) PROVE Scan!Arrive(f)
  <2>1. drive[f].place = "absent" /\ ~drive[f].stable
        /\ drive' = [drive EXCEPT ![f] = [place |-> "inbox", content |-> c,
                                          rev |-> 0, stable |-> FALSE]]
    BY <1>7 DEF Upload, AbsentInv
  <2>2. Place' = [Place EXCEPT ![f] = "inbox"] /\ Place[f] = "absent"
    BY <2>1 DEF Place, TypeOK, InboxFile
  <2>3. Settled' = Settled
    BY <2>1 DEF Settled, TypeOK, InboxFile
  <2> QED
    BY <1>4, <2>2, <2>3 DEF Scan!Arrive, Place, Settled
<1>8. ASSUME NEW c \in Contents, Edit(f, c) PROVE Scan!Touch(f)
  <2>1. drive[f].place = "inbox"
        /\ drive' = [drive EXCEPT ![f] = [place |-> "inbox", content |-> c,
                                          rev |-> @.rev + 1, stable |-> FALSE]]
    BY <1>8 DEF Edit
  <2>2. Place' = Place /\ Place[f] = "inbox"
    BY <2>1 DEF Place, TypeOK, InboxFile
  <2>3. Settled' = Settled \ {f}
    BY <2>1 DEF Settled, TypeOK, InboxFile
  <2> QED
    BY <1>4, <2>2, <2>3 DEF Scan!Touch, Place, Settled
<1> QED
  BY <1>1, <1>5, <1>6, <1>7, <1>8 DEF Scan!Next, Scan!Environment

\* The triggers, shutdown, crash and restart.
LEMMA ProcessStep ==
    ASSUME TypeOK, Enqueue \/ Signal \/ Expire \/ Crash \/ Restart \/ StopRun
    PROVE  [Scan!Next]_(Scan!vars)
<1>1. UNCHANGED drive
  BY DEF Enqueue, Signal, Expire, Crash, Restart, StopRun, bounds
<1>2. Place' = Place /\ Settled' = Settled
  BY <1>1 DEF Place, Settled
<1>3. UNCHANGED Scan!inbox
  BY <1>2 DEF Scan!inbox, Place, Settled
<1>4. ASSUME UNCHANGED scanFiles PROVE Cache' = Cache
  BY <1>4 DEF Cache
<1>5. CASE Enqueue
  <2>1. UNCHANGED <<shutting, pc, pending, scanFiles, current>>
    BY <1>5 DEF Enqueue, job
  <2>2. LoopStep' = LoopStep /\ (pc # "down" => LoopStep # "down")
    BY <2>1 DEF LoopStep
  <2>3. UNCHANGED <<Scan!loop, shutting>>
    BY <1>4, <2>1, <2>2 DEF Scan!loop, Cache
  <2>4. Scan!Enqueue
    BY <1>3, <1>5, <2>2, <2>3 DEF Enqueue, Scan!Enqueue, ScanChanCap, Scan!ScanChanCap
  <2> QED
    BY <2>4 DEF Scan!Next
<1>6. CASE Signal
  <2>1. UNCHANGED <<requests, pc, pending, scanFiles, current>>
    BY <1>6 DEF Signal, job
  <2>2. LoopStep' = LoopStep /\ (pc # "down" => LoopStep # "down")
    BY <2>1 DEF LoopStep
  <2>3. UNCHANGED <<Scan!loop, requests>>
    BY <1>4, <2>1, <2>2 DEF Scan!loop, Cache
  <2>4. Scan!Signal
    BY <1>3, <1>6, <2>2, <2>3 DEF Signal, Scan!Signal
  <2> QED
    BY <2>4 DEF Scan!Next
<1>7. CASE Expire
  <2>1. UNCHANGED <<drive, requests, shutting, pc, pending, scanFiles, current>>
    BY <1>7 DEF Expire
  <2>2. LoopStep' = LoopStep
    BY <2>1 DEF LoopStep
  <2> QED
    BY <2>1, <2>2, Stutters
<1>8. ASSUME LoseMemory PROVE Scan!Die
  <2>1. Cache' = [n \in Names |-> None]
    BY <1>8 DEF LoseMemory, Cache
  <2>2. LoopStep' = "down"
    BY <1>8 DEF LoseMemory, LoopStep, InFile, Filing
  <2>3. pending' = {} /\ current' = None /\ requests' = 0
    BY <1>8 DEF LoseMemory
  <2>4. shutting' = FALSE
    BY <1>8 DEF LoseMemory
  <2> QED
    BY <1>3, <2>1, <2>2, <2>3, <2>4
       DEF Scan!Die, Scan!NoCache, Scan!Names, Names, Cache
<1>9. CASE Crash
  <2>1. LoopStep # "down"
    BY <1>9 DEF Crash, LoopStep
  <2> QED
    BY <1>8, <1>9, <2>1 DEF Crash, Scan!Crash, Scan!Next
<1>10. CASE StopRun
  <2>1. LoopStep = "idle" /\ shutting
    BY <1>10 DEF StopRun, LoopStep, InFile, Filing
  <2> QED
    BY <1>8, <1>10, <2>1 DEF StopRun, Scan!Stop, Scan!Worker, Scan!Next
<1>11. CASE Restart
  <2>1. UNCHANGED <<shutting, pending, scanFiles, current>> /\ requests' = 1
    BY <1>11 DEF Restart, job
  <2>2. LoopStep = "down" /\ LoopStep' = "idle"
    BY <1>11 DEF Restart, LoopStep, InFile, Filing
  <2>3. Scan!Restart
    BY <1>3, <1>4, <2>1, <2>2 DEF Scan!Restart, Cache
  <2> QED
    BY <2>3 DEF Scan!Next
<1> QED
  BY <1>5, <1>6, <1>7, <1>9, <1>10, <1>11

\* The listing, the files taken from it and the ends of a scan.
LEMMA LoopStepStep ==
    ASSUME TypeOK, RunLoop PROVE [Scan!Next]_(Scan!vars)
<1>0. ASSUME ~StopRun PROVE UNCHANGED drive
  BY <1>0 DEF RunLoop, StartScan, ListInbox, ListFails, AbandonScan, RecordPoll,
              StartFile
<1>1. ASSUME ~StopRun PROVE Place' = Place /\ Settled' = Settled /\ UNCHANGED Scan!inbox
  <2>1. Place' = Place /\ Settled' = Settled
    BY <1>0, <1>1 DEF Place, Settled
  <2> QED
    BY <2>1 DEF Scan!inbox, Place, Settled
<1>2. ASSUME UNCHANGED scanFiles PROVE Cache' = Cache
  BY <1>2 DEF Cache
<1>3. CASE StopRun
  BY <1>3, ProcessStep
<1>4. CASE ~StopRun /\ StartScan
  <2>1. /\ UNCHANGED <<shutting, pending, scanFiles, current>>
        /\ requests > 0 /\ requests' = requests - 1
    BY <1>4 DEF StartScan, job
  <2>2. LoopStep = "idle" /\ LoopStep' = "list"
    BY <1>4 DEF StartScan, Goto, LoopStep, InFile, Filing
  <2>3. Scan!Take
    BY <1>1, <1>2, <1>4, <2>1, <2>2 DEF Scan!Take, Cache
  <2> QED
    BY <2>3 DEF Scan!Worker, Scan!Next
<1>5. CASE ~StopRun /\ ListInbox
  <2>1. UNCHANGED <<requests, shutting, current>> /\ ~shutting
        /\ pending' = UNION {Listed(n) : n \in Names}
    BY <1>5 DEF ListInbox, bounds
  <2>2. LoopStep = "list" /\ LoopStep' = "next"
    BY <1>5 DEF ListInbox, Goto, LoopStep, InFile, Filing
  <2>3. Scan!Visible = {f \in Files : drive[f].place = "inbox" /\ drive[f].stable}
    BY DEF Scan!Visible
  <2>4. ASSUME NEW n \in Names PROVE Scan!Named(n) = Listed(n)
    BY <2>3 DEF Scan!Named, Listed
  <2>5. UNION {Listed(n) : n \in Names} = Scan!Visible
    BY <2>3 DEF Listed, Names
  <2>6. PICK last \in [Names -> Files \cup {None}] :
          /\ \A n \in Names : IF Listed(n) = {} THEN last[n] = None
                                                ELSE last[n] \in Listed(n)
          /\ scanFiles' = [n \in Names |->
                IF last[n] = None THEN None
                ELSE [id |-> last[n], rev |-> drive[last[n]].rev]]
    BY <1>5 DEF ListInbox
  <2>7. \A n \in Names : last[n] # None =>
            [id |-> last[n], rev |-> drive[last[n]].rev] # None
    <3> SUFFICES ASSUME NEW n \in Names, last[n] # None
                 PROVE  [id |-> last[n], rev |-> drive[last[n]].rev] \in CachedFile
      BY ValuesAssumption
    <3>1. last[n] \in Files
      BY <2>6
    <3>2. drive[last[n]].rev \in 0..MaxEdits
      BY <3>1 DEF TypeOK, InboxFile
    <3> QED
      BY <3>1, <3>2 DEF CachedFile
  <2>8. Cache' = last
    BY <2>6, <2>7 DEF Cache
  <2>9. \A n \in Names : IF Scan!Named(n) = {} THEN last[n] = None
                                               ELSE last[n] \in Scan!Named(n)
    BY <2>4, <2>6
  <2>10. Scan!Names = Names
    BY DEF Scan!Names, Names
  <2>11. \A n \in Names : Scan!Named(n) # {} =>
            \A f \in Scan!Named(n) : [g \in Files |-> 0][f] <= [g \in Files |-> 0][last[n]]
    <3> SUFFICES ASSUME NEW n \in Names, Scan!Named(n) # {}, NEW f \in Scan!Named(n)
                 PROVE  f \in Files /\ last[n] \in Files
      OBVIOUS
    <3> QED
      BY <2>4, <2>9 DEF Listed
  <2>12. Scan!List
    BY <1>1, <1>5, <2>1, <2>2, <2>5, <2>8, <2>9, <2>10, <2>11 DEF Scan!List, Cache
  <2> QED
    BY <2>12 DEF Scan!Worker, Scan!Next
<1>6. CASE ~StopRun /\ ListFails
  <2>1. UNCHANGED <<requests, shutting, pending, scanFiles, current>>
    BY <1>6 DEF ListFails, job
  <2>2. LoopStep = "list" /\ LoopStep' = "idle"
    BY <1>6 DEF ListFails, Goto, LoopStep, InFile, Filing
  <2>3. Scan!ListFails
    BY <1>1, <1>2, <1>6, <2>1, <2>2 DEF Scan!ListFails, Cache
  <2> QED
    BY <2>3 DEF Scan!Worker, Scan!Next
<1>7. CASE ~StopRun /\ (AbandonScan \/ RecordPoll)
  <2>1. UNCHANGED <<requests, shutting, scanFiles, current>>
        /\ (pending = {} \/ shutting) /\ pending' = {}
    BY <1>7 DEF AbandonScan, RecordPoll
  <2>2. LoopStep = "next" /\ LoopStep' = "idle"
    BY <1>7 DEF AbandonScan, RecordPoll, Goto, LoopStep, InFile, Filing
  <2>3. Scan!EndScan
    BY <1>1, <1>2, <1>7, <2>1, <2>2 DEF Scan!EndScan, Cache
  <2> QED
    BY <2>3 DEF Scan!Worker, Scan!Next
<1>8. ASSUME ~StopRun, NEW f \in Files, StartFile(f) PROVE [Scan!Next]_(Scan!vars)
  <2>1. UNCHANGED <<requests, shutting, scanFiles>> /\ ~shutting /\ f \in pending
        /\ pending' = pending \ {f} /\ current' = NameOf[f]
    BY <1>8 DEF StartFile
  <2>2. LoopStep = "next" /\ LoopStep' = "busy"
    BY <1>8 DEF StartFile, Goto, LoopStep, InFile, Filing
  <2>3. Scan!Begin(f)
    BY <1>1, <1>2, <1>8, <2>1, <2>2 DEF Scan!Begin, Cache
  <2> QED
    BY <2>3 DEF Scan!Worker, Scan!Next
<1> QED
  BY <1>3, <1>4, <1>5, <1>6, <1>7, <1>8 DEF RunLoop

\* Inside a file only the move to the processed folder is seen.
LEMMA FileStep ==
    ASSUME IInv, ProcessOne PROVE [Scan!Next]_(Scan!vars)
<1>0. TypeOK /\ ScanInv
  BY DEF IInv
<1>1. CASE MoveToProcessed
  <2>1. /\ pc = "move" /\ pc' = "report"
        /\ UNCHANGED <<requests, shutting, pending, scanFiles, current>>
    BY <1>1 DEF MoveToProcessed, Goto
  <2>2. LoopStep = "busy" /\ LoopStep' = "busy"
    BY <2>1 DEF LoopStep, InFile, Filing
  <2>3. /\ current \in Names /\ scanFiles[current] # None
        /\ Held \in Files /\ drive[Held].place # "absent"
    BY <1>0, <2>1 DEF ScanInv, TypeOK, InFile, Filing, Held, CachedFile
  <2>4. CASE UNCHANGED drive
    BY <2>1, <2>2, <2>4, Stutters
  <2>5. CASE /\ drive[Held].place # "gone"
             /\ drive' = [drive EXCEPT ![Held].place = "processed"]
    <3>1. Settled' = Settled
      BY <1>0, <2>3, <2>5 DEF Settled, TypeOK, InboxFile
    <3>2. Cache' = Cache /\ Cache[current] = Held
      BY <2>1, <2>3 DEF Cache, Held
    <3>3. UNCHANGED <<Scan!loop, requests, shutting>>
      BY <2>1, <2>2, <3>2 DEF Scan!loop, Cache
    <3>4. Place' = [Place EXCEPT ![Held] = "processed"] /\ Place[Held] = drive[Held].place
      BY <1>0, <2>3, <2>5 DEF Place, TypeOK, InboxFile
    <3>5. CASE drive[Held].place = "inbox"
      <4>1. PICK f \in Files : f = Held
        BY <2>3
      <4>2. Scan!Move(f)
        BY <2>2, <2>3, <3>1, <3>2, <3>3, <3>4, <3>5, <4>1
           DEF Scan!Move, Place, Settled, Cache
      <4> QED
        BY <4>2 DEF Scan!Next
    <3>6. CASE drive[Held].place = "processed"
      <4>1. Place' = Place
        BY <2>3, <3>4, <3>6 DEF Place
      <4>2. UNCHANGED Scan!inbox
        BY <3>1, <4>1 DEF Scan!inbox, Place, Settled
      <4> QED
        BY <3>3, <4>2 DEF Scan!vars
    <3> QED
      BY <1>0, <2>3, <2>5, <3>5, <3>6 DEF TypeOK, InboxFile
  <2> QED
    BY <1>1, <2>4, <2>5 DEF MoveToProcessed
<1>2. CASE Report
  <2>1. UNCHANGED <<drive, requests, shutting, pending, scanFiles>> /\ current' = None
    BY <1>2 DEF Report
  <2>2. LoopStep = "busy" /\ LoopStep' = "next"
    BY <1>2 DEF Report, Goto, LoopStep, InFile, Filing
  <2>3. Place' = Place /\ Settled' = Settled /\ Cache' = Cache
    BY <2>1 DEF Place, Settled, Cache
  <2>4. UNCHANGED Scan!inbox
    BY <2>3 DEF Scan!inbox, Place, Settled
  <2>5. Scan!Finish
    BY <2>1, <2>2, <2>3, <2>4 DEF Scan!Finish, Cache
  <2> QED
    BY <2>5 DEF Scan!Worker, Scan!Next
<1>3. CASE Recheck \/ Download \/ IsDuplicate \/ RunOCR \/ RunClassify
           \/ RunValidate \/ CreateFolder \/ UploadPDF \/ UploadTranscript
           \/ UploadMetadata \/ PutDocument \/ Quarantine
  <2>1. UNCHANGED fileState
    BY <1>3 DEF Recheck, Download, IsDuplicate, RunOCR, RunClassify, RunValidate,
                CreateFolder, UploadPDF, UploadTranscript, UploadMetadata,
                UploadPart, PutDocument, Quarantine
  <2>2. pc \in InFile /\ pc' \in InFile
    BY <1>3 DEF Recheck, Download, IsDuplicate, RunOCR, RunClassify, RunValidate,
                CreateFolder, UploadPDF, UploadTranscript, UploadMetadata,
                UploadPart, PutDocument, Quarantine, StageFails, Goto, InFile, Filing
  <2>3. LoopStep' = LoopStep
    BY <2>2 DEF LoopStep
  <2> QED
    BY <2>1, <2>3, Stutters DEF fileState
<1> QED
  BY <1>1, <1>2, <1>3 DEF ProcessOne

\* Every step, crashes and failures included, is one of the loop or a stutter.
LEMMA LoopImplemented ==
    IInv /\ AbsentInv /\ [Next]_vars => [Scan!Next]_(Scan!vars)
<1> SUFFICES ASSUME IInv, AbsentInv, [Next]_vars PROVE [Scan!Next]_(Scan!vars)
  OBVIOUS
<1>0. TypeOK
  BY DEF IInv
<1>1. CASE UNCHANGED vars
  <2>1. UNCHANGED <<drive, requests, shutting, pc, pending, scanFiles, current>>
    BY <1>1 DEF vars, job
  <2>2. LoopStep' = LoopStep
    BY <2>1 DEF LoopStep
  <2> QED
    BY <2>1, <2>2, Stutters
<1> QED
  BY <1>0, <1>1, EnvironmentStep, ProcessStep, LoopStepStep, FileStep DEF Next

\* Only the upload and the moves touch a file's place, and none of them makes
\* it absent.
LEMMA AbsentStep == IInv /\ AbsentInv /\ [Next]_vars => AbsentInv'
<1> SUFFICES ASSUME IInv, AbsentInv, [Next]_vars PROVE AbsentInv'
  OBVIOUS
<1>0. TypeOK /\ ScanInv
  BY DEF IInv
<1> USE DEF AbsentInv
<1>1. CASE UNCHANGED drive
  BY <1>1
<1>2. CASE Environment
  <2>1. ASSUME NEW f \in Files, Settle(f) \/ Delete(f) PROVE AbsentInv'
    BY <1>0, <2>1 DEF Settle, Delete, TypeOK, InboxFile
  <2>2. ASSUME NEW f \in Files, NEW c \in Contents, Upload(f, c) \/ Edit(f, c)
        PROVE  AbsentInv'
    BY <1>0, <2>2 DEF Upload, Edit, TypeOK, InboxFile
  <2> QED
    BY <1>2, <2>1, <2>2 DEF Environment
<1>3. CASE MoveToProcessed
  <2>1. Held \in Files
    BY <1>0, <1>3 DEF MoveToProcessed, ScanInv, TypeOK, InFile, Filing, Held, CachedFile
  <2> QED
    BY <1>0, <1>3, <2>1 DEF MoveToProcessed, TypeOK, InboxFile
<1>4. CASE Enqueue \/ Signal \/ Expire \/ Crash \/ Restart \/ RunLoop
  BY <1>1, <1>4 DEF Enqueue, Signal, Expire, Crash, Restart, RunLoop, StopRun,
     StartScan, ListInbox, ListFails, AbandonScan, RecordPoll, StartFile, bounds
<1>5. CASE Recheck \/ Download \/ IsDuplicate \/ RunOCR \/ RunClassify
           \/ RunValidate \/ CreateFolder \/ UploadPDF \/ UploadTranscript
           \/ UploadMetadata \/ PutDocument \/ Quarantine \/ Report
  BY <1>1, <1>5 DEF Recheck, Download, IsDuplicate, RunOCR, RunClassify,
     RunValidate, CreateFolder, UploadPDF, UploadTranscript, UploadMetadata,
     UploadPart, PutDocument, Quarantine, Report, fileState
<1>6. CASE UNCHANGED vars
  BY <1>1, <1>6 DEF vars
<1> QED
  BY <1>2, <1>3, <1>4, <1>5, <1>6 DEF Next, ProcessOne

\* The daemon starts as the loop does: nothing uploaded, one scan requested.
LEMMA InitMaps == Init => Scan!Init /\ AbsentInv
<1> SUFFICES ASSUME Init PROVE Scan!Init /\ AbsentInv
  OBVIOUS
<1>1. Place = [f \in Files |-> "absent"] /\ Settled = {} /\ AbsentInv
  BY DEF Init, NoFile, Place, Settled, AbsentInv
<1>2. Cache = Scan!NoCache
  BY DEF Init, Cache, Scan!NoCache, Scan!Names, Names
<1>3. LoopStep = "idle" /\ requests = 1 /\ pending = {} /\ current = None
  BY DEF Init, LoopStep, InFile, Filing
<1>4. shutting = FALSE
  BY DEF Init
<1>5. Scan!Init
  BY <1>1, <1>2, <1>3, <1>4 DEF Scan!Init, Place, Settled, Cache
<1> QED
  BY <1>1, <1>5

-----------------------------------------------------------------------------
(* The theorem.                                                              *)

\* worker.go, pipeline.go and drive.go, call by call, implement the scan loop:
\* whatever fails, expires or crashes, every step is one of the loop's or
\* leaves alone the inbox, the queue, the cache and the shutdown.
THEOREM LoopIsImplemented == Spec => ImplementsScanLoop
<1>1. AbsentInv /\ IInv /\ [Next]_vars => AbsentInv' /\ [Scan!Next]_(Scan!vars)
  BY AbsentStep, LoopImplemented
<1> QED
  BY <1>1, InitMaps, InductiveInvariant, PTL
     DEF Spec, ImplementsScanLoop, Scan!SafetySpec

=============================================================================
