--------------------------- MODULE ScanLoopProofs ---------------------------
(* The control of the scan worker keeps its types, whatever the files are.   *)
EXTENDS ScanLoop, TLAPS

-----------------------------------------------------------------------------
(* The inductive invariant.                                                  *)

\* A name being processed is one that the listing has put into the cache, and
\* the positions still to be processed are of such names.
CacheInv ==
    /\ \A f \in pending : cache[NameOf[f]] # None
    /\ pc = "busy" => current \in Names /\ cache[current] # None
    /\ pc \notin {"next", "busy"} => pending = {}
    /\ pc # "busy" => current = None

IInv == TypeOK /\ CacheInv

-----------------------------------------------------------------------------
(* The steps.                                                                *)

LEMMA InitTyped == Init => IInv
<1> SUFFICES ASSUME Init PROVE IInv
  OBVIOUS
<1>1. NoCache \in [Names -> Files \cup {None}]
  BY DEF NoCache
<1>2. CacheInv
  BY DEF Init, CacheInv
<1>3. shutting \in BOOLEAN
  BY DEF Init
<1>4. requests \in 0..ScanChanCap
  BY DEF Init, ScanChanCap
<1>5. place \in [Files -> {"absent", "inbox", "processed", "gone"}]
  BY DEF Init
<1> QED
  BY <1>1, <1>2, <1>3, <1>4, <1>5 DEF Init, IInv, TypeOK

LEMMA EnvironmentTyped ==
    ASSUME IInv, Environment PROVE IInv'
<1> PICK f \in Files : Arrive(f) \/ Settle(f) \/ Touch(f) \/ Remove(f)
  BY DEF Environment
<1>1. UNCHANGED <<requests, shutting, pc, pending, cache, current>>
  BY DEF Arrive, Settle, Touch, Remove, loop
<1>2. place' \in [Files -> {"absent", "inbox", "processed", "gone"}] /\ settled' \subseteq Files
  BY DEF IInv, TypeOK, Arrive, Settle, Touch, Remove
<1> QED
  BY <1>1, <1>2 DEF IInv, TypeOK, CacheInv, Names

LEMMA TriggersTyped ==
    ASSUME IInv, Enqueue \/ Signal \/ Crash \/ Stop \/ Restart PROVE IInv'
<1>1. CASE Enqueue
  BY <1>1 DEF IInv, TypeOK, CacheInv, Enqueue, inbox, loop, ScanChanCap
<1>2. CASE Signal
  BY <1>2 DEF IInv, TypeOK, CacheInv, Signal, inbox, loop
<1>3. CASE Crash \/ Stop
  <2>1. NoCache \in [Names -> Files \cup {None}]
    BY DEF NoCache
  <2>2. CacheInv'
    BY <1>3 DEF CacheInv, Crash, Stop, Die
  <2>3. shutting' \in BOOLEAN
    BY <1>3 DEF Crash, Stop, Die
  <2>4. requests' \in 0..ScanChanCap
    BY <1>3 DEF Crash, Stop, Die, ScanChanCap
  <2> QED
    BY <1>3, <2>1, <2>2, <2>3, <2>4 DEF IInv, TypeOK, Crash, Stop, Die, inbox
<1>4. CASE Restart
  BY <1>4 DEF IInv, TypeOK, CacheInv, Restart, inbox, ScanChanCap
<1> QED
  BY <1>1, <1>2, <1>3, <1>4

LEMMA ListTyped == ASSUME IInv, List PROVE IInv'
<1>1. pending' \subseteq Files
  BY DEF List, Visible
<1>2. ASSUME NEW f \in pending' PROVE cache'[NameOf[f]] # None
  <2>1. NameOf[f] \in Names /\ f \in Named(NameOf[f])
    BY <1>1, <1>2 DEF List, Named, Names
  <2>2. cache'[NameOf[f]] \in Named(NameOf[f])
    BY <2>1 DEF List
  <2>3. cache'[NameOf[f]] \in Files
    BY <2>2 DEF Named, Visible
  <2> QED
    BY <2>3, ListingAssumption
<1>3. cache' \in [Names -> Files \cup {None}]
  BY DEF List
<1>4. pc = "list" /\ pc' = "next" /\ UNCHANGED <<place, settled, requests, shutting, current>>
  BY DEF List, inbox
<1> QED
  BY <1>1, <1>2, <1>3, <1>4 DEF IInv, TypeOK, CacheInv

LEMMA WorkerTyped == ASSUME IInv, Worker PROVE IInv'
<1>1. CASE Stop
  BY <1>1, TriggersTyped
<1>2. CASE Take
  <2>1. requests' \in 0..ScanChanCap
    BY <1>2 DEF IInv, TypeOK, Take, ScanChanCap
  <2> QED
    BY <1>2, <2>1 DEF IInv, TypeOK, CacheInv, Take, inbox
<1>3. CASE List
  BY <1>3, ListTyped
<1>4. CASE ListFails
  BY <1>4 DEF IInv, TypeOK, CacheInv, ListFails, inbox
<1>5. CASE Finish
  BY <1>5 DEF IInv, TypeOK, CacheInv, Finish, inbox
<1>6. CASE EndScan
  BY <1>6 DEF IInv, TypeOK, CacheInv, EndScan, inbox
<1>7. ASSUME NEW f \in Files, Begin(f) PROVE IInv'
  BY <1>7 DEF IInv, TypeOK, CacheInv, Begin, inbox, Names
<1> QED
  BY <1>1, <1>2, <1>3, <1>4, <1>5, <1>6, <1>7 DEF Worker

\* Only a file that is in the inbox is moved, by the id in the cache.
LEMMA MoveTyped == ASSUME IInv, NEW f \in Files, Move(f) PROVE IInv'
  BY DEF IInv, TypeOK, CacheInv, Move, loop

-----------------------------------------------------------------------------
(* The theorem.                                                              *)

\* TypeOK: the request channel never holds more than its capacity (worker.go:44),
\* and a scan only touches files and names that a listing gave it.
THEOREM TypeCorrect == SafetySpec => []TypeOK
<1>1. Init => IInv
  BY InitTyped
<1>2. IInv /\ [Next]_vars => IInv'
  <2> SUFFICES ASSUME IInv, [Next]_vars PROVE IInv'
    OBVIOUS
  <2>1. CASE UNCHANGED vars
    BY <2>1 DEF vars, inbox, loop, IInv, TypeOK, CacheInv
  <2>2. CASE Next
    BY <2>2, EnvironmentTyped, TriggersTyped, WorkerTyped, MoveTyped DEF Next
  <2> QED
    BY <2>1, <2>2
<1>3. IInv => TypeOK
  BY DEF IInv
<1> QED
  BY <1>1, <1>2, <1>3, PTL DEF SafetySpec

=============================================================================
