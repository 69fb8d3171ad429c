------------------------------ MODULE ScanLoop ------------------------------
(***************************************************************************)
(* The control of the scan worker (internal/serve/worker.go) and of the    *)
(* goroutines that trigger it, without the pipeline inside a file: which   *)
(* inbox files a scan reaches, how requests coalesce, how the loop stops.  *)
(* It has no bounds, so that liveness can be checked; DriveIngest          *)
(* implements it.                                                          *)
(***************************************************************************)
EXTENDS Naturals, FiniteSets

CONSTANTS
    Files,     \* Drive file ids
    NameOf,    \* NameOf[f]: the file name of f
    Listing,   \* Listing[f]: position of f in Drive's listing order, or
               \* one value for all when the order may change at every call
    Stuck,     \* files whose processing never moves them: always quarantined,
               \* or duplicates of a filed content
    MayFail,   \* whether Drive may refuse a listing while the daemon is up
    None

ASSUME ListingAssumption ==
    Listing \in [Files -> Nat] /\ Stuck \subseteq Files /\ None \notin Files
    /\ MayFail \in BOOLEAN

VARIABLES
    place,      \* where the inbox file is
    settled,    \* the files older than the stable threshold, with a checksum
    requests,   \* tokens in the scan-request channel
    shutting,   \* the daemon's context is done
    pc,         \* "idle", "list", "next", "busy" with a file, or "down"
    pending,    \* positions of the listing not yet processed
    cache,      \* scan cache: name -> file id
    current     \* name being processed

inbox == <<place, settled>>
loop  == <<pc, pending, cache, current>>
vars  == <<inbox, requests, shutting, loop>>

Names == {NameOf[f] : f \in Files}
ScanChanCap == 1

NoCache == [n \in Names |-> None]

Init ==
    /\ place = [f \in Files |-> "absent"] /\ settled = {}
    /\ requests = 1 /\ shutting = FALSE
    /\ pc = "idle" /\ pending = {} /\ cache = NoCache /\ current = None

-----------------------------------------------------------------------------
(* The inbox.                                                              *)

Arrive(f) ==
    /\ place[f] = "absent"
    /\ place' = [place EXCEPT ![f] = "inbox"]
    /\ UNCHANGED <<settled, requests, shutting, loop>>

Settle(f) ==
    /\ place[f] = "inbox" /\ f \notin settled
    /\ settled' = settled \cup {f}
    /\ UNCHANGED <<place, requests, shutting, loop>>

Touch(f) ==
    /\ place[f] = "inbox"
    /\ settled' = settled \ {f}
    /\ UNCHANGED <<place, requests, shutting, loop>>

Remove(f) ==
    /\ place[f] = "inbox"
    /\ place' = [place EXCEPT ![f] = "gone"]
    /\ UNCHANGED <<settled, requests, shutting, loop>>

-----------------------------------------------------------------------------
(* Triggers and the process.                                               *)

\* Mutant: a send that does not respect the channel's capacity.
UncappedEnqueue ==
    /\ pc # "down" /\ requests <= ScanChanCap
    /\ requests' = requests + 1
    /\ UNCHANGED <<inbox, shutting, loop>>

\* A full channel drops the request: the queued scan covers it.
Enqueue ==
    /\ pc # "down" /\ requests < ScanChanCap
    /\ requests' = requests + 1
    /\ UNCHANGED <<inbox, shutting, loop>>

Signal ==
    /\ pc # "down" /\ ~shutting
    /\ shutting' = TRUE
    /\ UNCHANGED <<inbox, requests, loop>>

Die ==
    /\ pc' = "down" /\ requests' = 0 /\ shutting' = FALSE
    /\ pending' = {} /\ cache' = NoCache /\ current' = None
    /\ UNCHANGED inbox

Crash == pc # "down" /\ Die

Restart ==
    /\ pc = "down" /\ pc' = "idle" /\ requests' = 1
    /\ UNCHANGED <<inbox, shutting, pending, cache, current>>

-----------------------------------------------------------------------------
(* Worker.Run and Worker.runScan.                                          *)

\* Mutant: the loop ends only when no request is left.
StopWhenDrained == pc = "idle" /\ shutting /\ requests = 0 /\ Die

Stop == pc = "idle" /\ shutting /\ Die

Take ==
    /\ pc = "idle" /\ requests > 0
    /\ requests' = requests - 1 /\ pc' = "list"
    /\ UNCHANGED <<inbox, shutting, pending, cache, current>>

Visible == {f \in Files : place[f] = "inbox" /\ f \in settled}
Named(n) == {f \in Visible : NameOf[f] = n}

\* The cache keeps, of the files of one name, the one listed last.
List ==
    /\ pc = "list" /\ ~shutting
    /\ pending' = Visible
    /\ cache' \in [Names -> Files \cup {None}]
    /\ \A n \in Names :
          IF Named(n) = {} THEN cache'[n] = None
          ELSE /\ cache'[n] \in Named(n)
               /\ \A f \in Named(n) : Listing[f] <= Listing[cache'[n]]
    /\ pc' = "next"
    /\ UNCHANGED <<inbox, requests, shutting, current>>

\* Drive is unreachable or unauthenticated, or the daemon is stopping.
ListFails ==
    /\ pc = "list" /\ (shutting \/ MayFail)
    /\ pc' = "idle"
    /\ UNCHANGED <<inbox, requests, shutting, pending, cache, current>>

Begin(f) ==
    /\ pc = "next" /\ ~shutting /\ f \in pending
    /\ pending' = pending \ {f} /\ current' = NameOf[f] /\ pc' = "busy"
    /\ UNCHANGED <<inbox, requests, shutting, cache>>

\* MoveToProcessed, the last effect of a successful ProcessOne.
Move(f) ==
    /\ pc = "busy" /\ f = cache[current] /\ f \notin Stuck
    /\ place[f] = "inbox"
    /\ place' = [place EXCEPT ![f] = "processed"]
    /\ UNCHANGED <<settled, requests, shutting, loop>>

\* Mutant: the scan given up at the first file that fails.
FinishOrGiveUp ==
    /\ pc = "busy" /\ current' = None
    /\ pc' = "idle" /\ pending' = IF place[cache[current]] = "inbox" THEN {}
                                                                   ELSE pending
    /\ UNCHANGED <<inbox, requests, shutting, cache>>

\* ProcessOne returns: filed, skipped, quarantined or failed.
Finish ==
    /\ pc = "busy" /\ pc' = "next" /\ current' = None
    /\ UNCHANGED <<inbox, requests, shutting, pending, cache>>

\* Mutant: the channel drained at the end of the scan.
DrainAndEnd ==
    /\ pc = "next" /\ (pending = {} \/ shutting)
    /\ pc' = "idle" /\ pending' = {} /\ requests' = 0
    /\ UNCHANGED <<inbox, shutting, cache, current>>

\* The scan is through, or abandoned between two files by a shutdown.
EndScan ==
    /\ pc = "next" /\ (pending = {} \/ shutting)
    /\ pc' = "idle" /\ pending' = {}
    /\ UNCHANGED <<inbox, requests, shutting, cache, current>>

Environment ==
    \E f \in Files : Arrive(f) \/ Settle(f) \/ Touch(f) \/ Remove(f)

Worker ==
    \/ Stop \/ Take \/ List \/ ListFails \/ Finish \/ EndScan
    \/ \E f \in Files : Begin(f)

Next ==
    \/ Environment \/ Enqueue \/ Signal \/ Crash \/ Restart \/ Worker
    \/ \E f \in Files : Move(f)

\* The worker goroutine always takes its next step, and Go's select does not
\* prefer the request to the cancelled context for ever.
WorkerFairness == WF_vars(Worker) /\ SF_vars(Stop)

\* The poll ticker keeps ticking; Drive answers a listing again and again,
\* and a file that is tried again and again is one day filed.
DaemonFairness ==
    /\ WF_vars(Enqueue) /\ SF_vars(List)
    /\ \A f \in Files : SF_vars(Move(f))

SafetySpec == Init /\ [][Next]_vars

\* What holds of the worker whatever Drive and the ticker do.
WorkerSpec == SafetySpec /\ WorkerFairness
Spec       == WorkerSpec /\ DaemonFairness

-----------------------------------------------------------------------------
(* Properties.                                                             *)

TypeOK ==
    /\ place \in [Files -> {"absent", "inbox", "processed", "gone"}]
    /\ settled \subseteq Files
    /\ requests \in 0..ScanChanCap /\ shutting \in BOOLEAN
    /\ pc \in {"idle", "list", "next", "busy", "down"}
    /\ pending \subseteq Files
    /\ cache \in [Names -> Files \cup {None}]
    /\ current \in Names \cup {None}

\* The daemon is up and not asked to stop from some time on.
StaysUp == <>[](pc # "down" /\ ~shutting)

\* worker.go:48-49: a request that is sent, or dropped because one is queued,
\* leads to a listing that begins while every file that was ready when it was
\* made is in the inbox, ticker or no ticker.  No trigger is lost between the
\* queue, the scan and its end.
TriggerIsServed ==
    StaysUp => \A f \in Files :
        (requests > 0 /\ f \in Visible) ~> (f \notin Visible \/ pc = "list")

\* Every ready file that can be filed is filed, if it is left alone, whatever
\* other files fail next to it.  Files of one name hide each other in the scan
\* cache (drive.go:126), in any order the listings take, and are filed one after
\* the other all the same, unless one of that name is stuck.
Hidden(f) == \E g \in Stuck : NameOf[g] = NameOf[f]
EventuallyFiled ==
    DaemonFairness /\ StaysUp => \A f \in Files : ~Hidden(f) =>
        (f \in Visible ~> f \notin Visible)

\* After a signal the worker, and with it the process, ends: it does not take
\* up the rest of the scan or the requests still coming in (worker.go:60-86).
ShutdownEnds == shutting ~> pc = "down"

=============================================================================
