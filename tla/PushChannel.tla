----------------------------- MODULE PushChannel -----------------------------
(***************************************************************************)
(* Drive push notifications: the channel manager                           *)
(* (internal/serve/channelmgr.go) over the Drive Changes API               *)
(* (internal/storage/drive/changes.go) and the sync_state row of the       *)
(* store, with the webhook handler (internal/serverhttp/webhook.go).       *)
(*                                                                         *)
(* Times are kept as time left: Tick lowers every remaining lifetime and   *)
(* the manager's timer together.  Calls are short against one tick, so     *)
(* the clock only moves while the manager sleeps or the daemon is down.    *)
(***************************************************************************)
EXTENDS Integers, FiniteSets

CONSTANTS
    Chans,      \* channel ids; the number bounds the channels alive at once
    Grants,     \* lifetimes Drive may grant a channel (<= channelTTL)
    Lead,       \* renewLeadTime
    Retry,      \* one minute: the wait when no channel is stored
    AuthAtBoot, \* whether the OAuth flow is completed before the daemon boots
    MaxFaults,  \* bound: failing calls; calls made before authentication
                \* fail without counting
    MaxStops,   \* bound: graceful shutdowns
    MaxCrashes, \* bound: crashes
    MaxTroubles,\* bound: the three together
    MaxNotices, \* bound: notifications on their way at once
    None

ASSUME TimesAssumption ==
    /\ Grants \subseteq Nat \ {0} /\ IsFiniteSet(Grants) /\ Grants # {}
    /\ IsFiniteSet(Chans)
    /\ Lead \in Nat \ {0} /\ Retry \in Nat \ {0}
    /\ MaxFaults \in Nat /\ MaxStops \in Nat /\ MaxCrashes \in Nat
    /\ MaxTroubles \in Nat /\ MaxNotices \in Nat
    /\ AuthAtBoot \in BOOLEAN /\ None \notin Chans

VARIABLES
    auth,       \* a usable Drive client exists
    live,       \* live[c]: lifetime Drive still gives channel c, 0 when dead
    startToken, \* sync_state.start_page_token is set
    stored,     \* sync_state's channel: id (None: no row) and time left
    pc,         \* next step of the manager
    seen,       \* ChannelID of the sync state read at the top of the loop
    reg,        \* channel registered and not yet persisted
    timer,      \* time left until the renewal timer fires
    shutting,   \* the daemon's context is done
    notices,    \* channels with a change notification on its way
    requests,   \* tokens in the scan-request channel
    faults, stops, crashes   \* used-up bounds

db     == <<startToken, stored>>
mgr    == <<pc, seen, reg, timer>>
hook   == <<notices, requests>>
bounds == <<faults, stops, crashes>>
vars   == <<auth, live, db, mgr, shutting, hook, bounds>>

Lifetimes == UNION {0..g : g \in Grants}
Live      == {c \in Chans : live[c] > 0}
NoChannel == [id |-> None, left |-> 0]

Trouble == faults + stops + crashes < MaxTroubles

Minus(a, b) == IF a > b THEN a - b ELSE 0
Less(n)     == Minus(n, 1)

Init ==
    /\ auth = AuthAtBoot
    /\ live = [c \in Chans |-> 0]
    /\ startToken = FALSE /\ stored = NoChannel
    /\ pc = "token" /\ seen = None /\ reg = None /\ timer = 0
    /\ shutting = FALSE /\ notices = {} /\ requests = 0
    /\ faults = 0 /\ stops = 0 /\ crashes = 0

-----------------------------------------------------------------------------
(* Calls of the manager.                                                   *)

\* A call of Drive or of the store either works or fails.  With a context that
\* is done it fails, and so does a call of Drive before authentication.
Works(ok) == ok /\ UNCHANGED faults
Breaks    == Trouble /\ faults < MaxFaults /\ faults' = faults + 1
Fails(ok) == Breaks \/ (~ok /\ UNCHANGED faults)

DriveUp == auth /\ ~shutting
StoreUp == ~shutting
Goto(s) == pc' = s

\* ensureStartPageToken: once per Run, before the loop.
EnsureStartPageToken ==
    /\ pc = "token"
    /\ \/ startToken /\ UNCHANGED <<startToken, faults>>
       \/ ~startToken /\ Works(DriveUp) /\ startToken' = TRUE
       \/ ~startToken /\ Fails(DriveUp) /\ UNCHANGED startToken
    /\ Goto("ensure")
    /\ UNCHANGED <<auth, live, stored, seen, reg, timer, shutting, hook, stops,
                   crashes>>

\* Mutant: the expiry not looked at.
AnyChannel == stored.id # None

\* The stored channel is not yet within the renewal window.
Fresh == stored.id # None /\ stored.left > Lead

\* ensureChannel up to the call of WatchChanges.
EnsureChannel ==
    /\ pc = "ensure"
    /\ \/ ~Fresh /\ startToken /\ Works(StoreUp) /\ Goto("watch")
       \/ (Fresh \/ ~startToken) /\ Works(StoreUp) /\ Goto("loop")
       \/ Fails(StoreUp) /\ Goto("loop")
    /\ UNCHANGED <<auth, live, db, seen, reg, timer, shutting, hook, stops,
                   crashes>>

\* Registration under a fresh random id.  A failing call may still have
\* registered the channel at Drive.
WatchChanges ==
    /\ pc = "watch"
    /\ \/ \E c \in (Chans \ Live) \ {stored.id}, left \in Grants :
             /\ live' = [live EXCEPT ![c] = left]
             /\ \/ Works(DriveUp) /\ reg' = c /\ Goto("put")
                \/ DriveUp /\ Breaks /\ UNCHANGED reg /\ Goto("loop")
       \/ Fails(DriveUp) /\ UNCHANGED <<live, reg>> /\ Goto("loop")
    /\ UNCHANGED <<auth, db, seen, timer, shutting, hook, stops, crashes>>

\* A failing PutChannel is only logged: the registered channel is forgotten.
PutChannel ==
    /\ pc = "put"
    /\ \/ Works(StoreUp) /\ stored' = [id |-> reg, left |-> live[reg]]
       \/ Fails(StoreUp) /\ UNCHANGED stored
    /\ reg' = None
    /\ Goto("loop")
    /\ UNCHANGED <<auth, live, startToken, seen, timer, shutting, hook, stops,
                   crashes>>

\* Mutants: no lower bound; no lead.
UnclampedWait == IF stored.id = None THEN Retry ELSE stored.left - Lead
WaitForExpiry == IF stored.id = None THEN Retry ELSE stored.left

\* The top of the loop: how long to sleep.
Wait == IF stored.id = None THEN Retry ELSE Minus(stored.left, Lead)

\* A failing read leaves an empty sync state: no channel to wait for.
Sleep ==
    /\ pc = "loop"
    /\ \/ Works(StoreUp) /\ seen' = stored.id /\ timer' = Wait
       \/ Fails(StoreUp) /\ seen' = None /\ timer' = Retry
    /\ Goto("wait")
    /\ UNCHANGED <<auth, live, db, reg, shutting, hook, stops, crashes>>

\* StopChannel is best effort: its error is ignored.
StopChannel(c) ==
    \/ c = None /\ UNCHANGED <<live, faults>>
    \/ c # None /\ Works(auth) /\ live' = [live EXCEPT ![c] = 0]
    \/ c # None /\ Fails(auth) /\ UNCHANGED live

\* Mutant: the old channel not stopped.
RenewOnly ==
    /\ pc = "wait" /\ timer = 0 /\ ~shutting
    /\ Goto("ensure")
    /\ UNCHANGED <<auth, live, db, seen, reg, timer, shutting, hook, bounds>>

\* The timer fires: stop the old channel, then register a new one.
Renew ==
    /\ pc = "wait" /\ timer = 0 /\ ~shutting
    /\ StopChannel(seen)
    /\ Goto("ensure")
    /\ UNCHANGED <<auth, db, seen, reg, timer, shutting, hook, stops, crashes>>

\* The select may take the fired timer although the context is done: no call
\* made with that context succeeds.
RenewInVain ==
    /\ pc = "wait" /\ timer = 0 /\ shutting
    /\ Goto("ensure")
    /\ UNCHANGED <<auth, live, db, seen, reg, timer, shutting, hook, bounds>>

\* ctx.Done: stop the stored channel with a fresh context and return.  The
\* stored row is left as it is.
Return ==
    /\ pc = "wait" /\ shutting
    /\ StopChannel(stored.id)
    /\ Goto("down")
    /\ shutting' = FALSE /\ seen' = None /\ timer' = 0 /\ requests' = 0
    /\ UNCHANGED <<auth, db, reg, notices, stops, crashes>>

-----------------------------------------------------------------------------
(* The daemon, Drive and time.                                             *)

Authenticate ==
    /\ ~auth /\ auth' = TRUE
    /\ UNCHANGED <<live, db, mgr, shutting, hook, bounds>>

Signal ==
    /\ pc # "down" /\ ~shutting /\ Trouble /\ stops < MaxStops
    /\ shutting' = TRUE /\ stops' = stops + 1
    /\ UNCHANGED <<auth, live, db, mgr, hook, faults, crashes>>

Crash ==
    /\ pc # "down" /\ Trouble /\ crashes < MaxCrashes
    /\ crashes' = crashes + 1
    /\ pc' = "down" /\ seen' = None /\ reg' = None /\ timer' = 0
    /\ shutting' = FALSE /\ requests' = 0
    /\ UNCHANGED <<auth, live, db, notices, faults, stops>>

\* The stored token restores the Drive client; Run starts from the top.
Restart ==
    /\ pc = "down" /\ Goto("token")
    /\ UNCHANGED <<auth, live, db, seen, reg, timer, shutting, hook, bounds>>

Tick ==
    /\ pc = "down" \/ (pc = "wait" /\ timer > 0 /\ ~shutting)
    /\ live' = [c \in Chans |-> Less(live[c])]
    /\ stored' = [stored EXCEPT !.left = Less(@)]
    /\ timer' = Less(timer)
    /\ UNCHANGED <<auth, startToken, pc, seen, reg, shutting, hook, bounds>>

\* A file changes: Drive notifies the channels alive, each on its own.
Change(c) ==
    /\ c \in Live /\ Cardinality(notices) < MaxNotices
    /\ notices' = notices \cup {c}
    /\ UNCHANGED <<auth, live, db, mgr, shutting, requests, bounds>>

\* The webhook handler: only the stored channel's credentials are accepted.
LastSeenOnly(c) == c = seen   \* mutant: the manager's copy asked
Accepted(c) == stored.id # None /\ c = stored.id

\* A notification is answered 200 or 403, or 500 when the store cannot be
\* read; Drive repeats a notification answered 500.
ServeHTTP(c) ==
    /\ c \in notices /\ pc # "down"
    /\ \/ /\ Works(TRUE) /\ notices' = notices \ {c}
          /\ requests' = IF Accepted(c) THEN 1 ELSE requests
       \/ Breaks /\ UNCHANGED <<notices, requests>>
    /\ UNCHANGED <<auth, live, db, mgr, shutting, stops, crashes>>

\* Nobody answers while the daemon is down.
Undelivered(c) ==
    /\ c \in notices /\ pc = "down"
    /\ notices' = notices \ {c}
    /\ UNCHANGED <<auth, live, db, mgr, shutting, requests, bounds>>

\* The scan worker takes the request.
Scan ==
    /\ requests > 0 /\ requests' = 0
    /\ UNCHANGED <<auth, live, db, mgr, shutting, notices, bounds>>

Manager ==
    \/ EnsureStartPageToken \/ EnsureChannel \/ WatchChanges \/ PutChannel
    \/ Sleep \/ Renew \/ RenewInVain \/ Return

Next ==
    \/ Manager \/ Authenticate \/ Signal \/ Crash \/ Restart \/ Tick
    \/ Scan \/ \E c \in Chans : Change(c) \/ ServeHTTP(c) \/ Undelivered(c)

\* Time passes, the manager and the handlers take their steps, the service
\* manager restarts the daemon (restart: unless-stopped), and the user
\* completes the OAuth flow.  Faults are bounded, so calls end up succeeding.
Fairness ==
    /\ WF_vars(Manager) /\ WF_vars(Tick) /\ WF_vars(Restart)
    /\ WF_vars(Authenticate) /\ WF_vars(Scan)
    /\ \A c \in Chans : WF_vars(ServeHTTP(c))

Spec == Init /\ [][Next]_vars /\ Fairness

-----------------------------------------------------------------------------
(* Properties.                                                             *)

TypeOK ==
    /\ auth \in BOOLEAN /\ startToken \in BOOLEAN /\ shutting \in BOOLEAN
    /\ live \in [Chans -> Lifetimes]
    /\ stored \in [id : Chans \cup {None}, left : Lifetimes]
    /\ pc \in {"token", "ensure", "watch", "put", "loop", "wait", "down"}
    /\ seen \in Chans \cup {None} /\ reg \in Chans \cup {None}
    /\ timer \in Nat /\ notices \subseteq Chans /\ requests \in 0..1
    /\ faults \in 0..MaxFaults /\ stops \in 0..MaxStops
    /\ crashes \in 0..MaxCrashes

Connected == stored.id # None /\ live[stored.id] > 0

\* channelmgr.go:58-60, 99-103: renewal never lets the stored channel lapse.
\* While the manager sleeps the stored channel is alive at Drive for exactly
\* as long as the store says, unless a failure, a crash or a graceful stop
\* came between.
RenewedInTime ==
    pc = "wait" /\ stored.id # None /\ faults + stops + crashes = 0
        => live[stored.id] = stored.left /\ stored.left > 0

\* channelmgr.go:60: Drive channels do not leak.  Channels alive at Drive
\* beside the stored and the just registered one come one each from a failed
\* call or a restart (a near-expired channel is replaced, not stopped, at
\* start).
LeakAccounted ==
    Cardinality(Live \ {stored.id, reg}) <= faults + stops + crashes

\* README.md:154: the channel is renewed: once the start page token is known
\* and the daemon stays up, the channel is, or comes back, alive for ever,
\* whatever calls failed and however the daemon went down before.
StaysUp == <>[](pc # "down" /\ ~shutting)
ComesBack == StaysUp => (startToken ~> Connected)

\* channelmgr.go:77-86: the loop pauses in every round.  Only after a failed
\* call is the renewal time of the row in the past, and the loop goes round
\* without sleeping until a registration works again.
SleepsBetweenRounds ==
    [][pc = "loop" /\ pc' = "wait" /\ faults' = 0 => timer' > 0]_vars

\* webhook.go:43-60: a notification over a channel that Drive still keeps alive
\* becomes a scan request.  Without failures and restarts the only ones refused
\* come between the registration of a channel and the write of its row.
NoticeIsServed ==
    [][\A c \in notices \ notices' :
          pc # "down" /\ live[c] > 0 /\ faults + stops + crashes = 0
            => requests' = 1 \/ c = reg]_vars

-----------------------------------------------------------------------------
(* Statements of the docs that the code does not keep.                     *)

\* README.md:154: booting before authentication defers the channel until the
\* OAuth flow is completed.  The start page token is asked for only once.
DeferredUntilAuthenticated == StaysUp => <>Connected

\* channelmgr.go:130-131: a new channel is registered unless the stored one
\* is still active.  A graceful shutdown stops the stored channel at Drive
\* and leaves its row: the next process takes it for active.
StoredChannelIsActive ==
    pc = "wait" /\ Fresh /\ faults + crashes = 0 => live[stored.id] > 0

=============================================================================
