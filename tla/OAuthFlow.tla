------------------------------ MODULE OAuthFlow ------------------------------
(***************************************************************************)
(* How the daemon gets, keeps and uses its access to Google Drive:         *)
(* HandleStart and HandleCallback of internal/oauth/oauth.go, the token    *)
(* source that refreshes and persists, driveClient and SetHTTPClient of    *)
(* internal/storage/drive/drive.go, the restored client of serve.go, and   *)
(* the half of /readyz that is about Drive.                                *)
(*                                                                         *)
(* A consent of the user is a number; its access tokens expire together.   *)
(* Consents are not revoked.  A client is a record on a heap: callers and  *)
(* handlers that got hold of one go on using it when it is replaced.       *)
(***************************************************************************)
EXTENDS Naturals, FiniteSets

CONSTANTS
    Handlers,   \* goroutines that serve /oauth/callback
    Callers,    \* goroutines that call Drive: the scan worker and others
    Worker,     \* the one that takes the requests of the queue
    States,     \* state parameters of HandleStart
    MaxClients, \* places on the heap, more than can be in use
    MaxConsents, MaxFaults, MaxCrashes,     \* bounds
    None

ASSUME OAuthAssumption ==
    /\ Worker \in Callers /\ IsFiniteSet(Callers) /\ IsFiniteSet(Handlers)
    /\ None \notin States \cup {"callback", "store"}
    /\ MaxClients \in Nat
    /\ MaxClients > 1 + Cardinality(Callers) + Cardinality(Handlers)
    /\ MaxConsents \in Nat /\ MaxFaults \in Nat /\ MaxCrashes \in Nat

VARIABLES
    stored,     \* the oauth_token row: [grant, fresh], grant 0 for none
    up,         \* the daemon runs
    states,     \* Config.states
    clients,    \* the heap
    current,    \* Storage.client: its place, 0 for nil
    hpc, hjob,  \* per handler: next step and locals
    cpc, cjob,  \* per caller: next step and the client it holds
    requested,  \* the request channel of the worker holds a token
    issued,     \* states that a browser may come back with
    exchanged,  \* history: how often a state was accepted
    consents,   \* history: codes exchanged for tokens
    newest,     \* history: the consent stored last by a callback
    overlap,    \* history: a callback ran beside another or beside a call
    faults, crashes     \* used-up bounds

memory  == <<states, clients, current, hpc, hjob, cpc, cjob, requested>>
client  == <<clients, current>>
handler == <<hpc, hjob>>
caller  == <<cpc, cjob>>
history == <<issued, exchanged, consents, newest, overlap>>
vars    == <<stored, up, memory, history, faults, crashes>>

NoToken  == [grant |-> 0, fresh |-> FALSE]
Token    == [grant : 0..MaxConsents, fresh : BOOLEAN]
\* by: built in a callback or from the stored token; ctx: the context it
\* refreshes and persists with; warm: the outer ReuseTokenSource of
\* oauth2.NewClient holds the token.
Client   == [tok : Token, by : {None, "callback", "store"},
             ctx : {"process", "request", "over"}, warm : BOOLEAN]
NoClient == [tok |-> NoToken, by |-> None, ctx |-> "over", warm |-> FALSE]
Job      == [grant : 0..MaxConsents, client : 0..MaxClients]
NoJob    == [grant |-> 0, client |-> 0]
Heap     == 1..MaxClients

Init ==
    /\ stored = NoToken /\ up = TRUE
    /\ states = {} /\ issued = {} /\ exchanged = [s \in States |-> 0]
    /\ clients = [k \in Heap |-> NoClient] /\ current = 0
    /\ hpc = [h \in Handlers |-> "idle"] /\ hjob = [h \in Handlers |-> NoJob]
    /\ cpc = [c \in Callers |-> "idle"] /\ cjob = [c \in Callers |-> 0]
    /\ requested = FALSE
    /\ consents = 0 /\ newest = 0 /\ overlap = FALSE
    /\ faults = 0 /\ crashes = 0

-----------------------------------------------------------------------------
OK     == UNCHANGED faults
Breaks == faults < MaxFaults /\ faults' = faults + 1

HGoto(h, s) == hpc' = [hpc EXCEPT ![h] = s]
CGoto(c, s) == cpc' = [cpc EXCEPT ![c] = s]
HReturns(h) == HGoto(h, "idle") /\ hjob' = [hjob EXCEPT ![h] = NoJob]
CReturns(c) == CGoto(c, "idle") /\ cjob' = [cjob EXCEPT ![c] = 0]

InUse == ({current} \cup {cjob[c] : c \in Callers}
                    \cup {hjob[h].client : h \in Handlers}) \ {0}
Place == CHOOSE k \in Heap : k \notin InUse

\* What nobody holds is collected.
HeapIs(heap) ==
    clients' = [k \in Heap |-> IF k \in InUse' THEN heap[k] ELSE NoClient]

\* oauth2.NewClient over a storeTokenSource.
NewClient(tok, by, ctx) ==
    HeapIs([clients EXCEPT ![Place] =
        [tok |-> tok, by |-> by, ctx |-> ctx, warm |-> FALSE]])

-----------------------------------------------------------------------------
(* HTTP handlers.                                                          *)

\* HandleStart.  Google sends the browser back with the state.
HandleStart(s) ==
    /\ up /\ s \notin issued
    /\ states' = states \cup {s} /\ issued' = issued \cup {s}
    /\ UNCHANGED <<stored, up, client, handler, caller, requested, exchanged,
                   consents, newest, overlap, faults, crashes>>

\* Mutant: the state is looked up and not deleted.
KeepState(h, s) ==
    /\ up /\ hpc[h] = "idle" /\ s \in issued /\ s \in states
    /\ exchanged' = [exchanged EXCEPT ![s] = @ + 1]
    /\ HGoto(h, "exchange") /\ UNCHANGED hjob
    /\ UNCHANGED <<stored, up, states, client, caller, requested, issued,
                   consents, newest, overlap, faults, crashes>>

\* HandleCallback: look up and delete the state under one lock.  A browser may
\* bring a state again; an unknown one is answered and changes nothing.
HandleCallback(h, s) ==
    /\ up /\ hpc[h] = "idle" /\ s \in issued /\ s \in states
    /\ states' = states \ {s}
    /\ exchanged' = [exchanged EXCEPT ![s] = @ + 1]
    /\ HGoto(h, "exchange") /\ UNCHANGED hjob
    /\ UNCHANGED <<stored, up, client, caller, requested, issued, consents,
                   newest, overlap, faults, crashes>>

Exchange(h) ==
    /\ hpc[h] = "exchange"
    /\ \/ /\ OK /\ consents < MaxConsents
          /\ consents' = consents + 1
          /\ hjob' = [hjob EXCEPT ![h].grant = consents']
          /\ HGoto(h, "store")
       \/ Breaks /\ HReturns(h) /\ UNCHANGED consents
    /\ UNCHANGED <<stored, up, states, client, caller, requested, issued,
                   exchanged, newest, overlap, crashes>>

\* Mutant: a row that is there stays.
KeepFirst(tok) == stored' = IF stored = NoToken THEN tok ELSE stored

PutToken(tok)  == stored' = tok

\* The token of the exchange, which is good for an hour.
Granted(h) == [grant |-> hjob[h].grant, fresh |-> TRUE]

\* Another callback is at work, or a call to Drive.
Beside(h) == \/ \E g \in Handlers \ {h} : hpc[g] # "idle"
             \/ \E c \in Callers : cpc[c] # "idle"

\* Mutant: the error of PutToken ignored.
StoreAnyway(h) ==
    /\ hpc[h] = "store" /\ HGoto(h, "client")
    /\ \/ OK /\ PutToken(Granted(h)) /\ newest' = hjob[h].grant
       \/ Breaks /\ UNCHANGED <<stored, newest>>
    /\ overlap' = (overlap \/ Beside(h))
    /\ UNCHANGED <<up, states, client, hjob, caller, requested, issued,
                   exchanged, consents, crashes>>

StoreToken(h) ==
    /\ hpc[h] = "store"
    /\ \/ /\ OK /\ PutToken(Granted(h)) /\ newest' = hjob[h].grant
          /\ HGoto(h, "client") /\ UNCHANGED hjob
       \/ Breaks /\ HReturns(h) /\ UNCHANGED <<stored, newest>>
    /\ overlap' = (overlap \/ Beside(h))
    /\ UNCHANGED <<up, states, client, caller, requested, issued, exchanged,
                   consents, crashes>>

\* Mutant: the error of setClient ignored.
SetClientAnyway(h) ==
    /\ hpc[h] = "client" /\ HGoto(h, "ready") /\ UNCHANGED caller
    /\ \/ /\ OK /\ current' = Place
          /\ hjob' = [hjob EXCEPT ![h].client = Place]
          /\ NewClient(Granted(h), "callback", "request")
       \/ Breaks /\ UNCHANGED <<client, hjob>>
    /\ overlap' = (overlap \/ Beside(h))
    /\ UNCHANGED <<stored, up, states, requested, issued, exchanged, consents,
                   newest, crashes>>

\* SetHTTPClient, with a client that lives on the context of the request.
SetClient(h) ==
    /\ hpc[h] = "client" /\ UNCHANGED caller
    /\ \/ /\ OK /\ current' = Place
          /\ hjob' = [hjob EXCEPT ![h].client = Place] /\ HGoto(h, "ready")
          /\ NewClient(Granted(h), "callback", "request")
       \/ Breaks /\ HReturns(h) /\ UNCHANGED client
    /\ overlap' = (overlap \/ Beside(h))
    /\ UNCHANGED <<stored, up, states, requested, issued, exchanged, consents,
                   newest, crashes>>

\* Mutant: nobody tells the worker.
Silent == UNCHANGED requested

\* onReady: Worker.Enqueue.
Enqueue == requested' = TRUE

OnReady(h) ==
    /\ hpc[h] = "ready" /\ Enqueue /\ HGoto(h, "reply")
    /\ UNCHANGED <<stored, up, states, client, hjob, caller, history, faults,
                   crashes>>

\* The handler returns, and net/http cancels the request's context.
Reply(h) ==
    /\ hpc[h] = "reply" /\ HReturns(h) /\ UNCHANGED <<current, caller>>
    /\ HeapIs([clients EXCEPT ![hjob[h].client].ctx = "over"])
    /\ UNCHANGED <<stored, up, states, requested, history, faults, crashes>>

Handle(h) == Exchange(h) \/ StoreToken(h) \/ SetClient(h) \/ OnReady(h) \/ Reply(h)

-----------------------------------------------------------------------------
(* Calls to Drive.                                                         *)

\* driveClient reads Storage.client.  The worker calls when it has a request.
DriveClient(c) ==
    /\ up /\ cpc[c] = "idle" /\ (c = Worker => requested)
    /\ requested' = (requested /\ c # Worker)
    /\ cjob' = [cjob EXCEPT ![c] = current]
    /\ CGoto(c, IF current = 0 THEN "get" ELSE "token")
    /\ overlap' = (overlap \/ \E h \in Handlers : hpc[h] = "client")
    /\ UNCHANGED <<stored, up, states, client, handler, issued, exchanged,
                   consents, newest, faults, crashes>>

\* Mutant: the client built on the context of the call.
CallContext == "over"

\* oauthTokenProvider.Get and main's restore use context.Background().
Background == "process"

Get(c) ==
    /\ cpc[c] = "get" /\ UNCHANGED <<current, handler>>
    /\ \/ /\ OK /\ stored # NoToken
          /\ cjob' = [cjob EXCEPT ![c] = Place] /\ CGoto(c, "install")
          /\ NewClient(stored, "store", Background)
       \/ /\ Breaks \/ (OK /\ stored = NoToken)
          /\ CReturns(c) /\ UNCHANGED clients
    /\ UNCHANGED <<stored, up, states, requested, history, crashes>>

\* driveClient stores what it built, whatever has been stored meanwhile.
Install(c) ==
    /\ cpc[c] = "install" /\ current' = cjob[c] /\ CGoto(c, "token")
    /\ UNCHANGED <<handler, cjob>> /\ HeapIs(clients)
    /\ UNCHANGED <<stored, up, states, requested, history, faults, crashes>>

\* The mutex of the outer ReuseTokenSource.
Locked(k) == \E c \in Callers : cpc[c] = "persist" /\ cjob[c] = k

\* A refresh is a request to Google on the context of the client.
CanRefresh(k) == clients[k].ctx # "over"

TokenOf(c) ==
    LET k == cjob[c] IN
    /\ cpc[c] = "token" /\ ~Locked(k) /\ UNCHANGED <<current, handler>>
    /\ \/ /\ clients[k].tok.fresh /\ OK /\ UNCHANGED <<clients, cjob>>
          /\ CGoto(c, IF clients[k].warm THEN "call" ELSE "persist")
       \/ /\ ~clients[k].tok.fresh /\ CanRefresh(k) /\ OK
          /\ clients' = [clients EXCEPT ![k].tok.fresh = TRUE]
          /\ CGoto(c, "persist") /\ UNCHANGED cjob
       \/ /\ ~clients[k].tok.fresh /\ (Breaks \/ (OK /\ ~CanRefresh(k)))
          /\ CReturns(c) /\ HeapIs(clients)
    /\ UNCHANGED <<stored, up, states, requested, history, crashes>>

\* storeTokenSource.Token: best effort, and also for a token not refreshed.
Persist(c) ==
    LET k == cjob[c] IN
    /\ cpc[c] = "persist"
    /\ \/ OK /\ clients[k].ctx # "over" /\ PutToken(clients[k].tok)
       \/ (Breaks \/ (OK /\ clients[k].ctx = "over")) /\ UNCHANGED stored
    /\ clients' = [clients EXCEPT ![k].warm = TRUE]
    /\ CGoto(c, "call")
    /\ UNCHANGED <<up, states, current, handler, cjob, requested, history,
                   crashes>>

\* The call itself, which DriveIngest and PushChannel look into.
Call(c) ==
    /\ cpc[c] = "call" /\ CReturns(c)
    /\ UNCHANGED <<current, handler>> /\ HeapIs(clients)
    /\ UNCHANGED <<stored, up, states, requested, history, faults, crashes>>

Use(c) == DriveClient(c) \/ Get(c) \/ Install(c) \/ TokenOf(c) \/ Persist(c) \/ Call(c)

-----------------------------------------------------------------------------
(* The rest of the daemon and its surroundings.                            *)

\* The poll ticker.
Tick ==
    /\ up /\ requested' = TRUE
    /\ UNCHANGED <<stored, up, states, client, handler, caller, history,
                   faults, crashes>>

\* The access tokens of a consent expire, wherever they are.  A callback is
\* over long before.
Expire(g) ==
    LET Aged(t) == IF t.grant = g THEN [t EXCEPT !.fresh = FALSE] ELSE t IN
    /\ \A h \in Handlers : hjob[h].grant # g
    /\ stored' = Aged(stored)
    /\ clients' = [k \in Heap |-> [clients[k] EXCEPT !.tok = Aged(@)]]
    /\ UNCHANGED <<up, states, current, handler, caller, requested, history,
                   faults, crashes>>

Crash ==
    /\ up /\ crashes < MaxCrashes
    /\ crashes' = crashes + 1 /\ up' = FALSE
    /\ states' = {} /\ clients' = [k \in Heap |-> NoClient] /\ current' = 0
    /\ hpc' = [h \in Handlers |-> "idle"] /\ hjob' = [h \in Handlers |-> NoJob]
    /\ cpc' = [c \in Callers |-> "idle"] /\ cjob' = [c \in Callers |-> 0]
    /\ requested' = FALSE
    /\ UNCHANGED <<stored, history, faults>>

\* runServe: the client is restored from the stored token, if that can be read.
Restart ==
    /\ ~up /\ up' = TRUE /\ UNCHANGED <<handler, caller>>
    /\ \/ /\ OK /\ stored # NoToken
          /\ current' = Place /\ NewClient(stored, "store", Background)
       \/ (Breaks \/ (OK /\ stored = NoToken)) /\ UNCHANGED client
    /\ UNCHANGED <<stored, states, requested, history, crashes>>

Next ==
    \/ \E s \in States : HandleStart(s) \/ \E h \in Handlers : HandleCallback(h, s)
    \/ \E h \in Handlers : Handle(h)
    \/ \E c \in Callers : Use(c)
    \/ \E g \in 1..consents : Expire(g)
    \/ Tick \/ Crash \/ Restart

\* Goroutines go on, the service manager restarts the daemon, the poll ticker
\* fires.
Running ==
    /\ \A h \in Handlers : WF_vars(Handle(h))
    /\ \A c \in Callers : WF_vars(Use(c))
    /\ WF_vars(Restart)
Ticking == WF_vars(Tick)

SafetySpec == Init /\ [][Next]_vars
Spec       == SafetySpec /\ Running

-----------------------------------------------------------------------------
(* Properties.                                                              *)

TypeOK ==
    /\ stored \in Token /\ up \in BOOLEAN
    /\ states \subseteq issued /\ issued \subseteq States
    /\ clients \in [Heap -> Client]
    /\ current \in 0..MaxClients
    /\ hpc \in [Handlers -> {"idle", "exchange", "store", "client", "ready",
                            "reply"}]
    /\ hjob \in [Handlers -> Job]
    /\ cpc \in [Callers -> {"idle", "get", "install", "token", "persist", "call"}]
    /\ cjob \in [Callers -> 0..MaxClients]
    /\ requested \in BOOLEAN
    /\ consents \in 0..MaxConsents /\ newest \in 0..consents
    /\ overlap \in BOOLEAN
    /\ \A k \in Heap : clients[k].by # None <=> k \in InUse
    /\ \A h \in Handlers : hpc[h] \in {"ready", "reply"} => hjob[h].client # 0
    /\ \A c \in Callers : cjob[c] = 0 <=> cpc[c] \in {"idle", "get"}

\* oauth.go:121-129: a state parameter admits one callback, however often and
\* however quickly a browser comes back with it.
StateUsedOnce == \A s \in States : exchanged[s] <= 1

\* oauth.go:143-158: a client works only with a token that a restart finds
\* again.
DurableClient == up /\ current # 0 => stored.grant # 0

\* oauth.go:143-158, drive.go:66-97: the last consent is the one that is kept
\* and used, if no callback ran beside another or beside a call to Drive.
NewestConsentWins ==
    faults = 0 /\ ~overlap =>
        /\ stored.grant = newest
        /\ current # 0 /\ (\A h \in Handlers : hpc[h] # "client")
               => clients[current].tok.grant = newest

\* oauth.go:160-162: the callback itself sees to a scan, before any tick.
AuthLeadsToScan ==
    \A h \in Handlers :
        hpc[h] = "ready" ~> cpc[Worker] # "idle" \/ ~up

\* oauth.go:66-67: a client that the daemon built from the stored token, at
\* start or on demand, goes on for ever: it refreshes whenever it must.
RestoredKeepsWorking ==
    Ticking /\ <>[](up /\ current # 0 /\ clients[current].by # "callback")
        => []<>(cpc[Worker] = "call")

-----------------------------------------------------------------------------
(* A statement of the docs that the code does not keep.                    *)

\* serve.go:236-239: the half of /readyz about Drive.
DriveAuthenticated == stored # NoToken

\* README.md:141: /readyz answers 200 when Drive is authenticated and Anthropic
\* is and 503 otherwise.  A daemon that says so can call Drive.
ReadyMeansUsable ==
    up /\ DriveAuthenticated /\ current # 0 =>
        clients[current].tok.fresh \/ clients[current].ctx # "over"
=============================================================================
