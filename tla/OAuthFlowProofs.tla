--------------------------- MODULE OAuthFlowProofs ---------------------------
(* Proofs about OAuthFlow: type correctness, that a state admits one         *)
(* callback, that a client's token survives a restart and that the newest    *)
(* consent is the one in use, for any numbers of handlers, callers,          *)
(* consents, failures and crashes.                                           *)
EXTENDS OAuthFlow, FiniteSetTheorems, FunctionTheorems, TLAPS

-----------------------------------------------------------------------------
(* The inductive invariant.                                                  *)

\* A state was accepted at most once, and not before it was taken out of
\* Config.states.
StateInv ==
    /\ exchanged \in [States -> Nat]
    /\ \A s \in States : /\ exchanged[s] <= 1
                         /\ s \notin issued \/ s \in states => exchanged[s] = 0

\* What the handlers know: a consent from the exchange on, and no client
\* before SetClient.
HandlerInv ==
    \A h \in Handlers :
        /\ hjob[h].grant <= consents
        /\ hpc[h] \in {"store", "client"} => hjob[h].grant > 0
        /\ hpc[h] \in {"idle", "exchange", "store", "client"} => hjob[h].client = 0

\* Clients that are in use have a token of a consent.
ClientInv == \A k \in InUse : clients[k].tok.grant > 0

\* While there is a client, or a callback is about to build one, the row is
\* there.
StoredInv ==
    /\ stored.grant = 0 => stored = NoToken
    /\ stored.grant = 0 => InUse = {} /\ \A h \in Handlers : hpc[h] # "client"

IInv == TypeOK /\ StateInv /\ HandlerInv /\ ClientInv /\ StoredInv

\* All that is at work works with the consent stored last.
Newest ==
    /\ stored.grant = newest
    /\ \A c \in Callers : cjob[c] # 0 => clients[cjob[c]].tok.grant = newest
    /\ \A h \in Handlers : hpc[h] = "client" => hjob[h].grant = newest
    /\ current # 0 /\ (\A h \in Handlers : hpc[h] # "client")
           => clients[current].tok.grant = newest

NewestInv == faults \in Nat /\ (faults = 0 /\ ~overlap => Newest)

-----------------------------------------------------------------------------
(* The heap.                                                                 *)

\* The size of a union, and of the values of a function, from above.
LEMMA UnionBound ==
    ASSUME NEW S, NEW T, IsFiniteSet(S), IsFiniteSet(T),
           NEW m \in Nat, NEW n \in Nat, Cardinality(S) <= m, Cardinality(T) <= n
    PROVE  IsFiniteSet(S \cup T) /\ Cardinality(S \cup T) <= m + n
<1>1. /\ IsFiniteSet(S \cup T)
      /\ Cardinality(S \cup T)
           = Cardinality(S) + Cardinality(T) - Cardinality(S \cap T)
  BY FS_Union
<1>2. Cardinality(S) \in Nat /\ Cardinality(T) \in Nat
  BY FS_CardinalityType
<1>3. Cardinality(S \cap T) \in Nat
  <2>1. IsFiniteSet(S \cap T)
    BY FS_Subset
  <2> QED
    BY <2>1, FS_CardinalityType
<1> QED
  BY <1>1, <1>2, <1>3

\* A function has no more values than arguments.
LEMMA ImageBound ==
    ASSUME NEW S, IsFiniteSet(S), NEW f
    PROVE  /\ IsFiniteSet({f[x] : x \in S})
           /\ Cardinality({f[x] : x \in S}) <= Cardinality(S)
<1>1. [x \in S |-> f[x]] \in Surjection(S, {f[x] : x \in S})
  BY DEF Surjection
<1> QED
  BY <1>1, FS_Surjection

\* Each holder uses one place at most, so there is always a free one.
LEMMA PlaceIsFree == Place \in Heap /\ Place \notin InUse
<1> DEFINE byCallers  == {cjob[c] : c \in Callers}
           jobs       == [h \in Handlers |-> hjob[h].client]
           byHandlers == {jobs[h] : h \in Handlers}
           n          == Cardinality(Callers)
           m          == Cardinality(Handlers)
<1>1. IsFiniteSet(Callers) /\ IsFiniteSet(Handlers) /\ n \in Nat /\ m \in Nat
  BY OAuthAssumption, FS_CardinalityType
<1>2. IsFiniteSet(byCallers) /\ Cardinality(byCallers) <= n
  BY <1>1, ImageBound
<1>3. IsFiniteSet(byHandlers) /\ Cardinality(byHandlers) <= m
  <2> HIDE DEF jobs
  <2> QED
    BY <1>1, ImageBound
<1>4. IsFiniteSet({current}) /\ 1 \in Nat /\ Cardinality({current}) <= 1
  <2>1. IsFiniteSet({current}) /\ Cardinality({current}) = 1
    BY FS_Singleton
  <2> QED
    BY <2>1
<1>5. InUse \in SUBSET (({current} \cup byCallers) \cup byHandlers)
  BY DEF InUse
<1> HIDE DEF byCallers, byHandlers, n, m
<1>6. /\ IsFiniteSet({current} \cup byCallers)
      /\ Cardinality({current} \cup byCallers) <= 1 + n
  BY <1>1, <1>2, <1>4, UnionBound
<1>7. /\ IsFiniteSet(({current} \cup byCallers) \cup byHandlers)
      /\ Cardinality(({current} \cup byCallers) \cup byHandlers) <= (1 + n) + m
  <2>1. 1 + n \in Nat
    BY <1>1
  <2> QED
    BY <2>1, <1>1, <1>3, <1>6, UnionBound
<1>8. IsFiniteSet(InUse) /\ Cardinality(InUse) \in Nat /\ Cardinality(InUse) <= 1 + n + m
  <2>1. /\ IsFiniteSet(InUse)
        /\ Cardinality(InUse)
             <= Cardinality(({current} \cup byCallers) \cup byHandlers)
    BY <1>5, <1>7, FS_Subset
  <2>2. /\ Cardinality(InUse) \in Nat
        /\ Cardinality(({current} \cup byCallers) \cup byHandlers) \in Nat
    BY <1>7, <2>1, FS_CardinalityType
  <2> QED
    BY <1>1, <1>7, <2>1, <2>2
<1>9. ~(Heap \subseteq InUse)
  <2>1. Cardinality(Heap) = MaxClients /\ MaxClients > 1 + n + m
    BY OAuthAssumption, FS_Interval DEF Heap, n, m
  <2>2. SUFFICES ASSUME Heap \subseteq InUse PROVE FALSE
    OBVIOUS
  <2>3. Cardinality(Heap) <= Cardinality(InUse)
    BY <1>8, <2>2, FS_Subset
  <2> QED
    BY OAuthAssumption, <1>1, <1>8, <2>1, <2>3
<1> QED
  BY <1>9 DEF Place

\* Changing one field keeps a token, a client and a job well typed.
LEMMA RecordsTyped ==
    /\ \A t \in Token : [t EXCEPT !.fresh = FALSE] \in Token
    /\ \A r \in Client :
           /\ [r EXCEPT !.ctx = "over"] \in Client
           /\ [r EXCEPT !.warm = TRUE] \in Client
           /\ [r EXCEPT !.tok.fresh = TRUE] \in Client
           /\ \A t \in Token : [r EXCEPT !.tok = t] \in Client
<1>1. ASSUME NEW t \in Token PROVE [t EXCEPT !.fresh = FALSE] \in Token
  BY DEF Token
<1>2. ASSUME NEW r \in Client
      PROVE  /\ [r EXCEPT !.ctx = "over"] \in Client
             /\ [r EXCEPT !.warm = TRUE] \in Client
             /\ \A t \in Token : [r EXCEPT !.tok = t] \in Client
  BY DEF Client
<1>3. ASSUME NEW r \in Client PROVE [r EXCEPT !.tok.fresh = TRUE] \in Client
  <2>1. [r.tok EXCEPT !.fresh = TRUE] \in Token
    BY DEF Client, Token
  <2> QED
    BY <2>1, <1>2
<1> QED
  BY <1>1, <1>2, <1>3

\* The part of TypeOK about the heap, with ClientInv.
HeapOK ==
    /\ clients \in [Heap -> Client] /\ ClientInv
    /\ \A k \in Heap : clients[k].by # None <=> k \in InUse

\* A collected heap is well typed and holds what is in use.
LEMMA HeapKept ==
    ASSUME NEW heap \in [Heap -> Client], HeapIs(heap), InUse' \subseteq Heap,
           \A k \in InUse' : heap[k].by # None /\ heap[k].tok.grant > 0
    PROVE  HeapOK'
<1>1. NoClient \in Client /\ NoClient.by = None
  BY OAuthAssumption DEF NoClient, Client, NoToken, Token
<1>2. clients' = [k \in Heap |-> IF k \in InUse' THEN heap[k] ELSE NoClient]
  BY DEF HeapIs
<1>3. \A k \in Heap : clients'[k] = IF k \in InUse' THEN heap[k] ELSE NoClient
  BY <1>2
<1>4. clients' \in [Heap -> Client]
  BY <1>1, <1>2
<1> QED
  BY <1>1, <1>3, <1>4 DEF HeapOK, ClientInv

\* Where the heap is as it was, and so are its holders.
LEMMA HeapUntouched ==
    ASSUME TypeOK, ClientInv, UNCHANGED clients, InUse' = InUse
    PROVE  HeapOK'
BY DEF HeapOK, TypeOK, ClientInv

\* A client that is built has a token of a consent; the others are kept.
LEMMA ClientBuilt ==
    ASSUME TypeOK, ClientInv, NEW tok \in Token, tok.grant > 0,
           NEW by \in {"callback", "store"}, NEW ctx \in {"process", "request"},
           NewClient(tok, by, ctx), InUse' \subseteq InUse \cup {Place},
           InUse' \subseteq Heap
    PROVE  HeapOK'
<1> DEFINE new  == [tok |-> tok, by |-> by, ctx |-> ctx, warm |-> FALSE]
           heap == [clients EXCEPT ![Place] = new]
<1>1. new \in Client /\ new.by # None /\ new.tok.grant > 0
  BY OAuthAssumption DEF Client
<1>2. HeapIs(heap)
  BY DEF NewClient
<1> HIDE DEF new
<1>3. heap \in [Heap -> Client]
  BY <1>1 DEF TypeOK
<1>4. \A k \in Heap : heap[k] = IF k = Place THEN new ELSE clients[k]
  BY DEF TypeOK
<1> HIDE DEF heap
<1>5. \A k \in InUse' : heap[k].by # None /\ heap[k].tok.grant > 0
  BY <1>1, <1>4 DEF TypeOK, ClientInv
<1> QED
  BY <1>2, <1>3, <1>5, HeapKept

-----------------------------------------------------------------------------
(* Type correctness.                                                         *)

\* TypeOK without the heap.
MemoryOK ==
    /\ stored \in Token /\ up \in BOOLEAN
    /\ states \subseteq issued /\ issued \subseteq States
    /\ current \in 0..MaxClients
    /\ hpc \in [Handlers -> {"idle", "exchange", "store", "client", "ready",
                            "reply"}]
    /\ hjob \in [Handlers -> Job]
    /\ cpc \in [Callers -> {"idle", "get", "install", "token", "persist", "call"}]
    /\ cjob \in [Callers -> 0..MaxClients]
    /\ requested \in BOOLEAN
    /\ consents \in 0..MaxConsents /\ newest \in 0..consents
    /\ overlap \in BOOLEAN
    /\ \A h \in Handlers : hpc[h] \in {"ready", "reply"} => hjob[h].client # 0
    /\ \A c \in Callers : cjob[c] = 0 <=> cpc[c] \in {"idle", "get"}

HandlerSteps == {"idle", "exchange", "store", "client", "ready", "reply"}

\* The steps that set the step and the locals of a handler, the stored token,
\* the client, the newest consent or the overlap.
LEMMA HandlerFrame ==
    ASSUME TypeOK, NEW h \in Handlers, NEW s \in HandlerSteps, NEW j \in Job,
           s \in {"ready", "reply"} => j.client # 0,
           HGoto(h, s), hjob' = [hjob EXCEPT ![h] = j], stored' \in Token,
           current' \in 0..MaxClients, overlap' \in BOOLEAN,
           consents' \in 0..MaxConsents, newest' \in 0..consents',
           UNCHANGED <<up, states, caller, requested, issued>>
    PROVE  MemoryOK'
<1>1. hpc \in [Handlers -> HandlerSteps] /\ hjob \in [Handlers -> Job]
  BY DEF TypeOK, HandlerSteps
<1>2. hpc' \in [Handlers -> HandlerSteps] /\ hjob' \in [Handlers -> Job]
  BY <1>1 DEF HGoto
<1>3. \A g \in Handlers : hpc'[g] \in {"ready", "reply"} => hjob'[g].client # 0
  <2>1. /\ hpc'[h] = s /\ hjob'[h] = j
        /\ \A g \in Handlers \ {h} : hpc'[g] = hpc[g] /\ hjob'[g] = hjob[g]
    BY <1>1 DEF HGoto
  <2>2. \A g \in Handlers : hpc[g] \in {"ready", "reply"} => hjob[g].client # 0
    BY DEF TypeOK
  <2> QED
    BY <2>1, <2>2
<1>4. up' = up /\ requested' = requested
  OBVIOUS
<1>5. up' \in BOOLEAN /\ requested' \in BOOLEAN
  BY <1>4 DEF TypeOK
<1>6. /\ UNCHANGED <<states, issued, cpc, cjob>>
      /\ states \subseteq issued /\ issued \subseteq States
      /\ cpc \in [Callers -> {"idle", "get", "install", "token", "persist", "call"}]
      /\ cjob \in [Callers -> 0..MaxClients]
      /\ \A c \in Callers : cjob[c] = 0 <=> cpc[c] \in {"idle", "get"}
  BY DEF TypeOK, caller
<1> HIDE DEF TypeOK
<1> QED
  BY <1>2, <1>3, <1>5, <1>6 DEF MemoryOK, HandlerSteps

\* The steps of a callback that set more than the step.
LEMMA ExchangeTyped ==
    ASSUME TypeOK, NEW h \in Handlers, Exchange(h) PROVE MemoryOK'
<1>1. /\ hjob[h] \in Job /\ hjob \in [Handlers -> Job] /\ overlap \in BOOLEAN
      /\ stored \in Token /\ current \in 0..MaxClients
      /\ consents \in 0..MaxConsents /\ newest \in 0..consents
  BY DEF TypeOK
<1>2. overlap' = overlap
  BY DEF Exchange
<1>3. overlap' \in BOOLEAN
  BY <1>1, <1>2
<1>4. /\ stored' \in Token /\ current' \in 0..MaxClients /\ newest' = newest
      /\ UNCHANGED <<up, states, caller, requested, issued>>
  BY <1>1 DEF Exchange, client
<1>5. CASE /\ consents < MaxConsents /\ consents' = consents + 1
           /\ hjob' = [hjob EXCEPT ![h].grant = consents'] /\ HGoto(h, "store")
  <2>1. consents' \in 0..MaxConsents /\ newest' \in 0..consents'
    BY <1>1, <1>4, <1>5, OAuthAssumption
  <2> DEFINE j == [hjob[h] EXCEPT !.grant = consents']
  <2>2. j \in Job
    BY <1>1, <2>1 DEF Job
  <2>3. hjob' = [hjob EXCEPT ![h] = j]
    BY <1>5
  <2>4. "store" \in HandlerSteps /\ "store" \notin {"ready", "reply"}
    BY DEF HandlerSteps
  <2> HIDE DEF j
  <2> QED
    BY <1>3, <1>4, <1>5, <2>1, <2>2, <2>3, <2>4, HandlerFrame
<1>6. CASE HReturns(h) /\ UNCHANGED consents
  <2>1. NoJob \in Job /\ "idle" \in HandlerSteps /\ "idle" \notin {"ready", "reply"}
    BY OAuthAssumption DEF NoJob, Job, HandlerSteps
  <2>2. HGoto(h, "idle") /\ hjob' = [hjob EXCEPT ![h] = NoJob]
    BY <1>6 DEF HReturns
  <2>3. consents' \in 0..MaxConsents /\ newest' \in 0..consents'
    BY <1>1, <1>4, <1>6
  <2> QED
    BY <1>3, <1>4, <2>1, <2>2, <2>3, HandlerFrame
<1> QED
  BY <1>5, <1>6 DEF Exchange

LEMMA StoreTokenTyped ==
    ASSUME TypeOK, HandlerInv, NEW h \in Handlers, StoreToken(h) PROVE MemoryOK'
<1>1. /\ hjob[h] \in Job /\ hjob \in [Handlers -> Job] /\ overlap \in BOOLEAN
      /\ stored \in Token /\ current \in 0..MaxClients /\ newest \in 0..consents
  BY DEF TypeOK
<1>2. overlap' \in BOOLEAN
  <2>1. overlap' = (overlap \/ Beside(h))
    BY DEF StoreToken
  <2> QED
    BY <2>1
<1>3. /\ hpc[h] = "store" /\ current' = current /\ consents \in 0..MaxConsents
      /\ UNCHANGED <<up, states, caller, requested, issued, consents>>
  BY DEF StoreToken, client, TypeOK
<1>4. CASE PutToken(Granted(h)) /\ newest' = hjob[h].grant /\ HGoto(h, "client")
           /\ UNCHANGED hjob
  <2>1. Granted(h) \in Token
    BY <1>1 DEF Granted, Token, Job
  <2>2. hjob[h].grant \in 0..consents
    BY <1>1 DEF HandlerInv, Job, TypeOK
  <2>3. hjob' = [hjob EXCEPT ![h] = hjob[h]]
    BY <1>1, <1>4
  <2>4. stored' \in Token /\ newest' \in 0..consents /\ "client" \in HandlerSteps
    BY <1>4, <2>1, <2>2 DEF PutToken, HandlerSteps
  <2> QED
    BY <1>1, <1>2, <1>3, <1>4, <2>3, <2>4, HandlerFrame
<1>5. CASE HReturns(h) /\ UNCHANGED <<stored, newest>>
  <2>1. NoJob \in Job /\ "idle" \in HandlerSteps /\ "idle" \notin {"ready", "reply"}
    BY OAuthAssumption DEF NoJob, Job, HandlerSteps
  <2>2. HGoto(h, "idle") /\ hjob' = [hjob EXCEPT ![h] = NoJob]
    BY <1>5 DEF HReturns
  <2>3. stored' \in Token /\ newest' \in 0..consents /\ current' \in 0..MaxClients
    BY <1>1, <1>3, <1>5
  <2> QED
    BY <1>2, <1>3, <2>1, <2>2, <2>3, HandlerFrame
<1> QED
  BY <1>4, <1>5 DEF StoreToken

LEMMA SetClientTyped ==
    ASSUME TypeOK, NEW h \in Handlers, SetClient(h) PROVE MemoryOK'
<1>1. /\ hjob[h] \in Job /\ hjob \in [Handlers -> Job] /\ overlap \in BOOLEAN
      /\ stored \in Token /\ current \in 0..MaxClients /\ newest \in 0..consents
  BY DEF TypeOK
<1>2. overlap' \in BOOLEAN
  <2>1. overlap' = (overlap \/ Beside(h))
    BY DEF SetClient
  <2> QED
    BY <2>1
<1>3. /\ stored' \in Token /\ newest' \in 0..consents /\ consents \in 0..MaxConsents
      /\ UNCHANGED <<up, states, caller, requested, issued, consents>>
  BY <1>1 DEF SetClient, TypeOK
<1>4. CASE current' = Place /\ hjob' = [hjob EXCEPT ![h].client = Place]
           /\ HGoto(h, "ready")
  <2>1. Place \in 0..MaxClients /\ Place # 0
    BY PlaceIsFree, OAuthAssumption DEF Heap
  <2> DEFINE j == [hjob[h] EXCEPT !.client = Place]
  <2>2. j \in Job /\ j.client # 0
    BY <1>1, <2>1 DEF Job
  <2>3. hjob' = [hjob EXCEPT ![h] = j]
    BY <1>4
  <2> HIDE DEF j
  <2> QED
    BY <1>2, <1>3, <1>4, <2>1, <2>2, <2>3, HandlerFrame DEF HandlerSteps
<1>5. CASE HReturns(h) /\ UNCHANGED client
  <2>1. NoJob \in Job /\ "idle" \in HandlerSteps /\ "idle" \notin {"ready", "reply"}
    BY OAuthAssumption DEF NoJob, Job, HandlerSteps
  <2>2. HGoto(h, "idle") /\ hjob' = [hjob EXCEPT ![h] = NoJob]
    BY <1>5 DEF HReturns
  <2>3. stored' \in Token /\ newest' \in 0..consents /\ current' \in 0..MaxClients
    BY <1>1, <1>3, <1>5 DEF client
  <2> QED
    BY <1>2, <1>3, <2>1, <2>2, <2>3, HandlerFrame
<1> QED
  BY <1>4, <1>5 DEF SetClient

\* Every step of the handlers, of the callers and of the rest keeps the types.
LEMMA HandlerTyped ==
    ASSUME TypeOK, HandlerInv, NEW h \in Handlers,
           (\E s \in States : HandleCallback(h, s)) \/ Handle(h)
    PROVE  MemoryOK'
<1> USE OAuthAssumption DEF TypeOK, MemoryOK, HGoto, HReturns, Job, NoJob, OK,
                           Breaks, client, caller, handler
<1>1. ASSUME NEW s \in States, HandleCallback(h, s) PROVE MemoryOK'
  BY <1>1 DEF HandleCallback
<1>2. CASE Exchange(h)
  BY <1>2, ExchangeTyped
<1>3. CASE StoreToken(h)
  BY <1>3, StoreTokenTyped
<1>4. CASE SetClient(h)
  BY <1>4, SetClientTyped
<1>5. CASE OnReady(h)
  BY <1>5 DEF OnReady, Enqueue, history
<1>6. CASE Reply(h)
  BY <1>6 DEF Reply, history
<1> QED
  BY <1>1, <1>2, <1>3, <1>4, <1>5, <1>6 DEF Handle

\* The same of the callers.
LEMMA CallerTyped ==
    ASSUME TypeOK, NEW c \in Callers, Use(c)
    PROVE  MemoryOK'
<1> USE OAuthAssumption DEF TypeOK, MemoryOK, CGoto, CReturns, OK, Breaks, client,
                           handler, history
<1>1. CASE DriveClient(c)
  BY <1>1 DEF DriveClient
<1>2. CASE Get(c)
  <2>1. Place \in 1..MaxClients
    BY PlaceIsFree DEF Heap
  <2> QED
    BY <1>2, <2>1 DEF Get
<1>3. CASE Install(c)
  BY <1>3 DEF Install
<1>4. CASE TokenOf(c)
  BY <1>4 DEF TokenOf
<1>5. CASE Persist(c)
  <2>1. cjob[c] \in Heap
    BY <1>5 DEF Persist, Heap
  <2>2. clients[cjob[c]].tok \in Token
    BY <2>1 DEF Client
  <2> QED
    BY <1>5, <2>2 DEF Persist, PutToken
<1>6. CASE Call(c)
  BY <1>6 DEF Call
<1> QED
  BY <1>1, <1>2, <1>3, <1>4, <1>5, <1>6 DEF Use

\* Every step keeps the types of what the process and the database hold.
LEMMA MemoryTyped == IInv /\ [Next]_vars => MemoryOK'
<1> SUFFICES ASSUME IInv, [Next]_vars PROVE MemoryOK'
  OBVIOUS
<1>0. TypeOK /\ HandlerInv
  BY DEF IInv
<1> USE OAuthAssumption
<1>1. ASSUME NEW s \in States, HandleStart(s) PROVE MemoryOK'
  BY <1>0, <1>1 DEF HandleStart, TypeOK, MemoryOK, client, handler, caller
<1>2. ASSUME NEW h \in Handlers, (\E s \in States : HandleCallback(h, s)) \/ Handle(h)
      PROVE  MemoryOK'
  BY <1>0, <1>2, HandlerTyped
<1>3. ASSUME NEW c \in Callers, Use(c) PROVE MemoryOK'
  BY <1>0, <1>3, CallerTyped
<1>4. ASSUME NEW g \in 1..consents, Expire(g) PROVE MemoryOK'
  <2>1. stored' \in Token
    BY <1>0, <1>4, RecordsTyped DEF Expire, TypeOK
  <2> QED
    BY <1>0, <1>4, <2>1 DEF Expire, TypeOK, MemoryOK, handler, caller, history
<1>5. CASE Tick
  BY <1>0, <1>5 DEF Tick, TypeOK, MemoryOK, client, handler, caller, history
<1>6. CASE Crash
  <2>1. NoJob \in Job /\ NoJob.client = 0
    BY DEF NoJob, Job
  <2>2. /\ hpc' = [h \in Handlers |-> "idle"] /\ hjob' = [h \in Handlers |-> NoJob]
        /\ cpc' = [c \in Callers |-> "idle"] /\ cjob' = [c \in Callers |-> 0]
        /\ up' = FALSE /\ requested' = FALSE /\ current' = 0 /\ states' = {}
    BY <1>6 DEF Crash
  <2>3. UNCHANGED <<stored, issued, consents, newest, overlap>>
    BY <1>6 DEF Crash, history
  <2>4. /\ hpc' \in [Handlers -> {"idle", "exchange", "store", "client", "ready",
                                 "reply"}]
        /\ cpc' \in [Callers -> {"idle", "get", "install", "token", "persist",
                                "call"}]
        /\ hjob' \in [Handlers -> Job] /\ cjob' \in [Callers -> 0..MaxClients]
    BY <2>1, <2>2
  <2>5. /\ \A h \in Handlers : hpc'[h] = "idle"
        /\ \A c \in Callers : cjob'[c] = 0 /\ cpc'[c] = "idle"
    BY <2>2
  <2>6. up' \in BOOLEAN /\ requested' \in BOOLEAN
    BY <2>2, Zenon
  <2>7. current' \in 0..MaxClients
    BY <2>2
  <2> QED
    BY <1>0, <2>2, <2>3, <2>4, <2>5, <2>6, <2>7 DEF TypeOK, MemoryOK
<1>7. CASE Restart
  <2>1. Place \in 1..MaxClients
    BY PlaceIsFree DEF Heap
  <2> QED
    BY <1>0, <1>7, <2>1 DEF Restart, TypeOK, MemoryOK, handler, caller, history,
                            client
<1>8. CASE UNCHANGED vars
  BY <1>0, <1>8 DEF vars, TypeOK, MemoryOK, memory, history
<1> QED
  BY <1>1, <1>2, <1>3, <1>4, <1>5, <1>6, <1>7, <1>8 DEF Next

-----------------------------------------------------------------------------
(* The heap, step by step.                                                   *)

\* After each handler's step the heap is what is in use, well typed.
LEMMA HandlerHeap ==
    ASSUME TypeOK, HandlerInv, ClientInv, MemoryOK', NEW h \in Handlers,
           (\E s \in States : HandleCallback(h, s)) \/ Handle(h)
    PROVE  HeapOK'
<1>0. InUse' \subseteq Heap
  BY OAuthAssumption DEF MemoryOK, InUse, Heap, Job
<1> USE DEF HGoto, HReturns, client, caller
<1>1. ASSUME NEW s \in States, HandleCallback(h, s) PROVE HeapOK'
  <2>1. UNCHANGED clients /\ InUse' = InUse
    BY <1>1 DEF HandleCallback, InUse
  <2> QED
    BY <2>1, HeapUntouched
<1>2. CASE Exchange(h)
  <2>1. UNCHANGED <<clients, current, cjob>>
    BY <1>2 DEF Exchange
  <2>2. \A g \in Handlers : hjob'[g].client = hjob[g].client
    BY <1>2 DEF Exchange, TypeOK, HandlerInv, NoJob, Job
  <2>3. InUse' = InUse
    BY <2>1, <2>2 DEF InUse
  <2> QED
    BY <2>1, <2>3, HeapUntouched
<1>3. CASE StoreToken(h)
  <2>1. UNCHANGED <<clients, current, cjob>>
    BY <1>3 DEF StoreToken
  <2>2. \A g \in Handlers : hjob'[g].client = hjob[g].client
    BY <1>3 DEF StoreToken, TypeOK, HandlerInv, NoJob, Job
  <2>3. InUse' = InUse
    BY <2>1, <2>2 DEF InUse
  <2> QED
    BY <2>1, <2>3, HeapUntouched
<1>4. CASE SetClient(h)
  <2>1. CASE UNCHANGED client /\ HReturns(h)
    <3>1. UNCHANGED <<clients, current, cjob>>
      BY <1>4, <2>1 DEF SetClient
    <3>2. \A g \in Handlers : hjob'[g].client = hjob[g].client
      BY <1>4, <2>1 DEF SetClient, TypeOK, HandlerInv, NoJob, Job
    <3>3. InUse' = InUse
      BY <3>1, <3>2 DEF InUse
    <3> QED
      BY <3>1, <3>3, HeapUntouched
  <2>2. CASE /\ current' = Place /\ hjob' = [hjob EXCEPT ![h].client = Place]
             /\ NewClient(Granted(h), "callback", "request")
    <3>1. Granted(h) \in Token /\ Granted(h).grant > 0
      BY <1>4 DEF SetClient, Granted, Token, TypeOK, Job, HandlerInv
    <3>2. InUse' \subseteq InUse \cup {Place}
      <4>1. UNCHANGED cjob
        BY <1>4 DEF SetClient
      <4>2. \A g \in Handlers : hjob'[g].client \in {hjob[g].client, Place}
        BY <2>2 DEF TypeOK, Job
      <4> QED
        BY <2>2, <4>1, <4>2 DEF InUse
    <3> QED
      BY <1>0, <2>2, <3>1, <3>2, ClientBuilt
  <2> QED
    BY <1>4, <2>1, <2>2 DEF SetClient
<1>5. CASE OnReady(h)
  <2>1. UNCHANGED clients /\ InUse' = InUse
    BY <1>5 DEF OnReady, InUse
  <2> QED
    BY <2>1, HeapUntouched
<1>6. CASE Reply(h)
  <2> DEFINE heap == [clients EXCEPT ![hjob[h].client].ctx = "over"]
  <2>1. HeapIs(heap) /\ heap \in [Heap -> Client]
    <3>1. hjob[h].client \in Heap
      BY <1>6 DEF Reply, TypeOK, Heap, Job
    <3> QED
      BY <1>6, <3>1, RecordsTyped DEF Reply, TypeOK
  <2>2. InUse' \subseteq InUse
    <3>1. UNCHANGED <<current, cjob>>
      BY <1>6 DEF Reply
    <3>2. \A g \in Handlers : hjob'[g].client \in {hjob[g].client, 0}
      BY <1>6 DEF Reply, TypeOK, NoJob, Job
    <3> QED
      BY <3>1, <3>2 DEF InUse
  <2>3. \A k \in Heap : heap[k].by = clients[k].by /\ heap[k].tok = clients[k].tok
    BY DEF TypeOK, Client
  <2> HIDE DEF heap
  <2>4. \A k \in InUse' : heap[k].by # None /\ heap[k].tok.grant > 0
    BY <1>0, <2>2, <2>3 DEF TypeOK, ClientInv
  <2> QED
    BY <1>0, <2>1, <2>4, HeapKept
<1> QED
  BY <1>1, <1>2, <1>3, <1>4, <1>5, <1>6 DEF Handle

\* After each caller's step the heap is what is in use, well typed.
LEMMA CallerHeap ==
    ASSUME TypeOK, StoredInv, ClientInv, MemoryOK', NEW c \in Callers, Use(c)
    PROVE  HeapOK'
<1>0. InUse' \subseteq Heap
  BY OAuthAssumption DEF MemoryOK, InUse, Heap, Job
<1> USE DEF CGoto, client, handler
<1>1. ASSUME HeapIs(clients), InUse' \subseteq InUse PROVE HeapOK'
  <2>1. clients \in [Heap -> Client]
    BY DEF TypeOK
  <2>2. \A k \in InUse' : clients[k].by # None /\ clients[k].tok.grant > 0
    BY <1>0, <1>1 DEF TypeOK, ClientInv
  <2> QED
    BY <1>0, <1>1, <2>1, <2>2, HeapKept
<1>2. CASE DriveClient(c)
  <2>1. UNCHANGED <<clients, current, hjob>>
    BY <1>2 DEF DriveClient
  <2>2. cjob[c] = 0 /\ cjob' = [cjob EXCEPT ![c] = current]
    BY <1>2 DEF DriveClient, TypeOK
  <2>3. InUse' = InUse
    BY <2>1, <2>2 DEF InUse, TypeOK
  <2> QED
    BY <2>1, <2>3, HeapUntouched
<1>3. CASE Get(c)
  <2>1. UNCHANGED <<current, hjob>> /\ cjob[c] = 0
    BY <1>3 DEF Get, TypeOK
  <2>2. CASE CReturns(c) /\ UNCHANGED clients
    <3>1. InUse' = InUse
      BY <2>1, <2>2 DEF CReturns, InUse, TypeOK
    <3> QED
      BY <2>2, <3>1, HeapUntouched
  <2>3. CASE /\ stored # NoToken /\ cjob' = [cjob EXCEPT ![c] = Place]
             /\ NewClient(stored, "store", Background)
    <3>1. stored \in Token /\ stored.grant > 0 /\ Background \in {"process", "request"}
      BY <2>3 DEF StoredInv, TypeOK, Token, Background
    <3>2. InUse' \subseteq InUse \cup {Place}
      BY <2>1, <2>3 DEF InUse, TypeOK
    <3> QED
      BY <1>0, <2>3, <3>1, <3>2, ClientBuilt
  <2> QED
    BY <1>3, <2>2, <2>3 DEF Get
<1>4. CASE Install(c)
  <2>1. HeapIs(clients) /\ UNCHANGED <<cjob, hjob>> /\ current' = cjob[c]
    BY <1>4 DEF Install
  <2> QED
    BY <1>1, <2>1 DEF InUse
<1>5. CASE TokenOf(c)
  <2>1. UNCHANGED <<current, hjob>>
    BY <1>5 DEF TokenOf
  <2>2. CASE UNCHANGED <<clients, cjob>>
    <3>1. InUse' = InUse
      BY <2>1, <2>2 DEF InUse
    <3> QED
      BY <2>2, <3>1, HeapUntouched
  <2>3. CASE /\ clients' = [clients EXCEPT ![cjob[c]].tok.fresh = TRUE]
             /\ UNCHANGED cjob
    <3>1. InUse' = InUse
      BY <2>1, <2>3 DEF InUse
    <3>2. cjob[c] \in Heap
      BY <1>5 DEF TokenOf, TypeOK, Heap
    <3>3. clients' \in [Heap -> Client]
      BY <2>3, <3>2, RecordsTyped DEF TypeOK
    <3>4. \A k \in Heap : /\ clients'[k].by = clients[k].by
                          /\ clients'[k].tok.grant = clients[k].tok.grant
      BY <2>3 DEF TypeOK, Client, Token
    <3> QED
      BY <1>0, <3>1, <3>3, <3>4 DEF HeapOK, ClientInv, TypeOK
  <2>4. CASE CReturns(c) /\ HeapIs(clients)
    <3>1. InUse' \subseteq InUse
      BY <2>1, <2>4 DEF CReturns, InUse, TypeOK
    <3> QED
      BY <1>1, <2>4, <3>1
  <2> QED
    BY <1>5, <2>2, <2>3, <2>4 DEF TokenOf
<1>6. CASE Persist(c)
  <2>1. /\ clients' = [clients EXCEPT ![cjob[c]].warm = TRUE]
        /\ UNCHANGED <<current, hjob, cjob>>
    BY <1>6 DEF Persist
  <2>2. InUse' = InUse
    BY <2>1 DEF InUse
  <2>3. cjob[c] \in Heap
    BY <1>6 DEF Persist, TypeOK, Heap
  <2>4. clients' \in [Heap -> Client]
    BY <2>1, <2>3, RecordsTyped DEF TypeOK
  <2>5. \A k \in Heap : clients'[k].by = clients[k].by /\ clients'[k].tok = clients[k].tok
    BY <2>1 DEF TypeOK, Client
  <2> QED
    BY <1>0, <2>2, <2>4, <2>5 DEF HeapOK, ClientInv, TypeOK
<1>7. CASE Call(c)
  <2>1. HeapIs(clients) /\ UNCHANGED <<current, hjob>> /\ CReturns(c)
    BY <1>7 DEF Call
  <2>2. InUse' \subseteq InUse
    BY <2>1 DEF CReturns, InUse, TypeOK
  <2> QED
    BY <1>1, <2>1, <2>2
<1> QED
  BY <1>2, <1>3, <1>4, <1>5, <1>6, <1>7 DEF Use

\* So it is after every step.
LEMMA HeapStep == IInv /\ [Next]_vars => HeapOK'
<1> SUFFICES ASSUME IInv, [Next]_vars PROVE HeapOK'
  OBVIOUS
<1>0. TypeOK /\ HandlerInv /\ ClientInv /\ StoredInv
  BY DEF IInv
<1>a. MemoryOK'
  BY MemoryTyped
<1>b. InUse' \subseteq Heap
  BY <1>a, OAuthAssumption DEF MemoryOK, InUse, Heap, Job
<1>c. ASSUME UNCHANGED <<clients, current, cjob, hjob>> PROVE HeapOK'
  <2>1. InUse' = InUse
    BY <1>c DEF InUse
  <2> QED
    BY <1>0, <1>c, <2>1, HeapUntouched
<1>1. ASSUME NEW s \in States, HandleStart(s) PROVE HeapOK'
  BY <1>1, <1>c DEF HandleStart, client, handler, caller
<1>2. ASSUME NEW h \in Handlers, (\E s \in States : HandleCallback(h, s)) \/ Handle(h)
      PROVE  HeapOK'
  BY <1>0, <1>a, <1>2, HandlerHeap
<1>3. ASSUME NEW c \in Callers, Use(c) PROVE HeapOK'
  BY <1>0, <1>a, <1>3, CallerHeap
<1>4. ASSUME NEW g \in 1..consents, Expire(g) PROVE HeapOK'
  <2> DEFINE Aged(t) == IF t.grant = g THEN [t EXCEPT !.fresh = FALSE] ELSE t
  <2>1. /\ clients' = [k \in Heap |-> [clients[k] EXCEPT !.tok = Aged(@)]]
        /\ UNCHANGED <<current, cjob, hjob>>
    BY <1>4 DEF Expire, handler, caller
  <2>2. InUse' = InUse
    BY <2>1 DEF InUse
  <2>3. \A t \in Token : Aged(t) \in Token /\ Aged(t).grant = t.grant
    BY RecordsTyped DEF Token
  <2>4. \A k \in Heap : clients[k].tok \in Token /\ clients[k] \in Client
    BY <1>0 DEF TypeOK, Client
  <2> HIDE DEF Aged
  <2>5. clients' \in [Heap -> Client]
    BY <2>1, <2>3, <2>4, RecordsTyped
  <2>6. \A k \in Heap : /\ clients'[k].by = clients[k].by
                        /\ clients'[k].tok.grant = clients[k].tok.grant
    BY <2>1, <2>3, <2>4 DEF Client
  <2> QED
    BY <1>0, <1>b, <2>2, <2>5, <2>6 DEF HeapOK, ClientInv, TypeOK
<1>5. CASE Tick
  BY <1>5, <1>c DEF Tick, client, handler, caller
<1>6. CASE Crash
  <2>1. \A h \in Handlers : hjob'[h].client = 0
    BY <1>6 DEF Crash, NoJob
  <2>2. InUse' = {}
    BY <1>6, <2>1 DEF Crash, InUse
  <2>3. NoClient \in Client /\ NoClient.by = None
    BY OAuthAssumption DEF NoClient, Client, NoToken, Token
  <2>4. clients' = [k \in Heap |-> NoClient]
    BY <1>6 DEF Crash
  <2> QED
    BY <2>2, <2>3, <2>4 DEF HeapOK, ClientInv
<1>7. CASE Restart
  <2>1. UNCHANGED <<cjob, hjob>>
    BY <1>7 DEF Restart, handler, caller
  <2>2. CASE UNCHANGED client
    BY <1>c, <2>1, <2>2 DEF client
  <2>3. CASE /\ stored # NoToken /\ current' = Place
             /\ NewClient(stored, "store", Background)
    <3>1. stored \in Token /\ stored.grant > 0 /\ Background \in {"process", "request"}
      BY <1>0, <2>3 DEF StoredInv, TypeOK, Token, Background
    <3>2. InUse' \subseteq InUse \cup {Place}
      BY <2>1, <2>3 DEF InUse
    <3> QED
      BY <1>0, <1>b, <2>3, <3>1, <3>2, ClientBuilt
  <2> QED
    BY <1>7, <2>2, <2>3 DEF Restart
<1>8. CASE UNCHANGED vars
  BY <1>8, <1>c DEF vars, memory
<1> QED
  BY <1>1, <1>2, <1>3, <1>4, <1>5, <1>6, <1>7, <1>8 DEF Next

\* The two halves make up the type invariant.
LEMMA TypeStep == IInv /\ [Next]_vars => TypeOK'
BY MemoryTyped, HeapStep DEF MemoryOK, HeapOK, TypeOK

-----------------------------------------------------------------------------
(* States, handlers and the row.                                             *)

\* A state is accepted when it is taken out of Config.states, and never put
\* back there.
LEMMA StateStep == IInv /\ [Next]_vars => StateInv'
<1> SUFFICES ASSUME IInv, [Next]_vars PROVE StateInv'
  OBVIOUS
<1>0. StateInv /\ TypeOK
  BY DEF IInv
<1>1. ASSUME NEW s \in States, HandleStart(s) PROVE StateInv'
  BY <1>0, <1>1 DEF HandleStart, StateInv
<1>2. ASSUME NEW s \in States, NEW h \in Handlers, HandleCallback(h, s)
      PROVE  StateInv'
  BY <1>0, <1>2 DEF HandleCallback, StateInv
<1>3. ASSUME states' \subseteq states, UNCHANGED <<issued, exchanged>>
      PROVE  StateInv'
  BY <1>0, <1>3 DEF StateInv
<1>4. ASSUME NEW h \in Handlers, Handle(h) PROVE StateInv'
  BY <1>3, <1>4 DEF Handle, Exchange, StoreToken, SetClient, OnReady, Reply, history
<1>5. ASSUME NEW c \in Callers, Use(c) PROVE StateInv'
  BY <1>3, <1>5 DEF Use, DriveClient, Get, Install, TokenOf, Persist, Call, history
<1>6. ASSUME NEW g \in 1..consents, Expire(g) PROVE StateInv'
  BY <1>3, <1>6 DEF Expire, history
<1>7. CASE Tick \/ Crash \/ Restart \/ UNCHANGED vars
  BY <1>3, <1>7 DEF Tick, Crash, Restart, history, vars, memory
<1> QED
  BY <1>1, <1>2, <1>4, <1>5, <1>6, <1>7 DEF Next

\* A handler past the exchange carries its consent's token; one past PutToken
\* has seen the row written.
LEMMA HandlerStep == IInv /\ [Next]_vars => HandlerInv'
<1> SUFFICES ASSUME IInv, [Next]_vars PROVE HandlerInv'
  OBVIOUS
<1>0. HandlerInv /\ TypeOK
  BY DEF IInv
<1> USE DEF HandlerInv
<1>1. ASSUME UNCHANGED <<hpc, hjob, consents>> PROVE HandlerInv'
  BY <1>0, <1>1
<1>2. ASSUME NEW h \in Handlers, (\E s \in States : HandleCallback(h, s)) \/ Handle(h)
      PROVE  HandlerInv'
  <2> USE DEF HGoto, HReturns, NoJob, TypeOK, Job
  <2>1. CASE \E s \in States : HandleCallback(h, s)
    BY <1>0, <2>1 DEF HandleCallback
  <2>2. CASE Exchange(h)
    BY <1>0, <2>2, OAuthAssumption DEF Exchange
  <2>3. CASE StoreToken(h)
    BY <1>0, <2>3 DEF StoreToken
  <2>4. CASE SetClient(h)
    BY <1>0, <2>4 DEF SetClient
  <2>5. CASE OnReady(h)
    BY <1>0, <2>5 DEF OnReady, history
  <2>6. CASE Reply(h)
    BY <1>0, <2>6 DEF Reply, history
  <2> QED
    BY <1>2, <2>1, <2>2, <2>3, <2>4, <2>5, <2>6 DEF Handle
<1>3. CASE Crash
  <2>1. \A h \in Handlers : hpc'[h] = "idle" /\ hjob'[h] = NoJob
    BY <1>3 DEF Crash
  <2>2. consents' \in Nat
    BY <1>0, <1>3, OAuthAssumption DEF Crash, history, TypeOK
  <2> QED
    BY <2>1, <2>2 DEF NoJob
<1>4. ASSUME NEW s \in States, HandleStart(s) PROVE HandlerInv'
  BY <1>1, <1>4 DEF HandleStart, handler
<1>5. ASSUME NEW c \in Callers, Use(c) PROVE HandlerInv'
  BY <1>1, <1>5 DEF Use, DriveClient, Get, Install, TokenOf, Persist, Call, history,
                    handler
<1>6. ASSUME NEW g \in 1..consents, Expire(g) PROVE HandlerInv'
  BY <1>1, <1>6 DEF Expire, history, handler
<1>7. CASE Tick \/ Restart \/ UNCHANGED vars
  BY <1>1, <1>7 DEF Tick, Restart, history, handler, vars, memory
<1> QED
  BY <1>2, <1>3, <1>4, <1>5, <1>6, <1>7 DEF Next

\* The row is written with a consent's token only, and never deleted; a client
\* is built from it, or by a callback that has written it.
LEMMA StoredStep == IInv /\ [Next]_vars => StoredInv'
<1> SUFFICES ASSUME IInv, [Next]_vars PROVE StoredInv'
  OBVIOUS
<1>0. HandlerInv /\ TypeOK /\ ClientInv /\ StoredInv
  BY DEF IInv
<1> USE DEF StoredInv
<1>1. ASSUME stored'.grant > 0 PROVE StoredInv'
  BY <1>1
<1>2. ASSUME UNCHANGED <<stored, current, cjob>>, 
             \A h \in Handlers : \/ hjob'[h].client = hjob[h].client
                                \/ hjob'[h].client = 0,
             \A h \in Handlers : hpc'[h] = "client" => hpc[h] = "client"
      PROVE  StoredInv'
  <2>1. InUse' \subseteq InUse
    BY <1>2 DEF InUse
  <2> QED
    BY <1>0, <1>2, <2>1
<1>3. ASSUME stored.grant # 0, UNCHANGED stored PROVE StoredInv'
  BY <1>3
<1>4. ASSUME NEW s \in States, HandleStart(s) PROVE StoredInv'
  BY <1>2, <1>4 DEF HandleStart, handler, caller, client
<1>5. ASSUME NEW h \in Handlers, (\E s \in States : HandleCallback(h, s)) \/ Handle(h)
      PROVE  StoredInv'
  <2> USE DEF HGoto, HReturns, NoJob
  <2>1. CASE \E s \in States : HandleCallback(h, s)
    BY <1>0, <1>2, <2>1 DEF HandleCallback, TypeOK, client, caller
  <2>2. CASE Exchange(h)
    BY <1>0, <1>2, <2>2 DEF Exchange, TypeOK, Job, client, caller
  <2>3. CASE StoreToken(h)
    <3>1. CASE stored' = Granted(h)
      BY <1>0, <1>1, <2>3, <3>1 DEF StoreToken, Granted, HandlerInv
    <3>2. CASE UNCHANGED stored /\ HReturns(h)
      BY <1>0, <1>2, <2>3, <3>2 DEF StoreToken, TypeOK, Job, client, caller
    <3> QED
      BY <2>3, <3>1, <3>2 DEF StoreToken, PutToken
  <2>4. CASE SetClient(h)
    BY <1>0, <1>3, <2>4 DEF SetClient
  <2>5. CASE OnReady(h)
    BY <1>0, <1>2, <2>5 DEF OnReady, TypeOK, client, caller
  <2>6. CASE Reply(h)
    BY <1>0, <1>2, <2>6 DEF Reply, TypeOK, Job, caller
  <2> QED
    BY <1>5, <2>1, <2>2, <2>3, <2>4, <2>5, <2>6 DEF Handle
<1>6. ASSUME NEW c \in Callers, Use(c) PROVE StoredInv'
  <2>1. CASE Persist(c) /\ ~UNCHANGED stored
    <3>1. cjob[c] \in InUse /\ stored' = clients[cjob[c]].tok
      BY <1>0, <2>1 DEF Persist, PutToken, TypeOK, InUse
    <3> QED
      BY <1>0, <1>1, <3>1 DEF ClientInv
  <2>2. CASE UNCHANGED stored
    <3>1. CASE stored.grant # 0
      BY <1>3, <2>2, <3>1
    <3>2. CASE stored.grant = 0
      <4>1. /\ current = 0 /\ stored = NoToken
            /\ \A d \in Callers : cjob[d] = 0
            /\ \A h \in Handlers : hjob[h].client = 0 /\ hpc[h] # "client"
        BY <1>0, <3>2 DEF InUse
      <4>2. UNCHANGED handler
        BY <1>6 DEF Use, DriveClient, Get, Install, TokenOf, Persist, Call
      <4>3. cpc[c] \in {"idle", "get"}
        BY <1>0, <4>1 DEF TypeOK
      <4>4. /\ current' = 0 /\ \A d \in Callers : cjob'[d] = 0
        BY <1>0, <1>6, <4>1, <4>3 DEF Use, DriveClient, Get, Install, TokenOf,
                 Persist, Call, client, TypeOK, CReturns
      <4>5. InUse' = {}
        BY <4>1, <4>2, <4>4 DEF InUse, handler
      <4> QED
        BY <2>2, <4>1, <4>2, <4>5 DEF handler
    <3> QED
      BY <3>1, <3>2
  <2> QED
    BY <1>6, <2>1, <2>2 DEF Use, DriveClient, Get, Install, TokenOf, Call
<1>7. ASSUME NEW g \in 1..consents, Expire(g) PROVE StoredInv'
  <2>1. CASE stored.grant # 0
    <3>1. stored'.grant = stored.grant
      BY <1>0, <1>7 DEF Expire, TypeOK, Token
    <3> QED
      BY <2>1, <3>1
  <2>2. CASE stored.grant = 0
    <3>1. stored' = stored
      BY <1>0, <1>7, <2>2, OAuthAssumption DEF Expire, TypeOK
    <3> QED
      BY <1>2, <1>7, <3>1 DEF Expire, handler, caller
  <2> QED
    BY <2>1, <2>2
<1>8. CASE Crash
  <2>1. \A h \in Handlers : hpc'[h] = "idle" /\ hjob'[h].client = 0
    BY <1>8 DEF Crash, NoJob
  <2>2. InUse' = {}
    BY <1>8, <2>1 DEF Crash, InUse
  <2> QED
    BY <1>0, <1>8, <2>1, <2>2 DEF Crash
<1>9. CASE Restart
  <2>1. CASE stored # NoToken
    BY <1>0, <1>3, <1>9, <2>1 DEF Restart
  <2>2. CASE UNCHANGED client
    BY <1>2, <1>9, <2>2 DEF Restart, client, handler, caller
  <2> QED
    BY <1>9, <2>1, <2>2 DEF Restart
<1>10. CASE Tick \/ UNCHANGED vars
  BY <1>2, <1>10 DEF Tick, vars, memory, client, handler, caller
<1> QED
  BY <1>4, <1>5, <1>6, <1>7, <1>8, <1>9, <1>10 DEF Next

-----------------------------------------------------------------------------
(* The newest consent.                                                       *)

\* What is built at Place has the token given; what stays in use keeps the
\* consent it had.
LEMMA BuiltGrant ==
    ASSUME TypeOK, NEW tok, NEW by, NEW ctx, NewClient(tok, by, ctx)
    PROVE  /\ \A k \in Heap : k \in InUse /\ k \in InUse'
                  => clients'[k].tok.grant = clients[k].tok.grant
           /\ Place \in InUse' => clients'[Place].tok = tok
<1> DEFINE new == [tok |-> tok, by |-> by, ctx |-> ctx, warm |-> FALSE]
<1>1. clients' = [k \in Heap |-> IF k \in InUse' THEN [clients EXCEPT ![Place] = new][k]
                                                ELSE NoClient]
  BY DEF NewClient, HeapIs
<1>2. new.tok = tok
  OBVIOUS
<1>3. Place \in Heap /\ Place \notin InUse
  BY PlaceIsFree
<1> HIDE DEF new
<1>4. \A k \in Heap : [clients EXCEPT ![Place] = new][k]
                         = IF k = Place THEN new ELSE clients[k]
  BY <1>3 DEF TypeOK
<1> QED
  BY <1>1, <1>2, <1>3, <1>4

\* A client that stays in use keeps the consent it was granted.
LEMMA GrantsKept ==
    IInv /\ [Next]_vars =>
        \A k \in Heap : k \in InUse /\ k \in InUse'
            => clients'[k].tok.grant = clients[k].tok.grant
<1> DEFINE Kept == \A k \in Heap : k \in InUse /\ k \in InUse'
                       => clients'[k].tok.grant = clients[k].tok.grant
<1> SUFFICES ASSUME IInv, [Next]_vars PROVE Kept
  OBVIOUS
<1>0. TypeOK
  BY DEF IInv
<1>a. ASSUME UNCHANGED clients PROVE Kept
  BY <1>a
<1>b. ASSUME HeapIs(clients) PROVE Kept
  BY <1>b DEF HeapIs
<1>c. ASSUME NEW tok, NEW by, NEW ctx, NewClient(tok, by, ctx) PROVE Kept
  BY <1>0, <1>c, BuiltGrant
<1>1. ASSUME NEW h \in Handlers, Reply(h) PROVE Kept
  <2>1. HeapIs([clients EXCEPT ![hjob[h].client].ctx = "over"])
    BY <1>1 DEF Reply
  <2>2. \A k \in Heap : [clients EXCEPT ![hjob[h].client].ctx = "over"][k].tok
                           = clients[k].tok
    BY <1>0 DEF TypeOK, Client
  <2> QED
    BY <2>1, <2>2 DEF HeapIs
<1>2. ASSUME NEW c \in Callers, TokenOf(c) \/ Persist(c) PROVE Kept
  <2>1. CASE clients' = [clients EXCEPT ![cjob[c]].tok.fresh = TRUE]
    BY <1>0, <2>1 DEF TypeOK, Client, Token
  <2>2. CASE clients' = [clients EXCEPT ![cjob[c]].warm = TRUE]
    BY <1>0, <2>2 DEF TypeOK, Client
  <2> QED
    BY <1>2, <1>a, <1>b, <2>1, <2>2 DEF TokenOf, Persist
<1>3. ASSUME NEW g \in 1..consents, Expire(g) PROVE Kept
  <2>1. clients' = [k \in Heap |-> [clients[k] EXCEPT
            !.tok = IF @.grant = g THEN [@ EXCEPT !.fresh = FALSE] ELSE @]]
    BY <1>3 DEF Expire
  <2> QED
    BY <1>0, <2>1 DEF TypeOK, Client, Token
<1>4. CASE Crash
  <2>1. InUse' = {}
    BY <1>4 DEF Crash, InUse, NoJob
  <2> QED
    BY <2>1
<1>5. ASSUME NEW h \in Handlers, (\E s \in States : HandleCallback(h, s)) \/ Handle(h)
      PROVE  Kept
  BY <1>5, <1>a, <1>c, <1>1 DEF Handle, HandleCallback, Exchange, StoreToken, SetClient,
                               OnReady, client
<1>6. ASSUME NEW c \in Callers, Use(c) PROVE Kept
  BY <1>6, <1>a, <1>b, <1>c, <1>2 DEF Use, DriveClient, Get, Install, Call, client
<1>7. CASE (\E s \in States : HandleStart(s)) \/ Tick \/ Restart \/ UNCHANGED vars
  BY <1>7, <1>a, <1>c DEF HandleStart, Tick, Restart, vars, memory, client
<1> QED
  BY <1>3, <1>4, <1>5, <1>6, <1>7 DEF Next

\* Failures and overlaps are remembered.
LEMMA Remembered ==
    [Next]_vars => /\ faults' = faults \/ faults' = faults + 1
                   /\ overlap => overlap'
<1> SUFFICES ASSUME [Next]_vars
             PROVE  (faults' = faults \/ faults' = faults + 1) /\ (overlap => overlap')
  OBVIOUS
<1>1. faults' = faults \/ faults' = faults + 1
  <2>1. ASSUME NEW h \in Handlers, (\E s \in States : HandleCallback(h, s)) \/ Handle(h)
        PROVE  faults' = faults \/ faults' = faults + 1
    BY <2>1 DEF HandleCallback, Handle, Exchange, StoreToken, SetClient, OnReady, Reply,
                OK, Breaks
  <2>2. ASSUME NEW c \in Callers, Use(c)
        PROVE  faults' = faults \/ faults' = faults + 1
    BY <2>2 DEF Use, DriveClient, Get, Install, TokenOf, Persist, Call, OK, Breaks
  <2> QED
    BY <2>1, <2>2 DEF Next, HandleStart, Expire, Tick, Crash, Restart, vars, OK, Breaks
<1>2. ASSUME overlap PROVE overlap'
  <2>1. ASSUME NEW h \in Handlers, (\E s \in States : HandleCallback(h, s)) \/ Handle(h)
        PROVE  overlap'
    <3>1. CASE StoreToken(h) \/ SetClient(h)
      <4>1. overlap' = (overlap \/ Beside(h))
        BY <3>1 DEF StoreToken, SetClient
      <4> QED
        BY <1>2, <4>1, Zenon
    <3>2. CASE UNCHANGED overlap
      BY <1>2, <3>2
    <3> QED
      BY <2>1, <3>1, <3>2 DEF HandleCallback, Handle, Exchange, OnReady, Reply, history
  <2>2. ASSUME NEW c \in Callers, Use(c) PROVE overlap'
    <3>1. CASE DriveClient(c)
      <4>1. overlap' = (overlap \/ \E h \in Handlers : hpc[h] = "client")
        BY <3>1 DEF DriveClient
      <4> QED
        BY <1>2, <4>1, Zenon
    <3>2. CASE UNCHANGED overlap
      BY <1>2, <3>2
    <3> QED
      BY <2>2, <3>1, <3>2 DEF Use, Get, Install, TokenOf, Persist, Call, history
  <2>3. CASE UNCHANGED overlap
    BY <1>2, <2>3
  <2> QED
    BY <2>1, <2>2, <2>3 DEF Next, HandleStart, Expire, Tick, Crash, Restart, vars, history
<1> QED
  BY <1>1, <1>2

\* A step after which nobody holds another client, the row and the consent
\* stored last are as they were and no callback left "client".
LEMMA NewestKept ==
    ASSUME IInv, [Next]_vars, Newest, UNCHANGED newest,
           stored'.grant = newest,
           \A c \in Callers : cjob'[c] \in {0, cjob[c]},
           current' \in {0, current},
           \A h \in Handlers : hpc'[h] = "client" <=> hpc[h] = "client",
           \A h \in Handlers : hpc[h] = "client" => hjob'[h] = hjob[h]
    PROVE  Newest'
<1>1. \A k \in Heap : k \in InUse /\ k \in InUse'
          => clients'[k].tok.grant = clients[k].tok.grant
  BY GrantsKept
<1>2. current' # 0 => current \in Heap /\ current \in InUse /\ current \in InUse'
  BY OAuthAssumption DEF IInv, TypeOK, InUse, Heap
<1>3. \A c \in Callers : cjob'[c] # 0
          => cjob[c] \in Heap /\ cjob[c] \in InUse /\ cjob[c] \in InUse'
  BY OAuthAssumption DEF IInv, TypeOK, InUse, Heap
<1>4. \A c \in Callers : cjob'[c] # 0 => clients'[cjob'[c]].tok.grant = newest'
  BY <1>1, <1>3 DEF Newest
<1>5. current' # 0 /\ (\A h \in Handlers : hpc'[h] # "client")
          => clients'[current'].tok.grant = newest'
  BY <1>1, <1>2 DEF Newest
<1> QED
  BY <1>4, <1>5 DEF Newest

\* The newest consent stays the one in use after a handler's step, unless it
\* failed or overlapped another.
LEMMA NewestHandler ==
    ASSUME IInv, [Next]_vars, Newest, faults = 0, faults' = 0, ~overlap',
           NEW h \in Handlers, (\E s \in States : HandleCallback(h, s)) \/ Handle(h)
    PROVE  Newest'
<1>0. TypeOK /\ HandlerInv
  BY DEF IInv
<1>w. ~Breaks
  BY DEF Breaks
<1>1. CASE \E s \in States : HandleCallback(h, s)
  BY <1>0, <1>1, NewestKept DEF HandleCallback, HGoto, TypeOK, client, caller, Newest
<1>2. CASE Exchange(h)
  BY <1>0, <1>2, <1>w, NewestKept DEF Exchange, HGoto, TypeOK, client, caller, Newest
<1>3. CASE StoreToken(h) \/ SetClient(h)
  <2>1. overlap' = (overlap \/ Beside(h))
    BY <1>3 DEF StoreToken, SetClient
  <2>2. ~Beside(h)
    BY <2>1, Zenon
  <2>3. /\ \A g \in Handlers \ {h} : hpc[g] = "idle"
        /\ \A c \in Callers : cjob[c] = 0
    BY <1>0, <2>2 DEF Beside, TypeOK
  <2>4. CASE StoreToken(h)
    <3>1. /\ stored' = Granted(h) /\ newest' = hjob[h].grant
          /\ HGoto(h, "client") /\ UNCHANGED <<hjob, cjob>>
      BY <1>w, <2>4 DEF StoreToken, PutToken, caller
    <3>2. hpc'[h] = "client" /\ \A g \in Handlers \ {h} : hpc'[g] = "idle"
      BY <1>0, <2>3, <3>1 DEF HGoto, TypeOK
    <3> QED
      BY <2>3, <3>1, <3>2 DEF Newest, Granted
  <2>5. CASE SetClient(h)
    <3>1. /\ current' = Place /\ NewClient(Granted(h), "callback", "request")
          /\ HGoto(h, "ready") /\ UNCHANGED <<stored, newest, cjob>>
          /\ hpc[h] = "client"
      BY <1>w, <2>5 DEF SetClient, caller
    <3>2. Place \in InUse'
      BY <3>1, PlaceIsFree DEF InUse, Heap
    <3>3. clients'[current'].tok.grant = newest'
      BY <1>0, <3>1, <3>2, BuiltGrant DEF Newest, Granted
    <3>4. \A g \in Handlers : hpc'[g] # "client"
      BY <1>0, <2>3, <3>1 DEF HGoto, TypeOK
    <3> QED
      BY <2>3, <3>1, <3>3, <3>4 DEF Newest
  <2> QED
    BY <1>3, <2>4, <2>5
<1>4. CASE OnReady(h)
  BY <1>0, <1>4, NewestKept DEF OnReady, HGoto, TypeOK, client, caller, history, Newest
<1>5. CASE Reply(h)
  BY <1>0, <1>5, NewestKept DEF Reply, HGoto, HReturns, TypeOK, caller, history, Newest
<1> QED
  BY <1>1, <1>2, <1>3, <1>4, <1>5 DEF Handle

\* The same of a caller's step.
LEMMA NewestCaller ==
    ASSUME IInv, [Next]_vars, Newest, faults = 0, faults' = 0, ~overlap',
           NEW c \in Callers, Use(c)
    PROVE  Newest'
<1>0. TypeOK /\ ClientInv /\ HandlerInv
  BY DEF IInv
<1>w. ~Breaks
  BY DEF Breaks
<1>i. InUse \subseteq Heap
  BY <1>0, OAuthAssumption DEF TypeOK, InUse, Heap, Job
<1>1. CASE DriveClient(c)
  <2>1. overlap' = (overlap \/ \E h \in Handlers : hpc[h] = "client")
    BY <1>1 DEF DriveClient
  <2>2. \A h \in Handlers : hpc[h] # "client"
    BY <2>1, Zenon
  <2>3. /\ cjob' = [cjob EXCEPT ![c] = current]
        /\ UNCHANGED <<stored, newest, clients, current, hpc, hjob>>
    BY <1>1 DEF DriveClient, client, handler
  <2>4. \A d \in Callers : cjob'[d] # 0 => clients'[cjob'[d]].tok.grant = newest'
    BY <1>0, <2>2, <2>3 DEF Newest, TypeOK
  <2> QED
    BY <2>2, <2>3, <2>4 DEF Newest
<1>2. CASE Get(c)
  <2>1. UNCHANGED <<stored, newest, current, hpc, hjob>> /\ cjob[c] = 0
    BY <1>0, <1>2 DEF Get, handler, history, TypeOK
  <2>2. CASE CReturns(c)
    BY <1>0, <2>1, <2>2, NewestKept DEF CReturns, TypeOK, Newest
  <2>3. CASE /\ cjob' = [cjob EXCEPT ![c] = Place]
             /\ NewClient(stored, "store", Background)
    <3>1. cjob'[c] = Place /\ \A d \in Callers \ {c} : cjob'[d] = cjob[d]
      BY <1>0, <2>3 DEF TypeOK
    <3>2. Place \in InUse'
      BY <3>1, PlaceIsFree DEF InUse, Heap
    <3>3. clients'[Place].tok.grant = newest'
      BY <1>0, <2>1, <2>3, <3>2, BuiltGrant DEF Newest
    <3>4. \A k \in Heap : k \in InUse /\ k \in InUse'
              => clients'[k].tok.grant = clients[k].tok.grant
      BY GrantsKept
    <3>5. \A d \in Callers : cjob'[d] # 0 => clients'[cjob'[d]].tok.grant = newest'
      <4>1. ASSUME NEW d \in Callers \ {c}, cjob[d] # 0
            PROVE  cjob[d] \in InUse /\ cjob[d] \in InUse'
        BY <3>1, <4>1 DEF InUse
      <4> QED
        BY <1>i, <2>1, <3>1, <3>3, <3>4, <4>1 DEF Newest
    <3>6. current # 0 => current \in InUse /\ current \in InUse'
      BY <2>1 DEF InUse
    <3> QED
      BY <1>i, <2>1, <3>4, <3>5, <3>6 DEF Newest
  <2> QED
    BY <1>2, <1>w, <2>2, <2>3 DEF Get
<1>3. CASE Install(c)
  <2>1. /\ current' = cjob[c] /\ cjob[c] # 0
        /\ UNCHANGED <<stored, newest, cjob, hpc, hjob>>
    BY <1>0, <1>3 DEF Install, handler, history, TypeOK
  <2>2. \A k \in Heap : k \in InUse /\ k \in InUse'
            => clients'[k].tok.grant = clients[k].tok.grant
    BY GrantsKept
  <2>3. \A d \in Callers : cjob[d] # 0 => cjob[d] \in InUse /\ cjob[d] \in InUse'
    BY <2>1 DEF InUse
  <2>4. \A d \in Callers : cjob'[d] # 0 => clients'[cjob'[d]].tok.grant = newest'
    BY <1>i, <2>1, <2>2, <2>3 DEF Newest
  <2> QED
    BY <2>1, <2>4 DEF Newest
<1>4. CASE TokenOf(c) \/ Call(c)
  <2>1. UNCHANGED <<stored, newest, current, hpc, hjob>>
    BY <1>4 DEF TokenOf, Call, handler, history
  <2>2. \A d \in Callers : cjob'[d] \in {0, cjob[d]}
    BY <1>0, <1>4 DEF TokenOf, Call, CReturns, TypeOK
  <2> QED
    BY <2>1, <2>2, NewestKept DEF Newest
<1>5. CASE Persist(c)
  <2>1. UNCHANGED <<newest, current, hpc, hjob, cjob>>
    BY <1>5 DEF Persist, handler, history
  <2>2. stored'.grant = newest
    BY <1>0, <1>5 DEF Persist, PutToken, Newest, TypeOK
  <2> QED
    BY <2>1, <2>2, NewestKept
<1> QED
  BY <1>1, <1>2, <1>3, <1>4, <1>5 DEF Use

\* The same of every step.
LEMMA NewestStep == IInv /\ NewestInv /\ [Next]_vars => NewestInv'
<1> SUFFICES ASSUME IInv, NewestInv, [Next]_vars PROVE NewestInv'
  OBVIOUS
<1>0. TypeOK /\ faults \in Nat
  BY DEF IInv, NewestInv
<1>1. faults' \in Nat /\ (faults' = 0 => faults = 0)
  BY <1>0, Remembered
<1> SUFFICES ASSUME faults' = 0, ~overlap' PROVE Newest'
  BY <1>1 DEF NewestInv
<1>2. faults = 0 /\ ~overlap
  BY <1>1, Remembered
<1>3. Newest
  BY <1>2 DEF NewestInv
<1>4. ASSUME NEW s \in States, HandleStart(s) PROVE Newest'
  BY <1>3, <1>4, NewestKept DEF HandleStart, client, handler, caller, Newest
<1>5. ASSUME NEW h \in Handlers, (\E s \in States : HandleCallback(h, s)) \/ Handle(h)
      PROVE  Newest'
  BY <1>2, <1>3, <1>5, NewestHandler
<1>6. ASSUME NEW c \in Callers, Use(c) PROVE Newest'
  BY <1>2, <1>3, <1>6, NewestCaller
<1>7. ASSUME NEW g \in 1..consents, Expire(g) PROVE Newest'
  <2>1. UNCHANGED <<newest, current, hpc, hjob, cjob>>
    BY <1>7 DEF Expire, handler, caller, history
  <2>2. stored'.grant = newest
    BY <1>0, <1>3, <1>7 DEF Expire, Newest, TypeOK, Token
  <2> QED
    BY <1>3, <2>1, <2>2, NewestKept
<1>8. CASE Tick
  BY <1>3, <1>8, NewestKept DEF Tick, client, handler, caller, history, Newest
<1>9. CASE Crash
  BY <1>3, <1>9 DEF Crash, history, Newest
<1>10. CASE Restart
  <2>1. UNCHANGED <<stored, newest, hpc, hjob, cjob>>
    BY <1>10 DEF Restart, handler, caller, history
  <2>2. CASE UNCHANGED client
    BY <1>3, <2>1, <2>2, NewestKept DEF client, Newest
  <2>3. CASE current' = Place /\ NewClient(stored, "store", Background)
    <3>1. Place \in InUse'
      BY <2>3, PlaceIsFree DEF InUse, Heap
    <3>2. clients'[current'].tok.grant = newest'
      BY <1>0, <1>3, <2>1, <2>3, <3>1, BuiltGrant DEF Newest
    <3>3. \A k \in Heap : k \in InUse /\ k \in InUse'
              => clients'[k].tok.grant = clients[k].tok.grant
      BY GrantsKept
    <3>4. \A d \in Callers : cjob[d] # 0
              => cjob[d] \in Heap /\ cjob[d] \in InUse /\ cjob[d] \in InUse'
      BY <1>0, <2>1, OAuthAssumption DEF InUse, TypeOK, Heap
    <3>5. \A d \in Callers : cjob'[d] # 0 => clients'[cjob'[d]].tok.grant = newest'
      BY <1>3, <2>1, <3>3, <3>4 DEF Newest
    <3> QED
      BY <1>3, <2>1, <3>2, <3>5 DEF Newest
  <2> QED
    BY <1>10, <2>2, <2>3 DEF Restart
<1>11. CASE UNCHANGED vars
  BY <1>3, <1>11, NewestKept DEF vars, memory, history, Newest
<1> QED
  BY <1>4, <1>5, <1>6, <1>7, <1>8, <1>9, <1>10, <1>11 DEF Next

-----------------------------------------------------------------------------
(* The theorems.                                                             *)

\* The first start: nothing stored, nothing installed.
LEMMA InitIInv == Init => IInv /\ NewestInv
<1> SUFFICES ASSUME Init PROVE IInv /\ NewestInv
  OBVIOUS
<1> USE OAuthAssumption DEF Init
<1>1. InUse = {}
  BY DEF InUse, NoJob
<1>2. NoClient \in Client /\ NoClient.by = None /\ NoToken \in Token /\ NoJob \in Job
  BY DEF NoClient, Client, NoToken, Token, NoJob, Job
<1>3. TypeOK
  <2>1. up \in BOOLEAN /\ requested \in BOOLEAN /\ overlap \in BOOLEAN
    BY Zenon
  <2>2. /\ hpc \in [Handlers -> {"idle", "exchange", "store", "client", "ready",
                                "reply"}]
        /\ cpc \in [Callers -> {"idle", "get", "install", "token", "persist",
                               "call"}]
        /\ hjob \in [Handlers -> Job] /\ cjob \in [Callers -> 0..MaxClients]
        /\ clients \in [Heap -> Client]
    BY <1>2
  <2>3. /\ current \in 0..MaxClients /\ consents \in 0..MaxConsents
        /\ newest \in 0..consents
    OBVIOUS
  <2> QED
    BY <1>1, <1>2, <2>1, <2>2, <2>3 DEF TypeOK
<1>4. StateInv /\ HandlerInv /\ ClientInv /\ StoredInv
  BY <1>1 DEF StateInv, HandlerInv, ClientInv, StoredInv, NoJob
<1>5. NewestInv
  BY DEF NewestInv, Newest, NoToken, NoJob
<1> QED
  BY <1>3, <1>4, <1>5 DEF IInv

\* What the heap's invariant says of the installed client.
LEMMA ClientStep == IInv /\ [Next]_vars => ClientInv'
BY HeapStep DEF HeapOK

\* Every step keeps the inductive invariant.
LEMMA StepIInv == IInv /\ NewestInv /\ [Next]_vars => IInv' /\ NewestInv'
BY TypeStep, StateStep, HandlerStep, ClientStep, StoredStep, NewestStep DEF IInv

\* The inductive invariant holds of every behaviour of the daemon, fair or
\* not, for any number of handlers, callers, consents, failures and crashes.
THEOREM InductiveInvariant == SafetySpec => [](IInv /\ NewestInv)
  BY InitIInv, StepIInv, PTL DEF SafetySpec

\* Every variable keeps its type; the heap holds the clients in use and no
\* others.
THEOREM TypeCorrect == SafetySpec => []TypeOK
  BY InductiveInvariant, PTL DEF IInv

\* oauth.go:121-129: however many browsers bring it back at once, a state
\* parameter admits one callback.
THEOREM StatesAreUsedOnce == SafetySpec => []StateUsedOnce
<1>1. IInv => StateUsedOnce
  BY DEF IInv, StateInv, StateUsedOnce
<1> QED
  BY <1>1, InductiveInvariant, PTL

\* oauth.go:143-158: whenever a client is installed, a restart would find a
\* token, whatever failed and whoever built the client.
THEOREM ClientsAreDurable == SafetySpec => []DurableClient
<1>1. IInv => DurableClient
  BY DEF IInv, StoredInv, DurableClient, InUse
<1> QED
  BY <1>1, InductiveInvariant, PTL

\* drive.go:66-97: the row and the installed client are those of the last
\* consent, unless a call failed or a callback ran beside another or a call.
THEOREM NewestIsUsed == SafetySpec => []NewestConsentWins
<1>1. NewestInv => NewestConsentWins
  BY DEF NewestInv, Newest, NewestConsentWins
<1> QED
  BY <1>1, InductiveInvariant, PTL
=============================================================================
