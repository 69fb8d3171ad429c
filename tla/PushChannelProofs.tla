--------------------------- MODULE PushChannelProofs ---------------------------
(* Proofs about PushChannel: type correctness, that the stored channel never *)
(* lapses, that channels leaked at Drive are accounted for, that the loop    *)
(* sleeps in every round and that notices are served, for any number of      *)
(* channels, any lifetimes and any failures, shutdowns and crashes.          *)
EXTENDS PushChannel, FiniteSetTheorems, TLAPS

-----------------------------------------------------------------------------
(* The inductive invariant.                                                  *)

Spent == faults + stops + crashes

\* What is known at each step of the manager.
StepInv ==
    /\ stored.id # None => auth /\ startToken
    /\ pc \in {"watch", "put"} => startToken
    /\ pc = "put" => auth /\ reg \in Chans /\ reg # stored.id
    /\ pc # "put" => reg = None
    /\ pc = "down" => ~shutting
    /\ shutting => stops > 0
    /\ pc = "wait" /\ seen # None => seen = stored.id

\* Channels alive at Drive that nobody knows of.
Leaked == Live \ {stored.id, reg}

\* The manager is going to replace the stored channel without stopping it.
Exposed ==
    /\ stored.id \in Live /\ ~shutting
    /\ \/ pc \in {"down", "token", "ensure", "watch", "put"}
       \/ pc = "wait" /\ seen = None

\* The registered channel is going to be forgotten.
Forgotten == pc = "put" /\ shutting

\* A channel is leaked, or about to be, for a trouble of its own.
LeakInv ==
    /\ Cardinality(Leaked) <= Spent
    /\ Exposed \/ Forgotten => Cardinality(Leaked) + 1 <= Spent

\* Without troubles the row follows Drive, and the timer follows the row.
TimeInv ==
    Spent = 0 =>
        /\ pc # "down"
        /\ pc = "put" => live[reg] > 0
        /\ pc = "token" => stored.id = None
        /\ stored.id # None =>
              /\ pc \in {"loop", "wait"} =>
                    live[stored.id] = stored.left /\ stored.left > 0
              /\ pc = "ensure" => stored.left <= Lead
        /\ pc = "wait" => seen = stored.id
        /\ pc = "wait" /\ stored.id # None => timer = Minus(stored.left, Lead)

IInv == TypeOK /\ StepInv /\ LeakInv /\ TimeInv

\* Every lifetime granted outlasts the renewal window.
GrantsOutlastLead == \A g \in Grants : g > Lead

\* As long as no call failed, the loop is entered well before the renewal.
RestInv ==
    GrantsOutlastLead /\ faults = 0 =>
        /\ pc = "loop" /\ ~shutting /\ stored.id # None => stored.left > Lead
        /\ pc = "put" /\ ~shutting => live[reg] > Lead

-----------------------------------------------------------------------------
(* Types.                                                                    *)

\* A lifetime that runs down stays one.
LEMMA LifetimesRunDown ==
    /\ Lifetimes \subseteq Nat /\ 0 \in Lifetimes /\ Grants \subseteq Lifetimes
    /\ \A n \in Lifetimes : Less(n) \in Lifetimes
<1> USE TimesAssumption DEF Lifetimes
<1>1. Lifetimes \subseteq Nat
  OBVIOUS
<1>2. 0 \in Lifetimes
  <2>1. PICK g \in Grants : TRUE
    OBVIOUS
  <2> QED
    BY <2>1
<1>3. Grants \subseteq Lifetimes
  <2> SUFFICES ASSUME NEW g \in Grants PROVE g \in 0..g
    OBVIOUS
  <2> QED
    OBVIOUS
<1>4. ASSUME NEW n \in Lifetimes PROVE Less(n) \in Lifetimes
  <2>1. PICK g \in Grants : n \in 0..g
    OBVIOUS
  <2>2. Less(n) \in 0..g
    BY <2>1 DEF Less, Minus
  <2> QED
    BY <2>2
<1> QED
  BY <1>1, <1>2, <1>3, <1>4

\* The wait is a natural number.
LEMMA WaitTyped == TypeOK => Wait \in Nat
<1> SUFFICES ASSUME TypeOK PROVE Wait \in Nat
  OBVIOUS
<1>1. stored.left \in Nat
  BY LifetimesRunDown DEF TypeOK
<1> QED
  BY <1>1, TimesAssumption DEF Wait, Minus

\* The type invariant is inductive, whatever the manager knows.
LEMMA TypeStep == TypeOK /\ StepInv /\ [Next]_vars => TypeOK'
<1> SUFFICES ASSUME TypeOK, StepInv, [Next]_vars PROVE TypeOK'
  OBVIOUS
<1> USE DEF TypeOK, Works, Breaks, Fails, Goto, hook, bounds, db, mgr
<1>f. ASSUME NEW ok, Works(ok) \/ Fails(ok) PROVE faults' \in 0..MaxFaults
  BY <1>f, TimesAssumption
<1>1. CASE EnsureStartPageToken
  BY <1>1, <1>f DEF EnsureStartPageToken
<1>2. CASE EnsureChannel
  BY <1>2, <1>f DEF EnsureChannel
<1>3. CASE WatchChanges
  BY <1>3, <1>f, LifetimesRunDown DEF WatchChanges, Live
<1>4. CASE PutChannel
  <2>1. stored' \in [id : Chans \cup {None}, left : Lifetimes]
    BY <1>4, TimesAssumption DEF PutChannel, StepInv
  <2> QED
    BY <1>4, <1>f, <2>1 DEF PutChannel
<1>5. CASE Sleep
  <2>1. seen' \in Chans \cup {None} /\ timer' \in Nat
    BY <1>5, WaitTyped, TimesAssumption DEF Sleep
  <2> QED
    BY <1>5, <1>f, <2>1 DEF Sleep
<1>s. ASSUME NEW c \in Chans \cup {None}, StopChannel(c)
      PROVE  live' \in [Chans -> Lifetimes] /\ faults' \in 0..MaxFaults
  BY <1>s, <1>f, LifetimesRunDown DEF StopChannel
<1>6. CASE Renew
  BY <1>6, <1>s DEF Renew
<1>7. CASE RenewInVain
  BY <1>7 DEF RenewInVain
<1>8. CASE Return
  <2>1. live' \in [Chans -> Lifetimes] /\ faults' \in 0..MaxFaults
    BY <1>8, <1>s DEF Return
  <2>2. shutting' \in BOOLEAN /\ auth' \in BOOLEAN /\ startToken' \in BOOLEAN
    BY <1>8, Zenon DEF Return
  <2>3. pc' = "down" /\ seen' = None /\ timer' = 0 /\ requests' = 0
        /\ UNCHANGED <<stored, reg, notices, stops, crashes>>
    BY <1>8 DEF Return
  <2> QED
    BY <2>1, <2>2, <2>3
<1>9. CASE Authenticate
  BY <1>9 DEF Authenticate
<1>10. CASE Signal
  BY <1>10, TimesAssumption DEF Signal
<1>11. CASE Crash
  <2>1. crashes' \in 0..MaxCrashes
    BY <1>11, TimesAssumption DEF Crash
  <2>2. shutting' \in BOOLEAN /\ auth' \in BOOLEAN /\ startToken' \in BOOLEAN
    BY <1>11, Zenon DEF Crash
  <2>3. pc' = "down" /\ seen' = None /\ reg' = None /\ timer' = 0
        /\ requests' = 0 /\ UNCHANGED <<live, stored, notices, faults, stops>>
    BY <1>11 DEF Crash
  <2> QED
    BY <2>1, <2>2, <2>3
<1>12. CASE Restart
  BY <1>12 DEF Restart
<1>13. CASE Tick
  <2>1. live' \in [Chans -> Lifetimes] /\ timer' \in Nat
    BY <1>13, LifetimesRunDown DEF Tick, Less, Minus
  <2>2. stored' \in [id : Chans \cup {None}, left : Lifetimes]
    BY <1>13, LifetimesRunDown DEF Tick
  <2> QED
    BY <1>13, <2>1, <2>2 DEF Tick
<1>14. CASE Scan
  BY <1>14 DEF Scan
<1>15. ASSUME NEW c \in Chans, Change(c) \/ ServeHTTP(c) \/ Undelivered(c)
       PROVE  TypeOK'
  BY <1>15, <1>f DEF Change, ServeHTTP, Undelivered, Live
<1>16. CASE UNCHANGED vars
  BY <1>16 DEF vars
<1> QED
  BY <1>1, <1>2, <1>3, <1>4, <1>5, <1>6, <1>7, <1>8, <1>9, <1>10, <1>11, <1>12,
     <1>13, <1>14, <1>15, <1>16 DEF Next, Manager

-----------------------------------------------------------------------------
(* What the manager knows.                                                   *)

\* Each step leaves the manager with what it will know at the next one.
LEMMA StepStep == TypeOK /\ StepInv /\ [Next]_vars => StepInv'
<1> SUFFICES ASSUME TypeOK, StepInv, [Next]_vars PROVE StepInv'
  OBVIOUS
<1> USE DEF TypeOK, StepInv, Works, Breaks, Fails, Goto, hook, bounds, db, mgr,
            DriveUp, StoreUp
<1>1. CASE EnsureStartPageToken
  BY <1>1 DEF EnsureStartPageToken
<1>2. CASE EnsureChannel
  BY <1>2 DEF EnsureChannel, Fresh
<1>3. CASE WatchChanges
  BY <1>3 DEF WatchChanges
<1>4. CASE PutChannel
  BY <1>4 DEF PutChannel
<1>5. CASE Sleep
  BY <1>5 DEF Sleep
<1>6. CASE Renew
  BY <1>6 DEF Renew, StopChannel
<1>7. CASE RenewInVain
  BY <1>7 DEF RenewInVain
<1>8. CASE Return
  BY <1>8 DEF Return, StopChannel
<1>9. CASE Authenticate
  BY <1>9 DEF Authenticate
<1>10. CASE Signal
  BY <1>10 DEF Signal
<1>11. CASE Crash
  BY <1>11 DEF Crash
<1>12. CASE Restart
  BY <1>12 DEF Restart
<1>13. CASE Tick
  <2>1. stored'.id = stored.id
    BY <1>13 DEF Tick
  <2> QED
    BY <1>13, <2>1 DEF Tick
<1>14. CASE Scan
  BY <1>14 DEF Scan
<1>15. ASSUME NEW c \in Chans, Change(c) \/ ServeHTTP(c) \/ Undelivered(c)
       PROVE  StepInv'
  BY <1>15 DEF Change, ServeHTTP, Undelivered
<1>16. CASE UNCHANGED vars
  BY <1>16 DEF vars
<1> QED
  BY <1>1, <1>2, <1>3, <1>4, <1>5, <1>6, <1>7, <1>8, <1>9, <1>10, <1>11, <1>12,
     <1>13, <1>14, <1>15, <1>16 DEF Next, Manager

-----------------------------------------------------------------------------
(* Leaks.                                                                    *)

\* Channels counted: fewer or the same, or one more.
LEMMA Counted ==
    ASSUME NEW S \in SUBSET Chans, NEW T \in SUBSET Chans, NEW x
    PROVE  /\ Cardinality(S) \in Nat
           /\ T \subseteq S => Cardinality(T) <= Cardinality(S)
           /\ T \subseteq S \cup {x} => Cardinality(T) <= Cardinality(S) + 1
<1>1. IsFiniteSet(S)
  BY TimesAssumption, FS_Subset
<1>2. Cardinality(S) \in Nat
  BY <1>1, FS_CardinalityType
<1>3. IsFiniteSet(S \cup {x}) /\ Cardinality(S \cup {x}) <= Cardinality(S) + 1
  <2>1. /\ IsFiniteSet(S \cup {x})
        /\ Cardinality(S \cup {x}) = IF x \in S THEN Cardinality(S) ELSE Cardinality(S) + 1
    BY <1>1, FS_AddElement
  <2> QED
    BY <1>2, <2>1
<1>4. Cardinality(S \cup {x}) \in Nat
  BY <1>3, FS_CardinalityType
<1>5. T \subseteq S => Cardinality(T) <= Cardinality(S)
  BY <1>1, FS_Subset
<1>6. ASSUME T \subseteq S \cup {x} PROVE Cardinality(T) <= Cardinality(S \cup {x})
      /\ Cardinality(T) \in Nat
  BY <1>3, <1>6, FS_Subset, FS_CardinalityType
<1> QED
  BY <1>2, <1>3, <1>4, <1>5, <1>6

\* The troubles are a number.
LEMMA SpentTyped ==
    (TypeOK => Spent \in Nat) /\ (TypeOK' => Spent' \in Nat)
<1>1. ASSUME TypeOK PROVE faults \in Nat /\ stops \in Nat /\ crashes \in Nat
  BY <1>1, TimesAssumption DEF TypeOK
<1>2. ASSUME TypeOK' PROVE faults' \in Nat /\ stops' \in Nat /\ crashes' \in Nat
  BY <1>2, TimesAssumption DEF TypeOK
<1> QED
  BY <1>1, <1>2 DEF Spent

\* A step accounts for what it leaks: nothing new is leaked, or one channel
\* for a trouble or for one it was going to lose anyway.
LEMMA LeakKept ==
    ASSUME TypeOK, TypeOK', LeakInv, NEW x,
           \/ /\ Leaked' \subseteq Leaked /\ Spent' >= Spent
              /\ (Exposed \/ Forgotten)' => Exposed \/ Forgotten \/ Spent' > Spent
           \/ /\ Leaked' \subseteq Leaked \cup {x}
              /\ Spent' > Spent
              /\ (Exposed \/ Forgotten)' => Exposed \/ Forgotten
           \/ /\ Leaked' \subseteq Leaked \cup {x} /\ Spent' >= Spent
              /\ Exposed \/ Forgotten
              /\ ~(Exposed \/ Forgotten)' \/ Spent' > Spent
    PROVE  LeakInv'
<1> DEFINE L == Cardinality(Leaked)
           D == Exposed \/ Forgotten
<1>1. Spent \in Nat /\ Spent' \in Nat
  BY SpentTyped
<1>2. Leaked \in SUBSET Chans /\ Leaked' \in SUBSET Chans
  BY DEF Leaked, Live
<1>3. L \in Nat /\ L' \in Nat
  BY <1>2, Counted
<1>4. Leaked' \subseteq Leaked => L' <= L
  BY <1>2, Counted
<1>5. Leaked' \subseteq Leaked \cup {x} => L' <= L + 1
  BY <1>2, Counted
<1>6. L <= Spent
  BY DEF LeakInv
<1>7. D => L + 1 <= Spent
  BY DEF LeakInv
<1> HIDE DEF L, D
<1>8. PICK l \in Nat, m \in Nat, s \in Nat, t \in Nat :
          l = L /\ m = L' /\ s = Spent /\ t = Spent'
  BY <1>1, <1>3
<1>9. /\ m <= l /\ l <= s /\ t >= s => m <= t
      /\ m <= l /\ l <= s /\ t > s => m + 1 <= t
      /\ m <= l /\ l + 1 <= s /\ t >= s => m + 1 <= t
      /\ m <= l + 1 /\ l <= s /\ t > s => m <= t
      /\ m <= l + 1 /\ l + 1 <= s /\ t > s => m + 1 <= t
      /\ m <= l + 1 /\ l + 1 <= s /\ t >= s => m <= t
  OBVIOUS
<1>10. \/ Leaked' \subseteq Leaked /\ t >= s /\ (D' => D \/ t > s)
       \/ Leaked' \subseteq Leaked \cup {x} /\ t > s /\ (D' => D)
       \/ Leaked' \subseteq Leaked \cup {x} /\ t >= s /\ D /\ (~D' \/ t > s)
  BY <1>8 DEF D
<1>11. /\ Leaked' \subseteq Leaked => m <= l
       /\ Leaked' \subseteq Leaked \cup {x} => m <= l + 1
       /\ l <= s /\ (D => l + 1 <= s)
  BY <1>4, <1>5, <1>6, <1>7, <1>8
<1>12. m <= t /\ (D' => m + 1 <= t)
  BY <1>9, <1>10, <1>11, Zenon
<1>13. L' <= Spent' /\ (D' => L' + 1 <= Spent')
  BY <1>8, <1>12
<1> QED
  BY <1>13 DEF LeakInv, L, D

\* Every step accounts for what it leaks.
LEMMA LeakStep == TypeOK /\ StepInv /\ LeakInv /\ [Next]_vars => LeakInv'
<1> SUFFICES ASSUME TypeOK, StepInv, LeakInv, [Next]_vars PROVE LeakInv'
  OBVIOUS
<1>t. TypeOK'
  BY TypeStep
<1>n. faults \in Nat /\ stops \in Nat /\ crashes \in Nat
  BY TimesAssumption DEF TypeOK
<1>a. ASSUME Leaked' \subseteq Leaked, Spent' >= Spent,
             Exposed' => Exposed \/ Spent' > Spent,
             Forgotten' => Forgotten \/ Spent' > Spent
      PROVE  LeakInv'
  BY <1>t, <1>a, LeakKept
<1>b. ASSUME NEW x, Leaked' \subseteq Leaked \cup {x}, Spent' > Spent,
             Exposed' => Exposed, ~Forgotten'
      PROVE  LeakInv'
  BY <1>t, <1>b, LeakKept
<1>c. ASSUME NEW x, Leaked' \subseteq Leaked \cup {x}, Spent' >= Spent,
             Exposed \/ Forgotten, ~Forgotten', ~Exposed' \/ Spent' > Spent
      PROVE  LeakInv'
  BY <1>t, <1>c, LeakKept
<1>f. ASSUME faults' = faults \/ faults' = faults + 1, UNCHANGED <<stops, crashes>>
      PROVE  Spent' >= Spent /\ (faults' = faults + 1 => Spent' > Spent)
  BY <1>n, <1>f DEF Spent
<1>g. ASSUME UNCHANGED <<stored, reg, live>> PROVE Leaked' = Leaked /\ Live' = Live
  BY <1>g DEF Leaked, Live
<1>h. ASSUME UNCHANGED <<stored, reg, live, pc, seen, shutting, stops, crashes>>,
             faults' = faults \/ faults' = faults + 1
      PROVE  LeakInv'
  <2>1. Exposed' => Exposed
    BY <1>g, <1>h DEF Exposed
  <2>2. Forgotten' => Forgotten
    BY <1>h DEF Forgotten
  <2> QED
    BY <1>a, <1>f, <1>g, <1>h, <2>1, <2>2
<1> USE DEF Works, Breaks, Fails, Goto, hook, bounds, db, mgr, DriveUp, StoreUp
<1>1. CASE EnsureStartPageToken
  <2>1. UNCHANGED <<stored, reg, live, stops, crashes>>
        /\ (faults' = faults \/ faults' = faults + 1)
    BY <1>1 DEF EnsureStartPageToken
  <2>2. (Exposed' => Exposed) /\ ~Forgotten'
    BY <1>1, <1>g, <2>1 DEF EnsureStartPageToken, Exposed, Forgotten
  <2> QED
    BY <1>a, <1>f, <1>g, <2>1, <2>2
<1>2. CASE EnsureChannel
  <2>1. UNCHANGED <<stored, reg, live, stops, crashes>>
        /\ (faults' = faults \/ faults' = faults + 1)
    BY <1>2 DEF EnsureChannel
  <2>2. (Exposed' => Exposed) /\ ~Forgotten'
    BY <1>2, <1>g, <2>1 DEF EnsureChannel, Exposed, Forgotten
  <2> QED
    BY <1>a, <1>f, <1>g, <2>1, <2>2
<1>3. CASE WatchChanges
  <2>1. reg = None /\ pc = "watch" /\ UNCHANGED <<stored, seen, stops, crashes>>
        /\ (faults' = faults \/ faults' = faults + 1)
    BY <1>3 DEF WatchChanges, StepInv
  <2>2. ASSUME NEW c \in (Chans \ Live) \ {stored.id}, NEW left \in Grants,
               live' = [live EXCEPT ![c] = left]
        PROVE  Live' \subseteq Live \cup {c} /\ (stored'.id \in Live' => stored.id \in Live)
    BY <2>1, <2>2 DEF TypeOK, Live
  <2>3. ASSUME NEW c \in (Chans \ Live) \ {stored.id}, NEW left \in Grants,
               live' = [live EXCEPT ![c] = left], Works(DriveUp), reg' = c, Goto("put")
        PROVE  LeakInv'
    <3>1. Leaked' \subseteq Leaked
      BY <2>1, <2>2, <2>3, TimesAssumption DEF Leaked, Live
    <3>2. ~shutting' /\ ~shutting
      BY <1>3, <2>3 DEF WatchChanges
    <3>3. (Exposed' => Exposed) /\ ~Forgotten'
      BY <2>1, <2>2, <2>3, <3>2 DEF Exposed, Forgotten
    <3> QED
      BY <1>a, <1>f, <2>1, <3>1, <3>3
  <2>4. ASSUME NEW c \in (Chans \ Live) \ {stored.id}, NEW left \in Grants,
               live' = [live EXCEPT ![c] = left], Breaks, UNCHANGED reg, Goto("loop")
        PROVE  LeakInv'
    <3>1. Leaked' \subseteq Leaked \cup {c}
      BY <2>1, <2>2, <2>4 DEF Leaked
    <3>2. ~Exposed' /\ ~Forgotten' /\ Spent' > Spent
      BY <1>f, <2>1, <2>4 DEF Exposed, Forgotten
    <3> QED
      BY <1>b, <3>1, <3>2
  <2>5. ASSUME UNCHANGED <<live, reg>>, Goto("loop") PROVE LeakInv'
    <3>1. ~Exposed' /\ ~Forgotten'
      BY <2>5 DEF Exposed, Forgotten
    <3> QED
      BY <1>a, <1>f, <1>g, <2>1, <2>5, <3>1
  <2> QED
    BY <1>3, <2>3, <2>4, <2>5 DEF WatchChanges
<1>4. CASE PutChannel
  <2>1. pc = "put" /\ reg' = None /\ UNCHANGED <<live, stops, crashes, shutting>>
        /\ (faults' = faults \/ faults' = faults + 1)
    BY <1>4 DEF PutChannel
  <2>2. ~Exposed' /\ ~Forgotten'
    BY <1>4 DEF PutChannel, Exposed, Forgotten
  <2>3. CASE Works(StoreUp) /\ stored' = [id |-> reg, left |-> live[reg]]
    <3>1. Leaked' \subseteq Leaked \cup {stored.id}
      BY <2>1, <2>3 DEF Leaked, Live
    <3>2. CASE stored.id \in Live
      BY <1>c, <1>f, <2>1, <2>2, <2>3, <3>1, <3>2 DEF Exposed
    <3>3. CASE stored.id \notin Live
      <4>1. Leaked' \subseteq Leaked
        BY <2>1, <3>1, <3>3 DEF Leaked, Live
      <4> QED
        BY <1>a, <1>f, <2>1, <2>2, <4>1
    <3> QED
      BY <3>2, <3>3
  <2>4. CASE Fails(StoreUp) /\ UNCHANGED stored
    <3>1. Leaked' \subseteq Leaked \cup {reg}
      BY <2>1, <2>4 DEF Leaked, Live
    <3>2. CASE Breaks
      BY <1>b, <1>f, <2>1, <2>2, <3>1, <3>2
    <3>3. CASE ~StoreUp
      BY <1>c, <1>f, <2>1, <2>2, <3>1, <3>3 DEF Forgotten
    <3> QED
      BY <2>4, <3>2, <3>3
  <2> QED
    BY <1>4, <2>3, <2>4 DEF PutChannel
<1>5. CASE Sleep
  <2>1. UNCHANGED <<stored, reg, live, stops, crashes, shutting>> /\ pc' = "wait"
        /\ (faults' = faults \/ faults' = faults + 1)
    BY <1>5 DEF Sleep
  <2>2. ~Forgotten'
    BY <2>1 DEF Forgotten
  <2>3. None \notin Live
    BY TimesAssumption DEF Live
  <2>4. CASE Works(StoreUp) /\ seen' = stored.id
    <3>1. ~Exposed'
      BY <1>g, <2>1, <2>3, <2>4 DEF Exposed
    <3> QED
      BY <1>a, <1>f, <1>g, <2>1, <2>2, <3>1
  <2>5. CASE Breaks
    BY <1>a, <1>f, <1>g, <2>1, <2>2, <2>5
  <2>6. CASE shutting
    <3>1. ~Exposed'
      BY <2>1, <2>6 DEF Exposed
    <3> QED
      BY <1>a, <1>f, <1>g, <2>1, <2>2, <3>1
  <2> QED
    BY <1>5, <2>4, <2>5, <2>6 DEF Sleep
<1>s. ASSUME NEW c, StopChannel(c), UNCHANGED <<stored, reg, stops, crashes>>
      PROVE  /\ faults' = faults \/ faults' = faults + 1
             /\ Leaked' \subseteq Leaked /\ Live' \subseteq Live
             /\ c = stored.id => stored'.id \notin Live' \/ Spent' > Spent
  <2>1. (faults' = faults \/ faults' = faults + 1) /\ Live' \subseteq Live
    BY <1>s DEF StopChannel, Live, TypeOK
  <2>2. Leaked' \subseteq Leaked
    BY <1>s, <2>1 DEF Leaked
  <2>3. ASSUME c = stored.id, c = None PROVE stored'.id \notin Live'
    BY <1>s, <2>3, TimesAssumption DEF Live
  <2>4. ASSUME c = stored.id, c # None, live' = [live EXCEPT ![c] = 0]
        PROVE  stored'.id \notin Live'
    BY <1>s, <2>4 DEF Live, TypeOK
  <2>5. ASSUME c = stored.id, c # None, Fails(auth) PROVE Spent' > Spent
    BY <1>s, <1>f, <2>5 DEF StepInv
  <2> QED
    BY <1>s, <2>1, <2>2, <2>3, <2>4, <2>5 DEF StopChannel
<1>6. CASE Renew
  <2>1. UNCHANGED <<stored, reg, stops, crashes>> /\ StopChannel(seen)
        /\ pc = "wait" /\ pc' = "ensure"
    BY <1>6 DEF Renew
  <2>2. Exposed' => Exposed \/ Spent' > Spent
    <3>1. CASE seen = None
      BY <1>6, <1>s, <2>1, <3>1 DEF Renew, Exposed
    <3>2. CASE seen # None
      <4>1. seen = stored.id
        BY <2>1, <3>2 DEF StepInv
      <4> QED
        BY <1>s, <2>1, <4>1 DEF Exposed
    <3> QED
      BY <3>1, <3>2
  <2>3. ~Forgotten'
    BY <2>1 DEF Forgotten
  <2> QED
    BY <1>a, <1>f, <1>s, <2>1, <2>2, <2>3
<1>7. CASE RenewInVain
  <2>1. UNCHANGED <<stored, reg, live, faults, stops, crashes>>
    BY <1>7 DEF RenewInVain
  <2>2. ~Exposed' /\ ~Forgotten'
    BY <1>7 DEF RenewInVain, Exposed, Forgotten
  <2> QED
    BY <1>a, <1>f, <1>g, <2>1, <2>2
<1>8. CASE Return
  <2>1. UNCHANGED <<stored, reg, stops, crashes>> /\ StopChannel(stored.id)
    BY <1>8 DEF Return
  <2>2. Exposed' => Spent' > Spent
    BY <1>s, <2>1 DEF Exposed
  <2>3. ~Forgotten'
    BY <1>8 DEF Return, Forgotten
  <2> QED
    BY <1>a, <1>f, <1>s, <2>1, <2>2, <2>3
<1>9. CASE Authenticate
  BY <1>9, <1>h DEF Authenticate
<1>10. CASE Signal
  <2>1. UNCHANGED <<stored, reg, live>> /\ Spent' > Spent
    BY <1>10, <1>n DEF Signal, Spent
  <2> QED
    BY <1>a, <1>g, <2>1, SpentTyped, <1>t
<1>11. CASE Crash
  <2>1. UNCHANGED <<stored, live>> /\ reg' = None
    BY <1>11 DEF Crash
  <2>2. Spent' > Spent
    BY <1>11, <1>n DEF Crash, Spent
  <2>3. Leaked' \subseteq Leaked \cup {reg} /\ Live' = Live
    BY <2>1 DEF Leaked, Live
  <2>4. ~Forgotten'
    BY <1>11 DEF Crash, Forgotten
  <2>5. CASE pc # "put"
    <3>1. reg = None
      BY <2>5 DEF StepInv
    <3> QED
      BY <1>a, <1>g, <1>t, <2>1, <2>2, <2>4, <3>1, SpentTyped
  <2>6. CASE pc = "put" /\ ~shutting
    <3>1. Exposed' => Exposed
      BY <2>1, <2>3, <2>6 DEF Exposed
    <3> QED
      BY <1>b, <2>2, <2>3, <2>4, <3>1
  <2>7. CASE pc = "put" /\ shutting
    BY <1>c, <1>t, <2>2, <2>3, <2>4, <2>7, SpentTyped DEF Forgotten
  <2> QED
    BY <2>5, <2>6, <2>7
<1>12. CASE Restart
  <2>1. UNCHANGED <<stored, reg, live, faults, stops, crashes>>
    BY <1>12 DEF Restart
  <2>2. (Exposed' => Exposed) /\ ~Forgotten'
    BY <1>12, <1>g, <2>1 DEF Restart, Exposed, Forgotten, StepInv
  <2> QED
    BY <1>a, <1>f, <1>g, <2>1, <2>2
<1>13. CASE Tick
  <2>1. UNCHANGED <<reg, pc, seen, shutting, faults, stops, crashes>>
    BY <1>13 DEF Tick
  <2>2. stored'.id = stored.id
    BY <1>13 DEF Tick, TypeOK
  <2>3. Live' \subseteq Live
    <3> SUFFICES ASSUME NEW c \in Chans, live'[c] > 0 PROVE live[c] > 0
      BY DEF Live
    <3>1. live[c] \in Nat /\ live'[c] = Less(live[c])
      BY <1>13, LifetimesRunDown DEF Tick, TypeOK
    <3> QED
      BY <3>1 DEF Less, Minus
  <2>4. Leaked' \subseteq Leaked
    BY <2>1, <2>2, <2>3 DEF Leaked
  <2>5. (Exposed' => Exposed) /\ (Forgotten' => Forgotten)
    BY <2>1, <2>2, <2>3 DEF Exposed, Forgotten
  <2> QED
    BY <1>a, <1>f, <2>1, <2>4, <2>5
<1>14. CASE Scan
  BY <1>14, <1>h DEF Scan
<1>15. ASSUME NEW c \in Chans, Change(c) \/ ServeHTTP(c) \/ Undelivered(c)
       PROVE  LeakInv'
  BY <1>15, <1>h DEF Change, ServeHTTP, Undelivered
<1>16. CASE UNCHANGED vars
  BY <1>16, <1>h DEF vars
<1> QED
  BY <1>1, <1>2, <1>3, <1>4, <1>5, <1>6, <1>7, <1>8, <1>9, <1>10, <1>11, <1>12,
     <1>13, <1>14, <1>15, <1>16 DEF Next, Manager

-----------------------------------------------------------------------------
(* Time.                                                                     *)

\* Troubles are never forgotten: without any so far there were none before.
LEMMA Untroubled ==
    TypeOK /\ TypeOK' /\ [Next]_vars /\ Spent' = 0
        => /\ Spent = 0 /\ faults' = 0 /\ stops' = 0 /\ crashes' = 0
           /\ faults = 0 /\ stops = 0 /\ crashes = 0
<1> SUFFICES ASSUME TypeOK, TypeOK', [Next]_vars, Spent' = 0
             PROVE  /\ Spent = 0 /\ faults' = 0 /\ stops' = 0 /\ crashes' = 0
                    /\ faults = 0 /\ stops = 0 /\ crashes = 0
  OBVIOUS
<1>1. /\ faults \in Nat /\ stops \in Nat /\ crashes \in Nat
      /\ faults' \in Nat /\ stops' \in Nat /\ crashes' \in Nat
  BY TimesAssumption DEF TypeOK
<1>2. faults' = 0 /\ stops' = 0 /\ crashes' = 0
  <2>1. \A a, b, c \in Nat : a + b + c = 0 => a = 0 /\ b = 0 /\ c = 0
    OBVIOUS
  <2>2. faults' + stops' + crashes' = 0
    BY DEF Spent
  <2> QED
    BY <1>1, <2>1, <2>2
<1>3. (faults' = faults \/ faults' = faults + 1)
      /\ (stops' = stops \/ stops' = stops + 1)
      /\ (crashes' = crashes \/ crashes' = crashes + 1)
  BY DEF Next, Manager, EnsureStartPageToken, EnsureChannel, WatchChanges,
         PutChannel, Sleep, Renew, RenewInVain, Return, StopChannel, Authenticate,
         Signal, Crash, Restart, Tick, Scan, Change, ServeHTTP, Undelivered,
         Works, Breaks, Fails, hook, bounds, db, mgr, vars
<1>4. faults = 0 /\ stops = 0 /\ crashes = 0
  BY <1>1, <1>2, <1>3
<1> QED
  BY <1>2, <1>4 DEF Spent

\* The lifetimes are numbers, and a granted one is positive.
LEMMA TimesTyped ==
    TypeOK => /\ stored.left \in Nat /\ stored.id \in Chans \cup {None}
              /\ \A c \in Chans : live[c] \in Nat
<1> SUFFICES ASSUME TypeOK
             PROVE  /\ stored.left \in Nat /\ stored.id \in Chans \cup {None}
                    /\ \A c \in Chans : live[c] \in Nat
  OBVIOUS
<1>1. stored.left \in Lifetimes /\ stored.id \in Chans \cup {None}
      /\ \A c \in Chans : live[c] \in Lifetimes
  BY DEF TypeOK
<1> QED
  BY <1>1, LifetimesRunDown

\* Without troubles nothing comes between a renewal and the next.
LEMMA TimeStep == TypeOK /\ StepInv /\ TimeInv /\ [Next]_vars => TimeInv'
<1> SUFFICES ASSUME TypeOK, StepInv, TimeInv, [Next]_vars, Spent' = 0 PROVE TimeInv'
  BY DEF TimeInv
<1>t. TypeOK' /\ StepInv'
  BY TypeStep, StepStep
<1>u. /\ Spent = 0 /\ faults' = 0 /\ stops' = 0 /\ crashes' = 0
      /\ faults = 0 /\ stops = 0 /\ crashes = 0
  BY <1>t, Untroubled
<1>d. ~shutting /\ ~shutting'
  BY <1>t, <1>u DEF StepInv
<1>n. ~Breaks
  BY <1>u DEF Breaks
<1>w. stored.left \in Nat /\ \A c \in Chans : live[c] \in Nat
  BY TimesTyped
<1> USE TimesAssumption
<1> USE DEF TimeInv, Goto, hook, bounds, db, mgr, DriveUp, StoreUp
<1>1. CASE EnsureStartPageToken
  BY <1>1, <1>u DEF EnsureStartPageToken
<1>2. CASE EnsureChannel
  <2>1. UNCHANGED <<stored, live>> /\ pc = "ensure" /\ pc' \in {"watch", "loop"}
    BY <1>2 DEF EnsureChannel
  <2>2. pc' = "loop" => stored.id = None
    BY <1>2, <1>d, <1>n, <1>u, <1>w DEF EnsureChannel, Fails, Fresh, StepInv
  <2> QED
    BY <2>1, <2>2
<1>3. CASE WatchChanges
  <2>1. pc = "watch" /\ UNCHANGED stored
    BY <1>3 DEF WatchChanges
  <2>2. CASE auth
    <3>1. pc' = "put" /\ live'[reg'] > 0
      BY <1>3, <1>d, <1>n, <2>2 DEF WatchChanges, Fails, TypeOK
    <3> QED
      BY <2>1, <3>1
  <2>3. CASE ~auth
    <3>1. stored.id = None /\ pc' = "loop"
      BY <1>3, <1>n, <2>3 DEF WatchChanges, Works, StepInv
    <3> QED
      BY <2>1, <3>1
  <2> QED
    BY <2>2, <2>3
<1>4. CASE PutChannel
  <2>1. stored' = [id |-> reg, left |-> live[reg]] /\ UNCHANGED live /\ pc = "put"
        /\ pc' = "loop"
    BY <1>4, <1>d, <1>n DEF PutChannel, Fails
  <2> QED
    BY <2>1, <1>u
<1>5. CASE Sleep
  <2>1. /\ UNCHANGED <<stored, live>> /\ pc = "loop" /\ pc' = "wait"
        /\ seen' = stored.id /\ timer' = Wait
    BY <1>5, <1>d, <1>n DEF Sleep, Fails
  <2> QED
    BY <2>1, <1>u DEF Wait
<1>6. CASE Renew
  <2>1. UNCHANGED stored /\ pc = "wait" /\ pc' = "ensure" /\ timer = 0
    BY <1>6 DEF Renew
  <2>2. stored.id # None => stored.left <= Lead
    BY <1>u, <1>w, <2>1 DEF Minus
  <2> QED
    BY <2>1, <2>2
<1>7. CASE RenewInVain \/ Return \/ Signal \/ Crash \/ Restart
  BY <1>7, <1>d, <1>u DEF RenewInVain, Return, Signal, Crash, Restart
<1>8. CASE Authenticate
  BY <1>8, <1>u DEF Authenticate
<1>9. CASE Tick
  <2>1. /\ pc = "wait" /\ pc' = "wait" /\ timer > 0 /\ seen' = seen
        /\ stored'.id = stored.id /\ stored'.left = Less(stored.left)
        /\ timer' = Less(timer) /\ live' = [c \in Chans |-> Less(live[c])]
    BY <1>9, <1>u DEF Tick, TypeOK
  <2>2. seen = stored.id
    BY <1>u, <2>1
  <2>3. ASSUME stored.id # None
        PROVE  /\ live'[stored.id] = stored'.left /\ stored'.left > 0
               /\ timer' = Minus(stored'.left, Lead)
    <3>1. /\ live[stored.id] = stored.left /\ stored.left > 0
          /\ timer = Minus(stored.left, Lead) /\ stored.id \in Chans
      BY <1>u, <2>1, <2>3, TimesTyped
    <3>2. stored.left > Lead /\ timer = stored.left - Lead
      BY <1>w, <2>1, <3>1 DEF Minus
    <3>3. stored'.left = stored.left - 1 /\ timer' = timer - 1
      BY <1>w, <2>1, <3>1, <3>2 DEF Less, Minus
    <3>4. live'[stored.id] = stored'.left
      BY <2>1, <3>1
    <3> QED
      BY <1>w, <3>2, <3>3, <3>4 DEF Minus
  <2> QED
    BY <2>1, <2>2, <2>3
<1>10. CASE Scan
  BY <1>10, <1>u DEF Scan
<1>11. ASSUME NEW c \in Chans, Change(c) \/ ServeHTTP(c) \/ Undelivered(c)
       PROVE  TimeInv'
  BY <1>11, <1>u DEF Change, ServeHTTP, Undelivered
<1>12. CASE UNCHANGED vars
  BY <1>12, <1>u DEF vars
<1> QED
  BY <1>1, <1>2, <1>3, <1>4, <1>5, <1>6, <1>7, <1>8, <1>9, <1>10, <1>11, <1>12
     DEF Next, Manager

\* As long as no call failed the loop is entered with a fresh row or with none.
LEMMA RestStep == TypeOK /\ StepInv /\ RestInv /\ [Next]_vars => RestInv'
<1> SUFFICES ASSUME TypeOK, StepInv, RestInv, [Next]_vars,
                    GrantsOutlastLead, faults' = 0
             PROVE  RestInv'
  BY DEF RestInv, GrantsOutlastLead
<1>t. TypeOK'
  BY TypeStep
<1>u. faults \in Nat
  BY TimesAssumption DEF TypeOK
<1>n. ~Breaks
  BY <1>u DEF Breaks
<1> USE DEF RestInv, Goto, hook, bounds, db, mgr, DriveUp, StoreUp, Works, Fails
<1>1. CASE EnsureStartPageToken \/ Sleep \/ Renew \/ RenewInVain \/ Return
           \/ Crash \/ Restart
  BY <1>1 DEF EnsureStartPageToken, Sleep, Renew, RenewInVain, Return, Crash, Restart
<1>2. CASE EnsureChannel
  <2>1. UNCHANGED <<stored, live, shutting>> /\ pc' \in {"watch", "loop"}
    BY <1>2 DEF EnsureChannel
  <2>2. pc' = "loop" /\ ~shutting => Fresh \/ stored.id = None
    BY <1>2, <1>n DEF EnsureChannel, StepInv
  <2>3. Fresh => stored.left > Lead
    BY DEF Fresh
  <2> QED
    BY <2>1, <2>2, <2>3
<1>3. CASE WatchChanges
  <2>1. UNCHANGED <<stored, shutting>> /\ pc' \in {"put", "loop"}
    BY <1>3 DEF WatchChanges
  <2>2. pc' = "loop" /\ ~shutting => stored.id = None
    BY <1>3, <1>n DEF WatchChanges, StepInv
  <2>3. pc' = "put" => live'[reg'] > Lead
    BY <1>3 DEF WatchChanges, TypeOK, GrantsOutlastLead
  <2> QED
    BY <2>1, <2>2, <2>3
<1>4. CASE PutChannel
  <2>1. UNCHANGED <<live, shutting>> /\ pc = "put" /\ pc' = "loop"
    BY <1>4 DEF PutChannel
  <2>2. CASE shutting
    BY <2>1, <2>2
  <2>3. CASE ~shutting
    <3>1. stored'.left = live[reg] /\ faults = 0
      BY <1>4, <1>n, <2>3 DEF PutChannel
    <3> QED
      BY <2>1, <2>3, <3>1
  <2> QED
    BY <2>2, <2>3
<1>5. CASE Tick
  <2>1. UNCHANGED pc /\ pc \in {"down", "wait"}
    BY <1>5 DEF Tick
  <2> QED
    BY <2>1
<1>6. CASE Signal
  <2>1. shutting'
    BY <1>6 DEF Signal
  <2> QED
    BY <2>1
<1>7. ASSUME UNCHANGED <<stored, live, reg, pc, shutting>>,
             faults' = faults \/ faults' = faults + 1
      PROVE  RestInv'
  BY <1>7, <1>u
<1>8. CASE Authenticate \/ Scan \/ UNCHANGED vars
  BY <1>7, <1>8 DEF Authenticate, Scan, vars
<1>9. ASSUME NEW c \in Chans, Change(c) \/ ServeHTTP(c) \/ Undelivered(c)
      PROVE  RestInv'
  BY <1>7, <1>9 DEF Change, ServeHTTP, Undelivered, Breaks
<1> QED
  BY <1>1, <1>2, <1>3, <1>4, <1>5, <1>6, <1>8, <1>9 DEF Next, Manager

-----------------------------------------------------------------------------
(* The theorems.                                                             *)

\* The first boot: no row, no channel, no trouble.
LEMMA InitIInv == Init => IInv /\ RestInv
<1> SUFFICES ASSUME Init PROVE IInv /\ RestInv
  OBVIOUS
<1> USE TimesAssumption DEF Init
<1>1. TypeOK
  <2>1. stored \in [id : Chans \cup {None}, left : Lifetimes]
    BY LifetimesRunDown DEF NoChannel
  <2>2. live \in [Chans -> Lifetimes]
    BY LifetimesRunDown
  <2>3. auth \in BOOLEAN /\ startToken \in BOOLEAN /\ shutting \in BOOLEAN
    BY Zenon
  <2> QED
    BY <2>1, <2>2, <2>3 DEF TypeOK
<1>2. StepInv
  BY DEF StepInv, NoChannel
<1>3. LeakInv
  <2>1. Live = {}
    BY DEF Live
  <2>2. Leaked = {} /\ ~Exposed /\ ~Forgotten /\ Spent = 0
    BY <2>1 DEF Leaked, Exposed, Forgotten, Spent
  <2>3. Cardinality(Leaked) = 0
    BY <2>2, FS_EmptySet
  <2> QED
    BY <2>2, <2>3 DEF LeakInv
<1>4. TimeInv
  BY DEF TimeInv, NoChannel
<1>5. RestInv
  BY DEF RestInv
<1> QED
  BY <1>1, <1>2, <1>3, <1>4, <1>5 DEF IInv

\* Every step keeps the inductive invariant.
LEMMA StepIInv == IInv /\ RestInv /\ [Next]_vars => IInv' /\ RestInv'
BY TypeStep, StepStep, LeakStep, TimeStep, RestStep DEF IInv

\* The inductive invariant holds of every behaviour, for any number of
\* channels, any lifetimes and any failures, shutdowns and crashes.
THEOREM InductiveInvariant == Spec => [](IInv /\ RestInv)
BY InitIInv, StepIInv, PTL DEF Spec

\* Every variable keeps its type.
THEOREM TypeCorrect == Spec => []TypeOK
<1>1. IInv => TypeOK
  BY DEF IInv
<1> QED
  BY <1>1, InductiveInvariant, PTL

\* channelmgr.go:58-60, 99-103: while the manager sleeps the stored channel is
\* alive at Drive for as long as the row says, unless a failure, a crash or a
\* stop came between.
THEOREM NeverLapses == Spec => []RenewedInTime
<1>1. IInv => RenewedInTime
  BY DEF IInv, TimeInv, RenewedInTime, Spent
<1> QED
  BY <1>1, InductiveInvariant, PTL

\* channelmgr.go:60: channels nobody knows of come one each from a failed call,
\* a stop or a crash.
THEOREM LeaksAreAccounted == Spec => []LeakAccounted
<1>1. IInv => LeakAccounted
  BY DEF IInv, LeakInv, LeakAccounted, Leaked, Spent
<1> QED
  BY <1>1, InductiveInvariant, PTL

\* channelmgr.go:77-86: as long as no call failed the loop sleeps in every
\* round, provided Drive grants lifetimes longer than renewLeadTime.
THEOREM LoopSleeps ==
    ASSUME GrantsOutlastLead PROVE Spec => SleepsBetweenRounds
<1>1. IInv /\ RestInv /\ [Next]_vars
         => [pc = "loop" /\ pc' = "wait" /\ faults' = 0 => timer' > 0]_vars
  <2> SUFFICES ASSUME IInv, RestInv, [Next]_vars,
                      pc = "loop", pc' = "wait", faults' = 0
               PROVE  timer' > 0
    OBVIOUS
  <2>1. TypeOK
    BY DEF IInv
  <2>2. stored.left \in Nat /\ faults \in Nat
    BY <2>1, TimesTyped, TimesAssumption DEF TypeOK
  <2>3. Sleep
    BY DEF Next, Manager, EnsureStartPageToken, EnsureChannel, WatchChanges,
           PutChannel, Renew, RenewInVain, Return, Authenticate, Signal, Crash,
           Restart, Tick, Scan, Change, ServeHTTP, Undelivered, Goto, mgr, vars
  <2>4. CASE timer' = Wait /\ Works(StoreUp)
    <3>1. faults = 0 /\ ~shutting
      BY <2>4 DEF Works, StoreUp
    <3>2. stored.id # None => stored.left > Lead
      BY <3>1, GrantsOutlastLead DEF RestInv
    <3> QED
      BY <2>2, <2>4, <3>2, TimesAssumption DEF Wait, Minus
  <2>5. CASE timer' = Retry
    BY <2>5, TimesAssumption
  <2> QED
    BY <2>3, <2>4, <2>5 DEF Sleep
<1> QED
  BY <1>1, InductiveInvariant, PTL DEF Spec, SleepsBetweenRounds

\* webhook.go:43-60: without failures and restarts a notification over a channel
\* alive becomes a scan request, save over one not yet in the row.
THEOREM NoticesAreServed == Spec => NoticeIsServed
<1>1. IInv /\ [Next]_vars
         => [\A c \in notices \ notices' :
               pc # "down" /\ live[c] > 0 /\ faults + stops + crashes = 0
                 => requests' = 1 \/ c = reg]_vars
  <2> SUFFICES ASSUME IInv, [Next]_vars, NEW c \in notices \ notices',
                      pc # "down", live[c] > 0, faults + stops + crashes = 0
               PROVE  requests' = 1 \/ c = reg
    OBVIOUS
  <2>1. c \in Chans
    BY DEF IInv, TypeOK
  <2>2. \E d \in Chans : ServeHTTP(d) /\ d = c
    BY DEF Next, Manager, EnsureStartPageToken, EnsureChannel, WatchChanges,
           PutChannel, Sleep, Renew, RenewInVain, Return, Authenticate, Signal,
           Crash, Restart, Tick, Scan, Change, ServeHTTP, Undelivered, hook, vars
  <2>3. requests' = IF Accepted(c) THEN 1 ELSE requests
    BY <2>2 DEF ServeHTTP
  <2>4. c \in {stored.id, reg}
    <3>1. Leaked \in SUBSET Chans /\ IsFiniteSet(Leaked)
      BY TimesAssumption, FS_Subset DEF Leaked, Live
    <3>2. Cardinality(Leaked) \in Nat /\ Cardinality(Leaked) <= 0
      BY <3>1, FS_CardinalityType DEF IInv, LeakInv, Spent
    <3>3. Leaked = {}
      BY <3>1, <3>2, FS_EmptySet
    <3> QED
      BY <2>1, <3>3 DEF Leaked, Live
  <2> QED
    BY <2>1, <2>3, <2>4, TimesAssumption DEF Accepted
<1> QED
  BY <1>1, InductiveInvariant, PTL DEF Spec, NoticeIsServed

=============================================================================
