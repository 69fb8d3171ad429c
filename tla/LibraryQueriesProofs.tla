------------------------- MODULE LibraryQueriesProofs -------------------------
(* What list, show and search answer over the library that one process is     *)
(* writing: complete entries are never touched again, so an answer that is    *)
(* put together file by file is true of the documents it began with, but for  *)
(* the entries it failed to read.                                             *)
EXTENDS LibraryQueries, LocalIngestRewriteProofs

-----------------------------------------------------------------------------
(* The inductive invariant.                                                  *)

\* What is known, seen and found was filed, and still is.
AnswersInv ==
    /\ left \subseteq DOMAIN library /\ (at # None => at \in left)
    /\ left \cap unread = {}
    /\ \A d \in known : d \in DOMAIN library /\ library[d].meta \in Contents
    /\ \A h \in found : h.id # None => h.id \in Contents /\ h.entry \in Filed(h.id)
    /\ \A c \in seen : c \in Contents /\ \E d \in known : library[d].meta = c
    /\ left # {} /\ query.kind \in {"show", "search"} => query.arg \in Contents

\* list names each known entry that it has been past and did not fail to read.
ListInv ==
    query.kind = "list" =>
        /\ at = None
        /\ \A h \in found : h.id \in Contents /\ h = Hit(h.entry, h.id, None)
        /\ \A d \in known \ left : d \in unread \/ \E h \in found : h.entry = d

\* show has not been past the entry it looks for.
ShowInv ==
    query.kind = "show" =>
        /\ at # None => at \in Filed(query.arg)
        /\ left # {} => found = {}
        /\ found = {} => \A d \in known \ unread : library[d].meta = query.arg => d \in left
        /\ rewrites = 0 =>
               \A h \in found : h.text = IF h.entry \in unread THEN None ELSE h.id

\* search has a hit for each known transcript with the words that it has been
\* past, and none without id for a known entry, but for what it failed to read.
SearchInv ==
    query.kind = "search" =>
        /\ \A d \in known \ (left \cup unread) : library[d].text = query.arg
               => Hit(d, library[d].meta, query.arg) \in found
        /\ \A h \in found : h.id = None => h.entry \notin known \ unread

QInv == AnswersInv /\ ListInv /\ ShowInv /\ SearchInv

\* What the invariant of the ingest says of the library.
LibraryInv == ShapeInv /\ JobInv /\ FiledOnce /\ Charged(Mixed)

-----------------------------------------------------------------------------
(* The steps.                                                                *)

\* A complete entry is whole as long as no inbox file has been replaced.
LEMMA WholeEntry ==
    ASSUME LibraryInv, rewrites = 0, NEW c \in Contents, NEW d \in Filed(c)
    PROVE  library[d].text = c
<1>1. Mixed = {}
  <2>1. IsFiniteSet(Mixed) /\ Cardinality(Mixed) <= 0 /\ Cardinality(Mixed) \in Nat
    BY FS_CardinalityType DEF LibraryInv, Charged
  <2>2. Cardinality(Mixed) = 0
    BY <2>1
  <2> QED
    BY <2>1, <2>2, FS_EmptySet
<1> QED
  BY <1>1 DEF Mixed, Filed

LEMMA OnlyOne ==
    ASSUME NEW S, IsFiniteSet(S), Cardinality(S) <= 1 + 0, NEW x \in S, NEW y \in S
    PROVE  x = y
<1>1. /\ IsFiniteSet(S \ {x}) /\ Cardinality(S \ {x}) = Cardinality(S) - 1
      /\ Cardinality(S \ {x}) \in Nat /\ Cardinality(S) \in Nat
  BY FS_RemoveElement, FS_CardinalityType
<1>2. Cardinality(S \ {x}) = 0
  BY <1>1
<1> QED
  BY <1>1, <1>2, FS_EmptySet

\* Whatever the process does next, an answer stays true.
LEMMA IngestKeeps ==
    ASSUME LibraryInv, QInv, [Next]_vars, UNCHANGED asked PROVE QInv'
<1>1. UNCHANGED <<query, left, at, found, unread, known, seen>>
  BY DEF asked
<1>2. DOMAIN library \subseteq DOMAIN library'
  BY EntriesStay
<1>3. \A d \in known : d \in DOMAIN library' /\ library'[d] = library[d]
  BY LibraryKept DEF LibraryInv, EntriesKept, Frozen, QInv, AnswersInv
<1>4. \A c \in Contents : Filed(c) \subseteq Filed(c)'
  BY FiledKept DEF LibraryInv
<1>5. AnswersInv'
  <2>1. \A h \in found : h.id # None => h.id \in Contents /\ h.entry \in Filed(h.id)'
    BY <1>4 DEF QInv, AnswersInv
  <2> QED
    BY <1>1, <1>2, <1>3, <2>1 DEF QInv, AnswersInv
<1>6. ListInv'
  BY <1>1 DEF QInv, ListInv, Hit
<1>7. ShowInv'
  <2> SUFFICES ASSUME query.kind = "show"
               PROVE  /\ at # None => at \in Filed(query.arg)'
                      /\ left # {} => found = {}
                      /\ found = {} => \A d \in known \ unread :
                                           library'[d].meta = query.arg => d \in left
                      /\ rewrites' = 0 => \A h \in found :
                             h.text = IF h.entry \in unread THEN None ELSE h.id
    BY <1>1 DEF ShowInv
  <2>1. ASSUME at # None PROVE at \in Filed(query.arg)'
    <3>1. PICK c \in Contents : c = query.arg
      BY <2>1 DEF QInv, AnswersInv
    <3>2. at \in Filed(c)'
      BY <1>4, <2>1, <3>1 DEF QInv, ShowInv
    <3> QED
      BY <1>1, <3>1, <3>2 DEF Filed
  <2>2. rewrites' = 0 => rewrites = 0
    BY StillCalm DEF LibraryInv
  <2> QED
    BY <1>3, <2>1, <2>2 DEF QInv, ShowInv
<1>8. SearchInv'
  BY <1>1, <1>3 DEF QInv, SearchInv, Hit
<1> QED
  BY <1>5, <1>6, <1>7, <1>8 DEF QInv

\* A query begins with what is filed.
LEMMA AskKeeps ==
    ASSUME LibraryInv, QInv, UNCHANGED vars, NEW kind, NEW arg, Ask(kind, arg),
           kind = "list" \/ arg \in Contents
    PROVE  QInv'
<1> USE ConstantsAssumption
<1>1. UNCHANGED <<library, rewrites>>
  BY DEF vars, disk, history
<1>2. /\ left = {} /\ at = None /\ at' = None /\ left' = DOMAIN library /\ found' = {} /\ unread' = {}
      /\ query'.kind = kind /\ query'.arg = arg
      /\ known' = {d \in DOMAIN library : Id(d) # None}
      /\ seen' = seen \cup ({h.id : h \in found} \ {None})
  BY DEF Ask, Answered
<1>3. \A d : d \in known' <=> d \in DOMAIN library /\ library[d].meta \in Contents
  BY <1>2 DEF Id
<1>4. \A c \in seen' : c \in Contents /\ \E d \in known' : library[d].meta = c
  <2>1. \A c \in seen : c \in Contents /\ \E d \in known' : library[d].meta = c
    BY <1>3 DEF QInv, AnswersInv
  <2>2. ASSUME NEW h \in found, h.id # None
        PROVE  h.id \in Contents /\ \E d \in known' : library[d].meta = h.id
    BY <1>3, <2>2 DEF QInv, AnswersInv, Filed
  <2> QED
    BY <1>2, <2>1, <2>2
<1>5. AnswersInv'
  BY <1>1, <1>2, <1>3, <1>4 DEF AnswersInv
<1>6. ListInv' /\ ShowInv' /\ SearchInv'
  BY <1>1, <1>2, <1>3 DEF ListInv, ShowInv, SearchInv
<1> QED
  BY <1>5, <1>6 DEF QInv

\* One more entry of the listing is read.
LEMMA WalkKeeps ==
    ASSUME LibraryInv, QInv, UNCHANGED vars, NEW d \in left,
           List(d) \/ ShowMetadata(d) \/ SearchTranscript(d)
    PROVE  QInv'
<1> USE ConstantsAssumption
<1>1. UNCHANGED <<library, rewrites, query, known, seen>>
  BY DEF vars, disk, history, List, ShowMetadata, SearchTranscript
<1>2. d \in DOMAIN library /\ (d \in known => Id(d) = library[d].meta /\ Id(d) \in Contents)
  BY DEF QInv, AnswersInv, Id
<1>3. Id(d) # None => Id(d) \in Contents /\ d \in Filed(Id(d))
  BY <1>2 DEF Id, Filed
<1>4. \A c : Filed(c)' = Filed(c)
  BY <1>1 DEF Filed
<1>5. CASE List(d)
  <2>1. /\ query.kind = "list" /\ at = None /\ at' = None /\ left' = left \ {d}
        /\ \/ Id(d) # None /\ found' = found \cup {Hit(d, Id(d), None)} /\ UNCHANGED unread
           \/ Id(d) = None /\ UNCHANGED <<found, unread>>
           \/ unread' = unread \cup {d} /\ UNCHANGED found
    BY <1>5 DEF List, Walking, Fails
  <2>2. ASSUME NEW h \in found', h \notin found
        PROVE  h = Hit(d, Id(d), None) /\ Id(d) \in Contents /\ d \in Filed(Id(d))
    BY <1>3, <2>1, <2>2
  <2>3. /\ Hit(d, Id(d), None).entry = d /\ Hit(d, Id(d), None).id = Id(d)
    BY DEF Hit
  <2>4. AnswersInv'
    <3>1. \A h \in found' : h.id # None => h.id \in Contents /\ h.entry \in Filed(h.id)
      BY <2>2, <2>3 DEF QInv, AnswersInv
    <3>2. left' \cap unread' = {}
      BY <2>1 DEF QInv, AnswersInv
    <3> QED
      BY <1>1, <2>1, <3>1, <3>2 DEF QInv, AnswersInv, Filed
  <2>5. \A h \in found' : h.id \in Contents /\ h = Hit(h.entry, h.id, None)
    BY <2>2, <2>3, <2>1 DEF QInv, ListInv
  <2>6. ASSUME NEW e \in known \ left'
        PROVE  e \in unread' \/ \E h \in found' : h.entry = e
    <3>1. CASE e # d
      <4>1. e \in unread \/ \E h \in found : h.entry = e
        BY <2>1, <2>6, <3>1 DEF QInv, ListInv
      <4> QED
        BY <2>1, <4>1
    <3>2. CASE e = d
      BY <1>2, <2>1, <2>3, <2>6, <3>2
    <3> QED
      BY <3>1, <3>2
  <2>7. ListInv'
    BY <1>1, <2>1, <2>5, <2>6 DEF ListInv, Hit
  <2> QED
    BY <1>1, <2>1, <2>4, <2>7 DEF QInv, ShowInv, SearchInv
<1>6. CASE ShowMetadata(d)
  <2>1. /\ query.kind = "show" /\ at = None /\ UNCHANGED found
        /\ \/ Id(d) = query.arg /\ at' = d /\ UNCHANGED <<left, unread>>
           \/ Id(d) # query.arg /\ left' = left \ {d} /\ at' = None /\ UNCHANGED unread
           \/ unread' = unread \cup {d} /\ left' = left \ {d} /\ at' = None
    BY <1>6 DEF ShowMetadata, Walking, Fails
  <2>2. AnswersInv'
    BY <1>1, <2>1 DEF QInv, AnswersInv, Filed
  <2>3. at' # None => at' \in Filed(query.arg)
    BY <1>3, <2>1 DEF QInv, AnswersInv
  <2>4. found = {} => \A e \in known \ unread' : library[e].meta = query.arg => e \in left'
    BY <1>2, <2>1 DEF QInv, ShowInv
  <2>5. found = {}
    BY <2>1 DEF QInv, ShowInv
  <2>6. ShowInv'
    BY <1>1, <2>1, <2>3, <2>4, <2>5 DEF QInv, ShowInv, Filed
  <2> QED
    BY <1>1, <2>1, <2>2, <2>6 DEF QInv, ListInv, SearchInv
<1>7. CASE SearchTranscript(d)
  <2>1. /\ query.kind = "search" /\ at = None /\ UNCHANGED found
        /\ \/ at' = d /\ UNCHANGED <<left, unread>>
           \/ library[d].text # query.arg /\ left' = left \ {d} /\ at' = None
              /\ UNCHANGED unread
           \/ unread' = unread \cup {d} /\ left' = left \ {d} /\ at' = None
    BY <1>7 DEF SearchTranscript, Walking, Fails
  <2>2. AnswersInv'
    BY <1>1, <2>1 DEF QInv, AnswersInv, Filed
  <2>3. SearchInv'
    BY <1>1, <2>1 DEF QInv, SearchInv, Hit
  <2> QED
    BY <1>1, <2>1, <2>2, <2>3 DEF QInv, ListInv, ShowInv
<1> QED
  BY <1>5, <1>6, <1>7

\* The second file of an entry is read.
LEMMA HitKeeps ==
    ASSUME LibraryInv, QInv, UNCHANGED vars, ShowTranscript \/ SearchMetadata
    PROVE  QInv'
<1> USE ConstantsAssumption
<1>1. UNCHANGED <<library, rewrites, query, known, seen>> /\ at # None /\ at' = None
  BY DEF vars, disk, history, ShowTranscript, SearchMetadata
<1>2. at \in left /\ at \in DOMAIN library /\ at \notin unread /\ query.kind \in {"show", "search"}
      /\ query.arg \in Contents
  BY <1>1 DEF QInv, AnswersInv, ShowTranscript, SearchMetadata
<1>3. CASE ShowTranscript
  <2>1. query.kind = "show" /\ left' = {}
    BY <1>3 DEF ShowTranscript
  <2>2. at \in Filed(query.arg)
    BY <1>1, <2>1 DEF QInv, ShowInv
  <2>3. PICK text :
           /\ found' = {Hit(at, query.arg, text)}
           /\ \/ text = library[at].text /\ UNCHANGED unread
              \/ text = None /\ unread' = unread \cup {at}
    BY <1>3 DEF ShowTranscript, Fails
  <2> DEFINE hit == Hit(at, query.arg, text)
  <2>4. hit.entry = at /\ hit.id = query.arg /\ hit.text = text
    BY DEF Hit
  <2>5. found' = {hit}
    BY <2>3
  <2> HIDE DEF hit
  <2>6. \A h \in found' : h.id \in Contents /\ h.entry \in Filed(h.id)
    BY <1>2, <2>2, <2>4, <2>5
  <2>7. AnswersInv'
    BY <1>1, <1>2, <2>1, <2>6 DEF QInv, AnswersInv, Filed
  <2>8. rewrites = 0 => hit.text = IF hit.entry \in unread' THEN None ELSE hit.id
    BY <1>2, <2>2, <2>3, <2>4, WholeEntry
  <2>9. ShowInv'
    BY <1>1, <2>1, <2>5, <2>8 DEF ShowInv
  <2> QED
    BY <1>1, <2>1, <2>7, <2>9 DEF QInv, ListInv, SearchInv
<1>4. CASE SearchMetadata
  <2>1. query.kind = "search" /\ left' = left \ {at}
    BY <1>4 DEF SearchMetadata
  <2>2. PICK id :
           /\ found' = found \cup {Hit(at, id, library[at].text)}
           /\ \/ id = Id(at) /\ UNCHANGED unread
              \/ id = None /\ unread' = unread \cup {at}
    BY <1>4 DEF SearchMetadata, Fails
  <2> DEFINE hit == Hit(at, id, library[at].text)
  <2>3. hit.entry = at /\ hit.id = id /\ found' = found \cup {hit}
    BY <2>2 DEF Hit
  <2>4. id # None => id \in Contents /\ at \in Filed(id)
    BY <1>2, <2>2 DEF Id, Filed
  <2>5. at \in known \ unread' => id = library[at].meta /\ id # None
    BY <2>2 DEF QInv, AnswersInv, Id
  <2>6. at \in known \ unread' /\ library[at].text = query.arg
          => hit = Hit(at, library[at].meta, query.arg)
    BY <2>5
  <2> HIDE DEF hit
  <2>7. \A h \in found' : h.id # None => h.id \in Contents /\ h.entry \in Filed(h.id)
    BY <2>3, <2>4 DEF QInv, AnswersInv
  <2>8. AnswersInv'
    BY <1>1, <2>1, <2>2, <2>7 DEF QInv, AnswersInv, Filed
  <2>9. \A h \in found' : h.id = None => h.entry \notin known \ unread'
    BY <2>1, <2>2, <2>3, <2>5 DEF QInv, SearchInv
  <2>10. \A e \in known \ (left' \cup unread') : library[e].text = query.arg
            => Hit(e, library[e].meta, query.arg) \in found'
    BY <2>1, <2>2, <2>3, <2>6 DEF QInv, SearchInv
  <2>11. SearchInv'
    BY <1>1, <2>9, <2>10 DEF SearchInv, Hit
  <2> QED
    BY <1>1, <2>1, <2>8, <2>11 DEF QInv, ListInv, ShowInv
<1> QED
  BY <1>3, <1>4

LEMMA QueryKeeps ==
    LibraryInv /\ QInv /\ [QueriesNext]_<<vars, asked>> => QInv'
<1> SUFFICES ASSUME LibraryInv, QInv, [QueriesNext]_<<vars, asked>> PROVE QInv'
  OBVIOUS
<1>1. CASE [Next]_vars /\ UNCHANGED asked
  BY <1>1, IngestKeeps
<1>2. CASE Query /\ UNCHANGED vars
  <2>1. ASSUME Ask("list", None) PROVE QInv'
    BY <1>2, <2>1, AskKeeps
  <2>2. ASSUME NEW c \in Contents, Ask("show", c) \/ Ask("search", c) PROVE QInv'
    BY <1>2, <2>2, AskKeeps
  <2> QED
    BY <1>2, <2>1, <2>2, WalkKeeps, HitKeeps DEF Query
<1> QED
  BY <1>1, <1>2 DEF QueriesNext

-----------------------------------------------------------------------------
(* The theorems.                                                             *)

\* The commands only read: under them the process runs as it does alone.
LEMMA QueriesOnlyRead == QueriesSpec => Spec
<1>1. QueriesInit => Init
  BY DEF QueriesInit
<1>2. [QueriesNext]_<<vars, asked>> => [Next]_vars
  BY DEF QueriesNext
<1> QED
  BY <1>1, <1>2, PTL DEF QueriesSpec, Spec

LEMMA QueriesInvariant ==
    ASSUME OneProcess PROVE QueriesSpec => [](LibraryInv /\ QInv)
<1>1. QueriesInit => QInv
  BY DEF QueriesInit, Init, InitQueries, NoQuery, QInv, AnswersInv, ListInv, ShowInv,
         SearchInv
<1>2. CInv /\ CountInv => LibraryInv
  BY DEF CInv, CountInv, MixInv, IInv, LibraryInv
<1> QED
  BY <1>1, <1>2, QueryKeeps, QueriesOnlyRead, CountsHold, PTL DEF QueriesSpec

\* ListIsComplete: list (main.go:320-331) names every document that was filed
\* when it began or that an earlier command named, but for entries it failed to
\* read, and none twice that was filed once.
THEOREM ListHolds == ASSUME OneProcess PROVE QueriesSpec => []ListIsComplete
<1>1. LibraryInv /\ QInv => ListIsComplete
  <2> DEFINE listed == {h.entry : h \in found}
  <2> SUFFICES ASSUME LibraryInv, QInv, query.kind = "list"
               PROVE  /\ \A h \in found : h.entry \in Filed(h.id)
                      /\ \A h, i \in found : h.id = i.id /\ missed[h.id] = 0 => h = i
                      /\ Answered =>
                             /\ known \subseteq listed \cup unread
                             /\ \A c \in seen : Filed(c) \cap (listed \cup unread) # {}
    BY DEF ListIsComplete
  <2>1. \A h \in found : /\ h.id \in Contents /\ h.entry \in Filed(h.id)
                         /\ h = Hit(h.entry, h.id, None)
    BY ConstantsAssumption DEF QInv, AnswersInv, ListInv
  <2>2. ASSUME NEW h \in found, NEW i \in found, h.id = i.id, missed[h.id] = 0
        PROVE  h = i
    <3>1. PICK c \in Contents : c = h.id
      BY <2>1
    <3>2. h.entry \in Filed(c) /\ i.entry \in Filed(c) /\ missed[c] = 0
      BY <2>1, <2>2, <3>1
    <3>3. h.entry = i.entry
      BY <3>2, FiledFinite, OnlyOne DEF LibraryInv, FiledOnce
    <3> QED
      BY <2>1, <2>2, <3>3
  <2>3. ASSUME Answered, NEW d \in known PROVE d \in listed \cup unread
    BY <2>3 DEF Answered, QInv, ListInv
  <2>4. ASSUME Answered, NEW c \in seen PROVE Filed(c) \cap (listed \cup unread) # {}
    <3>1. PICK d \in known : library[d].meta = c
      BY DEF QInv, AnswersInv
    <3>2. d \in Filed(c)
      BY <3>1 DEF QInv, AnswersInv, Filed
    <3> QED
      BY <2>3, <2>4, <3>2
  <2> QED
    BY <2>1, <2>2, <2>3, <2>4
<1> QED
  BY <1>1, QueriesInvariant, PTL

\* ShowIsWhole: show (main.go:219-252) finds each document that was filed when
\* it began and that it does not fail to read, and shows its whole transcript,
\* unless the read of that fails or an inbox file was replaced.
THEOREM ShowHolds == ASSUME OneProcess PROVE QueriesSpec => []ShowIsWhole
<1>1. QInv => ShowIsWhole
  BY DEF QInv, ShowInv, ShowIsWhole, Answered
<1> QED
  BY <1>1, QueriesInvariant, PTL

\* SearchIsComplete: search (main.go:268-298) finds the words in each document
\* that was filed when it began, with its id, but for what it failed to read.
THEOREM SearchHolds == ASSUME OneProcess PROVE QueriesSpec => []SearchIsComplete
<1>1. QInv => SearchIsComplete
  BY DEF QInv, SearchInv, SearchIsComplete, Answered
<1> QED
  BY <1>1, QueriesInvariant, PTL

=============================================================================
