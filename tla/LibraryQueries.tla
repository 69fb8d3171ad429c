---------------------------- MODULE LibraryQueries ---------------------------
(***************************************************************************)
(* The commands list, show and search (cmd/paperclaw/main.go) over the     *)
(* library that `paperclaw process` is writing.                            *)
(*                                                                         *)
(* A query takes the names of the entry directories at once (os.ReadDir)   *)
(* and then reads one file after the other, while documents are filed,     *)
(* processes die and partial entries lie about.  A query text stands for   *)
(* words that one content alone has; an id prefix for a whole id.  The     *)
(* filters of list and the alphabetical order of the entries are left out. *)
(***************************************************************************)
EXTENDS LocalIngest

VARIABLES
    query,      \* the command, with the id or text asked for
    left,       \* entries of the listing that are still to be read
    at,         \* the entry of which the second file is read next, or None
    found,      \* the answer so far: entry, id and transcript
    unread,     \* history: entries of which this query failed to read a file
    known,      \* history: entries with metadata when the query was asked
    seen        \* history: ids that earlier answers named

asked == <<query, left, at, found, unread, known, seen>>

NoQuery == [kind |-> None, arg |-> None]
Hit(d, id, text) == [entry |-> d, id |-> id, text |-> text]

InitQueries ==
    /\ query = NoQuery /\ left = {} /\ at = None /\ found = {}
    /\ unread = {} /\ known = {} /\ seen = {}

Walking(kind) == query.kind = kind /\ at = None
Answered      == left = {} /\ at = None

\* loadMetadata: the id, if metadata.json is there and whole.
Id(d) == IF library[d].meta \in Contents THEN library[d].meta ELSE None

\* A file of d is there, but the read fails.
Fails(d) == unread' = unread \cup {d}

Ask(kind, arg) ==
    /\ Answered
    /\ query' = [kind |-> kind, arg |-> arg]
    /\ left' = DOMAIN library /\ found' = {} /\ unread' = {}
    /\ known' = {d \in DOMAIN library : Id(d) # None}
    /\ seen' = seen \cup ({h.id : h \in found} \ {None})
    /\ UNCHANGED at

\* Mutant: an entry without metadata.json ends the walk.
ListOrStop(d) ==
    /\ Walking("list") /\ d \in left
    /\ IF Id(d) = None
       THEN left' = {} /\ UNCHANGED found
       ELSE left' = left \ {d} /\ found' = found \cup {Hit(d, Id(d), None)}
    /\ UNCHANGED <<query, at, unread, known, seen>>

\* walkLibrary: an entry whose metadata.json cannot be read is passed over.
List(d) ==
    /\ Walking("list") /\ d \in left
    /\ left' = left \ {d}
    /\ \/ Id(d) # None /\ found' = found \cup {Hit(d, Id(d), None)} /\ UNCHANGED unread
       \/ Id(d) = None /\ UNCHANGED <<found, unread>>
       \/ Id(d) # None /\ Fails(d) /\ UNCHANGED found
    /\ UNCHANGED <<query, at, known, seen>>

\* runShow: the first entry of that id whose metadata.json can be read, ...
ShowMetadata(d) ==
    /\ Walking("show") /\ d \in left
    /\ \/ Id(d) = query.arg /\ at' = d /\ UNCHANGED <<left, unread>>
       \/ Id(d) # query.arg /\ left' = left \ {d} /\ UNCHANGED <<at, unread>>
       \/ Id(d) = query.arg /\ Fails(d) /\ left' = left \ {d} /\ UNCHANGED at
    /\ UNCHANGED <<query, found, known, seen>>

\* ... and whatever its transcript holds; a transcript that is not there or
\* cannot be read is shown as empty.
ShowTranscript ==
    /\ query.kind = "show" /\ at # None
    /\ \/ found' = {Hit(at, query.arg, library[at].text)} /\ UNCHANGED unread
       \/ found' = {Hit(at, query.arg, None)} /\ Fails(at)
    /\ left' = {} /\ at' = None
    /\ UNCHANGED <<query, known, seen>>

\* runSearch: the transcript is read before the metadata.  A torn transcript
\* may have lost the words; one that cannot be read is passed over.
SearchTranscript(d) ==
    /\ Walking("search") /\ d \in left
    /\ \/ library[d].text \in {query.arg, Torn} /\ at' = d /\ UNCHANGED <<left, unread>>
       \/ library[d].text # query.arg /\ left' = left \ {d} /\ UNCHANGED <<at, unread>>
       \/ library[d].text = query.arg /\ Fails(d) /\ left' = left \ {d} /\ UNCHANGED at
    /\ UNCHANGED <<query, found, known, seen>>

\* Mutant: a hit without metadata ends the walk.
SearchOrStop ==
    /\ query.kind = "search" /\ at # None
    /\ IF Id(at) = None THEN left' = {} /\ UNCHANGED found
       ELSE /\ left' = left \ {at}
            /\ found' = found \cup {Hit(at, Id(at), library[at].text)}
    /\ at' = None
    /\ UNCHANGED <<query, unread, known, seen>>

\* A hit whose metadata is not there or cannot be read is a hit without id.
SearchMetadata ==
    /\ query.kind = "search" /\ at # None
    /\ \/ found' = found \cup {Hit(at, Id(at), library[at].text)} /\ UNCHANGED unread
       \/ found' = found \cup {Hit(at, None, library[at].text)} /\ Fails(at)
    /\ left' = left \ {at} /\ at' = None
    /\ UNCHANGED <<query, known, seen>>

Query ==
    \/ Ask("list", None)
    \/ \E c \in Contents : Ask("show", c) \/ Ask("search", c)
    \/ \E d \in left : List(d) \/ ShowMetadata(d) \/ SearchTranscript(d)
    \/ ShowTranscript \/ SearchMetadata

QueriesInit == Init /\ InitQueries
QueriesNext == (Next /\ UNCHANGED asked) \/ (Query /\ UNCHANGED vars)
QueriesSpec == QueriesInit /\ [][QueriesNext]_<<vars, asked>>

-----------------------------------------------------------------------------
(* What an answer tells, although it is read file by file and any read may  *)
(* fail: a failure costs no more than what is told of its own entry.        *)

\* main.go:320-331: list names, by one of its entries, every document that was
\* filed when it began or that any earlier command named, but for entries it
\* failed to read; none that is not filed; and none twice that was filed once.
ListIsComplete ==
    query.kind = "list" =>
        /\ \A h \in found : h.entry \in Filed(h.id)
        /\ \A h, i \in found : h.id = i.id /\ missed[h.id] = 0 => h = i
        /\ Answered =>
               LET listed == {h.entry : h \in found} IN
               /\ known \subseteq listed \cup unread
               /\ \A c \in seen : Filed(c) \cap (listed \cup unread) # {}

\* main.go:219-252: show finds each document that has an entry which was there
\* when it began and that it did not fail to read; what it shows is the whole
\* transcript of that document, or an empty one if the read of it failed.
ShowIsWhole ==
    query.kind = "show" =>
        /\ rewrites = 0 =>
               \A h \in found : h.text = IF h.entry \in unread THEN None ELSE h.id
        /\ Answered /\ (\E d \in known \ unread : library[d].meta = query.arg)
               => found # {}

\* main.go:268-298: search finds the words in each document filed when it
\* began, with its id, but for entries it failed to read: the other hits
\* without id are entries that were not finished.
SearchIsComplete ==
    query.kind = "search" /\ Answered =>
        /\ \A d \in known \ unread : library[d].text = query.arg
               => Hit(d, library[d].meta, query.arg) \in found
        /\ \A h \in found : h.id = None => h.entry \notin known \ unread
=============================================================================
