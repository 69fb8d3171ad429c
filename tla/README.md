# Verification of paperclaw

Paperclaw files PDFs. It takes them from an inbox, extracts the text, asks
Claude for metadata, writes a library entry (`document.pdf`, `transcript.md`,
`metadata.json`) and moves the original to a processed folder. A command
(`paperclaw process`) does this on local directories, a daemon
(`paperclaw serve`) on Google Drive, triggered by a poll ticker, by Drive push
notifications and by the completion of the OAuth flow.

This directory holds TLA+ models of that program, the TLC configurations that
check them and proofs for TLAPS. Source positions below are relative to `src/`.

## 1. Inventory

| Part (source) | State | Operations | Hard behaviour | What makes it correct |
|---|---|---|---|---|
| Scan worker (`internal/serve/worker.go`) | request channel of capacity 1; the scan in progress | `Enqueue`, `Run`, `runScan`, `processOne` | triggers from other goroutines; shutdown between and inside files; crash; listing failures | no trigger is lost; the loop ends after a signal; one failing file does not stop the others; counters do not overtake the index |
| Pipeline (`internal/document/pipeline.go`) | locals of one file: path, hash, directory | `ProcessOne` and its five stages | every stage may fail, and the file context may expire in any of them | filed before moved; skipped only if filed; failures leave nothing that later counts as filed |
| Drive backend (`internal/storage/drive`) | per-scan cache name → file; the Drive folders | `ListInbox`, `ReadPDF`, `IsDuplicate`, `WriteEntry`, `MoveToProcessed`, `Quarantine` | calls that fail after they were applied; users editing the inbox; two files of one name; no transaction over library and index | the index names complete entries only; entries do not share a directory; what is filed stays filed |
| SQLite store (`internal/store`) | `documents`, `daemon_status`, `sync_state`, `oauth_token` | `HasHash`, `PutDocument`, `RecordPoll`, `RecordError`, `BumpCounter`, `PutChannel`, `PutToken`, … | survives a crash that the process does not | rows agree with what was done at Drive |
| Ticker, signals, exit (`cmd/paperclaw/serve.go`) | the daemon's context | ticker goroutine, `NotifyContext`, `wg.Wait` | shutdown racing requests | the process ends; work resumes after a restart |
| Channel manager and webhook (`internal/serve/channelmgr.go`, `internal/storage/drive/changes.go`, `internal/serverhttp/webhook.go`) | `sync_state` row; renewal timer; Drive's channels | `Run`, `ensureStartPageToken`, `ensureChannel`, `StopChannel`, `ServeHTTP` | partial failures across Drive and the store, restarts, expiry, late notifications | channels are renewed in time, do not leak, come back after failures; notifications lead to scans |
| CLI ingest (`cmd/paperclaw/main.go`, `internal/storage/local`) | inbox, library, processed, `_quarantine` and log on disk | `runProcess`, `ProcessOne` over the local backend | crash in the middle of a write; failing reads that count as "not there"; rename falling back to copy and remove; files replaced while read | filed again only when the lookup could not read an entry, entries whole and never touched again, no original lost |
| OAuth flow and Drive client (`internal/oauth`, `internal/storage/drive/drive.go`, `cmd/paperclaw/serve.go`) | pending states, stored token, the installed client | `HandleStart`, `HandleCallback`, `TokenSource`, `Token`, `SetHTTPClient`, `driveClient` | two callbacks, or a callback and a scan, at once; a request context outliving its request; expiring tokens; crash between store and client | a state admits one callback; the newest consent wins; a client's token survives a restart; a restored client never stops refreshing |
| Directory names (`internal/document/document.go`) | none | `toSlug`, `truncateSlug`, `FormatDirName`, `UniqueDirName` | truncation and collision | a free name within the length limit, made of whole words |
| Queries (`list`, `show`, `search` of `cmd/paperclaw/main.go`) | none | walks of the library | an entry appears, or is half there, while it is read; errors of single reads are dropped | what was filed when the query began is found, whole, but for what the query failed to read |
| Readiness (`internal/serverhttp/prober.go`, `server.go`) | cached health flag | `Run`, `probe`, `AnthropicHealthy`, `DriveAuthenticated` | a token that is stored but of no use | ready means usable |
| Configuration, telemetry, HTTP routing, migrations, test fake | — | — | — | not modelled, see section 8 |

How they interact: the ticker, the webhook and the OAuth callback call
`Worker.Enqueue`; the worker calls `ProcessOne`, which calls the storage
backend, which calls Drive and SQLite; the channel manager and the webhook
share the `sync_state` row, and nothing else; the OAuth callback replaces the
Drive client the backend uses. On a signal one context ends the worker, the
ticker, the manager and the server, and `main` waits for all of them.

`PROJECT.json` lists the hazards of this code line by line, with the property
that covers each or the reason why none does.

## 2. Modules

| Module | Models | Composes / refines |
|---|---|---|
| `DriveIngest` | worker, pipeline, Drive backend and SQLite, call by call | implements `ScanLoop` |
| `MCDriveIngest`, `DriveIngestRefinement` | instances of it; its refinement mapping | |
| `DriveIngestProofs` | TLAPS proofs about it: its invariant, its counts, and that it implements `ScanLoop` | EXTENDS `DriveIngestRefinement` |
| `ScanLoop`, `MCScanLoop` | the control of the worker and its triggers, without bounds, for liveness | abstract specification of `DriveIngest` |
| `ScanLoopProofs` | TLAPS proof of its types | EXTENDS `ScanLoop` |
| `PushChannel` | channel manager, Drive's channels, `sync_state`, webhook, restarts | |
| `PushChannelProofs` | TLAPS proofs about it | EXTENDS `PushChannel` |
| `OAuthFlow` | consent, callback, token store, the Drive client and its users, the Drive half of `/readyz` | |
| `OAuthFlowProofs` | TLAPS proofs about it | EXTENDS `OAuthFlow` |
| `DirName` | slugs and directory names, with reference definitions | |
| `DirNameProofs` | TLAPS proofs that slugs and their cuts are as the reference definitions say | EXTENDS `DirName` |
| `LocalIngest`, `MCLocalIngest` | the CLI ingest, file by file and write by write | EXTENDS `DirName`; implements `Ingest` |
| `LocalIngestProofs` | TLAPS proofs about it: its types, what is filed and what is logged | EXTENDS `LocalIngest` and `DirNameProofs` |
| `LocalIngestRewriteProofs` | TLAPS proofs with and without replaced inbox files: that it implements `Ingest`, and what each replaced file costs | EXTENDS `LocalIngestProofs` |
| `Ingest` | what any ingest promises: filed once and once more at most for each lookup that missed it, never unfiled, archived only when filed | abstract specification of `LocalIngest` |
| `LibraryQueries`, `MCLibraryQueries` | list, show and search beside the process that writes the library | composed with `LocalIngest` |
| `LibraryQueriesProofs` | TLAPS proofs about the answers | EXTENDS `LibraryQueries` and `LocalIngestRewriteProofs` |

### DriveIngest

`drive` is the inbox folder seen by its owner: for each file id where it is,
its content (which stands for its SHA-256), how often it was edited in place,
and whether it is older than the stable threshold. `library` maps a directory
(base name, collision suffix) to what its folder holds. `documents` and
`status` are the two SQLite tables. `pc` is the next step of the worker:
`idle`, `list` and `next` are `Run` and `runScan`; from `recheck` to `report`
there is one value per remote call of `ProcessOne`. `scanFiles` is the cache
`Storage.scanFiles`, keyed by file *name* as in the code; `pending` is what is
left of the slice that `ListInbox` returned.

Each remote call has three outcomes: it works, it fails, or it fails after
Drive applied it. A failure costs one of `MaxFaults`; so does `Expire`, the end
of the per-file context, after which every call with that context fails for
free. The daemon's own context (`shutting`) is another one: status updates use
it and are lost once it is done, and the file in progress does not notice it,
exactly as in `processOne`. `Crash` loses everything in memory and nothing
else.

Abstractions:

- Edits and deletions happen in the inbox only. A deleted file is gone for
  good (Drive's trash, from which it could still be downloaded, is left out).
- The stages between two remote calls are steps that work or fail. An
  unreadable content always fails in OCR; the classifier picks any base name.
- `Quarantine` is one action with the partial outcomes its calls allow
  (folder without PDF, PDF without report, …). Nothing reads what it writes.
- A single SQLite statement is atomic.
- `MaxSuffix` bounds collision suffixes; the runs give the library more
  directories than the scans can fill, so no step is ever disabled by it.

### ScanLoop

The same loop without the inside of a file: `busy` covers all of `ProcessOne`,
and `Move` is the one effect on the inbox it may have. It has no counters, so
TLC explores all of it and liveness can be stated. `Stuck` are the files that
no attempt moves: ones that are always quarantined, and duplicates of filed
contents, since both stay in the Drive inbox. `Listing` fixes the order in
which Drive lists the files, or leaves it open at every call.

### PushChannel

Times are kept as time *left*: `live[c]` is the lifetime Drive still gives a
channel, `stored.left` the same according to `sync_state`, `timer` the wait of
the manager. `Tick` lowers them together, only while the manager sleeps or the
daemon is down: calls are short against `renewLeadTime`. The steps of the
manager are `ensureStartPageToken`, `ensureChannel` (three steps: read the
row, `WatchChanges`, `PutChannel`), the top of the loop, the timer branch and
the `ctx.Done` branch. A failing `WatchChanges` may have registered a channel.
`Change` and `ServeHTTP` put notifications between Drive and the handler, which
reads the row as it is when the notification arrives. Authentication is a
single step, `Authenticate`. The channel's secret token is left out: it is
drawn together with the id, and both are compared with the same row.
The `sync` handshake that Drive sends for a new channel is answered and changes
nothing, so it does not appear. Ids of dead channels are used again, except the stored one, which is how a
finite set stands for ids drawn at random.

### OAuthFlow

`stored` is the `oauth_token` row: which consent its token comes from (0 for no
row) and whether the access token is still good. Clients live on a small heap,
`clients`: an HTTP handler or a caller that got hold of one keeps using it when
`Storage.client` (`current`) is replaced; what nobody holds is collected. A
client has its token, the context it refreshes and persists with (`ctx`:
`process` for `context.Background()`, `request` until the handler returns,
`over` afterwards), and `warm` for the outer `ReuseTokenSource` of
`oauth2.NewClient`, which calls `storeTokenSource.Token` only when it has no
valid token. That is why the first call with any client writes the row, whether
or not the token was refreshed.

`HandleCallback`, `Exchange`, `StoreToken`, `SetClient`, `OnReady` and `Reply`
are the steps of one callback, each remote or SQLite call working or failing.
`DriveClient`, `Get` and `Install` are `driveClient` with the mutex released
between the read and the write; `TokenOf` and `Persist` are what the OAuth
transport does before the request; `Call` is the request, which DriveIngest and
PushChannel look into. `Expire` ends the access tokens of one consent wherever
they are; consents are not revoked. `Restart` is the restore in `runServe`.
PushChannel and DriveIngest keep the whole of it as a single fact: a call can
work once the daemon is authenticated, and it may fail.

### DirName

A text is a sequence of characters, of which a few classes are enough: letters
and digits, folded characters (capitals and umlauts) and the rest. `ToSlug` and
`TruncateSlug` are the loops of the code, written as a fold and a cut;
`Words` and `WordPrefixes` say without loops what they should give. Assumptions
of `MCLocalIngest`, which TLC evaluates in the runs `local_runs` and
`library_queries`, compare them on all texts of up to four characters and all
limits up to six: a slug is words of letters and digits with one dash between
two, the slug of a slug is itself, and a long one is cut to its longest run of
whole words that fits. `DirNameProofs` proves the same for all texts and all
limits. `UniqueDirName` is the set that holds the first free name only; a third
assumption checks that there always is one.

### LocalIngest and Ingest

`library` maps directory names, made by `DirName` from the date and the title
that the classifier picks among `Titles`, to what the directory holds. The two
titles of the runs collide in all three ways: equal after truncation, equal to
each other, and one equal to the other with its collision number. `inbox` is
read again at each of the
three places where the code reads it (hash, OCR, copy). `processed` has the two
slots per name that `MoveToProcessed` may choose, the name and the name with
the hash. A failing or interrupted write may leave a `Torn` file. Rename,
fallback copy and remove are separate outcomes of `Move` and `RemoveSource`.
The walk of `IsDuplicate` and the choice of a slot by `Stat` are one step each.
The walk may fail as a whole, which ends the run, or it may fail to read the
`metadata.json` of an entry, which passes the entry over (`local.go:76-79`):
when that happens to all entries of the document, it is taken for a new one.
`missed` counts these lookups per document. A `Stat` that fails on a name that
is taken is left out (section 8).
A read of an inbox file sees one content, never a mixture. Crashes, failing
calls and reads and replaced inbox files share one bound, `MaxTroubles`, so that
a run has all combinations of them.

`Ingest` has four variables: the documents given, the number of complete
entries of each, the number of lookups that missed each (`Miss`), and the
documents with an archived original. A document may be filed while it has no
more entries than misses. `Overwrite` is what a second filing can do to the
first original: its copy goes to the same name, and one that breaks off has
destroyed the copy that was there. `LocalIngest` maps its library, its misses
and its processed directory to these and implements `Ingest` step by step, as
long as nobody replaces an inbox file.

### LibraryQueries

A query takes the names of the entries (`os.ReadDir`) in one step and reads
their files one after the other, interleaved with every step of LocalIngest.
The entries are taken in any order, which includes the alphabetical one of the
code. Any read of a file that is there may fail, without limit, and has the
outcome it has in the code: `list` and `show` pass the entry over, `show` shows
an empty transcript, `search` passes the entry over or gives a hit without id.
`unread` remembers the entries this happened to, `known` and `seen` what was
filed when the query began and what earlier answers named. A search text stands for words that one document alone
has; the filters of `list` and the printing are left out.

## 3. Runs

All passing runs check every behaviour within the bounds of their cfg.

| Run | Question | Bounds, and why they are enough |
|---|---|---|
| `drive_faults` | Do index, library, processed folder and counters stay consistent through failures, crashes and shutdowns, and is the daemon a scan loop? | 2 files, 2 contents, 1 fault or expiry, 1 crash, 2 scans, one base name so that all entries collide. Two scans are a failed attempt and its retry; two files on two contents or on one give both two entries and a duplicate. |
| `drive_edits` | The same while users edit and delete files of one name during the scan, without failures. | 2 files of one name, 1 edit each, one unreadable content, 2 scans: the cache entry of one file is taken by the other, and a file changes before, between and after the two halves of `ReadPDF`. `OrphansAccounted` with no faults says: filed once. |
| `drive_duplicate` | Is a content that is in the library skipped? | 1 crash. Violated, see section 6. |
| `scan_daemon` | Is every ready file filed, does each request lead to a listing that sees what was ready, ticker or no ticker, and does the process end after a signal? | 3 files, two of one name and a stuck one of its own name, any listing order, failing listings. No counters: crashes, signals and edits without limit. |
| `push_daemon` | Are channels renewed, accounted for, restored, and their notifications served, and does the loop pause? | Lifetimes 2 and 3 against a lead of 1: renewal with and without a tick of sleep before. Two of one failing call, one shutdown, one crash: each partial failure followed by another event. Four channels: two leaked, one stored, one new. |
| `push_boot`, `push_stopped` | Two statements of the docs. | The one event that each needs. Violated, see section 6. |
| `local_runs` | Filed again only after a miss, entries whole and frozen, nothing lost, log true, and the abstract ingest implemented? | 1 name, used for 3 files with 2 contents in 3 runs, any 3 troubles (crashes, failing calls and reads, replaced files) and colliding titles. The process is sequential and names have archive slots of their own, so that files meet in the library and from run to run: a document left in the inbox by a crash, its retry going wrong again, and a third run that finds what both left behind; one that is missed and filed again, and whose copy breaks off on top of its own archived original; a replaced file that is archived under the hash of another and overwritten later. Two names in one run are in `library_queries`. |
| `local_missed` | Is a document that is in the library skipped? | 1 failing read. Violated, see section 6. |
| `library_queries` | Is an answer complete that is read file by file? | 2 runs, 2 documents, 1 trouble of the writer, any number of queries of each kind and of failing reads: entries that appear, are half there, stay torn or cannot be read at each point of the walk. |
| `oauth_daemon` | Are states, tokens and clients right with two callbacks at once, and does the daemon go on? | 2 states, consents and handlers, which is what it takes to overlap, one worker, 1 failing call, 1 crash, tokens expiring at any time and as often as they are refreshed. |
| `oauth_ready` | Is a daemon that reports ready able to call Drive? | 1 consent whose access token expires. Violated, see section 6. |

Symmetry is used in `drive_faults` (files and contents, which are only
compared there), `local_runs` and `library_queries` (contents),
with safety properties only. Deadlock is unchecked in the runs of LocalIngest
and LibraryQueries alone: the command ends and the user may stop giving it files.

Every passing property has a mutant in `PROJECT.json`: an operator that changes
one definition the way a plausible bug in the code would (the duplicate check
forgotten, the row written after a failed call, the scan abandoned at the first
failing file, the collision check dropped, the old channel not stopped), under
which the property fails.

## 4. Properties

- **DriveIngest.** `IndexSound`: a dedup row names a complete entry of its own
  content. `RowsOwnEntries`: entries do not share a directory.
  `ProcessedWasFiled`: an unedited file in the processed folder has a row.
  `ProcessedIsFiled`: the status page never claims more processed documents
  than there are rows. `OrphansAccounted`: an entry directory without a row,
  which is what a retry duplicates, is the work of one failure or crash each.
  `QuarantineCounted`: the files reported as quarantined are no more than the
  folders there, except for one per failing call or expired file context.
  `FiledForGood`: rows and their entries never change. `IInv` is the inductive
  invariant of the proofs. `ImplementsScanLoop`: refinement.
- **ScanLoop.** `EventuallyFiled`: a ready file is filed if no file of its
  name is stuck; files of one name that hide each other in the scan cache are
  filed one after the other. `TriggerIsServed`: a request leads to a
  listing that sees what was ready when it was made. `ShutdownEnds`.
- **PushChannel.** `RenewedInTime`: without trouble the stored channel is alive
  for exactly as long as the row says whenever the manager sleeps.
  `LeakAccounted`: channels alive beside the stored one are one per failure or
  restart. `ComesBack`: once the start page token is known, the channel is
  restored after whatever happened. `NoticeIsServed`: without trouble a
  notification over a live channel is refused only between the registration of
  that channel and the write of its row. `SleepsBetweenRounds`: without a
  failed call no round of the loop follows another at once. The properties
  without trouble say nothing of what a failed renewal does until a call works
  again (section 6): of the rest, `ComesBack` is the one that covers it.
- **LocalIngest.** `FiledOnce`: whatever crashed or failed, every entry of a
  document but the first is charged to one lookup that could not read an entry
  of it. `EntryIntact`, `ArchivedIsFiled`, `NothingLost`: an entry
  with metadata is whole, an archived original is filed and no original is
  lost, with one exception for each inbox file that was replaced while it was
  processed. `LogIsTrue`. `EntriesFrozen`: a complete entry is never touched
  again, whatever names collide. `ImplementsIngest`: refinement.
- **LibraryQueries.** `ListIsComplete`: every document filed when the command
  began, or named by an earlier one, is listed, but for entries that it failed
  to read, none unfiled, and none twice that was filed once. `ShowIsWhole`: a
  document with an entry that was there and readable is found, and shown with
  its own whole transcript or, if the read of that failed, an empty one.
  `SearchIsComplete`: the words are found in each document filed when the search
  began, with its id, but for entries it failed to read; the other hits without
  id are of entries that were not finished then.
- **OAuthFlow.** `StateUsedOnce`: a browser that repeats the callback gets one
  code exchanged. `DurableClient`: whenever a client is installed a restart
  would find a token. `NewestConsentWins`: row and client are those of the last
  consent, if no callback ran beside another or beside a call and nothing
  failed; section 6 says what happens otherwise. `AuthLeadsToScan`: a callback
  leads to a scan without waiting for a tick. `RestoredKeepsWorking`: a client
  built from the stored token is used again and again, through all expiries.

## 5. Fairness

- *Worker* (WF on `Worker`): the goroutine takes its next step. `Stop` is
  strongly fair because Go's `select` picks among the ready cases at random and
  does not choose the request over the cancelled context for ever.
- *Ticker* (WF on `Enqueue`): `time.Ticker` keeps firing. It and the next item are
  `DaemonFairness`, an assumption of `EventuallyFiled` alone; `TriggerIsServed`
  and `ShutdownEnds` follow from the rest (`WorkerSpec`), ticker or no ticker.
- *Drive* (SF on `List` and on `Move(f)` for files that are not stuck): an
  outage ends; a file that is attempted again and again is one day filed. What
  cannot be filed is in `Stuck` and owes nothing.
- `StaysUp` conditions the liveness properties of the daemon on its being up
  and not asked to stop from some time on; nothing makes the environment stop
  crashing it.
- *PushChannel*: the manager, the handler and the scan worker take their steps,
  time passes, the service manager restarts the daemon
  (`restart: unless-stopped`), the user completes the OAuth flow. Failures are
  bounded in number, so calls succeed in the end.

- *OAuthFlow*: goroutines that serve a callback or call Drive take their steps
  and the service manager restarts the daemon. The poll ticker (`Ticking`) is
  assumed by `RestoredKeepsWorking` only. Failures are bounded in number.

DriveIngest, LocalIngest, LibraryQueries and Ingest are checked for safety only
and state no fairness.

## 6. Where code and documents disagree

Each of these is a run that TLC finds violated; `PROJECT.json` quotes the lines.

1. `drive_duplicate`. The row that makes a content a duplicate is written after
   the entry is complete. A crash (or a failing `PutDocument`) between the two
   makes the next scan file the content again, in a second complete entry.
2. `local_missed`. The local duplicate check reports no error for a
   `metadata.json` that it cannot read (`local.go:76-79`) but passes the entry
   over: a document in the library is filed again, in a second complete entry.
3. `push_boot`. The start page token is asked for once, before the loop. A
   daemon that boots before the OAuth flow is completed registers no channel
   until it is restarted.
4. `push_stopped`. A graceful shutdown stops the channel at Drive and leaves
   its row; after the restart the manager takes it for active.
5. `oauth_ready`. The client that the callback installs refreshes and persists
   with the context of the request (`oauth.go:148-156`), which ends with the
   response. An hour later its access token expires, every call fails, and
   `/readyz` still reports Drive as authenticated; only a restart, which builds
   a client from the row, helps. Nor is a refreshed token persisted, against
   `oauth.go:66-67`.

Others, met while reading or with variations of the models, have no run:

- `docs/plan.md:109` moves failed PDFs to quarantine; on Drive they are copied
  there and stay in the inbox (`drive.go:254-300`), so each scan adds a folder.
  If the file context has expired, `Quarantine` does nothing, its error is
  dropped (`pipeline.go:85`), and the file still counts as quarantined.
- `drive.go:136` says a file that changed since the listing is skipped; it is
  quarantined (`pipeline.go:83-90`).
- Quarantined and duplicate files stay in the Drive inbox and the scan cache is
  keyed by name (`drive.go:126`): a stuck file that is always listed after a
  good one of its name keeps the good one from being filed. Nothing in the
  repository promises the daemon otherwise; `EventuallyFiled` leaves the case out.
- `main.go:236` drops the error of reading a transcript, and `main.go:229-232`,
  `284-287` and `325-328` pass over what they cannot read: a complete entry may
  be missing from an answer, or be shown empty, without a word about it.
- `pipeline.go:78` says a caller should abort the run when the index fails; the
  worker goes on with the next file (`worker.go:117-121`), and `RecordPoll` at
  the end of the scan clears the error it recorded.
- `worker.go:57-59` says shutdown is not delayed by a stalled PDF; it waits up
  to the file's own ten minutes.
- `README.md:148` promises a scan within seconds of a notification; a file
  younger than the stable threshold is passed over by that scan.
- The CLI takes no lock. With two processes the model violates `FiledOnce`
  and two entries may share a directory; `docs/review-docs-plan-md-given-this-staged-curry.md:44`
  plans atomic entries by rename from a temporary directory, while the code
  writes the three files in place, so that a crash leaves partial entries.
- A file replaced between the fallback copy and the remove of
  `MoveToProcessed` (`local.go:136-138`) is removed unread.
- An inbox file replaced between the hash and the copy is filed under the hash
  of its former content (`local.go:105`), against `docs/plan.md:59`.
- After a failed renewal the renewal time lies in the past, and the loop of the
  channel manager goes round without sleeping until a call works
  (`channelmgr.go:84-86`), against the minute of `channelmgr.go:82`.
- Two callbacks at once may leave the row with one consent and the client with
  the other. A slow `driveClient` installs the client of the old row over one
  that a callback has just set (`drive.go:93-95`). The first call with an older
  client writes its token over a newer one (`oauth.go:188`). These are the
  exceptions that `NewestConsentWins` makes for overlaps.
- `search` on a terminal slices twelve characters off the id of each hit
  (`main.go:306`), and an entry whose `metadata.json` is missing, torn or not
  yet written is a hit with an empty id: the command panics, where
  `README.md:81` returns the matching entries and their ids.

## 7. Proofs

`DriveIngestProofs` proves, for every finite set of contents, any files, names,
directory names and bounds (`BoundsAssumption`, `ValuesAssumption`):

| Theorem | States |
|---|---|
| `InductiveInvariant` | `Spec => []IInv` |
| `TypeCorrect` | `Spec => []TypeOK` |
| `IndexIsSound` | `Spec => []IndexSound` |
| `EntriesAreOwned` | `Spec => []RowsOwnEntries` |
| `ProcessedMeansFiled` | `Spec => []ProcessedWasFiled` |
| `FiledStaysFiled` | `Spec => FiledForGood` |
| `CountsAreTrue` | `Spec => []ProcessedIsFiled` |
| `OrphansAreAccounted` | `Spec => []OrphansAccounted` |
| `QuarantineIsCounted` | `Spec => []QuarantineCounted` |
| `LoopIsImplemented` | `Spec => ImplementsScanLoop` |

The safety properties are not inductive by themselves. That a row names a
complete entry is true when `PutDocument` writes it only because the worker has
filled the directory in order, and stays true only because nobody writes to a
directory with a row. `IInv` says what the worker knows at each step:

- `ScanInv`: the cache and the file in hand name files that were uploaded, so
  the content in hand is a content;
- `HashInv`: from the download to the move the hash is that of the held file,
  unless that was edited. This carries the fact that the row covers the moved
  file across six calls;
- `EntryInv`: while an entry is written its content has no row, its directory
  exists and belongs to no row, and what the earlier uploads put there is
  there. `UniqueDirName` gives the free directory, and that only one worker
  runs keeps it free.

The step proof has one lemma per part of `IInv` (`TypeStep`, `ScanStep`,
`HashStep`, `EntryStep`, `IndexStep`, `RowsStep`, `ProcessedStep`), each with
one case per action that can disturb that part. `LibraryFrame` and `RowsKept`
state what every step leaves alone in the library and in the index;
`FiledStaysFiled` is a corollary of `RowsKept` and the frame. TLC checks `IInv`
in `drive_faults`.

None of the three counts is inductive. `CountInv` adds that a file that is
`Due` (its row written, not yet reported) has a row that is not counted yet, so
that `Report` may count it; `RowsCounted` says that `PutDocument` adds a row and
no step takes one away. For the directories, `OrphanInv` charges an entry in
progress as soon as it is `Doomed`, that is when the file context expires while
the worker fills its directory: the calls that fail after that cost nothing
more. For the quarantine, `QuarantineInv` keeps one folder or one failure
`Reserved` for the file in hand, from the moment its context expires or
`Quarantine` has made its folder until `Report` counts it. `FolderAdded` shows that a folder
more for one name is a folder more in all.

For `LoopIsImplemented`, initial states map to initial states, and each step to
a step of `ScanLoop` or to a stutter. `Place`, `Settled` and `Cache` are what the
loop sees of the inbox and of the scan cache, and `LoopStep` is its program
counter; the steps inside a file are stutters, and the two that leave it are
steps of the loop. Besides `IInv` this needs `AbsentInv`: a file never uploaded
has not settled.

`ScanLoopProofs` proves `TypeCorrect`, `SafetySpec => []TypeOK`, for any files,
any names of theirs and any listing order. `CacheInv` is what it takes: the
positions still to be processed, and the one in progress, are of names that the
cache holds, so that `Move` always finds a file. The liveness of `ScanLoop` is
TLC's.

`OAuthFlowProofs` proves, for any finite sets of handlers, callers and states
and any bounds on consents, failures and crashes (`OAuthAssumption`):

| Theorem | States |
|---|---|
| `InductiveInvariant` | `SafetySpec => [](IInv /\ NewestInv)` |
| `TypeCorrect` | `SafetySpec => []TypeOK` |
| `StatesAreUsedOnce` | `SafetySpec => []StateUsedOnce` |
| `ClientsAreDurable` | `SafetySpec => []DurableClient` |
| `NewestIsUsed` | `SafetySpec => []NewestConsentWins` |

`SafetySpec` is `Spec` without its fairness. The first thing to show is about
the model itself: `PlaceIsFree` counts who may hold a client (`current`, each
handler, each caller) and concludes that a heap of `MaxClients` places always
has a free one, so no step is lost to a full heap. The parts of `IInv` are then

- `StateInv`: a state still in `Config.states`, or not yet issued, has never
  been accepted. `HandleCallback` takes it out before it does anything else;
- `HandlerInv`: a handler past the exchange carries a token of a consent that
  was given, and holds no client before `SetClient`;
- `ClientInv`: a client in use has a token of some consent;
- `StoredInv`: without a row there is no client in use and no callback that is
  about to build one. It is what makes `DurableClient` inductive: `SetClient`
  comes after `PutToken`, and no step deletes the row;
- `NewestInv`: as long as nothing failed and no callback overlapped another
  actor, the row, the client of every caller and, with no callback before
  `SetClient`, the installed client all carry the consent stored last. A
  caller may still write the row late (`Persist`, `Install`), and that is
  harmless exactly because its client carries that same consent.

`PushChannelProofs` proves, for any finite set of channels, any finite set of
positive lifetimes, any lead and retry times above zero and any bounds
(`TimesAssumption`):

| Theorem | States |
|---|---|
| `InductiveInvariant` | `Spec => [](IInv /\ RestInv)` |
| `TypeCorrect` | `Spec => []TypeOK` |
| `NeverLapses` | `Spec => []RenewedInTime` |
| `LeaksAreAccounted` | `Spec => []LeakAccounted` |
| `LoopSleeps` | `GrantsOutlastLead` gives `Spec => SleepsBetweenRounds` |
| `NoticesAreServed` | `Spec => NoticeIsServed` |

The parts of the invariant are

- `StepInv`: what the manager knows at each step, such as that the channel
  being registered is not the stored one, and that the channel it sleeps with
  is;
- `LeakInv`: a channel is charged to the trouble that will make it leak, before
  it does. A live stored channel is `Exposed` while the manager is on its way
  to register another without having stopped it, and a registered one is
  `Forgotten` when a shutdown comes before its row;
- `TimeInv`: without trouble the row follows Drive and the timer follows the
  row, so that the wait ends before the lifetime does;
- `RestInv`: without a failed call the top of the loop is reached with more
  than the lead left. This is where `GrantsOutlastLead` is needed, that every
  lifetime Drive grants is longer than `renewLeadTime`; the code does not check
  it, and the theorem says so in its hypothesis.

`DirNameProofs` proves, for any letters, any folded characters and every text
(`IsText`: a sequence over some set of characters):

| Theorem | States |
|---|---|
| `SlugsAreRight` | `SlugIsRight(text)`: `toSlug` gives the words of the text with one dash between two, and leaves a slug alone |
| `CutsKeepWords` | `CutIsRight(ToSlug(text), max)` for every limit, and the result is no longer than the limit |
| `NamesAreFree` | `UniqueDirName(base, taken)` is one name that is not taken, for any finite `taken` |

These are inductions over a text. `FoldLeft` and `FlattenSeq` are defined by
functions that refer to themselves, chosen by CHOOSE, so the first thing to show
is that such a function exists (`LoopExists`, `FlattenIsJoined`). Each induction
then takes the least number of characters for which the claim would be false,
which exists by `LeastNumber` (`WFMin` of the library), and shows that one
character less already contradicts it. The invariants of the loop of `toSlug`
are `Growing`, a slug that may end in a dash, and `Said`, which relates it to
`Words`: after each character it is the words up to there, and ahead of them by
one dash if something else has followed. `DashOfCut` is what the cut of
`truncateSlug` goes by. `NamesAreFree` is the pigeonhole principle and, once
more, a least number. Its hypothesis `NumbersDiffer`, that two numbers are never
written alike, stands for what the prover does not know of `ToString`.

`LocalIngestProofs` and `LocalIngestRewriteProofs` prove all properties of
`local_runs`, for any names, contents, titles and bounds
(`ConstantsAssumption`, `DirNameAssumption`) and any number of runs, crashes,
failing calls and replaced files. The types are kept with any number of
processes at once. The other theorems have the hypothesis `OneProcess`, without
which they are false (section 6).

| Theorem | States |
|---|---|
| `TypeCorrect` | `Spec => []TypeOK`, any number of processes |

| Theorem | States, for one process |
|---|---|
| `InductiveInvariant` | `Spec => []IInv` |
| `FiledOnceHolds` | `Spec => []FiledOnce` |
| `LogHolds` | `Spec => []LogIsTrue` |
| `FrozenHolds` | `Spec => EntriesFrozen` |
| `LocalIngestIsIngest` | `Spec => ImplementsIngest` |
| `OriginalsAreKept` | `Spec => []NothingLost` |
| `ArchivedAreFiled` | `Spec => []ArchivedIsFiled` |
| `EntriesAreIntact` | `Spec => []EntryIntact` |

- `TypeOK` bounds the length of every directory name and says that each begins
  with the date. `NameIsChosen` gets that from `CutsKeepWords`, through
  `FormatDirName` and the collision number, for a name that `PickDir` may
  choose. `TypeInv` carries it to `MkDir` (`Promised`), together with what a
  process holds on to whatever the others do: the name and the hash of its file
  and a directory that was made, which nobody removes (`EntriesStay`).
- `JobInv` says what the process knows: from the duplicate check to the write
  of `metadata.json` its document has `Room`, no more entries than lookups that
  missed it, and the directory it writes to is its own and has no metadata. A
  miss makes the room before the entry takes it, so each miss is spent once
  (`FiledOnceStep`). `LibraryKept` is the lemma behind most of the
  rest: every step keeps complete entries, and only `WriteMetadata` files a
  document.
- For the refinement, `CalmInv` adds that as long as nothing was replaced the
  file in hand is the one that was read, that a name with a hash is given to
  no other document, and that a document about to be moved has been archived
  before only if a lookup missed it, so that `MoveToProcessed` overwrites at
  most a copy of the same document (`ArchiveWritten`). The write of the metadata
  is `Ingest!File`, a lookup that misses is `Ingest!Miss`, the move is
  `Ingest!Archive`, a copy that breaks off may be `Ingest!Overwrite`, a dropped
  file is `Ingest!Give`; the rest are stutters (`StepRefines`).
- The three counts hold with files being replaced. Two of them have a set that
  grows by at most one member, and only in `Rewrite` (`ChargedStep`): `Astray`
  counts a file in hand that is no longer the one that was read as archived,
  and a job is `Tainted` when what it has read so far is not all of one document.
- A lost original is harder, because its replaced file is paid for long before
  the loss. A file replaced in hand may be archived under the name and the hash
  of the document that was read. It stays there until that document is given
  again and missed: the move then overwrites it. `RiskInv` therefore moves one charge
  through three sets, which together stay within `rewrites`: `Owed` while the
  file in hand is spoiled, `Stray` once it lies under the hash of another
  document (`StrayWritten`), and `Lost` when a document is gone. `Pardoned` are
  the documents whose loss a charge of the first two kinds already pays for:
  they are not `Lost` as well, and there are no more of them than such charges
  (`PardonedCount`, `Together`).

`LibraryQueriesProofs` proves all of `library_queries`, for one process that
writes the library and any number of queries, crashes, failures, failing reads and replaced
files:

| Theorem | States, for one process |
|---|---|
| `ListHolds` | `QueriesSpec => []ListIsComplete` |
| `ShowHolds` | `QueriesSpec => []ShowIsWhole` |
| `SearchHolds` | `QueriesSpec => []SearchIsComplete` |

Queries change nothing of the library (`QueriesOnlyRead`: `QueriesSpec => Spec`),
so all that is proved about LocalIngest holds beside them. `QInv` says of a walk
in progress that each known entry that is neither `left` to be read nor `unread` has its hit
(for `show`: that nothing is found before the walk ends). It
survives the steps of the process because known entries are frozen
(`LibraryKept`, `IngestKeeps`), and it would not otherwise: an answer is
put together from reads at different times. `show` needs the count behind
`EntriesAreIntact` too: with no replaced file no entry is `Mixed`, and the files
of an entry are all of its own document (`WholeEntry`). `list` needs `FiledOnce`:
a document that no lookup missed has one entry (`OnlyOne`).

So every invariant, action property and refinement that a run checks is also a
theorem. Only model-checked are the six liveness properties (`EventuallyFiled`,
`TriggerIsServed` and `ShutdownEnds` of ScanLoop, `ComesBack` of PushChannel,
`AuthLeadsToScan` and `RestoredKeepsWorking` of OAuthFlow): liveness under
fairness and ENABLED are outside the prover's reach.

## 8. Not modelled

- Configuration is read once and constant; telemetry observes and is never read
  back; HTTP routing has no state beyond the webhook handler; the migrations are
  idempotent statements run at start; the fake storage is a test double.
- Prompts, the metadata schema and the OCR program are reduced to steps that
  work or fail; no property is about what they produce.
- The Anthropic prober assigns one flag from one goroutine and `/readyz` reads
  it: its only property is that the flag may be an hour old. The Drive half of
  `/readyz` is in OAuthFlow.

- A `Stat` that fails on a name that is taken counts as "free" in the code
  (`local.go:96-99` for directories, `local.go:130` for processed files). The
  model leaves it out. `EntriesFrozen`, `EntryIntact` and `NothingLost`, and the
  theorems about them, hold as long as it does not happen: with it an entry could
  be written over, or an archived original renamed over.

## 9. Plan

In the order of the work, most important behaviour first:

1. `DriveIngest`: the daemon's ingest, with faults, crashes and edits. *Done,
   with its safety properties and its counts proved.*
2. `ScanLoop`: liveness of the loop; refinement from DriveIngest. *Done, the
   refinement proved.*
3. `PushChannel`: the channel manager and the webhook. *Done, with its safety
   properties proved.*
4. `LocalIngest` and `Ingest`: the CLI and the abstract promise. *Done, with its
   properties and the refinement proved for one process.*
5. `OAuthFlow`: consent, callback, token store and client swap. *Done, with its
   safety properties proved.*
6. `DirName`: slugs and directory names, used by LocalIngest. *Done, proved for
   all texts.*
7. `LibraryQueries`: list, show and search over the partial entries that
   LocalIngest reaches. *Done, proved for one writing process.*
8. Left: OAuthFlow in the place of `Authenticate` of PushChannel, in a composed
   module; what two processes of the command line still keep, as theorems
   beside `TypeCorrect`.
9. Runs are kept few: a new question takes the place of the weakest one, and
   the bounds of a run grow only where a mutant shows a case it misses.
