# A verified model of Mind Palace's memory archive

Mind Palace (Verilore) keeps *claims* that Markdown documents make, remembers
every version of every document, and answers what is current, what was replaced
by what, and what was believed at an earlier moment.  Everything it promises
rests on one append-only archive in PostgreSQL which many processes write at
once: the HTTP server, the MCP server, the command line, a local runtime daemon.

This directory models that archive, the ingestion that feeds it, the readers that
answer from it, the runtime and the remote service that commands go through, and
the tenancy around all of it, in TLA+.  TLC checks the models on small instances;
TLAPS proves the safety properties and both refinements for every instance.

## 1. Inventory of the system

Paths are relative to `src/`.  "Hard" names what a unit test hardly reaches.

| Component | State it keeps | Operations | Hard behaviour | What makes it correct |
|---|---|---|---|---|
| **Versioned claim archive** `api/services/memory.py`, migrations 004-006, 011 | documents, versions, claims with supersession edges, evidence, snapshots with sealed members; all rows are insert-only (triggers) | `record_version`, `record_deletion`, `snapshot`, `replay_snapshot`, `query`, `history` | read-then-insert under an advisory lock; rows are stamped at insertion and visible at commit; clock anomalies; chains of supersession over several documents | version chains stay linear; edges point backwards; only live claims are retired; snapshots are complete and replay the same for ever |
| **Sessions** `api/services/db.py` | connections, transactions, session settings | begin, commit, rollback, lock | interleaving of sessions, a caller that dies holding or waiting for the lock | a transaction is all or nothing; the lock is always released |
| **Corpus lifecycle** `api/services/corpora.py`, migrations 009, 010 | `corpora`, grants | create, delete (erase), reset | erasure while writers wait; a crash between the commits of a reset | nothing survives an erasure; nothing is written to a corpus that is gone |
| **Ingestion and sync** `api/services/ingestion.py`, `repository.py` | `documents`, `chunks`, `ingestion_manifest` (the live projection) | ingest one document, sync a directory, delete stale paths | one transaction per document, failures in the middle, the order of documents that reference each other | projection, manifest and archive agree after every transaction; a repeated sync changes nothing |
| **Remember** `api/services/remember.py` | none of its own | render a statement to a document and ingest it | retries | the same statement twice is one version |
| **Rehydration** `rehydrate.py`, **claim vectors** `claim_embeddings.py` | derived rows | rebuild, fill a cache | the archive moving on while they run | derived rows follow from the archive |
| **Public reads** `memory_public.py`, `memory_query.py` (selection) | none | `current`, `history`, `pack`, `query` | selectors, withheld states and a size budget cut an answer after it was resolved | what is left never looks settled when it is disputed, and says when it was cut |
| **Receipts and proofs** `memory_receipt.py`, `memory_proof.py` | none; a record in the caller's hands | issue, verify | issuer and verifier decide separately what was in force | honest receipts verify and name the answer |
| **Change feed** `memory_feed.py` | a cursor in the client's hands | page | rows that become visible behind a cursor | each change is delivered once |
| **Revalidation** `revalidate.py` | none | several reads, one verdict | torn reads | a verdict some single state justifies |
| **Runtime daemon** `api/runtime.py`, **SDK** `verilore_sdk.py` | socket, token, idle timer, request gate | start, serve, idle exit, fall back to in-process work, retry | races between starters, which take each other's socket; code that changes under running processes; a timed-out call that still completes | an answer is of the command's own database and code; no write is lost, and none repeated whose answer arrived; everything ends |
| **Authorization** `authz.py`, migrations 008, 014-016 | principals, grants, row-level scope; the principal an in-process client of the SDK holds | resolve, permit, revoke | revocation while a request is in flight or a client alive | a session sees only its corpora |
| Parsing, claim extraction, ranking, embedding, telemetry, CLI, evaluation | none, or log files | text and number processing | none that is concurrent | left out, see section 8 |

How they interact.  Every writer -- ingestion, remember, sync, and through them
the server, the daemon and the CLI -- opens a transaction, calls
`memory.lock_corpus` and then changes the archive and its own tables in that
same transaction.  Readers (`query`, the feed, revalidation, rehydration) take
no lock.  A daemon call is an in-process call over a socket, a remote call the same
over HTTP; either may be repeated by a client that has given up on the first one.
Every request runs in the scope of the credential it came with, resolved for that
request or, in process, when the client was constructed.  So the archive
under its lock is what everything else is built on, and it was modelled first.

## 2. Modules

| Module | What it is |
|---|---|
| `ArchiveTables` | the rows of one corpus and every pure decision over them: latest version, live claims, what a write retires, which rows the triggers admit, the status readers are shown |
| `MemoryArchive` | the archive under concurrent sessions: transactions, the lock, uncommitted rows, the clock, snapshots, erasure |
| `SerialArchive` | the abstract specification: the same decisions, one at a time, in one step each, with no sessions and no lock |
| `ArchivePacks` | what the public read path answers about any archive `MemoryArchive` reaches: projection, scope, withholding, selection, the budgeted pack |
| `ArchiveReceipts` | the receipts of those answers and their verifier |
| `IngestSync` | the live index (documents, manifest) beside the archive; syncs of a directory that changes, remembered statements, rebuilds, failures and crashes |
| `ArchiveReaders` | the change feed and revalidation, which read in several statements while writers commit |
| `RuntimeDaemon` | commands, daemons, the socket path; remote clients, their attempts and the service |
| `CommandEffects` | the abstract specification of the former: what commands do to their archives, with no transport |
| `TenantAccess` | credentials, grants, corpora and the requests that use and change them |
| `MC...` | constants of the checked instances |
| `ArchiveTablesProofs` | lemmas about the tables, which the proofs of three modules share: what a write adds keeps chains linear and edges backward, what a deletion or a commit does to live claims |
| `MemoryArchiveProofs` | the invariants of `MemoryArchive` |
| `ArchiveSerialProofs` | that it implements `SerialArchive`; what its steps may do to snapshots, topic keys and replays |
| `ArchiveAnswersProofs` | `ArchivePacks` and `ArchiveReceipts` |
| `IngestSyncProofs`, `ArchiveReadersProofs`, `RuntimeDaemonProofs`, `TenantAccessProofs` | the module each is named after |

`ArchivePacks` and `ArchiveReceipts` extend `MemoryArchive`: answers are functions of
its committed tables, so they are checked as invariants of its states.  `IngestSync`
and `ArchiveReaders` use the same tables (`ArchiveTables`) with coarser writers.
`IngestSync` takes a transaction in one step, which `MemoryArchive` justifies
(`ImplementsSerialArchive`); what it adds is everything that happens between
transactions.  `ArchiveReaders` takes a writer's insert and its commit as two steps,
because what a lock-free reader sees lies between them.  `RuntimeDaemon` stands above
all of it: to it an operation is one step that appends to a log.

### State and code

| In the model | In the code |
|---|---|
| `versions`, `claims`, `snapshots`, `registered` | the committed rows of `memory_versions`, `memory_claims`, `memory_snapshots` with `memory_snapshot_versions`, and the row in `corpora` |
| `staged[s]` | the rows session `s` has inserted and not committed |
| `holder`, `phase[s] = "waiting"` | `pg_advisory_xact_lock` in `lock_corpus` (memory.py:347) |
| `phase[s]` | where the caller's `async with db.begin()` stands |
| `clock` | the last reading of `clock_timestamp()`; it moves by any member of `ClockSteps`, which may be 0 or negative |

A document's identity is its path (`memory_document_id` hashes corpus and path)
and a version's identity is path and number: `_insert_version` hashes identity,
predecessor, event and fingerprint, which along a chain is as good as the number.
A `Contents` value stands for source and metadata; equal values are equal
fingerprints.  `Asserts` says which keys a content authors with which values;
keys in `TextKeys` are the `text:` keys made from a claim's own words.  `ValidAt`
gives a value's validity interval.

### Actions and code

| Action | Code |
|---|---|
| `QueueForLock`, `AcquireLock`, `Abandon` | `lock_corpus`; a caller that is cancelled while it waits |
| `RecordUnchanged`, `RecordVersion` | `record_version` (memory.py:1025): the idempotent early return, or one version with its claims and edges; a refusal or a trigger's rejection disables the action, and the session can only roll back |
| `RecordDeletion` | `record_deletion`; several in one transaction, as `_delete_stale_paths` does |
| `TakeSnapshot` | `snapshot`: clock reading, refusal of a future cutoff, return of an existing snapshot, capture and seal |
| `Erase`, and `Commit` in phase `erasing` | `mindpalace_erase_corpus` (migration 010) |
| `Commit`, `Rollback` | the end of the caller's transaction |
| `CreateCorpus`, `Tick` | `create_corpus`; time passing |

In `IngestSync`:

| In the model | In the code |
|---|---|
| `documents[p]`, `manifest[p]` | the row of `documents` with that path, as the content it was made from; the manifest row, as the text its hash is of |
| `directory` | the Markdown files below the synchronized path |
| `run[s]` | the local variables of one `sync_repo` call: the ordered files still to do, `source_paths`, the text just read |
| `calm`, `run[s].present` | auxiliary: whether anything failed or intervened since the sync started; the files that were there all the time |

| Action | Code |
|---|---|
| `StartSync` | `sync_repo` up to its loop, with `_supersession_order` |
| `ReadFile`, `IngestFile`, `FailFile` | one turn of the loop: the read (no lock yet), then `_ingest_content`, or the `except` branch |
| `FinishSync` | `_delete_stale_paths` in a transaction of its own, when asked for |
| `CrashSync` | the process dies between two transactions; a crash inside one is a rollback, and the same as dying before it |
| `Remember` | `remember` and `_write`: one document with a topic key, always through the archive |
| `Rehydrate` | `rehydrate_corpus` |
| `LoseFile` | `_cache_claim_vectors` swallowing a refusal of the database inside the transaction: it rolls back in silence and the file is counted |
| `EditFile` | somebody changes, adds or removes a file |

`Ingest` is `_ingest_content` with both of its branches: the archive path when
the content has claims, the caller asks for it or the corpus already has a
version, and otherwise the older path that keeps a manifest only.  A reference
is a resolved path here; how an abbreviated one resolves is left out.  `Rank`
stands for both orders the code sorts by (path objects and path strings).

What a write retires in other documents (`CrossTargets`) has three sources in the
code: a claim id given by the caller, a topic key given by the caller, or
references written in the document.  Each operator returns the *set* of edge sets
the code may produce, and the empty set when it refuses.  Two abstractions are
made there.  Claim ids are given whole (the code also accepts a prefix or a
phrase, which resolve to one claim or refuse).  The code pairs leftover keys
with leftover targets by the words of their texts; the model allows any
one-to-one choice, so what is shown holds for whatever that pairing does.

### Answers and receipts

`ArchivePacks` has no action: it adds operators to the states of `MemoryArchive`.

| Operator | Code |
|---|---|
| `Project` with `Matching`, `Alternatives`, `Changes`, `Connected` | `project` (memory_public.py:298) over `_query_result`, up to the closure of conflict groups |
| `ScopeConflicts`, `Withhold` | `_scope_conflicts`, `_withhold`: conflict groups that lose sides promote what is left |
| `Select` | `memory_query.select`; which keys a question is about is an input (`about`), since scoring is not modelled |
| `BoundedPack` with `PackField`, `Offer`, `AddUnit`, `LowerFlag` | `bounded_pack`: greedy, field by field and in each field in the order the code lists its items (`First`); `Cost` counts what is listed and the one character between `true` and `false` |
| `Full`, `Answered`, `Answers` | `execute_in_session` for `current`, `history`, `pack`, `query` |
| `Primary`, `ReceiptFor`, `Receipts` | `_claim_in_force`, `build_receipt`, `receipt_for_response` |
| `ProofVerifies`, `Verifies` | `memory_proof.verify`, `verify_receipt`; digests, evidence and paths are copied from the very answer they are compared with and left out |

Claim ids are hashes, so "first by id" is any of the claims in question.  Budgets are
assumed to hold the empty envelope (`bounded_pack` refuses smaller ones).  Sets hide
that a claim promoted out of two groups is listed twice.  The loops that follow
supersession edges (`Chains`) or overlapping groups (`Connected`) until nothing is added
are stated as what they end with: the least set that is closed.

### Readers

| In the model | In the code |
|---|---|
| `pending` | the rows of a transaction between its insert and its commit |
| `feed` | the traversal of one client: cursor and what it has been given |
| `check` | the local variables of one `revalidate_claims` with its `compute_drift` |
| `high`, `stragglers` | auxiliary: the highest committed stamp; versions stamped at or below one committed before |

| Action | Code |
|---|---|
| `Insert`, `InsertDeletion`, `Commit`, `Rollback`, `Erase`, `CreateCorpus` | the writers, under the lock |
| `SetBack` | the database clock is set back |
| `Feed` | `feed`: one page after the cursor, by `(observed_at, id)` |
| `Revalidate`, `ReadClaims`, `ReadVersions`, `Report` | `revalidate_claims`, statement by statement |
| `ReadClaimsAgain`, `ReadVersionsAgain`, `ReadDeletions` | `compute_drift`, which reads everything again |

### Runtime and remote service

| In the model | In the code |
|---|---|
| `socket` | the daemon whose socket file is at the path, dead or alive |
| `daemon[d]` | its stage in `serve`, the build it loaded, the memoised `_BUILD_HASH`, its database, the `stop` event |
| `command[c]` | where the client code stands: loaded, first try, refused, second try, sent, own process, warm-up, spawn; the code it has loaded; the memoised `_BUILD_HASH` of its own process |
| `conn[c, call]` | the daemon's side of the call, which outlives the client's patience |
| `http[c]` | attempts made, the answer on its way, attempts a server may still carry out |
| `log[db]` | who recorded a new version of the key, in order; `Record` skips a repetition of the latest |
| `disk`, `kills`, `prompt` | the installed build, kills so far; auxiliary: daemons that hashed the code they had loaded |

| Action | Code |
|---|---|
| `Start`, `FirstCall`, `Connect`, `Unlink`, `Receive`, `GiveUp`, `RunLocally` | `_through_runtime`, `_remember_via_runtime`, `runtime.call` and `_connect`; the timeout is not told to the daemon |
| `FirstCall`, `Asked` | `build_id`: a process hashes the files on disk when it makes its first call, or serves its first request, and remembers that hash; the code it runs was loaded before |
| `Warmup`, `Spawn` | `_warm_runtime`, `reachable` (one step here), `spawn` |
| `ClearPath`, `Bind`, `Idle`, `CloseServer`, `Exit` | `serve` and `_idle_watch`; the file at the path is unlinked whoever bound it. What leaving `async with server` does depends on the interpreter (`pyproject.toml` allows 3.11 and later): a daemon in `Drains` runs on 3.12 or later and waits for its open connections (`Lingers`), perhaps removing its own socket file first (3.13); the others drop their handlers (`Dropped`), as 3.11 does |
| `Admit`, `Handle`, `HandleShutdown`, `Dispatch` | `_handler` with its gate, `_serve_one`, `_dispatch` |
| `Post`, `TimeOut`, `Return` | `_send`: at most `retries + 1` attempts; timeouts, broken connections and 502-504 are tried again |
| `Serve`, `Unavailable`, `ServeLate` | the service (`routers/memory.py` `remember`), and a proxy before it |
| `Kill`, `EditCode` | a crash; an update of the installed code |

### Tenancy

| In the model | In the code |
|---|---|
| `corpora`, `grants`, `standing`, `role` | `corpora`, `memory_principal_corpora`, `memory_principals` |
| `content[c]` | who wrote what corpus `c` holds |
| `clients` | in-process clients of the SDK: the credential and the scope each resolved when it was constructed (`Verilore._principal`); the MCP server caches such clients |
| `run[r]` | one request: the principal it came with, the scope its transactions are given, what it has read so far |
| `touched`, `gone`, `disturbed` | auxiliary |

| Action | Code |
|---|---|
| `Authenticate` | `resolve_principal`, once a request to the service; the operator's commands are `ADMIN_PRINCIPAL` |
| `Open`, `Operate` | `_local_principal` in the constructor of a client without a URL; `_as_caller`, which runs each of its operations with that principal |
| `Resolve`, `ResolveFree`, `Refuse` | `get_corpus_by_name`, `get_or_create_corpus`, `require_corpus` |
| `Read`, `Write`, `CreateCorpus` | the work, under the row policies of migration 016 |
| `Count`, `Erase`, `Regrant` | `delete_corpus` and `mindpalace_erase_corpus` with its lock between the count and the deletion; `reset_corpus` in three transactions |
| `Issue`, `Grant`, `Ungrant`, `Revoke` | the credential operations of `authz.py` |
| `Abandon` | a request dies; its open transaction rolls back |

## 3. Runs

| Run | Configuration | Instance | What it shows |
|---|---|---|---|
| `archive` | `archive.cfg` | 2 sessions, 3 documents, 2 keys, 3 contents, every kind of request, a clock that advances, 3 versions; 58 questions of each archive | `TypeOK`, `ChainsAreLinear`, `SnapshotsAreComplete`, `RetiresOnlyLiveClaims`, `TopicKeyLeavesOne`, and `ImplementsSerialArchive`: the concurrent archive refines the serial one; of every answer `NoCounterSourceIsHidden`, `PacksFitAndTellTruncation`, `PacksLeaveNothingThatFits`, and of its receipts `HonestReceiptsVerify`, `ReceiptsNameTheAnswer` |
| `archive_clock` | `archive_clock.cfg` | 2 sessions, 2 text keys, 2 contents, a clock that steps by -1, 0 or 1, fairness | `ChainsAreLinear`, `SupersessionPointsBack`, `ReplayIsStable` in spite of the clock; `EveryQueuedSessionProceeds` |
| `superseded_twice` | `superseded_twice.cfg` | 2 sessions, 2 documents, 2 contents, every kind of request | **violated**: `SupersededAtMostOnce` |
| `as_of` | `as_of.cfg` | 2 sessions, 2 documents, 2 contents, no requests | **violated**: `PastIsFrozen` |
| `ingest_sync` | `ingest_sync.cfg` | 2 syncs of which one deletes, 2 files and one remembered path, 5 contents, every initial directory without blank files, 1 change, 3 versions | `TypeOK`, `IndexFollowsArchive`, `ReferencedFilesComeFirst`, `ArchivedFilesAreMirrored`, `PresentFilesAreKept` |
| `sync_mirrors` | `sync_mirrors.cfg` | 1 sync, 2 files, 3 contents without claims | **violated**: `SyncMirrorsDirectory` |
| `sync_retires` | `sync_retires.cfg` | 1 sync, 2 files, 1 remembered statement | **violated**: `SyncRetiresOnlyRemovedFiles` |
| `lost_ingest` | `lost_ingest.cfg` | 1 sync, a database that may refuse claim vectors | **violated**: `CountedFilesAreIndexed` |
| `readers` | `readers.cfg` | 2 documents that compete for a topic key, pages of one row, 3 versions and one step back of the clock for the feed, 4 versions for a revalidation, 1 erasure | `TypeOK`, `FeedMissesOnlyStragglers`, `CurrentWasLive`, `StaleIsNotLive`, `DriftMissesOnlyDrops` |
| `runtime` | `runtime.cfg` | two daemons, one slot in the gate; two writers with a daemon running; or one writer under an update or a kill; or a writer and a stop, no daemon running, and two updates or kills; or a reader of another database and a stop under one; or two remote writers of two attempts each; of the daemons some on CPython 3.11, some on 3.12; fairness | `TypeOK`, `AnswersMatchTheCommand`, `RepeatsAreLostAnswers`, `ImplementsCommandEffects`: transport refines no transport; `CommandsEnd`, `DaemonsEnd` |
| `retried_write` | `retried_write.cfg` | the two writers | **violated**: `RetriesRecordOnce` |
| `tenants` | `tenants.cfg` | 2 requests at once, 5 requests and clients in all; a customer with two credentials and a corpus, another customer's corpus, the operator; two roles | `TypeOK`, `CustomersAreIsolated`, `NothingOutlivesItsCorpus`, `DeletedMeansItWentAway`, `ResetKeepsGrants`, `RevocationTakesHold` |

### Bounds

`MaxVersions` is the number of versions a transaction may see,
`MaxClock` the largest clock reading; both are named in the guards.  Three
documents with one version each are the least in which a topic key meets two
live claims elsewhere; three versions are also the least in which a claim is
retired from another document and its own document is then modified, or a
document is written, deleted and restored.  Two sessions are the least in which
one acts between another's statements, and the lock makes a third one wait
exactly as the second does.  The proofs of section 6 have no such bounds.
Sessions are interchangeable and so are documents, so the safety runs with two
sessions use symmetry over both; the runs with liveness do not.

`archive_clock` has two sessions so that one can wait for the other's lock.  What the
clock does to the tables needs no second one: every write is made under the lock,
and what it compares itself with was committed before.

The contents of `ingest_sync` are chosen for the order of files: `old_text` and `new_text`
claim the same key, `new_text` says it replaces `d1` (which sorts after `d2`, so plain
sorting is wrong), `back_text` says `d2` replaces it (so `new_text` in `d2` and `back_text` in
`d1` form a cycle), `plain_text` has no claims, `blank_text` nothing at all.  One change of
the directory suffices for a file that is edited, removed or added under a
running sync; three versions for a file that is recorded, tombstoned and
restored.  Syncs restart without bound.  `AtFirst` keeps blank files out of
the initial directories of that run: a file becomes blank, or appears blank, by the
change; `sync_mirrors` starts from them as well.

The questions of `archive` take each operation about everything and about one key, the
latter with every single path and every scope of two documents out of three, with drafts
shown and, where the operation can, withheld, and for packs and queries five budgets, from one that holds nothing to one that
leaves out the last unit.  Answers are looked at when no session is inside a
transaction and no snapshot exists: they do not depend on either.

`readers`: a page of one row is the worst page.  A revalidation needs a claim that
is retired by another document which is itself edited or deleted, and a
restoration: four versions.  The feed needs three and a clock that steps back once.
The two are not combined since they share no state (`MaxVersions`, `MaxSetbacks` are
given for each).

`runtime`: two daemons are the least in which one takes the other's socket, one slot
the least gate, two writers the least that can overwrite each other between a call
and its repetition.  A command that hashed late can be answered by other code if the
daemon was spawned after the update: the writer and the stop find no daemon, so that
the writer spawns one, and have two events.  There TLC finds such answers if
`AnswersMatchTheCommand` leaves out that the command's hash is of its own code.  The
other crews have one event or none; `Warm` and `Drains` give each its running daemons
and their interpreters.  Two attempts are one retry.  The run has 223,146 states.
`MaxRequests` in `tenants`: two to hand out and take away a grant or a credential, two
that run or a client that is constructed while it happens, one after: 844,226 states.

## 4. Six places where the code and its documentation disagree

**A claim can be superseded twice** (`superseded_twice`).  `memory.py` refuses a
named claim that is no longer active: "A superseded, deleted or other-corpus claim
cannot be superseded again", and a test adds "Superseding twice would make the
chain ambiguous and is not a no-op."  But the edge a new version of a document
gets to its own previous version (memory.py:1134) does not ask whether that claim
is still active.  TLC's trace: `d1` claims `k1`; `d2` retires it by topic key;
`d1` is edited, and its new claim retires the old one once more.  The old claim
then has two successors and both are live.

**The past is not frozen** (`as_of`).  The documentation says "`as_of`
reconstructs the archive as it was".  A version is stamped when it is inserted
and visible when its transaction commits, and readers take no lock.  A question
asked as of a moment between the two is answered without the version before the
commit and with it afterwards.  Snapshots do not have the problem, because they
take the writers' lock: that is `SnapshotsAreComplete`.

**A sync can leave an old row behind** (`sync_mirrors`).  `sync_repo` "reconciles
indexed state against the source snapshot: ... modified files are reprocessed".
In a corpus without an archive the manifest compares a hash of the *body*: a file
of which only the frontmatter changed (its title, its tags, its type) is skipped,
and so is a file that became blank, whose old row stays.  With an archive the whole
file is compared, and `ArchivedFilesAreMirrored` holds.

**A sync retires what never was a file** (`sync_retires`).  "Files removed from the
source are removed from the index", says `sync_repo`, and deletes by default every
indexed path that is not below the directory: a remembered statement
(`memory/...`), or a document another directory put there, is tombstoned too.

**A repeated write can be recorded twice** (`retried_write`).  `verilore_sdk.py` says
that "identical arguments sent on the same day resolve to the same memory -- a
retried write never creates a second version".  A client that loses patience with
the daemon writes in its own process, while the daemon may still do what it was
asked.  Usually the late write finds its own text as the latest version and changes
nothing.  In TLC's trace another command writes the same key in between: the late
write of the first is then a new version over it, and an older statement has
displaced a newer one.  `RepeatsAreLostAnswers` says how far this can go: only for a
call whose answer was lost, once for a local client, once an attempt for a remote
one, and never right after itself.

**A lost document is counted as indexed** (`lost_ingest`).  "A failed document never
leaves a false 'successfully indexed' state", says `sync_repo`, and
`_cache_claim_vectors`: "A failure here is not an ingestion failure".  But it writes
inside the document's transaction, without a savepoint, and swallows the exception.
PostgreSQL has then aborted the transaction; the commit rolls back without an
error, and the caller counts the document.  It takes a database that refuses the
vectors, for instance an `EMBEDDING_MODEL` of another width than the 384 of
migration 007.  `rehydrate.backfill_claim_embeddings` lacks the savepoint too; the
query path has one (`memory_query.py:761`).

### Observed while modelling, without a run

* `memory_receipt.py:171`: a claim that is listed as current because a path prefix or
  the withholding of drafts took the other side of its conflict away keeps the status
  `CONFLICTING`.  No entry under its key is then `CURRENT`, and the receipt names the
  first by id whose interval contains the moment.  Supersession closes no interval, so
  that may be the version the listed claim *replaced*; the receipt verifies.
  `ReceiptsNameTheAnswer` therefore speaks of keys with an undisputed claim.
* `verilore_sdk.py:1079`: `docs/security.md:552` says "Revocation takes effect on the
  next request: nothing caches a resolved principal across requests in the HTTP path,
  and the in-process SDK re-establishes its scope per operation."  What the SDK
  re-establishes is the principal it resolved in its constructor (`_as_caller`), so a
  client goes on reading and writing with a credential that has been revoked.
  `RevocationTakesHold` states what is left: nothing else begins with it, and that
  only within the scope the client had.  The tools of the MCP server cache such
  clients, but resolve the credential before each call (`_caller`), so that a revoked
  one is refused; of a grant that was taken away, their clients do not learn.
* `runtime.py:481`: `runtime.py:38` and `docs/runtime.md:136` say of a single instance
  that `bind()` refuses to take another live runtime's socket.  `serve` removes any
  socket at the path first (`ClearPath`), and so does asyncio before it binds, so a
  second daemon takes the path of a live one; that one serves the calls it has and
  ends by its idle timer (`DaemonsEnd`).
* `runtime.py:518`: `docs/runtime.md:128` says a stopping runtime is "finishing an
  in-flight request", and `tests/test_runtime_lifecycle.py:247` that a shutdown "must
  not truncate a read that is already running".  From CPython 3.12 leaving the
  server waits for open connections, also for ones that never end; on 3.11, which
  `pyproject.toml` allows and the Dockerfile uses, it does not, and the event loop
  cancels the handlers that are left.  `Exit` has both.
* `runtime.py:629`: a request to stop from a client of another build is refused like
  any other, so neither `_discard_stale_runtime` nor `runtime stop` stops a daemon that
  outlived an update; it ends by its idle timer (on CPython 3.11 `DaemonsEnd` needs
  nothing else).
  The comment at `verilore_sdk.py:750` expects the next command to find a new one.
* `verilore_sdk.py:352`: the comment expects a read to fall back on its own process
  when the builds differ; the code raises.
* `corpora.py:247`: a grant made between a reset's reading of the grants and its
  granting them again is lost, one removed in between comes back, and a crash in
  between loses the corpus.  `ResetKeepsGrants` holds of resets that nobody disturbs:
  those restore exactly the grants there were.
* `revalidate.py`: claims that an edit drops without replacing are in none of the lists
  of a drift report (`DriftMissesOnlyDrops`); an erasure between two statements can let
  a claim that was retired before be called current (`CurrentWasLive` excepts it).
* A pack of a path prefix can show a retired claim from outside the prefix, as the
  `previous` side of a change inside it.

## 5. Fairness

`FairSpec` assumes two things of each session.  `WF(Commit \/ Rollback)`: a
transaction that has the lock ends.  Its statements finish or fail, and when its
process dies PostgreSQL rolls back and releases the lock.  `SF(AcquireLock)`: the
server's lock queue serves waiters in order of arrival, so a waiter is not passed
over for ever while the lock is released again and again.  Weak fairness would
not say that, since acquiring is disabled whenever somebody else holds the lock.
Nothing is assumed of clients: they need never ask for anything.

In `RuntimeDaemon`, `FairSpec` assumes weak fairness of each command's own steps and
of each daemon's own steps: operating systems run processes, a client's timeout
expires (`GiveUp` and `TimeOut` stay enabled while it waits), and the idle timer fires.
Nothing is assumed of requests inside a daemon, which may sit on any of them for
ever, of the remote service, or of `Start`.  That is why `CommandsEnd` and `DaemonsEnd`
show something: `CommandsEnd` holds with every handler stuck and the gate full, and so
does `DaemonsEnd` on CPython 3.11.  From 3.12 a daemon that has been told to stop waits for
its connections, and its premise says that they do not stay open for ever
(`[]<>~Lingers(d)`); the code has no timeout that would make it so.

## 6. Proofs

Every safety property that a passing run checks -- invariants, action properties, the
two refinements -- is a theorem, for any sets of sessions, documents, keys, contents,
requests, files, commands, credentials and questions, and for any bounds.

| Module | Theorem | Statement |
|---|---|---|
| `MemoryArchiveProofs` | `TypeCorrect` | `Spec => []TypeOK` |
| | `ChainsStayLinear` | `Spec => []ChainsAreLinear` |
| | `SupersessionStaysBackward` | `Spec => []SupersessionPointsBack` |
| | `RetirementIsOfLiveClaims` | `Spec => RetiresOnlyLiveClaims` |
| `ArchiveSerialProofs` | `ArchiveIsSerial` | `ClockAdvances` implies `Spec => ImplementsSerialArchive` |
| | `SnapshotsStayComplete` | `ClockAdvances` implies `Spec => []SnapshotsAreComplete` |
| | `TopicKeysLeaveOne` | `Spec => TopicKeyLeavesOne` |
| | `ReplaysAreStable` | `Spec => ReplayIsStable` |
| `ArchiveAnswersProofs` | `CounterSourcesAreListed` | `Spec => []NoCounterSourceIsHidden` |
| | `PacksAlwaysFit` | `Spec => []PacksFitAndTellTruncation` |
| | `PacksAreFilled` | `Spec => []PacksLeaveNothingThatFits` |
| | `ReceiptsVerify` | `Spec => []HonestReceiptsVerify` |
| | `ReceiptsAreTheAnswer` | `Spec => []ReceiptsNameTheAnswer` |
| `IngestSyncProofs` | `TypeCorrect` | `Spec => []TypeOK` |
| | `IndexFollows` | `Spec => []IndexFollowsArchive` |
| | `PresentFilesStay` | `Spec => PresentFilesAreKept` |
| | `UndisturbedSyncsMirror` | `Spec => ArchivedFilesAreMirrored` |
| | `ReferencesComeFirst` | `Spec => []ReferencedFilesComeFirst` |
| `ArchiveReadersProofs` | `TypeCorrect` | `Spec => []TypeOK` |
| | `FeedIsComplete` | `Spec => []FeedMissesOnlyStragglers` |
| | `CurrentIsEarned` | `Spec => []CurrentWasLive` |
| | `StaleIsFinal` | `Spec => []StaleIsNotLive` |
| | `DriftIsReported` | `Spec => []DriftMissesOnlyDrops` |
| `RuntimeDaemonProofs` | `TypeCorrect` | `Spec => []TypeOK` |
| | `AnswersAreOnesOwn` | `Spec => []AnswersMatchTheCommand` |
| | `RuntimeIsTransport` | `Spec => ImplementsCommandEffects` |
| | `RepeatsComeOfLostAnswers` | `Spec => []RepeatsAreLostAnswers` |
| `TenantAccessProofs` | `TypeCorrect` | `Spec => []TypeOK` |
| | `CustomersStayIsolated` | `Spec => []CustomersAreIsolated` |
| | `ErasureIsComplete` | `Spec => []NothingOutlivesItsCorpus` |
| | `DeletionIsReal` | `Spec => []DeletedMeansItWentAway` |
| | `RevocationIsFinal` | `Spec => RevocationTakesHold` |
| | `UndisturbedResetsRestore` | `Spec => ResetKeepsGrants` |

### Assumptions

The named assumptions of the modules (`TablesAssumption`, `ArchiveAssumption`, ...) say of
the constants what their declarations mean, and TLC evaluates them in every run.  Those
that are more than types:

* `None`, the SQL NULL, is no content, document, key, basis or claim id; document paths
  and keys are told apart;
* a snapshot cutoff is a moment or left out;
* `SyncAssumption`: a directory holds finitely many files, and sorting ranks them;
* `RuntimeAssumption`: there is a command, and `Nobody` is no daemon;
* `ReadersAssumption`: ids order the documents totally, a page holds a row;
* `PacksAssumption`: there are finitely many keys.  An answer lists finitely many
  items only because a content authors finitely many claims.

`ClockAdvances` (each reading of the clock is later than the one before it) is a
hypothesis of two theorems and of nothing else.  The tables do not need it: chains,
edges and replays are kept in order by the triggers' strict comparison alone.  A
snapshot does: rows are selected by their stamps, so a version stamped at the very
moment of the snapshot, after it, belongs to its cutoff and not to its members.  The
run `archive` has such a clock, `archive_clock` one that stalls and steps back.

### The archive

`ChainsAreLinear` is not inductive: it speaks of committed rows, and what a commit adds
are the rows a session had staged earlier.  `ArchiveInv` is the conjunction of

* `TypeOK`;
* `LockHeld`: a session past the lock is the holder, and only the holder has
  staged rows.  This is what the lock is for: while a session works, nobody
  else's commit changes the tables it has looked at;
* `TablesSound`: the committed rows, and for each session the rows it can see,
  form linear chains with backward edges (`Sound`), and each document that has
  versions has a latest one.  The second half is needed because without it
  "no predecessor" would not mean "first version".

A write then preserves `Sound` for the writer's own view by what `NewVersion` and
the triggers guarantee, and a commit makes that view the committed one.
`RetirementIsOfLiveClaims` needs one more conjunct, `StagedTargetsLive`: the
targets of staged cross-document edges are live in the *committed* tables, which
stays true until the commit because the holder is the only one that commits.

`ArchiveIsSerial` maps a commit to the serial step that decides and inserts at once, and
every other step to a stutter.  For that, `SerialInv` adds to `ArchiveInv` that whatever a
session has staged is one serial step's worth of rows, decided on the *committed* tables
(`StagedSerially`), that with an advancing clock they are stamped after everything
committed (`StampsPast`), and that an unregistered corpus is empty.  The action properties
of the same module follow from `StepKinds`: a step commits one write, one deletion, one
capture or an erasure, or changes no committed row.

### Answers

A receipt names the answer because two live claims of one document under one key
cannot exist.  No foreign key says so.  It follows from how a write makes its claims:
each way of asking for edges gives a new claim at most one (`CrossTargetsKeys`,
`SameDocumentKeys`), so a version has one claim a key.  That is the invariant
`ClaimsAreUnique`.  `AnswersInv` adds that the tables are finite.

`NoCounterSourceIsHidden` follows one pair of disagreeing live claims through the stages
of an answer: if a stage lists one side, its conflicts contain the pair
(`ProjectTellsBoth`, `ScopeTellsBoth`, `WithholdTellsBoth`, `SelectTellsBoth`), because each
closes over the groups it touches, and because a live claim outside the scope is only ever
listed as the side of a conflict (`PlainIsInScope`; what a change had before it is not live).
The pack is where one unit is left out and the next one taken.  `Packed` is what holds
after each offer: the pack fits the budget, it is closed under conflicts, nothing was
dropped if everything fits, and nothing that was dropped fits any more.  The last part is
kept because a pack only grows: what an item costs next to the conflicts it needs never
falls below what it cost when it was dropped (`CostGrows`, `AddUnitGrows`, `NothingFitsLater`).
`PackFieldKeeps` carries it through a field of any length, as an induction by least
counterexample; the installed provers cannot use the library's induction theorems.

### Ingestion

`SyncInv` is `TypeOK`, `TablesAreKept` (the index is the projection of the archive, chains
have a latest row), `RunsAreReal` (the files a sync still has to do, has kept and found
present are files, each once) and `CalmRuns`: of a sync that nothing failed in or came
between, every file it has done is in the archive and in the index as the directory has
it.  `ReferencesComeFirst` takes the order that a sync follows: if a file came before one
it names, the set of files that wait for each other would have no least element.

### Readers

`ReadersInv` is `TypeOK`, `ArchiveIsKept` (the tables are sound with the rows of the one
writer as much as without them), `FeedInv` (a cursor never passes the highest stamp, and
what is pending below that is a straggler) and `CheckInv`, which relates what each of a
revalidation's statements read to tables that have since only grown.

### Runtime

`AnswerInv`: a call that a daemon holds is the call of a command that has taken its hash
(`CallsAreReal`), an answer comes from a daemon with the database and the hash it was
checked against (`CallsMatch`), and a daemon asked before any edit hashed the code it
runs (`PromptOnesKnow`).  Neither hash changes once it is taken, so what was checked
stays true; that equal hashes mean equal code needs both sides to have taken theirs
in time, and that is the exception `AnswersMatchTheCommand` makes.  `EffectInv` adds how far each command has got against the log
(`Progresses`, `Acknowledged`), which is what the refinement of `CommandEffects` maps.
`RepeatInv` adds a `Budget` for each command: what it has recorded and what it may still
record never exceed what the property allows; each call, attempt and own process
spends one.  At most one daemon answers a call (`OneAnswer`).

### Tenancy

`TypeOK` includes what the fields of a request have to do with each other (`Fits`).
`IsolationInv` adds that the scope of each request lies within its customer's corpora
(`RunsInScope`), and so does that of each client, also when its grants are gone
(`ClientsInScope`), and that whoever has written holds an issued credential with a role that
writes (`WritersAreIssued`).  `ReportInv` adds that a corpus an erasure has counted stands
or has gone since (`CountedStands`), and `ResetsKnowTheGrants` that an undisturbed reset
carries the grants there were.

### Only model-checked

`EveryQueuedSessionProceeds`, `CommandsEnd` and `DaemonsEnd` are liveness under fairness, out
of the prover's reach.  The properties of section 4 are violated, so there is nothing
to prove.

## 7. Plan

All modules of the plan are written and all their safety properties proved.  What is
left:

1. Refinements between modules that are so far an argument in this file: that
   `IngestSync`'s transactions are steps of `SerialArchive`, and that the archive
   of `ArchiveReadersProofs` is that of `MemoryArchive` with finer writers.
2. The parts of the source that section 8 leaves out and that decide something: references
   that resolve to several paths, the question a query is taken to ask.

## 8. Not modelled, and why

*Text.*  Evidence spans, source validation, Markdown parsing, claim extraction, the
resolution of abbreviated references and the pairing of claims by their words are
text processing: a content is a model value with the keys it authors, a reference a
resolved path, a pairing any pairing.

*Scores.*  Ranking, embedding, reranking, adjudication (`memory_query.adjudicate`) and
language models score and phrase.  They are arithmetic over texts whose outcome no
property of the archive depends on; `ArchivePacks` takes the keys a question is about
as an input.

*Surfaces.*  HTTP routes, the MCP server and the CLI parse arguments and render results
around the operations modelled here; together they are a large part of the source
(the CLI alone has 2,600 lines).  What they keep from one operation to the next is the
principal of an in-process client, and the MCP server's cache of such clients: that is
`clients` in `TenantAccess`.  Of the SDK, the write path is modelled over both transports;
its reads, the asynchronous client and the adapters are not.  Digests of packs, proofs and receipts are taken to be injective.

*Offline code.*  Benchmarks, evaluation, release validation and scripts, a large part
of the source, run outside the system.  Telemetry and the query log are written and
never read back to decide.

*Modes.*  `TenantAccess` models the mode that requires credentials; in open mode there
is one principal and nothing to check.  The daemon's token is taken to be present.

`PROJECT.json` lists every part with its status.
