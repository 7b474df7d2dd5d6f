# Verification of inDoc

inDoc stores documents, extracts their text, indexes them in two search engines
and lets users search and chat with them.  This directory holds TLA+ models of
the parts of its backend (`src/app`) where concurrency, ordering and failure
matter, TLC runs over small instances, and TLAPS proofs for all instances.

## 1. Inventory

| Component | State | Operations | What is hard |
|---|---|---|---|
| Document processing task (`tasks/document.py`) | the row, both indexes | `process_document`, `process_pending_documents` | runs of one document interleave at every commit; no run looks at the status; one engine of two fails; rows vanish under a run; the error handler fails too |
| Scheduling (`core/celery_app.py`, `tasks/maintenance.py`) | queues | beat ticks, early acknowledgement, time limits, `fail_stuck_documents` | a killed worker loses its message |
| Document API (`api/v1/endpoints/files.py`, `reindex.py`, `db/session.py`) | rows, files, messages | upload, retry, cancel, scan all, bulk delete and archive, reindex, delete | messages are published before the transaction commits; an exception rolls back what was written |
| Atomic deletion (`services/atomic_deletion_service.py`) | row, file, both indexes | prepare, commit, rollback, finalize | one step of several fails; the compensation fails too; the pipeline runs at the same time |
| Uploads (`files.py`, `services/bulk_upload_service.py`) | rows by content hash, files | look up, store, commit; single, several files, folder | two uploads of one content; shared files and overlapping deletions; the session after a failed file; failures after a commit |
| LLM chain (`services/llm_service.py`, `core/cache.py`) | response cache | primary, retry, local fallbacks, cloud, degraded text | cache keys, retries, names that stand for other models |
| Research agent (`services/agent/`) | scratchpad, seen actions | plan, act, replan, synthesize | budgets and termination for any model output, late outages |
| Search and context (`services/search_service.py`, `core/document_scope.py`, `core/context_manager.py`) | none of its own | hybrid search, last resort, contents, token budget | engines know no users; fusion of two scales; rounding; tokens counted, characters cut |
| Chat (`chat.py`, `chat_stream.py`, `services/async_conversation_service.py`) | conversations, messages | a turn by request, web socket or stream | turns overlap; one transaction around a slow model |
| Chat history (`services/chat_history_service.py`, `chat_history.py`) | retention records | list, archive, pin, cleanup | a cleanup in several steps beside turns and pins |
| Login (`core/auth_lockout.py`, `auth.py`) | attempts, lock, lock count | login | check, await, record |
| Limits (`middleware/rate_limiting.py`, `core/dlp.py`) | time stamps per client and user | dispatch, cleanup, export | endpoints share one list; lazily trimmed lists |
| Timeouts (`middleware/timeout.py`) | none | answers 504 | nothing: the handler behind it runs on |
| Web sockets (`core/*websocket*.py`) | connections, statuses | connect, broadcast, cleanup | iteration over a live list, delayed cleanup |

`process_document`'s callers publish Celery messages; the workers and the API
processes share only the database, the local disk, Elasticsearch and Qdrant.
Between two database commits, or around a call to an engine, everything else may
run.  Search reads what the pipeline has written, chat and agent read what search
finds, both ask the LLM chain, whose callers share a cache in Redis.  Limits,
lockout and cache of an API process are shared by its requests, which interleave
at every `await`.

What makes each part correct:

* pipeline: index ids point at entries, final statuses are true, nothing is
  forgotten half way, nothing blocked by the scanner is searchable, deleted rows
  stay deleted, every document gets a final status;
* deletion: a row that is gone has left no file, one that stays keeps its entries;
* uploads: a content is twice in a scope only if two uploads met, and rows keep
  their files until their own deletion, unless uploads met or a deletion of an
  earlier row was under way;
* LLM chain and agent: an answer or an error after a bounded number of calls, no
  outage passed off as an answer or remembered as one;
* search and context: only what the user may see, in an order both engines agree
  on, in fair shares;
* chat: a stored question of a request or web socket has its answer, next to it (a
  stream stores the two apart), and what reaches a prompt was said before;
  pinned conversations survive;
* login and limits: never more than the configured number in a window, locks that
  last, escalate and end.

The parts that are not modelled, with the reason, are in `PROJECT.json` and at
the end.  `src/backend/app` is an older copy of `src/app` and is left aside.

## 2. Modules and plan

| Module | Extends | Models |
|---|---|---|
| `DocumentPipeline` | | API, workers, sweep and watchdog over rows, files and indexes |
| `AtomicDeletion` | `DocumentPipeline` | deletions between the steps of the pipeline |
| `Uploads` | | duplicate detection and shared files |
| `LlmChain` | | the provider chain and its cache; what is asked is left open |
| `AgentLoop` | `LlmChain` | the research agent, each of whose questions goes through the chain |
| `SlidingWindow` | | abstract: what a limit in a sliding window promises |
| `RateLimits` | instances of `SlidingWindow` | both limiters, each shown to implement it |
| `AuthLockout` | | concurrent logins and the lock |
| `ChatTurns` | | turns of a conversation, their transactions and the lock on its row |
| `ChatHistory` | `ChatTurns` | retention and cleanup beside the turns |
| `Retrieval` | | scope, search, contents and the token budget of a question |
| `Subsequences` | | `Kept(s, S)`: a list comprehension with a condition, used by most of the above |

Each `MC…` module gives the instances for TLC.  Every module is free of
`RECURSIVE`, so that it can be proved about.  The proofs:

| Module | Proves about |
|---|---|
| `SubsequenceLemmas` | lists, least and greatest members, functions defined step by step; used by the rest |
| `DocumentPipelineProofs` | `DocumentPipeline` and `AtomicDeletion` |
| `UploadsProofs` | `Uploads` |
| `AgentLoopProofs` | `LlmChain` and `AgentLoop` |
| `RateLimitsProofs` | `RateLimits`, and that it implements `SlidingWindow` |
| `AuthLockoutProofs` | `AuthLockout` |
| `ChatHistoryProofs` | `ChatTurns` and `ChatHistory` |
| `RetrievalProofs` | `Retrieval` |

What is left of the plan:

1. `DocumentLifecycle`: the abstract document, its status and whether it is
   searchable, as users see it, implemented by the pipeline.
2. `ConversationSockets` and the content cache of the chat.

## 3. DocumentPipeline

One row is one document, named by its uuid.  State and code:

| Variable | Code |
|---|---|
| `row` | the `documents` table as committed: `status`, `virus_scan_status`, `error_message` (only none, "Cancelled by user" or other), `elasticsearch_id` and `qdrant_id` (set or null) |
| `file` | `storage_path` exists on the local disk |
| `open` | the API transaction, or `_queue_for_processing` task, that is still outstanding on a row |
| `queue`, `sweeps` | messages of `process_document` (counted per document) and of `process_pending_documents` |
| `es`, `qd` | what the engines hold |
| `task` | what each worker executes: program counter, document, verdict, the two booleans of the run, the rest of a sweep's list |
| `used`, `broken`, `outages` | bounded counters of user requests, tasks broken off and refused publications |

The status "absent" is a document not yet uploaded; "deleted" is a row removed,
or an upload whose transaction never committed.

Every step of `process_document` that ends in a commit or a call to the scanner,
the extractor or an engine is an action: `Begin`, `Scan`, `ActOnVerdict`,
`Extract`, `ReadMetadata`, `IndexElasticsearch`, `CommitElasticsearch`,
`SkipQdrant` or `IndexQdrant` and `CommitQdrant`, `Settle`.  Each has a disjunct
for a row that is gone (`RowGone`).  A failed call to an engine may have reached
it.  `process_pending_documents` is `StartSweep`, then for each listed row
`SweepFlip` and `SweepPublish`.  The API handlers are `UploadStage` and
`UploadCommit`, `BulkUpload` and `BulkPublish`, `RetryStage` and `RetryCommit`,
`RetryNoFile`, `Cancel`, `ReindexDocument`, `ScanAll`, `BulkArchive`,
`BulkDelete`.  `BeatTick` is the scheduler, `FailStuckDocuments` the watchdog.

`BreakOff` is everything that ends a task between two of its steps with the row as
it is: the pool process is killed, or the database refuses a statement or a commit
although the row is there (a NUL in the extracted text, a lost connection).  In the
second case the outer handler of `process_document` sets "failed" and commits on
the session that nobody has rolled back, raises again, and the row keeps its
status.  `Fail` and the failing disjuncts of `Extract` and of the engine calls are
the errors the handler does record: those of the scanner, the file, the extractor
and the engines.  `MaxBroken` bounds how often it happens.

Abstractions:

* A bulk upload whose row is committed may publish nothing, since the refresh after
  the commit may raise; a retry may leave the row as it was.
* A handler that reads a row and commits without publishing in between (cancel,
  archive, delete) is one step.  Upload and retry are two, because they publish
  before they commit; at most one of them is outstanding on a row.
* The ORM writes only changed columns.  This is modelled where it changes what
  is written: a retry of a row read as "uploaded" leaves the status column alone.
* The content of messages, texts and metadata is left out; whether a text is
  blank is the constant `Textual`, what the scanner may say the constant
  `Verdicts`.
* `manual_virus_scan` always ends in an exception and its rollback and has no
  action.  The query of `reindex_all_broken` finds nothing (`FinalStatusTruthful`).
  The bulk action "reindex" fails on import and has no action.
* `fail_stuck_documents` is a step without effect: `updated_at` is time-zone
  aware and never null, the cutoff is naive, the comparison raises.
* Deletion of a single document is module `AtomicDeletion`.

### Runs

All runs use `MCDocumentPipeline` with two workers; deadlock is checked in all of
them.  `memo` is a text on which the scanner answers clean or fails, `photo` has
no text, `virus` gets no good verdict.

| Run | Instance | Shows |
|---|---|---|
| `one_text` | memo, all requests, 2 of them, 1 task broken off, 1 refusal, 1 sweep | `TypeOK`, `IdsBacked`, `FinalStatusTruthful`, `NotForgotten`, `RemovedStaysRemoved` |
| `two_documents` | photo and virus in strict mode, one deletion or reindexing, a sweep of up to two rows | `NotForgotten` when one row of a sweep disappears, `TaintedNeverSearchable` |
| `settles` | photo, one retry, one refusal, one task broken off | `EveryDocumentSettles`, `WaitingIsPickedUp` |
| `stuck` | a text, one task broken off | that a document whose task was killed, or refused by the database, stays in processing for ever, against the docstring of the watchdog; the finding in `PROJECT.json` quotes it |

Two workers are enough for two runs of one document, or a run and a sweep, to
interleave; with the upload, a sweep and two requests up to four messages of one
document are in flight. Documents interact only in a sweep's list, hence one run
with two documents. One break-off and one refusal can happen at any point.
`NotForgotten` and `EveryDocumentSettles` claim nothing once either has happened,
and what may then become of a document is the run `stuck`; `WaitingIsPickedUp`
holds all the same. A row beyond the 25 a sweep reads is still waiting, which
`NotForgotten` does not speak of; the next sweep may list it (`AtLimit`,
`Listed`).

`FairSpec` assumes that a worker goes on with its task, that an API call ends,
that beat ticks, and that a message at the head of a FIFO queue is taken when a
worker is free again and again (strong fairness of `Take` per document and of
`StartSweep`).  Nothing is assumed of requests, break-offs or refusals.

### Proofs

`DocumentPipelineProofs` first states what one update does to a record of a
function, and then proves, for all values of the constants:

* `TypeCorrect`, `IdsAreBacked`, `FinalStatusIsTruthful`,
  `TaintedIsNeverSearchable`, `RemovedRowStaysRemoved`, `NobodyForgets`.

The inductive invariant `Inv` adds to `TypeOK`:

* `StagedAbsent`: an upload not yet committed has no row, so its commit cannot
  overwrite another actor's;
* `RunFine(w)`: a run's booleans are covered by the row's ids unless the row is
  gone, a run past the scan has a verdict that does not block, a run about to
  record an id has its entry in the engine;
* `StatusRecorded(d)`: what a final status claims is recorded in the ids, and ids
  never disappear while the row lives;
* `IdsBacked`, and that no tainted document is in an index.

Neither `FinalStatusTruthful` nor `IdsBacked` is inductive alone: that `Settle`
writes the truth depends on what the same run saw earlier, and on no step of any
other run having taken it away.  `NextInv` proves `Inv /\ [Next]_vars => Inv'`
action by action, together with `Kept`: what every step preserves of the rows.

`NobodyForgets` states `NotForgotten`, which is inductive beside `Inv`.  Each step
is shown to hand on every document (`HandsOn`): one that gets a status that is
not final is carried, and who carries it lets go only with a final status, with
the row gone, or by passing it on.  A message becomes a run before it leaves the
queue, an upload or retry publishes before it commits, a sweep that has flipped a
row is about to publish it.  `BreakOff` and a refused publication are the only steps
that need not, and both are counted.

## 4. AtomicDeletion

`DELETE /files/{id}`, and each round of the loop of folder deletion, is one
element of `Deleters`.  The module extends `DocumentPipeline`; the pipeline's
steps interleave with the deletions' at every external call and commit.

| Variable | Code |
|---|---|
| `del` | per request: where it is, the document, the ids as loaded (`esId`, `qdId`) and the rollback data of the phases (`inEs`, `inQd`, `onDisk`) |
| `removed` | documents whose row a deletion has removed (history, for the properties) |
| `faults` | bounded counter of the faults below |

`Fetch` is `_fetch_and_validate_document`; `CheckElasticsearch` and
`CheckQdrantAndDisk` are `_prepare_deletion`; `DeleteElasticsearch`,
`DeleteQdrant` and `Unlink` are `_commit_deletion`; `Finalize` is
`_finalize_deletion` with its commit; `RestoreElasticsearch` and `RestoreQdrant`
are `_rollback_deletion`, phase by phase. `Abort` is the end of the API process
between two steps; the timeout middleware does not stop a deletion.

What can go wrong is the constant `Faults`: a lookup of the prepare phase raises
("prepare"), a deletion in Qdrant raises, with or without effect ("delete"), the
file cannot be unlinked ("unlink"), the flush or the commit of the row raises
("flush", "commit"; the commit may have happened), a restoration raises, with or
without effect ("restore"), the process ends ("abort").

Three things in the code look different from what it does, and the model follows
what it does: `es_service.delete_document` does not exist, so with an
`elasticsearch_id` `DeleteElasticsearch` always goes to the rollback; the key of
the remote object is built with wrong arguments in a `try` that ignores the
error, so the remote object is never looked at; after a failed flush the handler
reads the expired row, raises again and skips the rollback.  A temp file goes with
the file.

### Runs

All use one document (`memo`, always clean), one worker and one sweep; two
deletions of one document are enough to overlap at every pair of points, and with
one worker a run of the pipeline still overlaps both.  Deadlock is checked.

| Run | Instance | Shows |
|---|---|---|
| `deletion_faults` | 2 deletions, a plain row deletion, 2 faults of any kind | `DeletionTypeOK`, `GoneIsUnlinked` |
| `deletion_overlapping` | 2 deletions, a retry, 1 fault of any kind but "flush" and "abort" | `IdsBackedWhenQuiet` |

`IdsBackedWhenQuiet` does not hold when two overlapping deletions both fail: the
second captures its data after the first has deleted the vectors, and deletes
them again after the first has restored them.  Nor does it hold when a deletion
fails and its restoration fails too, which are two faults as well, or with a
failed flush or the end of the process, which skip the rollback.

### Proofs

`DocumentPipelineProofs` also proves `GoneStaysUnlinked`, `DeletionTypeCorrect` and
`QuietIdsAreBacked` for all values of the constants; the last assumes
`OneFaultRolledBack` of them, the bounds under which the property holds (see
above).  The pipeline's own invariant is of no use here,
because a deletion takes entries out of the engines and so breaks `IdsBacked`.
What is needed of the pipeline is weaker and proved anew, action by action, as
`PipelineGoesOn`: no step makes a row absent again, and a file appears only for a
row that is absent.  `GoneInv` adds that a deletion which has fetched its row
concerns a row that is not absent, and that one about to finalize has its file
off the disk; the property alone is not inductive, since it says nothing of a
deletion one step before it removes the row.

`QuietIdsAreBacked` needs more of both.  Of the pipeline (`IdsRecorded`,
`PipelineSafe`): an `elasticsearch_id` is always backed, since no deletion gets to
take that entry; only a row that goes loses an id; the pipeline takes no entry
out, and a run about to commit a `qdrant_id` has stored the vectors, which a
deletion can take in between only if the row had the id already.  Of
the deletions (`DebtInv`): a row with a `qdrant_id` has its vectors, or is owed
them (`Owed`) by a deletion that has taken them and is about to remove the row, or
that has failed and is about to put back what it captured.  A deletion that read
an id and captured no vectors can be about to take some only if the one fault has
happened, or another deletion had taken them before and, unless it fails, removes
the row (`Foreseen`); and an id once read stays in the row (`Known`).  TLC checked
`DebtInv` on the instance of `deletion_overlapping` before it was proved.

## 5. Uploads

`POST /files/upload` ("single"), `/files/upload/bulk` ("files") and
`/files/upload/zip` ("folder") look for the hash, store the bytes and commit the
row; between the three anything else may run.  One request handles its files in
order (`current`).

| Variable | Code |
|---|---|
| `rows`, `disk` | committed rows; paths in storage, which are made of the tenant, the hash and the name (`Path`) |
| `storing` | files whose bytes are stored and whose row is not committed |
| `spoiled` | requests whose session has failed and is not usable |
| `fetched`, `unlinked` | by row, how many deletions have fetched it and not come to its file; rows whose own deletion has unlinked the file and not yet committed |
| `outcome` | what the response says of each file |
| `faulty`, `met`, `crossed` | history: files with a fault of their own; uploads that met; files stored while a deletion of an earlier row of the file was under way |

`FindDuplicate`, `FindSeveral` and `Store` are the three ways the look-up ends,
`Commit` and `CommitFails` the two of the transaction, `Reject` a file refused
before, `FailSpoiled` a file that comes after a failed one. `CommitFails` may
leave the row in the table although the file is reported failed: the commit took
effect and its answer was lost, or the refresh or the removal of the temporary
file raised. A deletion is `Fetch`, `Unlink` and `Remove`, each of its own and any
number of them on one row at a time: one that has fetched a row unlinks its path
also when another has removed the row and the content has been uploaded again.
`Remove` alone is the bulk action. Single uploads look among all rows but set no
tenant; the others look in their tenant: that is why a content may be once in
each.

The run `uploads` has two single uploads of one file, a batch and a folder with
it, one fault and two deletions (`MaxDeletions`), the least that overlap. Four
requests suffice for every pair of routes in either order with a third in between;
a fault more only repeats a failed file. `DuplicatesMet` and `RowsKeepTheirFiles`
are claimed for uploads that did not meet, the second also only for files that no
deletion of an earlier row crossed: two that pass the look-up at the same time do
store the content twice, and every later single upload of it then raises
(`FindSeveral`).

### Proofs

`UploadsProofs` proves `UploadTypeCorrect`, `DuplicatesOnlyMet` and
`UnmetRowsKeepFiles` for any requests, routes, files and faults. Neither property
is inductive: `Commit` looks at nothing, so a duplicate must already be accounted
for when its bytes are stored, and a deletion may take the file of an upload that
is not committed yet. `UploadInv` therefore says of rows and of files being stored
what the properties say of rows (`StoredMet`, `StoredKeepTheirFiles`), that
whoever fetched another row of a file and has not unlinked it threatens only those
the property excuses (`ThreatsExcused`), and that a request stores only the file
it is at (`StoringIsCurrent`). The assumption that every request has a number of
files is used for that.

## 6. LlmChain and AgentLoop

`call` is the question of each caller (which model is asked next, which were),
`cache` the entries of Redis by prompt and name. `LookupHit` and `LookupMiss` are
the read of the cache; `TryPrimary`, `RetryPrimary`, `ListFallbacks`,
`TryFallback`, `TryCloud` and `Degrade` the branches of `generate_response` in
their order. `Resolve` and `FallbackModels` are `_resolve_ollama_model` and
`_iter_local_fallback_models`, `Matching` the look-up of a name among the
installed models, by itself or by its stem (constant `Stem`); the list of
installed models is asked for anew in each attempt and may be empty (`Listings`).
What a model says is chosen from the set the extending module passes. An attempt
with a model is one step and one entry of `tried`, although `_ollama_generate`
asks the same model up to three times in it: once more after an empty completion,
and once with a reminder after an answer that asks for documents.
`NoModelTriedAgain` speaks of attempts.

`run` is the run of each caller: `pc`, the step budget, the scratchpad (`pad`)
with what became of each step ("ran", "repeated", "blocked"), and how it ended.
`NextStep` appends a step and goes on to the next plan or the last synthesis.
`Abandon` is a client that goes away, so that the stream is cancelled, or the end of
the API process.  The event
stream and the result of `/agent/run` differ in one thing, modelled by `out` and
`reason`: `run()` ignores the error event (see section 11).

The run `agent_runs` has two runs one after the other, so that the second meets
the cache the first has filled, budgets of one and three steps, two installed
models of which neither is the configured one, and a tool of each kind.  Three
steps are enough for an action to be asked for, blocked and asked for again with a
cap of one.  The cache is bounded by `MaxCached`; a full cache is a failed write,
which the code ignores too.

`AgentFairSpec` assumes that a request under way goes on: every call to a model
has a timeout, every tool returns.  `EveryRunEnds` is checked under it, and
`CallsBounded` says without it that a run costs at most three questions for a
step and one more.

### Proofs

`AgentLoopProofs` proves every safety property of the run for any models, tools,
budgets and callers: `AgentTypeCorrect`, `OutageNeverBrief`, `CacheNeverDegraded`,
`NoModelTwice`, `ActionsOnce`, `DeepDivesAreCapped` and `CallsAreBounded`. The
invariant `LoopInv` has a part for the chain and one for the loop. For the chain,
`Fresh(c)`: before the fallbacks only models the primary stands for have been
tried, at most twice, and the fallbacks still to be tried are installed,
different, and none of those tried; it rests on the lemma that the list of
fallbacks leaves out both names the primary may have, whichever list of models
each attempt has seen. For the loop: actions that ran are different (`Once`) and
counted against the cap (`Dived`), and the questions paid for so far leave enough
for the rest of the steps (`Paid`). `CallsBounded` alone says nothing of the step
a run is in the middle of.

## 7. SlidingWindow and RateLimits

`SlidingWindow` is the abstract specification: per key the calls served in the
window, `Serve` below the limit, `Refuse` for keys in `Strict` only at the limit,
`Pass` for time.  `RateLimits` models `RateLimitMiddleware` (`deque`, one list
per client for all endpoints; `Request` is `dispatch` with `is_allowed` and the
cleanup that may precede it) and `ExportLimiter` (`exports`; `Export` is
`check_export_limit`), with ages in place of time stamps and `Tick` as time.

`EndpointsAreLimited` instantiates `SlidingWindow` once per client and endpoint:
the calls served are a history, the limiter's list is longer, as the calls of all
endpoints are in it, so each endpoint stays within its limit; only for a client
that uses a single endpoint is the refusal exact (`Strict`).  `ExportsAreLimited`
instantiates it per user, with the list trimmed: a sliding window exactly.

The run `limits` has a client of one endpoint, one of two and an exporting user,
limits of two and three calls and windows of three ticks: every pattern of calls
of the length of a window, with a cleanup at any call.  All routed endpoints have
the same window; a shorter one would cut the list of the others, but the
endpoints that declare one have no route.

### Proofs

`RateLimitsProofs` proves `LimitsTypeCorrect` and the two refinements,
`RequestsImplementWindow` and `ExportsImplementWindow`, for any clients, endpoints,
limits and windows: initial states map to initial states, and each `Request`,
`Export` and `Tick` to a step of `SlidingWindow` or to a stutter.  `LimitsInv`
relates the list a client's endpoints share to the calls of one endpoint by
counting: of the calls younger than any age there are at most as many as in the
list, and for a client of one endpoint the two are the same.  "Younger than any age"
instead of "in the window" is what makes it inductive under `Tick`.  Assumed is
what the code has as constants: the cleanup keeps calls at least as long as the
window.

## 8. AuthLockout

For one identifier: `attempts` (ages), `lock` (ticks left), `count` (locks since
the last success).  A login is `Check`, answered 429 while locked, then the
database, then one of `WrongPassword`, `RightPassword` and `NotCounted`; any
number of logins may be between the two.  `Tick` is time.

The run `login_lockout` has three logins at a time, three attempts, and a backoff
that reaches both of its caps (factor 4, then the longest lock).  Three logins
that pass the check together can lock, fail once more and succeed during the lock.
`LockFairSpec` assumes time and an answering database; `LockEnds` needs both, as
a login checked before the lock may extend it.

What the module leaves out because nothing reads it: the audit row of a failed
login is written in the transaction that the 401 rolls back, although a comment
says that `get_db` commits it.  The manager's cleanup, statistics and manual
unlock have no caller.

### Proofs

`AuthLockoutProofs` proves `LockTypeCorrect`, `TriesAreBounded`, `LocksRunOut` and
`LocksGrow` for any number of logins, attempts, windows and backoffs, with a lock
no shorter than the window, as configured.  `TriesBounded` is not inductive: a lock
empties the list of attempts, and what bounds the next ones is that the failures
before it leave the window while it lasts.  `OthersWaited` says so (of the failures
that outlast the lock all count) and that every login under way during a lock has
taken one of the places left.  `LockHistory` knows the last lock from the count,
whose doubling must be shown monotone.  The bound on the count must be positive:
with none the type invariant is false, which the proof found.

## 9. ChatTurns and ChatHistory

| Variable | Code |
|---|---|
| `live`, `selection` | committed rows of `conversations`, and `document_ids` in their metadata |
| `messages` | by conversation in the order of `created_at`; uncommitted ones are seen by their session only |
| `lock` | the session that has updated the row and not ended its transaction |
| `turn` | what each session is at |
| `retention`, `old`, `cleanup` | retention record; conversations past the cutoff; the cleanup under way |

A turn is `Begin` or `BeginNew`, `Ask` (the flush: update of the row, which waits
for other writers, and the question), `ReadHistory` unless a rule answers
(`Offered`: the places of the messages that the prompt may get; `Fitting`: those
the budget and the documents leave), `Answer`, and `Commit` or `RollBack` with the
session. A web socket runs the same handler again and again in one session, so its
turns are stored when it is closed and the row stays locked until then. The stream
commits each message (`Stamp`, `AddMessage`) and stamps it before it waits.

`ChatHistory` adds the retention record created by listing (`ListHistory`),
archiving and pinning, the passing of days (`Age`), and `DELETE /chat/cleanup` as
`CleanupSelect`, `CleanupLoad` and `CleanupCommit`: the commit fails for all when
one conversation has a record (the mapper sets a key that may not be null) or a
message more than was loaded.

The run `chat` has one conversation, a request, a socket and a stream, and up to
three messages: a whole turn and the beginning of another, or a stream's message
inside a turn.  A second conversation shares nothing with the first, except the
cleanup, which treats every conversation alike.

`StoredTurnsAreWhole` and `AnswersFollowQuestions` are claimed of the messages of
requests and web sockets. A stream commits its question alone
(`async_conversation_service.py:209-214`); when the model fails, or no document is
in scope (397-402), the question stays in the history without an answer.
`PromptIsWhatCameBefore` says of every prompt that it holds nothing but what was
said before the question, and of conversations of up to `HistoryLimit` messages
that the latest `PromptLimit` are offered. Beyond that the code reads the oldest
messages, where the user's guide says the latest; `LastMessagesRemembered`
(section 11) is that claim.

What the code does and the model keeps: the history read is the oldest ten
messages, not the latest, and the prompt is offered five of them; with any
document in the context no history reaches the prompt (`Fitting`, and
`PackDocuments` in `Retrieval`), nor do the library statistics and metadata that
the context counts; a stream has no prompt, since what builds it names a variable
that is not there (`async_conversation_service.py:633`) and the exception becomes
its answer; it answers with a fixed error text when it finds three documents or
more; the deletion of a conversation ends in status 500; viewing the history
creates the record that blocks the cleanup. Counters of the storage quota are left
out: archiving twice subtracts twice, but nothing decides by them, and
`save_message`, which would, has no caller.

### Proofs

`ChatHistoryProofs` proves `HistoryTypeCorrect`, `PromptsAreHistory`,
`TurnsDoNotOverlap`, `TurnsAreAtomic` and `PinnedIsNeverDeleted` for any
conversations, sessions and message limits, with the steps of the turns and of the
cleanup together.  The invariant `HistoryInv` is about the row's lock: among the
messages of requests and sockets those not stored come last and are the holder's,
the rest are whole turns, and the last is a question exactly while the holder is
waiting for its answer (`Orderly`); a session between question and answer holds
the lock and sees its own question last (`SessionOK`).  None of the properties
mentions the lock, and none is inductive without it.

## 10. Retrieval

One question at a time (`ask`), while grants, revocations, uploads and deletions
change `permitted`. `Scope` is `get_effective_document_ids`, `KeywordLeg` and
`VectorLeg` the two engines (any hits with any scores, or none), `Rank` the
filter, the normalisation, the weighted sum and the cut, or the query in the
database when neither engine has found anything permitted, `Load` the contents,
`PackDocuments` and `PackOthers` `optimize_context`. Scores are small numbers, and
a normalised score the fraction of `Part` over `Whole`. A text is three lengths:
its tokens, which are counted (`Tokens`), its tokens and its characters with the
header in front (`Headed`, `Chars`), by which it is cut. `Remains` is
`_truncate_content`: the whole text if it is short enough by any of the three,
else four characters for each token of the share, or less where a sentence ends
behind 70 % of them. `Add` counts the text without its header, or the share,
whatever is left of it.

The run `retrieval` has three documents, two results, three scores with unequal
distances, two budgets and three lengths of questions: enough for a single hit,
equal hits, hits filtered out, a document that is best in one engine and unknown
to the other, a cut, and texts above and below their share, by one length and by
another.

`BetterHitsRankFirst` compares two documents that the engines order alike.  More
is not true of the code: normalisation gives the weakest hit of an engine the same
0 as a document it did not find.  Nor is `ResultsInScope` claimed for access
revoked after the scope was computed.  A search asks each engine for three times
what is wanted and filters afterwards, so permitted documents may be missed when
many others match better.  `SharedFairly` speaks of the count, and of the characters
only by the rule of the code; that the text itself fits the budget is `ContextFits`
(section 11), which is false even for texts given whole.

### Proofs

`RetrievalProofs` proves `RetrievalTypeCorrect`, `ResultsStayInScope`,
`RankingKeepsOrder` and `ContextIsShared` for any documents, scores, weights,
budgets and lengths.  `RankingKeepsOrder` rests on `PartFacts` and `BetterFused`
(normalising keeps an order and makes a better score strictly better; so does the
weighted sum over the common denominator), `ContextIsShared` on `PackedFairly`,
which follows the packing one document at a time: after k documents at most k
shares are counted, and k shares fit because shares are rounded down; `RemainsFair`
bounds what is left of each text.
`RetrievalInv` adds to the properties that documents loaded are in scope, and that
nothing is given before packing, since loading replaces the documents.  The count
is an integer: with a question above the budget, of which nothing is claimed,
negative shares are subtracted from it.

## 11. Counterexamples to run by hand

These configurations each check one formula that a docstring, a comment or a test
states and the code does not satisfy.  They are beside the runs of
`PROJECT.json`, of which only `stuck` is of this kind.

| Configuration (module) | Formula | Source of the claim | What happens |
|---|---|---|---|
| `PipelineDuplicateTasks` (`MCDocumentPipeline`) | `NoDuplicateTasks` | `tasks/document.py:494`, "to avoid duplicate task enqueues" | upload and sweep publish the same document |
| `PipelineCancelled` (`MCDocumentPipeline`) | `CancelledStaysFailed` | `files.py:897`, docstring of cancel | a queued run sets the status again |
| `PipelineRetryNoFile` (`MCDocumentPipeline`) | `RetryWithoutFileFails` | `files.py:851`, comment of retry | the exception rolls the status back |
| `DeletionIndexed` (`MCAtomicDeletion`) | `FailsOnlyOnFault` | `tests/test_atomic_deletion.py:97` | `delete_document` does not exist on the Elasticsearch service; only a mock has it |
| `DeletionLosesFile` (`MCAtomicDeletion`) | `FailureRollsBack` | `atomic_deletion_service.py:11`, "If ANY step fails, the entire operation is rolled back" | a commit that fails after the file was unlinked leaves the row without it |
| `DeletionLeftovers` (`MCAtomicDeletion`) | `GoneIsGoneEverywhere` | `atomic_deletion_service.py:4-9`, "atomic" across all stores | an entry added since the ids were read stays |
| `AgentOutage` (`MCAgentLoop`) | `OutageIsNotCompleted` | `tests/test_agent_service.py:198` | the result of `/agent/run` keeps "completed" |
| `ChatSelection` (`MCChat`) | `SelectionKept` | `chat.py:241`, "ALWAYS update conversation metadata" | metadata changed in place is not written |
| `UploadSpreads` (`MCUploads`) | `FailureStaysWithItsFile` | `bulk_upload_service.py:467` | one failed file fails those after it |
| `LimitsShared` (`MCRateLimits`) | `RefusedOverItsLimit` | `rate_limiting.py:84`, "10 uploads per minute" | calls of other endpoints count, so the first upload may be refused |
| `ChatMemory` (`MCChat`) | `LastMessagesRemembered` | `docs/CHAT_USER_GUIDE.md:234`, "remembers the last 6 messages" | of a conversation longer than what is read, the oldest messages are offered |
| `RetrievalOverflow` (`MCRetrieval`) | `ContextFits` | `context_manager.py:187`, "Optimize context to fit within token budget" | the header is not counted, and a text of few characters is given whole though its tokens exceed the share |

## Only model-checked, or not covered

Every invariant and action property of the passing runs is a theorem, and so are
both refinements.  Liveness (`EveryDocumentSettles`,
`WaitingIsPickedUp`, `EveryRunEnds`, `LockEnds`) stays with TLC: TLAPS does not
handle fairness here.

The theorems hold for all values of the constants that satisfy the named
assumptions of the modules, which TLC evaluates in the runs.  Bounds such as
`MaxRuns` or `MaxFaults` are constants too, so they hold for any bound.  Facts about
lists need induction; the library states induction for an operator, which the
provers cannot instantiate, so `SubsequenceLemmas` proves it for sets of numbers
(`Counting`), and lists are filtered by a set (`Kept`) and folded by recursive
functions (`Packed`, `Sum`) where the definitions would otherwise take an operator.

### Not modelled

* Web sockets: broadcasts of bulk uploads reach nobody, and the status tracker
  only informs; the delayed cleanup of a status is a hazard without a property.
* `tasks/cleanup.py` and `tasks/integrity.py`: not registered with the worker, or
  failing on import.
* Object storage, key management, log export, MCP: I/O or adapters.
* Roles and permissions beyond the resulting scope; administration, analytics and
  user endpoints: look-ups and single-row updates.
* Prompts, embeddings, text extraction, heuristics of the scanner: what they
  compute is abstracted to the outcomes the callers distinguish.
* The content cache of the chat (30 minutes, one key for all wanted lengths),
  document relationships, and questions about documents selected by hand.
* The front end and `src/backend/app`.
