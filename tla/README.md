# Productarium: a TLA+ verification project

Productarium keeps generated documentation of software products: codebases, databases, OpenAPI specs and
high-level designs ("artifacts", or entities) belong to products; LLM pipelines write their documents; users
edit them, roll them back, schedule their regeneration and chat with an expert about them. The backend
(`src/api`) is one FastAPI process: an asyncio event loop for requests, a thread pool for docgen jobs, threads
for synchronous handlers and the scheduler's tick, and a PostgreSQL database. Job registry, entity locks,
pending schedule outcomes, running chat turns, background indexing tasks and most caches are memory of that
process; artifacts, versions, schedules, memory chunks, settings and transcripts are rows; clones and
introspection payloads are files.

This directory models the parts of the backend whose difficulty is order and failure, and, as functions, the
decisions and conversions whose difficulty is in their cases.

## 1. Inventory

| component | state | operations | hard part | modules |
|---|---|---|---|---|
| Entity locks (`docgen/jobs.py`) | `_ENTITY_LOCKS`, `_ENTITY_REFCOUNTS`, the RLocks | `lock_for_entity`, sorted multi-lock in `upsert_product` | entries are dropped and re-created while others wait; bounded waiting; several locks at once | `EntityMutex`, `EntityLocks` |
| Job registry and pool (`docgen/jobs.py`) | `_docgen_jobs`, executor queue, worker threads | `create_or_get_job`, `submit_job`, `request_cancel_for_entity`, pruning, the worker's run | registration and submission are two steps; two registry keys share one lock; cancellation is polled | `JobRegistry`, `DocgenJobs` |
| Scheduled docgen (`docgen/scheduler.py`, `routers/schedules.py`) | `docgen_schedules`, `_pending` | tick (reconcile, due, fire, commit), upsert and delete of a schedule | memory and database change in separate steps, rows vanish under a tick, restarts | `Scheduler` (on `JobRegistry`) |
| Document versions (`repositories/doc_version_repo.py`) | `productarium_doc_versions`, `current_version`, document columns of the artifact | baseline, append (full or delta), read, rollback, delete, cancel restore | deltas over deltas, cap on chains, deletion inside the history | `DocVersions` |
| Codebase pipeline (`docgen/codebase.py`, `verification.py`, `incremental.py`) | the row's pages with provenance, `source_state` | generate, regenerate a page, incremental update, detect | reuse across runs, checkpoints, interruption | `CodebaseDocs` |
| Database pipeline (`docgen/database.py`, `introspection_cache.py`) | pages, baseline, cached payload | walk, generate, detect, incremental update | replies that are cut or fail; a cache older than the catalogue; handlers without a lock | `CatalogWalk`, `DatabaseDocs` |
| Writing of units (all four pipelines, `formats/mermaid.py`) | pages of a run, agents, diagram queue | agents with gate and retries, fallbacks, repair, opener guard, Stop, checkpoints | hanging agents, budgets of several kinds, parents and children | `UnitWriting`, `MermaidRepair` |
| Clones (`clients/git.py`, `repositories/documents.py`) | a directory per owner and repository | clone, fetch, reset, detect, pull | a directory that jobs share without a lock; hanging and killed git processes | `CloneStore` |
| Product repository (`repositories/product_repo.py`, `routers/products.py`, `databases.py`) | products and their children, preset servers | GET, light GET, PUT, children, edits, verify | a PUT of what was read minutes ago; writers without a lock; a server that belongs to a row | `ProductStore`, `ProductParts` |
| Vector memory and graph (`memory/`, `docgen/_common.py`) | chunks per source, terms per page | background indexing, prune, delete, rebuild, re-index | unordered tasks; embedder failing or of another dimension | `MemoryIndex` |
| Knowledge tree (`routers/knowledge.py`) | `parent_id` of each node | create, move, delete, tree | the cycle check reads row by row | `KnowledgeTree` |
| Expert turns (`expert/turns.py`, `routers/expert.py`) | `_TURNS`, `_RUNNING_BY_SESSION`, event buffers | start, subscribe, stop, persist, prune, session deletion | detached tasks, replay, cancellation, a probe on threads | `ExpertTurns` |
| Expert answers (`expert/`, `agents/`, `llm/`, `tools/rate_limiter.py`) | one request's progress, the embedder's semaphore | agent, chat, deep research, fallbacks, stream parsing | endings of several kinds, a limiter that is resized | `ExpertAnswer`, `AnswerParts` |
| MCP client (`mcp/manager.py`, `routers/mcp_admin.py`, `product_mcp.py`) | servers, bindings, client and tool caches | discover, test, bind, update, delete | discovery in flight across a reconfiguration | `McpTools` |
| Settings (`config/settings.py`, `routers/admin.py`) | settings rows, a cache with a TTL | get, set, git accounts, token lookup | a value made of several keys, written one by one | `SettingStore`, `ProductParts` |
| Auth (`auth/`) | users, API tokens | access levels, roles, password change, first setup | cases | `ProductParts` |
| Inbound MCP server, frontend | none of their own | translate requests | | not modelled, see section 8 |

How they interact. A request handler or the tick registers a job (under `_JOBS_LOCK`) and submits it to the
pool. A worker takes the entity lock for the whole run, loads the artifact, makes sure a baseline version
exists, brings its source up to date (a clone, a walk of the catalogue over MCP), runs the pipeline, which
polls the cancel flag and checkpoints partial documents, and commits documents and version together; then
indexing of what changed is scheduled on the main loop, where nobody waits for it. Handlers that edit a
codebase take the same lock with a short timeout and answer 409 when a run has it; those of a database take
none. The tick asks the registry for outcomes of what it launched and records them on the schedules. A chat
turn runs detached from the request that started it, gathers its tools from the MCP manager and its passages
from memory, and is stored before anybody is told of its end.

PROJECT.json lists every hazard with its line and the property that would catch it.

## 2. Modules

### Jobs, locks and schedules

**EntityMutex** is what `lock_for_entity` promises: per key one holder; a refusal only while another thread
holds.

**EntityLocks** is the code: one action per critical section of `_entity_locks_guard` (`Enter`, `Leave`) or
per RLock operation (`Acquire`, `Timeout`, `Release`). `pc[t][k]` is the place of thread `t` in the context of
key `k`, `mine` the local variable `lock`. `MayEnter` is the caller's discipline: `upsert_product` enters
several keys in sorted order (on an ExitStack, closed in reverse order), everyone else one. Its callers are on
the one event loop today and do not meet; the module lets any number of threads lock several keys. Lock
objects have an identity; one that nothing refers to may come back as a new one, so confusion of an old and a
new lock would show. The RLock's re-entrancy is left out: no caller enters a key it is in.

**JobRegistry** is the abstract registry: at most one active run per key, one outcome per run, only runs with
an outcome are pruned. **DocgenJobs** implements it with callers, the executor's queue, workers, the entity
lock (as the mutex that EntityLocks is shown to implement) and the cancel flag. A job's life in a worker is
`Dequeue`, `Lock` or `Busy`, `Preflight`, `Detect` (incremental and detect jobs), then `Poll`/`Work` in turn,
`LastWork`, `Persist`, `Unlock`; every step may fail where the code's `except` clauses end the job. Pipelines
are of arbitrary length, so `Work` may repeat. `Hang` is a run whose git command waits for a remote that never
answers: nothing limits it (clients/git.py:149-220), so it keeps its thread and its entity's lock. `PoolSizes`
starts with any number of threads, so that hung runs may use up the pool or leave some of it. The history
field `early` says that cancellation was asked of a job still queued.

**Scheduler** composes the tick with `JobRegistry` (it EXTENDS it and uses `Open`, `Close`). `_tick_sync` is
split at every point where another thread may come between: `TickStart` (reconcile and its commit, then the
query), one `Visit` per row, `Register`, `Launch`, `Commit`. Time is the number of cron fire times that have
passed (`points`); `last_run_at` is how many of them it covers. `expired` models SQLAlchemy's
expire-on-commit: before the first commit a deleted row is still readable from memory, afterwards touching it
raises and ends the tick. Failing commits and restarts are counted in `failures`. `MCScheduler` plays two
scenes: one artifact whose schedule comes, goes and is switched, and two artifacts due in one tick, whose
first visit commits and expires the row of the second.

### Documents

**DocVersions** is the history of one artifact with all that moves it under the entity lock. A row is a full
snapshot or a delta on a `base`. Page trees are functions from page ids to bodies; `generated_docs` (or a
spec's `content`) is one opaque blob. `Chain` is `_base_chain` stated as a least closed set, `PagesOf` is
`_overlay` over it. The history fields `shown`, `whole` and the variable `clean` exist only to state
properties. `Checkpoint`, `FinishJob`, `CancelJob` and `FailJob` are what a run does to the row; DocgenJobs
says when. `MCDocVersions` adds symmetry sets.

**CodebaseDocs** is what a codebase run makes of the documents of the run before. A page is known by the
commit its text was made from, the subpages it links, and the commit its fingerprint is of. `Plan` is
everything from the tree hash to the unit list: `Reusable` is `plan_regeneration` for one unit, a reused
section keeps its stored subpages, another is decomposed anew. `Reuse`, `Write`, `Fails` are one turn of the
unit loop, `Write` with its checkpoint (`Partial`); `Finish` is the commit of pages, `source_state` and
version; `Interrupt` is an exception or the death of the process, `Cancel` the restore. The entity lock is
taken as given (EntityLocks, DocgenJobs), so edits and rollbacks fall between runs, but the remote (`Push`)
and the clone, which artifacts of one repository share (`OtherRefresh`), move at any time. Versions are kept
only as far as a rollback or a cancellation can return to them (`Kept`, and the current one). The history
variables `paid` (what an interrupted run had checkpointed) and `shaken` (its clone was changed under it)
serve the properties. `MCCodebaseDocs` adds the symmetry of commits.

**DatabaseDocs** is the same for a database, where the interest lies elsewhere: a page is of one table, known
by its definition; the catalogue changes at any time; a run takes the cached walk or a fresh one, reuses pages
whose fingerprint agrees, merges back what it did not write and stores the hash of its walk as the next
baseline. The handlers that edit and verify a page are a load and a commit, without a lock, and a rollback
loads before it locks; between the two a run may commit. A flag `verified` is bound to a text by its hash, so
`approved` remembers which texts were approved, and `Guard` is the deterministic opener guard, which may
change a reused text.

**CatalogWalk** is one walk: `_walk_catalog_fresh` with `_introspect` and `_paged_rows`. `surface` says what
kind of server it is: its engine, whether it has a sql tool, for each category whether a tool lists it, an
adapted one composes it of the names in several replies, or none does, which categories the engine's pack has
a query for, whether the server lists a limited number of rows (dbhub's 1000), how long its listings are and
which row no reply can hold. A step is one tool call: `Fetch` with the halving of the page when the reply is
cut, the `Count` of a listing, `Bulk` and `Describe` for columns, `DirectList` and `ComposedList` for the
categories, `Pack` for PostgreSQL's queries. A chopped reply of a list tool is the names that can be scraped
from it. `stats` and `unavailable` are what `_coverage_section` tells the reader; `cut`, `missed` and
`uncounted` are history, to say what it cannot know.

**UnitWriting** is a run writing its pages, in the four flows. An agent phase (`Slots` at once, the gate with
its retries, a wall clock), a fallback phase that asks the standard model unit by unit, diagram repair, the
opener guard and the end, with a checkpoint after each page and a poll of Stop where the flow has one.
**MermaidRepair** is the repair loop it runs on a page's diagrams: queue, attempts per body, calls per
diagram, a deadline for all.

**CloneStore** is the directory and its users. A step is one git process, or the network's answer and what git
writes of it: `Fetch`, `WriteFetchHead`, `ResetTree`, `RemoveTree`, `CloneBegin` and `CloneEnd`; a job may
fail, hang or be killed at each. Artifacts of one repository, or of two with the same owner and name on
different hosts, use one directory. The field `met` collects the jobs that changed the directory while a job
was at work.

### Products, memory, settings

**ProductStore** is the rows of one product. Handlers on the event loop hardly ever await, so a request is one
step, except the PUT or POST of a whole product (`PutMerge`, `PutLock`, `PutSnapshot`, `PutWrite`), which lets
the threads that commit documentation in between, and the addition of a preset database, which waits for its
connection check (`AddPresetStart`, `AddPresetCommit`). `payload` is the product as a client last read it,
whole or light. The code stores the body of a PUT as it is, so the client may leave artifacts out, add some,
send back what it read any time ago, and for one database make up the type and the pin (`Body`); `claimed`
marks such a row. A page is a text and its own verified flag, which ride in one JSON: `Merged` fills in the
text that is stored and keeps the flag that was sent or stored. A POST merges nothing. A preset server is
`Unborn`, `[of |-> database]` or `Gone`.

**MemoryIndex** is the chunks of a product and the terms of its graph. A task is a background coroutine with a
kind (index the pages, one page, a node; prune; drop; rebuild; re-index); its steps are those after which
another may run. A text is the number of the edit that wrote it. `gaps` names the sources that a known gap of
the protocol left behind, so that the property is exact about everything else.

**KnowledgeTree** is `parent_id` and the moves, each of which climbs the ancestors of its target one row at a
time before it saves. `Shown` is what `build_tree` reaches from the roots: `Below`, the least set that holds
the roots and the children of its members.

**SettingStore** is the settings table with its cache, used for the one value that spans keys: the git
accounts. A step is one query or one cache access of a thread. A listing of the keys that fails lists nothing,
as `list_settings` does; a save deletes the rows of the old slots in any order, then writes those of the new
ones slot by slot.

**ProductParts** and **AnswerParts** are pure: each function of the code is an operator, followed by an ASSUME
that compares it with a definition of what it is for, over all small inputs. TLC evaluates them when it starts
the runs *products* and *answers*; for some of ProductParts `ProductsProofs` says the same of all inputs.

### Expert

**ExpertTurns** is one chat turn as a detached task, with the handlers that start, stop and delete it and the
subscribers that replay it. A step of the event loop is the code between two awaits; only `active_for_session`
(a sync handler: `ProbeRead`, `ProbeCheck`, `ProbePop`) and `DeleteProduct` run beside it on threads. The end
of a turn is two steps: `Finish` decides the outcome and writes the transcript, `Close` flips the status and
frees the session; the loop does nothing else in between (`closing`), the threads may. `lost` is a turn whose
task was cancelled before its first step, so that its `finally` never ran. The history fields `unsaved` (the
write failed) and `dropped` (unregistered before its end) name the cases in which the code gives up a promise,
so that the properties say exactly when it holds.

**McpTools** is the registered servers, the product's bindings and the manager's caches. A gathering reads the
bindings once, discovers server after server (each a wait on the network under the configuration it started
with), and then filters. A health check is the same with a verdict at the end. `stamp` is `updated_at`, part
of the fingerprint. **ExpertAnswer** EXTENDS it with the request: an agent with its step limit, a chat, deep
research with its rounds and budget, their fallbacks, and the embedder's limiter, whose semaphore is replaced
when its size setting changes.

### How sub-models share a run

`MCDatabaseDocs`, `MCUnitWriting` and `MCProducts` each EXTEND modules that share no state. Their initial
states let one of them run and put the others at rest in a state from which they do nothing; a step is a step
of one with the others unchanged. TLC searches the union of the behaviours instead of their product, and
nothing is lost, as no action reads another's variables.

The theorems are in eight modules beside the specifications, which section 6 lists. Operators that the
specifications do not use and whose comment, or place just above the operator they vary, says so are mutations
that the properties have been tried against.

## 3. Runs

| run | bounds | states | shows |
|---|---|---|---|
| locks | 2 multi-lock callers, 1 worker, 2 keys, 3 lock objects | 6,829 | no ring of waiters; refinement of EntityMutex |
| jobs | 2 entities, 2 job ids, a pool of 1 or 2 threads, 2 callers | 168,067 | serialisation across the two registry keys, cancellation in the queue, refinement of JobRegistry, every job ends unless it hangs or the whole pool does |
| scheduler | 2 schedules, 3 job ids, 1 failure; 1 entity with 2 fire times, or 2 entities with 1 each | 779,812 | at most one launch per fire time; due schedules are handled |
| versions | 2 pages, 2 bodies, 1 blob, 4 versions, chain cap 2 | 743,177 | versions stay readable as made; rollback is exact |
| turns | 1 session, 2 turns, 1 subscriber, 1 probe thread, 1 event and an error event, 1 failure or restart | 215,416 | transcripts pair up, the status flips after the transcript, replay is complete, streams end |
| codebase | 1 section, 1 optional subpage, 2 commits, 3 versions, 1 of them to roll back to, 1 disturbed run | 3,797,592 | documents of one commit, sections fit their subpages, interrupted work is reused |
| dbdocs | 2 tables, 2 definitions, 3 versions, 1 change of the catalogue, 1 verification; beside it a walk: 3 schemas of up to 4, 2 and 1 table, 1 category of up to 4 rows, pages of 4, at most 3, replies of 2, a limit of 1 or none, 16 calls, 1 failure | 8,248,443 | flags bound to their texts, "unchanged" means documented, the row is its version; a lost row or a cut listing is told but in the blind spots, a listing read in pages is whole |
| memory | 1 artifact of 2 pages, 1 node, 2 tasks, 3 changes, 1 fault | 500,643 | recall follows the documents but for named gaps, merges keep each other, tasks end |
| units | 4 units (a child, two parents, a free one), 2 agents, 2 tries, diagrams of up to 3 blocks; beside it 2 artifacts, 2 repositories, 2 commits, 3 jobs, 1 fault on one clone | 1,516,966 | broken diagrams are told of, runs end; runs describe the tip, detections disturb nobody, find changes and end |
| answers | 2 servers, 2 configurations, 3 tool names, 2 changes, 1 health check; up to 3 requests, 2 rounds, limiter sizes 1 and 2 | 450,376 | tools as bound, verdicts about the present configuration, research bounded, answers end; AnswerParts |
| products | 3 nodes, 3 moves; 1 codebase, 2 databases, 2 pages, 2 servers, 2 writes, 4 requests, 1 made-up body; 2 accounts, 1 save, 2 lookups, 1 fault | 2,277,229 | a tree with no hidden node, a PUT that keeps bodies and what the server owns, preset servers paired, tokens of their host; ProductParts |
| incremental_stale (violation) | 2 tables, no foreign keys, 2 versions | | an incremental run documents the cache of before the change it has detected |

Why the bounds are enough. *locks*: three threads let one hold, one wait and one come or leave, and the two
multi-lock callers can meet in both orders on two keys; three lock objects exceed what two keys use, so a
stale lock is possible if the code allowed one. *jobs*: two ids are reused after pruning, so histories of any
length arise; two workers are the least that can collide, and one that hangs leaves one or none. Symmetry is
not used with liveness. *scheduler*: two schedules of one entity let one be deleted and re-created under a
tick; two fire times suffice for one to be pending while the next comes; one failure at every possible point.
Two entities, each due once, are the least whose visits in one tick follow one another: the first commits, the
row of the second is deleted, and the tick ends before it. The new job's id is the first free one, and others
leave one free: ids are interchangeable to the scheduler. *versions*: with a cap of two, four versions reach a
full chain and the first version beyond it, and a deletion inside; two pages let a delta override one and
inherit the other. *turns*: two turns of one session are the least that can collide in the registry, and a
second session would share nothing with the first but pruning; one event besides the error event tells a
drained buffer from an undrained one. *codebase*: sections do not influence each other's plan, so one of the
kind that has subpages, with one that may come and go, has every case of it; three versions are a first run,
an edit or rollback or second run, and the run that reuses what came of it, and interrupted runs, which make
no version, are not bounded at all; with two commits a push can be undone. A run whose clone was changed under
it ends the behaviour of interest: no run or edit follows it.

*dbdocs*: two tables tell a page that is reused from one that is written; one change and the versions of a
first run, a handler's commit and a second run are what a straddling handler needs. In the walk, a reply of
two forces the page of four down to two, so that four rows make a second page; three schemas are more than one
reply holds, so that the listing of the owners may itself be short; the row no reply holds sits anywhere, and
sixteen calls are both enough for a small catalogue and too few for a large one. A limit of one row cuts every
listing of two. `TellingSurface` leaves out surfaces that differ in what their engine never looks at. One
failure may strike at any call, and the proofs leave their number open. *memory*: two tasks are the least that
overtake each other, three changes let a text be written, rewritten and removed. *units*: one unit under a
parent, a parent that is reused while its child is written, two alone; a page with two equal blocks (one
repair for both), with two different ones and one cut off in mid-stream; one retry of each kind reaches each
give-up. Two jobs overlap on a clone and a third finds what they left. *answers*: the requests come in five
combinations, so that either the gathering of two agents, or an agent, research or two chats beside a chat at
the embedder are interleaved in full; step limits below and above what a round needs. *products*: three moves
are the least that close a cycle through a third node; a PUT, a job and one edit between its steps, or two
preset databases with a shared server. A body that makes up a type or a pin costs one of the four requests, so
that three are left to show what becomes of it. Servers, requests for them and pages are interchangeable, and
the run, which checks no liveness, uses that.

Deadlock is checked in *locks*, *jobs*, *scheduler*, *codebase* and *units*. In the others a bound (on
versions, turns, requests, changes) ends the behaviour: a bounded history really stops there, and the liveness
properties say that what was begun has ended by then.

### Fairness

*jobs*: callers submit what they registered (no await or return lies between), workers keep running, but for
those that hang in git; strong fairness of `LastWork` says that a pipeline has finitely many units (*units*
shows that each ends). `JobsFinish` is what is left: a job ends, or hangs itself, or waits in a queue all of
whose threads hang. A job behind a hung run of its own artifact ends too, refused by the lock's timeout.
*scheduler*: APScheduler's interval trigger with `max_instances=1` gives weak fairness of the tick, and that
is all: jobs need not end, a schedule whose artifact is busy for ever is recorded as skipped. `DueHandled` is
conditional on deletions not going on for ever, because a deletion under a tick does end the tick in the code.
*turns*: the loop schedules every ready task, a runner is cut off by its budget (`_run_turn_bounded`), and a
subscriber wakes at the latest with its heartbeat; fairness of `Finish`, `Read` and `Done` is strong because
the steps of other turns disable them for as long as the loop is busy closing one. A lost turn is excepted
from `StreamsEnd`: nothing ever wakes its subscribers with an end. *units*: the steps of the run itself and
each agent's wall clock (`run_with_unit_budget`), not the agents' answers; requests to models have timeouts.
*units*, clones: only a detection's steps, whose git commands are given a limit; those of a run are not, and
no liveness is claimed for it (`JobsFinish` names it as the exception). *answers*: each request's own steps
(calls to models, tools and embedder have timeouts, threads run), never the administrators'. *memory*: each
task's steps. *locks* needs none: no liveness is claimed there.

### Type invariants

The types of a module's state are `TypeOK` (`WalkTypeOK`, `StoreTypeOK`), or stand in its proof module
(`DirTypeOK`, `TreeTypeOK`, `SettingTypes`, `ServerTypes`, `RequestTypes`, and MemoryIndex's `TypeOK`). TLAPS
proves them as part of the inductive invariants; the runs leave them out for properties that say more. Of
`WalkTypeOK`, which bounds listings by `MaxRows` and so needs at most that many schemas, TLAPS proves the part
without bounds (`WalkTypes`), and TLC all of it, for the states of a walk, when added to the run. The same
goes for invariants that TLAPS proves and no run repeats: `MutualExclusion` and `RegistryExact` of
EntityLocks, `CurrentIsLatest`, `ChainsSound` and `RowIsCurrent` of DocVersions, `Permits` of ExpertAnswer.

## 4. Finding

*incremental_stale*: the incremental run of a database walks the catalogue to detect what changed and is meant
to store that walk for the generation that follows. `fresh_database_info` (database.py:4922) calls
`introspection_cache_key`, whose parameters are keyword-only, in place of `_introspection_cache_key`; the
`TypeError` is swallowed, nothing is stored, and the generation reads the payload cached before the change. It
regenerates the right pages from the wrong catalogue. `IncrementalCatchesUp` speaks of runs during which the
catalogue did not change any more: in the counterexample it changed before the detection, and what the run
documents is the cache of the run before.

## 5. Divergences

Each of these configurations checks one statement about the code, from its comments, tests or interface, that
it does not keep; TLC finds the violation. They are kept for whoever changes that code.

| configuration, module | statement | what happens |
|---|---|---|
| `DetectCancel.cfg`, DocgenJobs | `DetectStoppable`: a detect job "is stoppable the same way" | its coroutine never looks at the flag; cancelled in the queue it still succeeds |
| `LostOutcome.cfg`, Scheduler | `FinishedIsRecorded` | `_reconcile` pops `_pending` before the commit; if that fails, the outcome is never recorded |
| `CancelBlob.cfg`, MCDocVersions | `CancelLeavesPreRun` | deltas carry no `generated_docs`; cancelling after a page-scoped run restores the blob of the chain's root |
| `TwoTurns.cfg`, ExpertTurns | `OneTurnPerSession` | a probe that read a turn before it ended pops the next one's registration; a third may then start beside it |
| `IncrementalScope.cfg`, MCCodebaseDocs | `IncrementalScoped`: "only the impacted pages regenerate" | `section_fingerprint` includes the hash of the whole tree: after a push no stored page matches |
| `CheckpointReuse.cfg`, MCCodebaseDocs | `CheckpointKeepsReuse` | a checkpoint attaches provenance only to units the loop has passed; after an interruption there the next run rewrites pages it could have kept |
| `RebuildClobbers.cfg`, MemoryIndex | `RebuildKeepsMerges`: a concurrent merge is "neither lost nor clobbered" | a rebuild saves terms of texts it read before a merge that is newer |

Met while modelling, and in the models as the code has it (excepted by name in the properties they touch):

- *Versions and pages.* `restore_doc_version` loads before it locks; `verify_page`, `verify_child`,
  `update_database_content` take no lock. A restore after a cancellation drops the flags of verification.
  Deleting a child leaves its versions.
- *PUT of a product.* `upsert_product` deletes and re-inserts every child (its docstring says rows are never
  deleted and re-created under their id), locks codebases but not databases, and fills in page bodies before
  it locks: what is committed in between is lost. A stale pin breaks a foreign key and is answered with 500.
  `{**stored_page, **page}` (product_repo.py:404) lays the client's page over the stored one and nothing
  strips the flags: a `verified` read before a regeneration comes to stand on the new text, which nobody has
  verified, against what `verify_page` says of its flag. DatabaseDocs does not have this writer, and
  `VerifiedSound` speaks of the others. A POST over an existing product merges no page bodies: light pages are
  stored empty.
- *Preset servers.* `_drop_preset_server` looks at the server's preset key only: deleting a legacy database
  that was pinned to a preset's server deletes the server of another database. A PUT without the database, a
  plain add over it and the deletion of the product leave the server. The PUT and POST of a whole product take
  `db_type` and `mcp_server_id` of the body unchecked (product_repo.py:193-198, as the docstring at 186-188
  admits): a preset database may lose its pin, take another's, or come to be without a server.
- *Knowledge tree.* Two overlapping moves may close a cycle, and its subtree is no longer shown.
- *Settings.* The save of git accounts is not atomic: lookups that overlap it may combine the URL of one
  account with the token of another, and the cache may keep that for its TTL. A public account with a blank
  URL loses its token when saved with a blank field.
- *Clones.* Repositories of one owner and name on two hosts share a directory; overlapping runs may reset to
  each other's `FETCH_HEAD` or document a commit older than their baseline; git commands of a run have no time
  limit, so a remote that hangs keeps a thread of the pool and the artifact's lock for good, later requests
  re-attach to that job, and as many hung runs as threads stop all generation.
- *Database walk.* What `LossIsTold` names as blind spots: a category for which the surface has no tool is
  lost without a word (database.py:2502-2510), views of PostgreSQL among them when no tool lists them, as its
  pack has no query for views (669-739); dbhub lists 1000 rows at most (1022-1023, 1141-1148) and nobody
  notices; from a chopped list names are scraped (1150-1162, 1549-1554), and the part counts as the whole. A
  chopped reply of an unpaged pack counts as an empty list (2545-2551); a page that shrank never grows again;
  partial walks are cached for a week; inferred relations are part of the hash, so catalogues without keys
  always count as changed (4533-4543); a run for one page writes the baseline of the whole schema (about
  5336).
- *Units.* A diagram whose deadline passed before it was queued is neither repaired nor marked (mermaid.py:553
  says it "will be marked below"); reuse drops the degraded flag from provenance; database pages replaced by a
  fallback keep it. The orchestrated run has no wall clock of its own.
- *Memory.* Emptied pages, deletions, uploads, rollbacks and node pulls are not indexed; a failed extraction
  wipes a page's terms; a re-index without an embedder stores chunks without vectors; overlapping updates of
  one source may land in the wrong order; a failing `list_page_sources` makes the prune of a single page
  remove all.
- *Answers.* A health check in flight while its server is reconfigured stores a verdict about the old
  configuration; a request cancelled while it waits for the embedder's semaphore may take the permit with it;
  deep research loses the findings of a round it aborts; a stream that fails midway is followed by the whole
  answer; `_chunk_text` drops the space between two pieces of a long line.

## 6. Proofs

Every safety invariant and every action property of the passing runs, and both refinements, are theorems: the
run shows the property on its instance, the theorem for all values of the constants under the named
assumptions, which say little more than that null values are not members of the sets and that bounds are
naturals. The theorems and the lemmas they rest on are in

| module | theorems about |
|---|---|
| `JobsProofs` | EntityLocks and its refinement of EntityMutex, Scheduler |
| `DocgenJobsProofs` | DocgenJobs and its refinement of JobRegistry |
| `DocumentProofs` | DocVersions, UnitWriting with MermaidRepair |
| `CodebaseProofs` | CodebaseDocs, CloneStore |
| `DatabaseProofs` | DatabaseDocs, CatalogWalk |
| `ExpertProofs` | ExpertTurns, ExpertAnswer with McpTools |
| `ProductsProofs` | ProductStore, KnowledgeTree, SettingStore, decisions of ProductParts |
| `MemoryProofs` | MemoryIndex |

In each, `IInv` (`DirIInv`, `WalkIInv`, `TreeIInv`, ...) is the inductive invariant, `InitIInv` its base, one
lemma per action shows that the action preserves it, and `Invariance` puts them together.

### Jobs, locks and schedules

*EntityLocks* (threads and keys finite). `IInv` strengthens `TypeOK` and `RegistryExact`: whoever is in a
context refers to the registered lock, no two keys share a lock object, the owner of a registered lock is
inside and past its acquire. `MutualExclusion` alone is not inductive, because nothing in it excludes two
different lock objects for one key. `NoWaitCycleHolds` adds `Ordered` (a thread waits only for a key above all
it holds): in a ring, the member waiting for the greatest key would wait for one waiting above it.
`Refinement`: every step is a step or a stutter of EntityMutex. Cardinality facts come from FiniteSetTheorems.

*DocgenJobs*. That no two runs of one artifact are at work together needs that a job is on one way only (in a
caller's hand, in one place of the queue, or with one worker: `OneWay`), that a worker's job has the status of
the worker's step (`WorkersJobs`), that only finished jobs that their worker has left may be pruned
(`OldOnes`), and that a worker at work holds the lock of its entity (`LockHeld`). `EarlyStops` says that a
generation cancelled in the queue is not past its first poll. `Refinement` maps every step to `Open`, `Close`
or pruning of JobRegistry.

*Scheduler*. `LaunchBound` compares launches with fire times, and the code keeps neither count. `Covered` says
what does keep it: as long as a row exists or is in the hand of the tick, what was launched for its entity is
at most what its `last_run_at` covers, one failure each, and the one launch not yet committed. A row deleted
and re-created under a tick has a predecessor that the tick may still fire; `Newer` says that it waits for a
fire time after those the tick knows.

### Documents

*DocVersions*. `IInv` is `TypeOK`, a well-formed history (bases exist and are older), `HistoryFaithful`, the
chain cap, `current` is the newest, and `RowIsCurrent`. `HistoryFaithful` needs all the others: that appending
or deleting leaves other versions' reading alone holds only because a base is never deleted and a new version
is never a base yet. The laws of chains (`ChainFull`, `ChainStep`, `ChainFrame`) are proved from the
closed-set definition, without induction on data.

*CodebaseDocs*. `OneCommit` speaks of finished documents, and is broken by what a run carried: so `History`
says that whatever may become current again (the row and every version) has fingerprints and sources of one
commit, `RunShape` that what the run holds is of its plan, `Calm` that everything it has read while its
checkout was left alone is of the commit of that checkout. `FamilyCurrent` follows from `RunShape`: a page is
written or reused with the links of the plan, and nothing of a family is done before its subpages.
`ResumeKeeps` is part of the invariant. Its first form claimed a source for every page that was paid for; the
proof attempt met the page that a user empties and writes anew, which keeps its fingerprint and has no source,
and the property says so now.

*DatabaseDocs*. Pages may come from the row, from two versions, from the old pages of the run at work and from
what a handler has loaded, so `TreesSound` holds of all five: fingerprints are of what the page says, flags on
approved texts. `BaselineMet` is what a detection relies on, with `loose` for rows that a handler wrote. A run
of impacted pages only is planned on one walk and may work on another; `RunPlan` says that the pages it leaves
out agree with the walk it was planned on, and with the one it works on if that is whole.

*CatalogWalk*. What is left to ask identifies the part of the walk under way by its last task (`OwnersPart`,
`TablesPart`, `ToolsPart`, `CategoriesPart`), and `Course` says what has been asked by then. `LossIsTold`
compares sums over schemas with single listings, which is the reason for `Slack`: the statistics of a label
miss at least as much as any listing of it. Without answered counts there is no such sum, hence `uncounted`.
The theorem is as strong as the code: `Blind` lists, one by one, where a listing may be short and nobody told,
and for each of them TLC has found a walk in which that happens (those that need a count unanswered with two
failures, and one of them with pages of two). `Asking` says where the query at work stands, `Complete` what
has been read whole so far. The proof attempt showed that schemas the listing of the owners does not name are
told of in the owners' line, not in the columns' line, and `LossIsTold` says so now.

*UnitWriting and MermaidRepair*. `LoopIs`: a broken diagram of the page at work waits in the queue exactly
once, or its fate is decided (`fixed`, `marked`, or not queued because the deadline had passed), and the three
do not overlap; no diagram has had more calls than its cap. The queue is a sequence made from a set of
diagrams; that the listing exists (`ListExists`) is proved by induction up to its size.

*CloneStore*. The properties speak of a job that nobody disturbed, so the invariant says what the directory is
to such a job at each of its steps: `Undisturbed` while it has met detections at most, `Alone` while it has
met nobody. What others do is one lemma (`ChangesIInv`): a job that changes the directory is met by all
others, and a detection leaves the checkout as it was. `CloneSpec` is proved with any number of commits, jobs,
faults and directories' users.

### Products, memory, settings

*ProductStore*. A PUT writes what a client read any time ago, or made up. `PresetPaired` is therefore not
inductive without `Remembered`: what a client has read of pins, and what a PUT has merged of it and not made
up, is good to be written again, or fails on a foreign key. `PinsLive` and `PinsShared` say the same of the
rows. A body may also pin two databases to one server, so `PutWrite` adds to `shared` and `orphaned` what the
rows it writes share and leave behind. For `BodiesKept` and `OwnedKept`, `PutHolds` (codebases are locked from
the check to the write), `Filled` (stripped pages were filled from rows that nobody but the jobs in `since`
has written, and have their flags), `SavedStands` (what a PUT saved before its delete is what there is, but
for those jobs).

*KnowledgeTree*. `NoRing`: no set of nodes hang on one another alone. A move keeps it because of `ClimbsHold`:
the nodes a climb has passed are still the way up from its target, and the node to be moved is not among them;
this survives creations, deletions and other nodes, but not an overlapping move, which is where the property
stops. That a node without a ring above it is reached from the roots needs no induction: the set of those that
are not would be a ring.

*SettingStore*. `Fits` (one account per URL, each with the token it was last given) does not hold in the
middle of a save, and `Progress` says what holds instead: the keys the save is through with are as it wants
them, so that those left complete its rows, and these fit. `ReadIs`: what was read by a thread that met no
save, no stale entry and no error is what is stored. The proof made the model more exact: a listing that fails
and deletes in any order were missing.

*ProductParts*. Five decisions are proved of any input: `OpenedIsListed` (roles the code does not know
included), `TokensAreSpent` (stated over what a request may make of an account, so that it holds of any number
of requests), `EditsUnverify`, `FirstGroupDecides` (a mapping of any length), `SyncsSettle`. The last unfolds
the recursive function over the tasks, whose length is fixed.

*MemoryIndex*. `Covered`: a source outside `gaps` has the chunks of its present text, or a task is on its way
to store or prune it (`Pending`). Edits schedule a task in the same step, so they keep it; the work is in
tasks that overlap on a source, and in the prune that drops an artifact's blob, which only may when its pages
have chunks (`BlobSpared`). `SaverAlone`: who saves the graph holds its lock and works on the graph as stored;
`MergesKept` follows.

### Expert

*ExpertTurns*. `TranscriptPaired` relates rows to rows (`AnswersFollow`) and rows to turns (`NothingAfter`:
nothing stands behind the rows of a turn under way, so a question in the middle is answered or given up). Both
follow from `Open`: the rows of a turn that has still to answer are its question alone, and the last of the
session. That holds because a session has one live turn, which is `Registered`: every live turn that was not
dropped is the one registered, and in the table. `SavedBeforeSeen` needs `SavedBeforeClose`, the same fact in
the one step between write and flip. `ReplayComplete` needs that a turn's buffer does not grow after its end
(`Lives`).

*McpTools and ExpertAnswer*. `Learnt`: what a request knows of a server is the configuration it read or that
there is none, and its tools are made of that and of nothing else. What the functions that make them return
(names renamed on collision, disallowed ones left out) is a fold over the listing; folds are unfolded by the
well-founded induction of the library, with a set in place of the predicate (`FoldExists`, `FoldPasses`), and
`ExtraToolsFacts` is what they come to for listings of any length. `RoundsKept` counts a finding for every
round that is over, at each place of the research graph; `ResearchBounded` follows. `Permits`: a semaphore has
as many permits out as calls hold one of it and threads left behind have taken for good, so never more than
its size, across resizes.

### Only model-checked

Liveness (`JobsFinish`, `DueHandled`, `StreamsEnd`, `Settles`, `RunEnds`, `DetectsEnd`, `AnswersEnd`), which
is out of the prover's reach under fairness; what the functions of AnswerParts compute (the module declares
RECURSIVE operators) and the other functions of ProductParts, by their ASSUMEs; the bound of `WalkTypeOK` on
listings. The statement of section 4 and those of section 5 are violated and not theorems.

## 7. Plan

If models are extended: HLD and specification rows in ProductStore, the ranking of recall, the attachments of
chat sessions.

## 8. Not modelled

LLM prompts, rendering of pages, parsing and clean-up of model text, citation and duplicate checks, embedding
values and search scores: text and numbers without protocol. The inbound MCP server, listings of git hosts and
HTTP integrations: each request reads and answers, without state of its own. Hashing and signing, Keycloak,
git itself, databases behind MCP servers, markitdown: external. Resolvers of single timeouts read one setting
each. Migrations and process start run once, alone. The frontend is the environment: any request at any time.
Cron expressions are reduced to "a fire time passed"; log capture, progress percentages and the draining of
leftover asyncio tasks are dropped because no property depends on them.
