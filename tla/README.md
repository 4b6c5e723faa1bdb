# A verification project for Next.js

TLA+ models of the parts of this repository whose correctness rests on the order in which things happen: what is on
disk when a process dies, which of several asynchronous results arrives first, which of two callers that share a
promise is told what. Pure transformations (parsers, code generation, bundling) are left to the repository's tests.

All paths below are relative to the repository, `TP` stands for `turbopack/crates/turbo-persistence/src` and `N` for
`packages/next/src`.

## 1. Inventory

### A. turbo-persistence (`turbopack/crates/turbo-persistence`)

The key-value store under Turbopack's file system cache: an LSM tree with one writer and many readers.

| part | state | operations | hard behaviour | what makes it correct |
|---|---|---|---|---|
| store (`TP/db.rs`, `TP/meta_file.rs`) | the directory (numbered sst, meta, blob, del files and CURRENT); `Inner` with the open meta files and the current number; `active_write_operation`; `read_only` | open, open_read_only, write_batch, commit_write_batch, compact, full_compact, get, batch_get | crash or I/O error at each durable step; recovery interrupted; readers that open files lazily; number reuse | reads see the last committed state; commits are atomic and durable; nothing a reader or a restart needs is removed; nothing else stays |
| SST filter (`TP/sst_filter.rs`) | one map from SST numbers to a state, per commit or load | apply_filter, apply_and_get_remove | obsolete lists must outlive what they hide | a reload offers each SST file that was not merged away, once |
| selection of merge jobs (`TP/compaction/selector.rs`, `TP/merge_iter.rs`) | indices, the current set and range | get_merge_segments, MergeIter | restarted searches; partial compaction | terminates; jobs are disjoint; no older entry is lifted above a newer one |
| write batch (`TP/write_batch.rs`, `TP/collector.rs`) | thread-local and global collectors per family, new files | put, delete, flush, finish | several threads fill and write collectors | the last put of a key wins |
| formats (`TP/static_sorted_file*.rs`, `TP/compression.rs`, ...) | none | encode, decode, look up | byte offsets | round trip |

### B. turbo-tasks-backend and turbo-tasks (`turbopack/crates/turbo-tasks*`)

| part | state | operations | hard behaviour | what makes it correct |
|---|---|---|---|---|
| database layer (`database/turbo/mod.rs`, `database/db_invalidation.rs`, `database/db_versioning.rs`, `kv_backing_storage.rs`) | the invalidation marker, one directory per version, the join handle of the background compaction | open_versioned_on_disk, invalidate, save_snapshot, shutdown | crash between marking and cleaning up; compaction in the background of batches | a database marked invalid is never used; a snapshot is all or nothing |
| snapshots of the tasks (`backend/mod.rs`, `backend/storage.rs`) | the count of operations, the request and its condition variables; per task its flags and its entry in `modified` | start, suspend and end an operation; modify a task; snapshot and persist | operations go on while the snapshot is written; marks are cleared one lock at a time | no operation is half in a snapshot; a snapshot has the content of its cut; no change is forgotten |
| task graph engine (`backend/`) | tasks, in-progress states, aggregation tree | run, invalidate, connect child | concurrent updates of the aggregation tree | a task that is out of date runs again |
| primitives (`event.rs`, `once_map.rs`, `scope.rs`, ...) | listeners, counters | notify, listen, spawn | lost wake-ups | everyone who waits is woken |

### C. Turbopack crates

The bundler proper (`turbopack-core`, `-ecmascript`, `-css`, `-resolve`, ...) is a set of pure functions over the
task graph. Its only protocol of its own is the Node.js process pool (`turbopack-node`): idle processes, concurrency
and boot permits.

### D. Next.js server (`N/server`, `N/lib`)

| part | state | operations | hard behaviour | what makes it correct |
|---|---|---|---|---|
| response cache (`N/server/response-cache`, `N/lib/batcher.ts`) | two maps of pending promises, the previous item | get, revalidate | coalesced callers, early resolve, failing renders | one render per key at a time; every caller is answered |
| use-cache handler (`N/server/lib/cache-handlers/default.ts`) | pending sets, LRU cache, tag manifest | get, set, updateTags | a get during a set; sets that fail or overlap; updates with and without durations | a get ends; what it returns as fresh is newer than every update of its tags; the cache keeps its limit and the newest entry |
| incremental cache (`N/server/lib/incremental-cache`) | memory and file layers, locks, tags | get, set, revalidateTag | stale tags | no entry is served that was written before its tag was revalidated |
| cache signal (`N/server/app-render/cache-signal.ts`) | counts of reads, listeners, pending callbacks, subscribers | beginRead, endRead, inputReady, cacheReady, trackPendingModules | turns of the event loop; subscribing in the middle of reads | ready only when nothing is in flight; who waits is called |
| staged rendering, after (`staged-rendering.ts`, `after/`) | stage, task queue | advance, after | turns of the event loop | a stage ends before the next begins |
| requests and routes (`base-server.ts`, `route-matcher-managers`) | mostly per request | handle, match, reload | reload during match | a match sees one set of matchers |
| dev server (`on-demand-entry-handler.ts`, `hot-reloader-*.ts`) | entries, pings, connected clients | ensure, ping, dispose | a page disposed of while it is requested | an entry in use is not disposed of |

### E. Next.js client (`N/client`, `N/shared/lib/router`)

| part | state | operations | hard behaviour | what makes it correct |
|---|---|---|---|---|
| app router action queue (`app-router-instance.ts`) | a linked list of actions, pending, last, needsRefresh, the router state | dispatch, run, settle | a navigation displaces the pending action; results arrive in any order | a displaced result is never applied; actions run once, in order |
| segment cache (`segment-cache/`) | route and segment entries, task heap | schedule, ping, evict | limits, invalidation during a fetch | no stale entry after invalidation |
| pages router (`router.ts`, `route-loader.ts`) | `clc`, entry map | change, load | cancelled navigations | only the newest navigation renders |
| promise queue (`promise-queue.ts`) | running count, queue | enqueue, bump | forced starts | tasks are not lost |

Tooling (`N/build`, `N/cli`, codemods, `create-next-app`, `eslint-plugin-next`, `rspack`), the Rust bindings and
transforms (`crates/`), and vendored or generated code have no protocol to model.

The parts interact little: the backend's database layer calls turbo-persistence (write_batch, commit, compact, get);
the server's response cache calls the incremental cache; the use-cache wrapper calls a cache handler and a
CacheSignal; the client router calls the segment cache. Each is modelled on its own, with its callers left open,
except where a row of the plan says that a module composes two.

## 2. Plan

Modules, in the order of their importance.

1. `TurboPersistence` with `SstFilter`, `MergePlan` and the abstract `KVStore` (done), `SstFilterPasses` and
   `MergeSegments`, which tie the two declarative helpers to the code's loops (done).
2. `AppRouterActionQueue` (done).
3. `ResponseCache`: Batcher, get, handleGet, handleRevalidate (done). Left: an abstract single-flight
   specification (a call of a key is idle, running or settled) that each batcher implements, and the layers of the
   incremental cache under it (`IncrementalCache`: memory, files, locks, tags).
4. `UseCacheHandler`: get, set, updateTags with the LRU cache (done).
5. `CacheSignal`: reads, subscriptions and the turns of the event loop (done).
6. `BackendSnapshot`, which composes `SnapshotGate` (how operations are stopped) and `TaskStorage` (what a snapshot
   is given): done.
7. `WriteBatch`: threads, collectors and shards; abstract specification: the last put of a key wins. It refines
   the batch part of `TurboPersistence`.
8. `BackingStorage` (database layer over the promises of `KVStore`): background compaction and its join handle,
   shutdown, what a failed save_snapshot loses; `DbDirectory`: invalidation marker, versions, clean-up, with
   crashes.
9. `IncrementalCache`, `PromiseQueue`, `ProcessPool`, `SegmentCacheScheduler`, `OnDemandEntries`.

Theorems, in this order: durability and immutability of the store's files, the safety of the action queue, of the
response cache, of the cache signal and of the snapshots, and that what the use-cache handler returns as fresh is
newer than the updates of its tags (done); that restarts and readers of the store find their files, that commits
remove what is there and that nothing is left behind; the order of the action queue; the LRU cache of the use-cache
handler; the plans of get_merge_segments; that a compaction keeps every read and that the store implements
`KVStore`, step by step; that the two passes of `SstFilterPasses` compute Filter, and that a reload after any number of
commits offers what it must (done). Left: the invariants of the later modules.

## 3. What is modelled

### TurboPersistence

`disk` maps each number to the one file that has it, `synced` is the set of files whose content is on stable
storage, `CURRENT` and `stable` are that file as the operating system shows it and as a power loss leaves it.
`meta_files`, `current_sequence_number`, `active_write_operation` and `read_only` are the fields of that name. The
rest is the local state of the operation in progress.

| actions | code |
|---|---|
| InitCreate, InitWrite | open_directory, init_directory |
| OpenStart, RecoverRemove, OpenFinish | load_directory: what the directory scan removes, one file at a time, then the filtered meta files |
| BeginBatch, CreateBlob, WriteSst, FinishBatch | write_batch, put, delete, flush, finish |
| BeginCompact, MoveSst, MergeSsts | compact, compact_internal |
| WriteMeta, SyncFiles, Publish, WriteDel, WriteCurrent, SyncCurrent, RemoveFile, CommitDone | finish, commit, the end of commit_write_batch and compact |
| Fail | an I/O error, or a batch that is dropped |
| Crash | the process or the machine stops |

`Get` and `View` are what get returns; a reader holds the read lock while it looks, so a read is one step.

Abstractions. A key stands for its hash. Which entries of a merge are hot or cold, where an output file is split and
which jobs the size limits allow is left open: any legal plan (`MergePlan`) may be compacted, each job into one or
two files with different keys. A compaction that finds nothing is a stuttering step. The log file and the caches
have no influence on the state.

Assumptions about the file system. Syncing a new file makes its directory entry durable; removals and creations
reach the disk in order; the two steps of init_directory are durable in order; a CURRENT that a killed process wrote
reaches the disk before the next process removes files. A write of CURRENT (four bytes in place) is atomic.

`KVStore` is the promise: a store with durable and visible content, a write operation that becomes visible in one
step and durable in one step, and a crash that leaves the durable content or, after publishing, the published one.

`SstFilter` states what the filter computes: an entry goes when a newer meta file offers or obsoletes the SST file,
a meta file goes when it offers nothing and no reload needs its obsolete list. `SstFilterPasses` has the code's
mutable map and its two passes, over sequences of commits and restarts. `MergeSegments` has the loops of
get_merge_segments; every answer of the byte and duplication limits is tried, so what it shows holds for each
configuration and any sizes. Skip, Start, Optimal, EndJob, Extend and Grow are the paths through the nested loops of
the search, Stop its end; Trim, TurnRound, Retain, Discard and Finish are what follows: the loop that pops single
compactables, the reversal, and retain, one segment at a time.

### AppRouterActionQueue

Nodes are numbered as they are created; `next`, `discarded`, `pending`, `last`, `needsRefresh` and `state` are the
fields of the code. `phase` says how far a node's promise is, `prev` is the state its reducer was given. What a
reducer computes is abstracted to the set of actions that a state includes, which is enough to tell whether a
displaced result ever gets in.

| actions | code |
|---|---|
| Dispatch: DispatchOnEmpty, Navigate, Enqueue | the three branches of dispatchAction |
| Settle: HandleResult, HandleError, with RunRemaining | handleResult and the rejection handler of runAction, with runRemainingActions |

createMutableActionQueue wraps the reducer in an async function, so no result is synchronous.

### ResponseCache

A call of a batcher is named by the request that started it, so `lookup[r]` is the call of getBatcher that r made
and `render[r]` the call of revalidateBatcher; `getPending` and `revalidatePending` are the two `pending` maps.
`minimal_mode` and `previousCacheItem` are the fields of the class. A call has a `phase`, the entry it was given
(`previous`), the call it has joined, what its function returned (`result`) and the promise its callers wait for
(`promise`), which resolve may settle before there is a result. `caller[r]` is the request itself.

| actions | code |
|---|---|
| Get, BackgroundRevalidate | get up to its first await; revalidate as app-page.ts calls it |
| JoinGet, Answer | batch after the await of cacheKeyFn; a waiting caller goes on |
| StartLookup, ReadCache, HandleEntry, EndRevalidate | handleGet between its awaits, with Revalidate, which is revalidateBatcher.batch |
| StartRender, RenderSkipped, Rendered, RenderFailed | handleRevalidate and the response generator |
| EndGet, EndRender | batch settles its promise and forgets the call |
| BecomeStale, Expire, ItemExpires | time passes, an entry is evicted, a tag is updated |

Each action is what the event loop runs between two awaits. A response is abstracted to the version of the content
it was rendered from; a tag update makes a new version. The incremental cache (external to this class) is a register
per key: the memory layer stores at once, and get returns what was stored last, with `isStale` false, true or -1
("fresh", "stale", "-1"). After an expired tag the file system cache returns nothing; of any other cache handler
incrementalCache.get returns the entry with -1, or with true when its revalidate time has passed, too. HandleEntry makes
no difference between true and -1, because handleGet makes none (see the observations). A request without
a key calls the generator and nothing else, so there is no action for it.

### UseCacheHandler

`memoryCache` is the LRU list, `pendingSets` the map of that name, `expired` and `stale` the two fields of a tag in the
tags manifest. A request looks its key up, and calls set once if it has to generate an entry, so a request also names
its set and its entry: `phase` says how far it is, `waitsFor` whose set its get awaits, `served` and `fresh` what get
returned. `totalSize` is the counter of the LRU cache. `updated` and `lastFit` are history: when a tag was last updated, and what was last stored of a key.

| actions | code |
|---|---|
| Get, Continue, with Lookup | get up to its await of the pending set; the rest of get, and what use-cache-wrapper makes of the answer |
| Set | set up to its await of pendingEntry, with the registration in pendingSets |
| Store, Fail, Reject | the stream was read to its end; it broke off; the promise of the entry rejected |
| ExpireTag, MarkTag | updateTags for one tag, without and with durations |
| Tick | time passes |

LruSet is LRUCache.set with its refusal of large items, the counter that gives back the size of a replaced item
(Counted) and takes off those evicted from the tail (Left, Kept), as far as the counter, not the list, demands; TotalSize
sums the sizes of the items up to a place of the list, and only the property CapacityKept compares the two.

Two clocks meet in this code. Entries are stamped with performance.timeOrigin + performance.now(), a fraction of a
millisecond; updateTags rounds the same clock to whole milliseconds (Rounded); areTagsExpired compares the outcome with
Date.now(), whole milliseconds of the system clock, which is not that of performance.now(). In the model time is counted
in units of which a millisecond has `Resolution`, and what Date.now() says is any time that is at most `Skew` from `now`,
truncated (DateNow). Content is left out: an entry
is the time, the tags and the size it was generated with. A request whose get returns undefined generates its entry
when it calls set; the timestamp is that moment's.

### CacheSignal

One signal per render and `Modules`, the signal of chunk loads, to which renders subscribe. `count` and `tickPending`
are fields; `early` and `listeners` say whether there are any of the two kinds; `timer` is what pendingTimeoutCleanup
would cancel. `reads` counts the reads begun on a signal itself, `work` is what React has scheduled.

| actions | code |
|---|---|
| BeginRead, EndRead, with NoMorePendingCaches | beginRead, endRead, also of the subscribed signals; noMorePendingCaches |
| InputReady, CacheReady, TrackPendingModules | the methods of that name; trackPendingModules with subscribeToReads |
| Tick, RunImmediate, InvokeListeners | the nextTick callback, the immediate that sets the timeout, the timeout with the unsubscription |
| EnterCheck, RunWork, LeaveCheck | the phase of immediates, in which React's work runs, too |

The event loop is Node's: nextTick callbacks run before anything else, and an immediate that is set while immediates
run waits for the next phase.

### BackendSnapshot

`SnapshotGate` has the counter of operations (as the set of those it counts), the request under the mutex of
snapshot_request, the suspended operations and where snapshot_and_persist is; `TaskStorage` has a version per category
of a task, the task's flags, its entry in `modified` with the copy of Snapshot(Some), snapshot_mode, and the guard
under which a task is changed.

| actions | code |
|---|---|
| StartOperation, EnterOperation, Suspend, Resume, EndOperation | start_operation without and with the mutex, operation_suspend_point, OperationGuard::drop |
| RequestSnapshot, CheckOperations, Park, Wake, CompleteSnapshot, PersistEnds | snapshot_and_persist up to the cut, its wait with the condition evaluated and the thread parked in two steps, the release of the operations, the end |
| Access, Change, with TrackModification | access_mut with the reading of snapshot_mode; the rest of track_modification and the change |
| StartSnapshot, Take, Visit | start_snapshot, take_snapshot, SnapshotShard::next |
| EndSnapshot, ClearBits, LeaveSnapshotMode, TurnSnapshots, TurnBits, SnapshotEnds | end_snapshot, one lock at a time |

What save_snapshot does with what it is given, and whether it succeeds, is left out: `saved` is what it was given.
A failing save is an observation below.

## 4. What is checked

| run | bounds | distinct states | shows |
|---|---|---|---|
| store | 1 family, 2 keys, batches of up to 2 SST files, 3 live ones, numbers up to 8 | 207 000 | TypeOK; CurrentFilesSynced; RestartFindsFiles; ImplementsKVStore (refinement); CompactionKeepsReads |
| files | 2 families, 1 key, large values, read-only opens, numbers up to 9 | 802 000 | ReadersFindFiles; RemovalsExist; NothingLeftBehind; NoOverwrite |
| filter | numbers up to 18, 4 live SST files | 166 000 | ReloadOffersAlive; RunningMatchesReload; PassesMatchFilter |
| segments | 4 compactables over 3 hashes, jobs of up to 3 | 99 000 | SegmentsDisjoint; SegmentsLegal; Terminates |
| queue | 4 dispatched actions | 45 000 | DiscardedNeverApplied; NavigationsNeverWait; RunsOnce; InOrder; WaitingActionRuns; RevalidationRefreshes |
| responses | 3 requests of one key: an ordinary one, one that may be a prefetch or a background revalidation, one that may be an on-demand revalidation | 1 073 000 | OneCallPerKey; NobodyForgotten; HitIsServed; OnDemandIsRendered; EveryCallAnswered |
| usecache | 3 requests, 2 keys, 1 tag, sizes 1 to 3 in a cache of size 2, 4 points in time within two milliseconds | 570 000 | TypeOK; CapacityKept; HoldsLast; FreshIsNewer; GetReturns |
| signal | 2 renders and the module signal, 5 calls | 94 000 | CountsAgree; NobodyForgotten; ReadyAfterWork; ReadyResolves |
| snapshot | 2 operations, 1 task with both categories, 2 changes of each | 177 000 | NothingRunsAtCut; ChangesTracked; SnapshotBitsMeanSnapshot; SnapshotIsOfTheCut; ChangesSaved |
| queue_lost, snapshot_missed, snapshot_hang | smaller | | the findings below |

The type invariants of the queue, the response cache, the signal and the snapshots are proved (section 5), so no run
repeats them. OneCallPerKey has two parts, OneLookupPerKey and OneRenderPerKey, one per batcher.

The bounds. `MaxSeq` is the only bound on the length of a run of the store; the guards `room` leave place for the
files that must follow, so no operation gets stuck halfway. Two batches, a compaction with its .del file and a
second compaction over its result fit, which is what the hazards need: a meta file made superfluous, a .del file to
recover from, a number that could be used twice. `MaxBatchFiles` and `MaxLive` bound what a batch adds, `MaxJobs`
the merge jobs. `Crashes` and `ReadOnlyOpens` switch actions off where a run asks about something else. In the
filter run, eighteen numbers are six to nine commits, enough for an obsolete list to pass through several
generations of compactions. Four actions are enough for a navigation that displaces a navigation that displaced an
action with others in line.

In `responses` one key is enough because the only thing that keys share is previousCacheItem, which is modelled for
whatever key it has; three requests let a third come while one has joined another and both are about to end.
`MaxVersion` is 0 there: only OwnRenderIsFresh, which is proved, tells versions apart.

In `usecache` two requests share a key, so sets overlap and a get waits for a set, while the third evicts what they
stored; the sizes include one that fits alone, one that fits with another and one that is refused. Time is in tenths of
a millisecond and something happens at 0.1, 0.4, 0.6 and 1.5 ms: there are updates that are rounded down and up, updates less than
half a millisecond after an entry and exactly that, an expiration that lies in the future, and with Skew = 4 a Date.now() in
this millisecond, the one before or the next. An update at 0.6 of an entry of 0.1 is at both limits that FreshIsNewer allows
when the entry is read at 1.5, and it is honoured. In `signal` five calls let one render
subscribe in the middle of a chunk load while reads of its own begin and end. In `snapshot` an operation can change
both categories before, during and after a snapshot, and a second snapshot follows; tasks share nothing but
snapshot_mode and the phases of the snapshot, so one task is enough for the marks, and the two operations meet at its
guard.

`CHECK_DEADLOCK FALSE`: the bounded models end when the numbers, the actions, the calls or the requests are used up,
and a directory with an empty CURRENT cannot be opened any more (see below). The snapshot runs check for deadlock:
snapshots are taken for ever, and though one may sleep for ever, an operation can still start and end.

### Findings

Three runs check what a comment says, and TLC finds it violated.

- `queue_lost`: after a navigation displaced the only pending action, `last` still points to the displaced node,
  and an action that is dispatched then is linked where nobody looks.
- `snapshot_missed`: in snapshot mode the first change of an unmodified category replaces the entry Modified, which
  the other category has from before, by Snapshot(None). The snapshot skips the task; the earlier change stays marked
  and is saved by the next snapshot only.
- `snapshot_hang`: OperationGuard::drop does not take the mutex of snapshot_request, so the last operation may end
  between the evaluation of the condition and the sleep. The notification is lost, and the snapshot sleeps until
  another operation ends.

Observations that have no run of their own (those with a line to quote are notes of the hazards):

- a read-only open cleans up and initialises, because it calls `open_directory(false)`;
- `active_write_operation` stays set after a failed or dropped write operation;
- a crash inside init_directory leaves an empty CURRENT that nothing can open; a commit that fails after publishing
  stays visible until the restart; after the process alone was killed, the next one trusts and cleans up by a CURRENT
  that was not synced (the model assumes that it reaches the disk before anything is removed);
- an error of the background compaction comes out of the next write_batch; the compaction is spawned before its
  handle is stored;
- a displaced action that ends first starts the rest of the queue while the navigation runs;
- revalidateBatcher joins calls by key alone: an ordinary request that misses the cache can join the render of an
  on-demand revalidation with revalidateOnlyGenerated and gets null; an on-demand revalidation can join a render that
  began before it; and a render that read the content before updateTag stores it as newer than the update;
- when the promise given to set rejects, the key's entry in pendingSets stays, and gets of the key wait for ever
  (GetReturns excludes exactly this); of two overlapping sets the first to end removes the registration of the other;
- an entry whose `isStale` is -1 is handed out at once and revalidated in the background like a stale one
  (response-cache/index.ts:173-181), though types.ts:141 says that -1 "dictates a blocking revalidate should be used" and
  incremental-cache/index.ts:559 and 589 produce it; the comment at file-system-cache.ts:304-306 takes -1 for a
  background revalidation. HitIsServed says nothing of such entries; its mutant, which waits for the render of
  stale entries, does what types.ts asks for in the case of -1;
- updateTags rounds to milliseconds and areTagsExpired asks Date.now(), so an update can be missed for a moment:
  updateTags at 1000.6 stores 1001, and a get at 1000.7, at which Date.now() is 1000, still returns the old entry as
  fresh; and an entry made at 1000.2 is never invalidated by an update at 1000.4, which stores 1000. FreshIsNewer says how
  much is missed and no more: what follows the entry by less than half a millisecond, or precedes the get by less than
  that plus the difference of the clocks. default.ts:191 and 200 say "immediately";
- an entry too large for the LRU cache does not replace an older one of its key;
- save_snapshot takes the log of new tasks, and the flags of modified tasks are cleared, before it is known whether
  it succeeds.

### Fairness

The safety runs need none. `AppRouterActionQueue` has weak fairness of each `Settle(a)`: a reducer's promise settles
because the requests it waits for end or fail; the application need not dispatch anything. `ResponseCache` has weak
fairness of `EventLoop`: what is scheduled or awaited runs in the end, and a response generator and the cache
handler settle; new requests, expiry and eviction have none. `UseCacheHandler` has weak
fairness of settling some set or continuing some get: streams end and what a settled promise wakes is run; requests,
updates and the clock have none. `CacheSignal` has weak fairness of the event loop and of ending some read.
`BackendSnapshot` has weak fairness of snapshot_and_persist, which runs again and again in the background, and of each
operation once it has started. ChangesSaved is conditional on `[]<>(snapshot = "idle")`, because the lost wake-up of
`snapshot_hang` would otherwise refute it. `MergeSegments` is sequential code, so weak fairness of
its next step only says that it keeps running.

## 5. What is proved

`AppRouterActionQueue_proof`, for any number of actions, from `MaxActionsAssumption` and `NoneAssumption`: TypeOK,
DiscardedNeverApplied, NavigationsNeverWait, RunsOnce and InOrder. The inductive invariant adds to them that a node is linked
only if it was created, that what is behind a node has not run unless pending has passed it, and that a running
action's `prev` includes no discarded action: a displaced action's result can get into the state only through the
state that some running action was given. InOrder needs two facts more: nodes are created in the order of their numbers
and a waiting node is linked to a later one (Numbering), and of what came after the head of the line nothing but
navigations has run (HeadIsFirst). A navigation that displaces the pending action takes over its link, so the order
survives it; a node that was linked to a displaced one (`queue_lost`) waits for ever and breaks no order.

`TurboPersistence_proof`, for any families, keys, values and bounds, from the assumptions of the module:
CurrentFilesSynced (`CurrentIsDurable`) and NoOverwrite (`FilesAreImmutable`). The inductive invariant has four
parts. Typed: the types of the variables that matter. Control: which stage goes with which state of the process.
Numbered: every file on disk is numbered up to CURRENT, or up to the writer's counter while a write operation runs,
so the next number is free. Flushed: what CURRENT and stable count is synced, and from publishing on all files of
the writer are. Without Numbered the step of WriteCurrent is not inductive: a file above CURRENT that nobody synced
could be counted by the new number.

Its second section builds on that invariant and proves the other safety invariants of the
store: TypeOK, RestartFindsFiles, ReadersFindFiles, RemovalsExist and NothingLeftBehind. It begins with a directory as
data. A set of meta files is Sound if every SST file that one of them lists and
no newer one hides is there, in the right family, and if every SST file that counts is on offer. CommitSound is the
central lemma: when the new meta files list only SST files that are new or were on offer, and agree on what they make
obsolete (Complete), adding them, taking out what Removable calls superfluous and deleting those files leaves the
directory Sound. This is where Filter and Removable must fit together: NewestStays shows that of the meta files that
mention an SST file the newest is never superfluous, so that what it hides stays hidden. RecoveryInv, the inductive
invariant, has these parts besides the four above. Shape: what a file of each kind may refer to. Loadable: the
directory is Sound at CURRENT and at stable. Recovering: what a recovery removes counts for neither of them. Running:
`meta_files` is what a restart would load, where the files that a published commit is about to delete count as deleted
(DeadNow). Deleting: the files to delete are there and, from CURRENT on, listed by a .del file. Writer: what the write
operation has collected, and Complete before it publishes. None of the five properties is inductive: that a restart
finds its files after WriteCurrent rests on what Publish computed in memory, and that on what the compaction had
collected. TLC checked RecoveryInv on both configurations of the store before it was proved.

The last section proves that the store implements `KVStore` (`Refinement`) and that
a compaction keeps every read (`CompactionsKeepReads`). It reads a directory as the code does: the entry of a key is
that of its newest holder, and since a meta file's place and an SST file's number order the holders of a family
totally (the same SST file is on offer once), the CHOOSE of Get has one answer. RefinementInv adds two parts to
RecoveryInv. Meaning says, while a compaction runs, what the SST files it has listed and the merge jobs it has still
to run will say of each key: what stands at the last place that mentions the key is what a reader finds now, and a key
mentioned nowhere is in none of the merged SST files (KeepsKey); the jobs share no SST file (JobsApart), and a family
gets one meta file, its last step (OneMeta). Of a batch it says that the place of an SST file is its number (Fresh).
Settled relates CURRENT to `stable`: they are the same until CURRENT is written, and an operation that failed between
the two has published what CURRENT names, so a crash that happens to keep the unsynced CURRENT is a step KVStore
allows. Each action is then mapped to a step of KVStore or to a stutter: Publish to its Publish, SyncCurrent to
Persist, BeginCompact to Reorganize and the steps from there to Publish to stutters, a crash to one of the two outcomes
of Crash.
The refinement is about safety: KVStore has no fairness.

`SstFilterPasses_proof`, for any number of commits, meta files and SST files, proves what `TurboPersistence` takes from
`SstFilter`: PassesMatchFilter, RunningMatchesReload and ReloadOffersAlive. The first half is about the loops, by
induction over the meta files from the newest. The map of states says of each SST file what the newest meta file that
mentions it says (Latest), and whether an older one lists it too (StateFrom); so the first pass hides exactly what
Filter hides, and the second, in which a declaration is dropped from the map once it was looked at, keeps exactly the
meta files that Removable does not let go (ObsoleteMeans, RetainPass). That holds for every sequence of meta files with
rising numbers. The second half is the invariant FilterInv: every meta file offers what it lists and no newer file lists
or declares obsolete (Tight), and what is offered is what was not merged away. PassesMatchFilter alone says nothing
about a later reload; that dropping a meta file keeps the rest Tight is KeptHides: the newest meta file that mentions
an SST file, if only to declare it obsolete, is kept as long as an older one lists it. TLC checked FilterInv before
it was proved. `from` in Pass is a recursive function rather than one of the folds of the community modules so that the
provers can unfold it; that it exists is a lemma.

`MergeSegments_proof`, for any number of compactables, any hash ranges and every answer of the limits: SegmentsDisjoint
and SegmentsLegal. The inductive invariant says of the search that every compactable popped so far is in a segment,
and of those that are not, exactly those with a mark are (Looping); that the set that grows lies within the current
range and that no unmarked compactable that overlaps the range was passed over (Growing), which is what the restarts
of the search are for; and that what is newer than a member of a segment and overlaps it is in the segment or in one emitted
before (NewestFirst). From this SegmentsLegal follows, since popping, reversing and discarding only take out single
compactables that nothing kept depends on.

`ResponseCache_proof`, for any requests, keys and versions, from the assumptions of the module: TypeOK, OneCallPerKey,
NobodyForgotten, HitIsServed and OnDemandIsRendered, among them all safety properties of the run `responses`. The
inductive invariant joins TypeOK and the two parts of OneCallPerKey with `Calls` (a request has calls
of its own only after it was made, and waits for a lookup with its own batcher key, which has begun), `Lookups` (per
phase: nothing is settled before the entry is read; a hit has settled the promise with the entry; otherwise it is
settled by the render that was joined, at the end) and `Renders` (the promise of a render is settled exactly when it
has ended). OneLookupPerKey alone is not inductive: that a new request does not take over a call that is still
pending needs `Calls`. A second invariant, Fresh (a render has read a version no older than the one its request
was made at), gives `OwnRendersAreFresh`: a request that renders for itself is answered by content no older than its
own call, for any number of updates. It is not in a run, because it needs versions.

`UseCacheHandler_proof`, for any requests, keys, tags, sizes, durations and times, any resolution and any skew of the
clocks: FreshIsNewer, TypeOK, CapacityKept
and HoldsLast. For FreshIsNewer the inductive invariant says that
the last update of a tag is recorded, rounded (UpdateRecorded), as the time it became stale or as the time it expired.
Neither alone holds: updates without durations do not touch `stale`, those with durations move
`expired` into the future. What a lookup can then miss follows from two lemmas about the clocks: rounding moves a time by half
a millisecond at most (RoundedIsNear), and a truncated time that lies before a full millisecond lay before it untruncated
(TruncatedBefore). The invariant of the LRU cache (CacheInv) joins TypeOK, CapacityKept and HoldsLast with
OnlyStored: what is in the cache, or was stored last, belongs to a set that has ended, so a later set cannot change the
sizes that were added up. CapacityKept is about a recursive sum: that the sum exists, that it grows item by item, and
how it changes when an item is put at the head, in place of another (SumsOfReplaced) or not (SumsOfAdded), are lemmas,
proved by induction in the form of a least counterexample (Minimum), which needs no theorem with an operator as
parameter. CountedIsTotal and EvictKeepsHead then say that the counter changes by the same amounts.

`CacheSignal_proof`, for any number of renders and calls: TypeOK, CountsAgree, NobodyForgotten and ReadyAfterWork.
The inductive invariant adds that a positive count leaves no callback pending, that who is subscribed has a listener
which will unsubscribe it, and that a timeout is on its way only when React's work that was queued before it has
moved to the phase that runs (WorkBeforeTimeout).

`BackendSnapshot_proof`, for any operations, tasks, categories and versions: TypeOK, NothingRunsAtCut, ChangesTracked,
SnapshotBitsMeanSnapshot and SnapshotIsOfTheCut. A step is shown to be a step of the gate, a step of the storage or a
stutter. GateInv ties the phases of the storage to those of snapshot_and_persist; TaskInv says per task and phase which
entry goes with which flags, that the modified categories of a task not changed since the cut, or its copy, have the
content of the cut, and what holds while a guard has read snapshot_mode and not used it yet: without that part the
steps of end_snapshot that leave the mode are not inductive.

From constants the proofs use only the named assumptions of the modules.

Every invariant and every safety property that a run checks is stated by a theorem. Only model-checked are the
liveness properties, which are out of the prover's reach: Terminates, WaitingActionRuns, RevalidationRefreshes,
EveryCallAnswered, GetReturns, ReadyResolves and ChangesSaved.

## 6. What is not modelled

See the components of PROJECT.json: each has its reason. In short: byte formats and compression, pure
transformations, and the components that the plan has for later. The blob files that no meta file refers to any more
are never deleted (a TODO in the code), so no property says they are.
