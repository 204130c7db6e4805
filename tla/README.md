# A verification of toiljs

toiljs compiles an application to WebAssembly artifacts (hot: requests, cold: daemon, stream: sockets)
and serves them. This directory holds TLA+ models of the parts of it that keep state across steps,
the instances TLC checks, and proofs that hold for every instance. Paths below are relative to the
repository root unless they start with `docs/`, which is `docs/` of the repository.

## 1. Inventory

| Component | State | Operations | Interacts with | Hard part | Correct when |
|---|---|---|---|---|---|
| **Capacity collections** (`src/devserver/db/database.ts` 676-696, 1843-1971) | a ledger per key: ceiling, reservations (amount, expiry, confirmed), next id | set total, available, reserve (with or without an idempotency key), confirm, cancel; prune in each | dispatches, snapshot, clock | interleaved dispatches, expiry, crash between answer and snapshot, 64-bit ids across the wasm boundary | never oversold; an answered sale is kept; a handle keeps its meaning; a hold stands until its time is over |
| **Materialized views** (`src/devserver/runtime/module.ts`, `db/changes.ts`, `db/derives.ts`, `db/materialization.ts`, `db/atomic.ts`) | rows, views, the dirty flag, pending derives, the frame of changes of each dispatch | prepare, capture, write, finish, trap, render, load, reload, unload; run a derive | database, daemon (write bridge) | dispatches that overlap, failing derives, overflowing frames, reload, crash | a stale view entry always has someone who will refresh it, and gets fresh |
| **Events and folds** (`database.ts` 1397-1607, 1788-1837, 2002-2041) | the log, dedup ids, a cursor per derive, continuation queue and sequence | append, appendOnce, redact, since, publish, continue, acknowledge | daemon, hot artifact, snapshot | at-least-once folding, redaction under a fold, generations | no event is skipped, an append happens once, a continuation is not lost |
| **Daemon host** (`src/devserver/daemon/index.ts`) | the box, pending derives, `deriveKey`, timers | refresh, start, tick, cold round, retry, stop | database, events, views | failing starts, failing derives, reload, timers | every derive runs in the end; a job's reads are its own |
| **Worker pool** (`src/devserver/production.ts`, `production-worker.ts`, `production-ipc.ts`) | a process per slot, ready flags, client counts, pending calls of a worker, closing | fork, ready, request, reply, time-out, count, exit, respawn, close | operating system | death at any moment, late replies, numbers that are used again | replies go to whom they belong, counts settle, close ends and leaves nothing |
| **Atomic partitioned documents** (`src/devserver/db/atomic.ts`) | the records of a partition and the decisions of its tokens | get, batch | dispatches, snapshot | reads that straddle a commit, lost responses, rebuilt batches, crashes | a token's batch is applied once and whole; answers stand |
| **Records, unique values, documents** (`database.ts` 417-467, 741-1127, 1652-1748) | rows, idempotency outcomes, unique owners | create, patch, upsert, delete, get-delete, compare-exchange, enqueue, claim, release | dispatches, snapshot | retries across traps and crashes | one effect per key, one owner per value |
| **Counters, membership** (`database.ts` 1131-1285, 1340-1393) | numbers, sets | add, remove, page | dispatches | retries | one effect per key |
| **Limits, function kinds** (`db/limits.ts`, `db/routeKinds.ts`) | budget of a dispatch | charge | every import | boundaries | a charge over the budget traps |
| **Daemon timers and cron** (`daemon/index.ts` 377-444, `daemon/cron.ts`) | armed timers, the next fire time of each task | arm, fire, re-arm, clear, reload | daemon host | ticks that overrun, late timers, delays longer than a timer takes | once per matching minute, never sooner than the interval |
| **Streams** (`src/devserver/stream/`, `src/client/stream/client.ts`) | a resident box per connection with two rings, the two ends of the socket | upgrade, message, drain, close, trap, refuse | sockets, artifact | traps, refusals, late socket events, full rings | a conversation is seen in order, to the point where it broke off |
| **Client loader and navigation** (`src/client/routing/loader.ts`, `action.ts`, `navigation/`) | cache of fetches, navigation epoch | prefetch, read, claim, revalidate, evict, navigate, act | React, the browser | answers out of order, stale claims, actions under a fetch | a navigation shows data no older than its policy, and what an action wrote |
| **Client channel, stream, RPC** (`src/client/channel/`, `stream/`, `rpc.ts`) | socket, timer, flags | open, close, reconnect, change options, unmount | browser | late events of an old socket, reconnect after unmount | one socket or timer per hook, none once it is gone |
| **Rate limits, e-mail budgets** (`config/ratelimit.ts`, `email/caps.ts`, `email/index.ts`) | windows, buckets, times | check, commit | dispatches | window edges | no stretch of time sees more than the limit says |
| **Response cache** (`http/cache.ts`, `http/runtime.ts`) | entries with an expiry | look up, dispatch, store, evict | dispatches | answers that arrive out of order, lifetimes | what is shared was meant to be shared, and is not too old |
| **Google's keys** (`runtime/google.ts`) | the keys, when they expire, when they may be asked for again, one fetch for all | verify, fetch, refresh | Google | a key that is taken away or unknown, fetches that overlap | a key that is gone soon verifies nothing; Google is not asked too often |
| **Routes of client and server** (`client/routing/match.ts`, `compiler/routes.ts`, `compiler/prerender.ts`, `http/runtime.ts`) | the sorted table, the baked documents | sort, match, bake, walk | compiler, HTTP | brackets, catch-alls and directories that shadow one another | a URL gets the same page from both |
| **Blob disk store** (`src/devserver/files/disk.ts`) | bodies and manifests in a directory, locks in memory | put, get, head, delete | file system, HTTP | overlapping calls, interrupted transfers, crashes | whole objects only, nothing left behind |
| **Accounts and sessions** (`server/auth/`) | rows of accounts, addresses, identities, challenges, tokens, codes and session generations, all in the database | register, confirm, log in, second factor, reset, log out, delete, erase | records, documents | several rows written one after the other, requests that die between two, secrets used twice | a live account can be found; a cookie, code, token or factor is worth what it was given for |
| **Compiler** (`src/compiler/`) | the lock file, artifacts and manifests of the tiers, the published client, the watcher's flags | lock, reap, compile, check, publish, prune, watch, rebuild | file system, editors, other processes | processes that die, sources edited under a build, stale locks | one build at a time, one generation on disk, no edit forgotten |
| **The rest of HTTP serving, SSR, images, files** | open files, children | serve | dispatch | I/O | not modelled |
| **Command line, codecs** | files | prompt, encode | file system | I/O, formats | not modelled |

JavaScript is single-threaded, so what one wasm import does is one step. What interleaves is: the
imports of dispatches that are suspended on an asynchronous import, timers, reloads of an artifact
when its file changes, processes, and crashes. The database is one in-memory store for all artifacts,
written as a whole to a snapshot when a dispatch, tick or round ends, and read back at start.

## 2. Modules

| Module | Models | Composes |
|---|---|---|
| `Capacity` | one key of a capacity collection and the dispatches around it | maps to `BoxOffice` |
| `BoxOffice` | what a seller promises: sales are for ever, each once, and never more units than the ceiling | |
| `CapacityProofs` | six theorems about `Capacity`, the refinement among them | `Capacity`, `BoxOffice` |
| `Materializer` | the hot artifact: dispatches, frames of changes, derives, the snapshot | |
| `MaterializerProofs` | three theorems about `Materializer` | `Materializer` |
| `EventFold` | the event log, cursors, continuations, and the daemon that runs derives | |
| `EventFoldProofs` | four theorems about `EventFold` | `EventFold` |
| `AtomicBatch` | one partition of atomic documents, its decisions, and the requests and clients around it | |
| `DocumentProofs` | four theorems about `AtomicBatch` and `Registration` | both |
| `WorkerPool` | the worker processes of `toiljs start` and their primary | |
| `WorkerPoolProofs` | four theorems about `WorkerPool` | `WorkerPool` |
| `RecordStore` | records, unique values and counters under requests with idempotency keys | |
| `DocumentScan` | pages and cursors over a collection that changes | |
| `SessionEpochs` | the session generations of an identity and the erasure of their history | |
| `Registration` | names, addresses and the identity index | |
| `SignIn` | login, second factor, its setup, reset and logout of one account | |
| `AccountProofs` | six theorems about `SessionEpochs` and `SignIn` | both |
| `ResponseCache`, `GoogleKeys` | what a server keeps in memory from one request for the next | |
| `Caches` | the two of them and what they promise together | both |
| `PageData` | loaders, navigation, prefetch and actions of the page in a browser | |
| `Channel` | the WebSocket of a component that uses `useChannel` | |
| `MemoryProofs` | six theorems about `Caches`, `Channel`, `PageData`, `Streams`, `DaemonTimers` and `Limits` | all six |
| `RouteTable` | the page of a URL, as the client's router and as the server's walk over baked documents choose it | |
| `Streams` | one `@stream` connection, from the page to the guest | |
| `CompilerLock`, `CompilerBuild` | builds of one checkout, the second one what they do under the lock | `CompilerBuild` extends `CompilerLock` |
| `BlobDisk` | the directory of blobs | maps to `BlobStore` |
| `BlobStore` | what a store of blobs promises: whole objects, each call at one moment | |
| `StoreProofs` | nine theorems about `RecordStore`, `BlobDisk` and the builds, the refinement among them | `RecordStore`, `BlobDisk`, `CompilerBuild` |
| `RateLimit`, `MailCaps` | the strategies of `@ratelimit`; what bounds outgoing mail | |
| `Limits` | the two of them and what they promise together | both |
| `DaemonTimers` | the timers of `@scheduled` tasks | |
| `MCBackend` | instance of `RecordStore`, `DocumentScan`, `SessionEpochs`, `Registration`, `SignIn`, `Caches` | all six |
| `MCParts` | instance of `PageData`, `Channel`, `Streams`, `RouteTable`, `CompilerBuild`, `BlobDisk`, `Limits`, `DaemonTimers` | all of them |
| `MCCapacity`, `MCMaterializer`, `MCEventFold`, `MCAtomicBatch`, `MCWorkerPool`, `MCDaemonTimers` | instances for TLC: model values and symmetry | |

`MCBackend` and `MCParts` put modules that share no state side by side: the first state chooses the `part` that moves, the others
keep their first state. So one behaviour explores one component, and TLC the sum of them, not the product.

### Capacity

`ledger` is `CapLedger` (`db/types.ts` 113), `disk` its image in the snapshot, `now` the clock, `open`
the dispatches being served. One action per import; `Pruned` is what `capPrune` leaves and every
operation starts from it. A reservation with an idempotency key has an id from the upper half of the
word (`reservationIdFromIdem`), which confirm and cancel receive as a signed bigint: `AsSigned`. The
word is `2*Half`. `Finish` writes the snapshot and then answers; `Trap` writes it and answers 500;
`Crash` loads it. Histories: `pledged` (told to open dispatches), `acked` (told to clients), `peak`
(the highest ceiling). A hold that was told of carries its time, so that `HoldsStand` can follow it. The refinement maps the ceiling to `peak`, because the code lets the ceiling
drop under what is sold, and the sales to the ones that were answered.

### Materializer

`rows` and `view` hold a version per key; a view entry is stale when its version is not its row's.
A request may be suspended between any two imports, so several frames are in `req` at a time.
`Capture` bounds the keys of a frame (`MAX_CHANGE_KEYS` in the code, `MaxKeys` here) and turns to a full
rescan beyond; `RunAffected` runs the derives of what was written and of what was left pending, each
of which may fail after any part of its publications. `Persist` writes the snapshot or fails, as `persist` does without telling anybody (`database.ts` 539-549); `saved` is what
had been answered at the last one that was written, `unwritten` how many failed so far. `Load`, `Reload`, `Unload` follow the file of
the artifact; `Rebuild` is the run on first dispatch after a load. `lost` is a history of entries the
code forgets: `Enqueue` (no `recordWrite`), a trap after a write, a rebuild at load that failed.
Constants `Trapping`, `LoadMayFail`, `Enqueuing` turn these on.

### EventFold

`db` holds the log, the ids appended so far, a cursor and a view per derive, the continuation queue
with its generation counter; `disk` is the snapshot, `saved` and `unwritten` as in `Materializer`. `waits` says that the daemon failed to start and
waits for a new artifact (`daemon/index.ts` 214, 340-346). `thread` is what the JavaScript thread executes:
a tick of the daemon, its start, a cold round, or a hot run of a derive. A fold reads a batch with
`Since` (the cursor is only staged), publishes, may `Continue`, and returns; `Committed` then moves
the cursor, in a step of its own, and `Acknowledged` takes the continuation off the queue only if its
generation is the one seen when the round began. `Redacted` blanks an event and resets the cursors.
Abstractions: a view is the set of positions folded into it, which fits folds that are idempotent, as
`docs/background/derive.md` requires; the hot artifact may run a derive at any idle moment
(`Materializer` says when); logical clocks and references of positions are left out. `GuestDone` is the
guest pattern of the documentation: a fold publishes what it read before it returns.

### AtomicBatch

`store` holds the `rows` of one partition and `decided`, the batch each token was decided by (the code keeps its
digest under a key of the same store); `disk` is the snapshot. The guest is the pattern of `docs/database/atomic.md`,
and external: read, build a batch that expects what was read, commit. To give a batch a meaning that can be checked,
every token moves one unit between two records; 0 is the absent record, so that creation, replacement and
conditional deletion all occur. `Look` is `atomic_get`, `Commit` is `atomic_batch` with its three verdicts: the
decision of the token first, then all expectations, then all writes. `Rebuild` sends a batch built from fresh reads,
`Resend` the one that was sent before. A conflict is thrown by the guest's `commit`, so the request ends in a 500 (`Abort`).
What a batch does to the views is `Batch` of `Materializer`.

### WorkerPool

Each slot has a `proc`ess, its `life` (which process of the slot), a `pipe` to the primary, what the
primary believes (`ready`, `counts`), and the calls: `sent`, `waiting` in the process, `work` in the primary,
`replies` under way. Every process numbers its requests from one, as in the code (`Number`), so a number is given again by the next process of the
slot. A history goes with each number, `of`: the request it was given to. The primary copies the number into its reply and sends it to
the process it got the request from, not to the slot; the process resolves whatever waits under that number (`Reply`). What a dead process sent is read before its exit event is
handled, or dropped by it. The SIGTERM that follows the hard time-out of 1.5 s ends the process.

### RecordStore

`mem` is the maps of `DevDatabase`, `disk` the snapshot, `answers` in them `recordIdem`. One action per import that changes
something; `Execute` is the path of a request that is new under its key, `Replay` of one that was seen. A value is opaque but
for its mark, the content of its `@unique` field. Reads without effect are left out, and so are imports refused for kind or size.
Histories: `told` and `kept` (answers with a key, to open dispatches and to clients), `took` and `taken` (the writes that
`getDelete` and `compareDelete` gave away). `enqueue` is as the code has it: it looks at no unique value, and marks the row `forced`.

### DocumentScan

One walk over a collection by `documents_scan`, `membership_page` or a log by `events_entries`, page after page from its cursor,
while `Items` come and go. The bucket, hash and probe arithmetic of `db/document-scan.ts` is kept with small numbers: two items under one hash,
two hashes in a bucket, an empty bucket, an item that fits in no page. `WalkExact` compares the walk with what was there throughout.

### SessionEpochs, Registration, SignIn

Requests of the auth controllers run alone in their wasm instance and meet at the database: one action is one call and
the local work up to the next, and a request may die between any two. `SessionEpochs` has the claims of the generations, the head that
lags behind, the bounded probes of `read`, the fences and the erasure of a deleted account's history. `Registration`
has the three rows that registration writes and rollbacks, deletions and the next registration take away. `SignIn` has the handlers
of one account with their challenges, codes, tokens and cookies; what a read or an advance of the generations takes there is one step, which `SessionEpochs` refines.
A person who registers a name again uses the same password, so a name stands for an identity. Expiry, Google, the confirmation of an address and all cryptography are left out.

### PageData

`cache` is the map of `loader.ts`: its keys, each with the entry it has now and its place in the order of insertion, which a new entry under an old key keeps. `fetches` are
all entries ever made, with their policy and flags; `epoch` counts navigations; fetches settle in any order. An action
writes, invalidates and revalidates. One page is one entry; layouts and slots are read alike. Histories say which write a fetch can have seen (`owed`, `shown`) and in which navigations an entry was shown (`used`).

### Channel

A `turn` is a run of the effect of `useChannel`, from its options to its cleanup. `sockets` belong to turns; what happens to a socket becomes an event that the page handles later, in the order of that
socket (`events`), while other sockets, the timer (`reconnects`) and the component's own changes go on. `connected` is what the component shows. Payloads and the delay's length are left out.

### RouteTable

A pattern is a sequence of segments, each of a kind and a name. The first state picks the routes of an application, a step picks a path; both resolutions are operators over them: the client's match in the order of
its scores, with ties either way, and the server's exact document or its walk over the directories the build bakes, with its way back from a wrong turn. `RoutesAgree` compares both with the most specific pattern, segment by segment,
where there is one, and says for which patterns the server can be held to it (`Reachable`, see section 4).

### ResponseCache, GoogleKeys, Caches

An answer remembers whose request made it, what its directive allows and when it was asked for (`since`); the guest takes time between the lookup and the store, so answers overtake one another. `reply` is what a
visitor was told last: own or of another's request, and how old. Google publishes and withdraws kids at any time (`published`, `gone`); one fetch serves all that wait, and a token with an unknown kid fetches again after the cool-down.

### Streams

The box of one connection with both its rings, the session of `ws.ts`, the socket in both directions and the client's channel. A hook of the guest may read any frames, stage
any that fit, accept, refuse or trap. Sizes of frames are small numbers against `RingSize` and `MaxFrame`.

### CompilerLock, CompilerBuild

Calls of several processes queue in their process and meet at the lock file; each access to the file system is a step, after any of which a process may die and its number
be given out again. `CompilerBuild` says what the holder does: reuse or compile each tier from the sources it reads, check all of them again, publish, write
the manifests; then publish the client and prune the one before, or watch and rebuild. Editors change sources at any step. Contents stand for hashes.

### BlobDisk, BlobStore

Every `await` of `disk.ts` is a step. Files go by the name of the upload that made them; `line` is the chain of promises of a key, `manifests` the renamed JSON files. Crashes, interrupted transfers
and failures of the file system happen between steps. The refinement maps a manifest to the object of its key, an upload takes place when its manifest is renamed.

### RateLimit, MailCaps

The arithmetic of the four strategies, and of dedup, budgets and recipient caps, over a clock that moves by ticks. The history of what was admitted, and of the mails that were sent, is compared with what is promised over every stretch of time, from any request to any other.

### DaemonTimers

`timers` says when the timer of each task is due; `Armed` is `armCron` and `setInterval` with the range of a timer, `Fire` the callback with the tick it runs (which takes time from everybody: one thread). A cron expression is the set of minutes it matches.

## 3. Runs

| Run | Instance | What it shows |
|---|---|---|
| `capacity_sales` | two dispatches, one keyed and two fresh ids, amounts 1 and 2, ceilings up to 2 and a negative one | the properties of `Capacity`, the refinement among them |
| `capacity_miss` | one dispatch, one keyed id | violation: confirm and cancel miss a live keyed hold |
| `materializer_shared` | two requests, two keys, one derive, a frame of one key, two faults | no refresh is lost but in the recorded ways; answered writes are on disk with their view, but for those since a snapshot failed |
| `materializer_live` | one request, two keys | every entry gets fresh when nothing fails for ever |
| `eventfold_log` | one request, two events, two faults, a failed snapshot being one | nothing skipped, answers hold |
| `eventfold_live` | two derives of which the second fails for ever, one event, two faults, continuations | the durable queue is what is owed; every derive that has none failing for ever before it folds every event |
| `atomicbatch_moves` | two requests, two tokens that race for a record, three records, two faults | a token's batch is applied once and whole; answers stand; retrying clients finish |
| `workerpool_close` | two slots, one request and one client per process, one death | replies, counts, and a close that ends and leaves no process behind |
| `backend` | nine parts, see the bounds: records with and without a unique field, unique values and counters, scans, generations, registration, signing in, cached responses, Google's keys | answers, unique values, consumption, scans, sessions, accounts, codes, factors, links, caches |
| `accounts_replacement` | four requests | violation: a deletion by session deletes the account that replaced the one it verified |
| `timers_once` | one cron whose next minute is further than a timer reaches | violation: it ticks twice in one minute |
| `parts` | eleven parts, see the bounds: pages, a channel, a stream, routes, blobs, limits, mail, timers, the lock, the tiers, the client | page data, one socket, conversations, equal routes, builds, blobs, limits, timers |

**Bounds.** Two dispatches or requests are enough for every race between one that is suspended and one
that runs through. Two keys and a frame of one make overflow, partial failure and retry all happen. Two
faults allow a crash after a trap, or two crashes. One event and two derives make a round that stops
half-way; two events make a batch that leaves something. A snapshot that cannot be written (`Materializer`, `EventFold`) counts as a fault; in `capacity_sales`, `atomicbatch_moves` and `backend` snapshots are written (`DiskMayFail = FALSE`), for without that an answer is lost in a crash. One token may be rebuilt after it was decided because its source holds two units. One death and a respawn give two processes
that use the same numbers; a process has one request at a time in the run, any number in the proof. Capacity ids are in a 4-bit word, so the sign of the upper half is seen.
The clock of `Capacity` takes one step, which is a whole time-to-live.
*Backend*: two rows of a collection with a unique field and one of a collection without, one idempotency key, three writes (one is made,
one replaces or removes it, one comes after); five items, pages of two, two changes; three requests on the generations, with a scan of two probes, so that the head falls behind the scan's reach, and two tries; four
registrations, so that a deletion, a rollback and two registrations of a name meet; three handlers, two steps of the authenticator, two
lives of the account and two attempts at a code. *Parts*: two pages and a cache of one entry, so that a prefetch evicts; three fetches, two navigations and one write; an edit of a source the watcher looks at and of one it does not; a ring of three, frames of one that pass and of two
that do not, two sent and three staged; five calls in three processes, one death, one failing write, two edits or one and a change by hand, two tiers that share a source, two releases of the client of which one has a document
more; three calls on one blob, two uploads at a time, one fault; limits of one to three within windows of one or two seconds of two ticks; mails to two recipients over two minutes and a day of two minutes; minutes of three units and timers of at most seven, ticks that take four.
One cached response, a signed-in visitor and one who is not, two requests at a time, lifetimes shorter and longer than the cap, three moments; two kids, answers that live one unit and that ask for more than the cap of two, a cool-down of two.
Three turns of the options and three sockets, so that a socket of each of two earlier turns still has news; sixteen patterns of up to three segments, of which up to three make a table, and nine paths.
Counters (`Max...`) are guards of the actions that count. Symmetry is used where no liveness is checked.

**Deadlock** is checked except where the system stops or a bound ends it: `WorkerPool` when it is closed, `MCBackend`, `MCParts`, `MCDaemonTimers` and `SessionEpochs` when every request, call or moment of the instance is used up.

`TypeOK` of `Capacity`, `Materializer` and `AtomicBatch` is proved, and in no run.

**Fairness.** `Materializer`: the artifact loads when it is there, clients keep sending requests, and a
request that began ends. `EventFold`: a daemon that is down starts again unless it failed to start, for then `refresh` returns until the artifact is
built anew (`daemon/index.ts` 214), which nobody has to do: `Start` is fair only while `~waits`, and `EachFolds` excepts `waits`. Due timers are not put off for
ever (strong fairness of `Start`, `Retry`, `TickEnd`, since other callbacks come between), and guest code, which runs
to its end before anything else, makes progress (weak fairness of its steps). `AtomicBatch`: a client asks again until its
move is done, and now and then lets the guest read afresh (strong fairness per token, since requests of the other token come
between); a request that began goes on to its end. `WorkerPool`: a process that was told to
stop does (or is killed by the hard time-out), and the primary handles its events. Nothing is assumed of traps,
crashes, deaths or redactions.

## 4. What the documentation says and the code does not

Three violation runs show a disagreement each. The others that were met are listed here, with the place where a model allows for them.

*Database.* A ceiling lowered under live holds does not stop them from being confirmed (`database.ts` 1857, against "At no point can the confirmed count exceed the total", `docs/database/capacity.md`:228). The cap on
reservations of a key counts sales too (`database.ts` 1915, `docs/database/capacity.md`:335). A failed write of the snapshot is swallowed
(`database.ts` 547) and the answer goes out all the same: after a crash an answered sale, write, event or consumption is gone, a continuation that was asked for is not queued ("persisted before the call returns", `docs/background/derive.md`:273), and ids are handed out again (`DiskMayFail`, `unwritten`). `enqueue` records no write, so views are left behind (`docs/background/derive.md`:128), and looks at no unique value (1718-1748; `forced` in `RecordStore`).
A claim repeated by its owner under another idempotency key is refused (1100).

*Derives and the daemon.* A request that traps after a write leaves its views behind (`module.ts` 312,
`docs/background/derive.md`:170), and so does a derive that fails in the rebuild at load, whose flag is cleared before (`module.ts` 571, `docs/background/derive.md`:130); both are in `lost`. The first derive that fails ends the
round, so the ones behind it wait for as long as it fails, for ever if it does (`daemon/index.ts` 547-559, "each runs independently", `docs/background/derive.md`:121); `EachFolds` speaks of those before it. A `daemon_start` that fails is not tried again until the artifact changes (214, 340-346). A job reads the log from the cursor of the derive that ran last (`daemon/index.ts` 533, `docs/database/events.md`:264).
Cron expressions are matched in local time (`cron.ts` 34-53, "UTC" in `docs/background/daemons.md`:63); a timer that fires late misses a minute it overran; a reload starts intervals anew.

*Processes.* A worker that died while it was being replaced is not replaced again (`production.ts` 653, the comment at 555).
A lock whose owner died before it wrote its record, or a reaper's file left behind, is never taken away: calls end with an error after 300 s (`compiler-lock.ts` 49). Edits between the first build of `dev` and its watcher are lost (`compiler/index.ts` 1188),
and a rebuild that waited for the lock in vain is not tried again; `NoEditForgotten` excepts it. The watcher looks at `.ts` files of the server directories and at e-mail templates only (803-823): an edit of another input that a tier reads (`toilconfig.json`, a `.ts` file shared with the client, a `.d.ts`) starts no rebuild, and its artifact stays stale until something else does; `NoEditForgotten` speaks of `Watched` files.

*Accounts.* A walk over the generations that is overtaken by their erasure may find an older one (`RevokedStaysOut` excepts it). A deletion that is slower than another one of the same account fences the generations after the name was registered again; whoever
goes on with that registration activates them without the factor policy, and a second factor confirmed meanwhile is gone (it takes five requests, three of them at once). Another way to lose one is longer: `eraseFactors` leaves a hole in the generations between its release and its claim, a slow request may claim it (`SessionEpochs.ts` 136-141), and what it makes there has a fence number that a later deletion of the account will have too, so that a change authorised on it passes the comparison of `changeFactor` (84) two incarnations later. No run is large enough for either;
the second came out of the proof, and TLC confirmed it by following a script of 22 requests. `FactorStands` excepts both (`granted.late`): a fence after its row was gone, and a claim below the last generation. A reset request that dies after making its token and before pointing to it leaves a token that is valid until it expires (`OneLink` excepts it).

*Browser and sockets.* A frame of the guest that is too long stays at the front of its ring and blocks what is behind it (`stream/index.ts` 295). The code of a close that comes before the page set its handler is lost (`client/stream/client.ts` 88). An abrupt loss of the connection fires the guest's `@close` hook (`stream/ws.ts` 73-77, `router.ts` 81-83), although `docs/realtime/streams.md`:65 and 124 say that it fires `@disconnect` and not `@close`; `disconnect` of `stream/manager.ts` has no caller in the development server. `ConversationKept` takes the code's `@close`.
A loader whose entry is evicted while a render waits for it fetches again (`loader.ts` 227). `useChannel` keeps `connected` from the socket before when its options change (`channel.ts` 126, the comment at 80; `OneSocket` excepts it).

*Routes.* The client's scores rank an optional catch-all `/docs/**slug` above the static `/docs`, although a static route wins by `docs/frontend/routing.md`:96. The server's walk sends no document of a pattern that ends in a static segment under brackets, and enters only
the bracket directory whose name comes first (`http/runtime.ts`, `resolveDynamicWalk`). An optional catch-all at the root never answers `/` on the server: `production.ts` 463 finds the root's `index.html` first, which exists (138), although `docs/frontend/routing.md`:35 and 44 have it match with no segment. The test of a catch-all route with its own rendering keeps the catch-all's name as a literal (`ssr.ts`, `patternToTest`; not modelled).

*Cache.* A dispatch that began earlier and ends later replaces a newer cached response, and a visitor who is signed in may be served one that was made for nobody (`http/cache.ts`, `http/runtime.ts`); `SharedRightly` bounds the age and says whose answers are shared, not with whom: an answer shared by `allowAuth` is served to visitors without cookie or authorization too (`lookupCache`, 111-126), although `docs/services/caching.md`:117 says never, and one of the private scope is stored and shared like any other (`applyCacheRule`, 181-190), although caching.md:48 and 87 keep it out of the shared cache. Only answers of status 200 to 299 are stored (180), and 115 has redirects and 404 cacheable.

*Limits and mail.* The sliding window rounds the weight of the window before down (`ratelimit.ts` 119), and a limiter keeps the rule it was first given. A mail refused by a budget makes the next equal one a duplicate although none was sent
(`email/index.ts` 52-60, `docs/services/email.md`:67-68), a mail refused for its recipient has spent the budget, and the sliding estimate lets more than "60 per rolling minute" (`docs/services/email.md`:92) through within some minutes.

*Blobs.* A download under a replacement may be told that there is no object (`disk.ts` 310), bodies orphaned by a crash are never collected, and a failure to remove an old body is swallowed (240). When an upload failed and its body cannot be removed either, the draft of its manifest stays as well (237); both are in `strays`.

## 5. Proofs

Eight modules are checked by TLAPS. Their theorems hold for all values of the constants that satisfy the module's assumption (`CapacityAssumption`, `BuildAssumptions`, ...): shapes
and signs of the parameters, and no bound on sizes. Every invariant below was checked by TLC on the instance of its run before it was proved.

*Capacity.* `NoOversell` alone is not inductive: the disk, the handles that clients hold and the sales that
were answered must agree with the ledger. `IInv` adds `Sound` of the ledger and of the disk (a reservation's
id is below the id counter or in the upper half; units do not exceed `peak`) and `HistoryOK` (what was told is still
in the ledger or, once answered, on disk). Each action preserves it, by cardinality lemmas about `Units`: adding
a reservation adds its amount, dropping one never adds. `Kept` says that what dispatches were told is so in memory and what clients were answered on disk too, `HoldsFirm` the same of holds: a fresh id names only what it was given for, and a keyed hold,
which no guest can cancel, stands until its time is over; `ImportRow` says once what an import may do to a reservation. Theorems `TypeCorrect` and `NeverOversold` hold whatever the disk does. `SalesPermanent`, `HandlesNotReused`, `GrantsStand` and
`Implements` assume that snapshots are written (`DiskMayFail = FALSE`), which the code does not check (`database.ts` 547): after a failed write and a crash an acknowledged sale or hold disappears and its id is handed out again.

*Materializer.* `IInv` is the shape, `FrameOK` of every request (a frame that did not overflow names every key
its request wrote), `StaleHasOwner`, and `Whole` (the snapshot is of one moment). Theorems `TypeCorrect`,
`NoRefreshLost`, `SnapshotsWhole`. Snapshots may fail here and in *EventFold*; what is said of the disk is of the last one that was written (`saved`), and so of everything while none has failed.

*EventFold.* A store, in memory or on disk, is `Sound`: each event is in the log once, and what is before a derive's cursor has been folded. `Running` relates the run in progress to the
store: what lies before its staged cursor is in the view or in its hands. `Owing` and `InRound` say who owes a run: a derive that asked is queued under the generation of its last request, and a round that
began before it carries an older one, so its acknowledgement does not remove the entry; both of memory and of what the last written snapshot held. `Answers` keeps what requests were told. Theorems `TypeCorrect`, `FoldsSkipNothing`, `OwedStaysQueued`, `AnswersStand`.

*AtomicBatch* (`DocumentProofs`). `ExactlyOnce` is an equation per record between what it holds and how many decided tokens fill and drain it.
It is preserved because every batch that is built or sent again moves one unit (`BuiltMoves`, from what requests read:
`Reads`; `sent` holds only such batches), and a batch is written whole, with its decision, when all its expectations
hold (`WrittenOK`, with `CountOne` for the cardinalities). `IInv` joins these for memory and disk. Theorems `TypeCorrect`,
`MovesExactlyOnce` and, if snapshots are written, `AnswersPermanent`, whose invariant `AInv` adds that what open
requests will answer stands in memory.

*WorkerPool.* `IInv` is made of `Pipes` (nothing is in a pipe before its process listens), `Lives` (a process is replaced only when it died by itself, before anyone was told to leave), `Leaving` (while the pool closes, who is alive was told to leave; when it is
closed nobody is), `Counts` (the last count in the pipe of a process, or else the one the primary knows, is what the process has), `NoneLost` (a request a process waits for is in its pipe, at work or answered) and `Numbers` (a number, wherever it is, stands for the request that was given it by the process it belongs to, though later processes of the slot give it again).
Slots and numbers that are used again make each of these needed for another. Theorems `TypeCorrect`, `RepliesFindTheirRequest`, `CountsSettle`, `ClosedIsEmpty`.

*Records* (`StoreProofs`). Each import of `RecordStore` is first shown to have one of a few effects on rows, answers and consumed values (`RowsStep`, `AnswersStep`), and the invariant is preserved by the effects: `UniqueHeld` in memory and on disk, `Consumed` (each row
was made by one write, and a write that somebody consumed is in no row and with nobody else) and `Promised`. `ContentsUnique` needs no assumption on the disk; `AnswersPermanent` and `ConsumedByOne` assume that snapshots are written, for a client whose answer is lost in a crash may consume again.

*Accounts* (`AccountProofs`, for `Registration` `DocumentProofs`). Of `Registration`, `LiveIsReachable` holds only with what every request in progress knows: `Placed` (an incarnation belongs to one name), `Buried` and `Doomed` (what is fenced or being deleted stays so until its row is gone), `Concluded` (what a request concluded
from its reads still holds when it acts) and `Holding` (a pending row keeps the address and the pointer it got). That other requests leave these alone is proved once, from the `Effects` every step obeys: rows only age, addresses and pointers of live rows stand, fences are for the doomed. Theorem `AccountsReachable`.
Of `SessionEpochs`, `RevokedStaysOut` needs to know of the claimed generations (`ClaimsOK`) that a record is under its own number, that a hole below a record is one which the fence of a deletion covers, and that from its fence on a deletion has records without a policy only, which no erasure
takes out. A record that a request holds was reached, and is still there if it is a deletion's (`Sound`); a scan goes on from the head it read, and where it ended short of the largest generation its request began after, it met such a hole, so a deletion covers what it read (`ScanHolds`). Claims, fences, erasures and
releases each keep `ClaimsOK`, and `Grows` is what no step takes back, so that the other requests keep what they know. `EpochInv` joins these; `LargestNumber` gives the largest claimed number from the well-foundedness of finite sets. Theorem `RevokedNeverReturns`. `Revisions` and `Incarnations` are as many as `MaxRequests` can use up;
the guards that keep the claims and rows within them are bounds, which TLC never reaches.
`FactorStands` needs `EpochInv` and, while no claim came late, `Standing` (`FactorInv`). `Shut` says that no policy is in force and that every change that was authorised read an older fence, so `changeFactor` refuses it; `Sealed` says of the account in addition that it does not live and that what is left of its policy is behind the head, where scans no longer look.
`HistoryStands`: nothing read is newer than the last generation, policies of earlier incarnations and gaps are behind the head, and there is nothing of the present incarnation below a gap, or a deletion, unless it is sealed. `RowStands`: a row that lives has its policy after every deletion, one that is gone or pending is sealed, and `PolicyStands` counts the changes it was told.
`RequestsStand` says what a request knows at each of its stages: its record is no newer than the last one (`Informed`), one that may enable a row has the gaps behind it (`Enabling`), and one that may fence, erase or remove does so to a row that is sealed (`Deleting`). A claim that is not late is on top, so it follows the record its request read and keeps the policy.
What the other steps leave alone is proved once (`Advances`). Theorem `PolicyNeverLost`.
Of `SignIn`, the shapes say what a request holds at each of its stages (`StagesFit`; `SignInTypes`), and the three properties need invariants of their own. `SessionsHold` says what a checked password is good for: a handler that may still mint a cookie compared a password of the account's
present key, or what it read is refused where the cookie is verified, because a reset, a change of the factor and a deletion each move the generation on before they are acknowledged (`SignInSessions`). `LinksHeld`: a token that was mailed is under the pointer of its incarnation, or in the hands of a request that is
replacing it, or stray; `CodesHold`: there is an owner of each enrollment, which is one life of the account, so codes of two secrets never meet, and a counter is behind the steps that were accepted (both in `SignInOnce`). `FactorsHold`: there is a history of the policies by generation whose revision only grows between two deletions, so
`changeFactor` by a handler that read an older policy is refused, and one that read the policy in force had a code of it accepted (`SignInFactors`). The owner and the history are existentially quantified; TLC checked them first with variables in their place.

*What is kept in memory* (`MemoryProofs`). `CacheInv`: what lies in the cache was eligible and expires in time. `KeysInv`: how long a withdrawn kid may still be among the keys, the ones under way, and how often Google was asked; both in `NothingKeptTooLong`, which says nothing of whom an answer is served to (section 4).
`ChannelInv`: of each socket what it may still tell, sockets before the last on their way out, and the last one's news against `connected` and the timer; `OneSocketAtATime`. `PageInv`: a key has one entry, no older than what the page is owed (`CacheSound`); and under `revalidate = 0` (`Once`) an entry is of one
navigation, what is no longer cached has settled in an earlier one, and a later entry of the page is of a later one; `PagesStayCurrent`.
`StreamInv`: the frames in a ring are the last of its log (`RingOK`), so `Passed`, which a reset does not change, says how far its reader is. What was heard and what was told agree with the logs up to there (`ReadFrom`, `GaveFrom`); what is in a queue before its end `Follows` the log from there on,
and if nothing ended the queue it is `Whole`; `ConversationsKept`. The frame at which a drain stops is a least element: `LeastNatural` gets it from the well-foundedness of finite sets, as induction is out of reach.
`TimersInv`: a tick fits the timer that its task has since (`TickFits`: for a cron it lies in a later minute, or the next minute is out of a timer's reach; for an interval a period later, while one artifact is loaded), and a minute of a cron that came since the start is `MinuteKept`, or the cron's timer is due before it and it is not over (`InTime`).
`TicksOnSchedule` has two hypotheses: no period is longer than a timer reaches, for `setInterval` takes a longer one for 1 ms (`docs/background/daemons.md`:36 allows seven days; the development server itself does not look), and no timer is a whole minute late while nothing else runs, for it would find its minute over.

`RateInv` and `MailInv` relate counts to the history of what passed. `BucketHolds`: what a bucket holds is at most its burst and its refill since any request, less what it let in from that request on. `TwoWindows` and `Budgeted`: the counts of a window and of the one before it bound what was let in since either began.
`TrailingHolds`: the events kept are the last that were let in, and the others have expired. `DedupHolds`: the bucket of a mail starts no earlier than the last equal one; `InBucket`: a recipient got in the hour before its bucket no more than its cap, and since then what the bucket counts. With rounding both ways (`RoundsUp`) they give `NoLimitExceeded`.

*Files* (`StoreProofs`). `BlobInv`: a file is `Owned` by the upload that made it until it is committed, removed or stray, a call in the locked part holds its key's lock (`Locked`), a manifest names a whole body (`Whole`), and what a call read of the manifest under the lock still is so (`AllSeen`);
it gives `NothingLeftBehind` and the refinement `DirectoryImplements`. `LockInv`: one call at most reaps, and what it is about to remove is the lock of a process that is gone (`Reaping`); `OneBuildAtATime`. `WatchInv` (`EditsRemembered`): an edit of a watched source that was not yet seen has an event, a timer, a queued rebuild or one that will read it.
`WholeInv` (`BuildsWhole`): before its last check a build may have read anything, after it everything it read and wrote is of the source it checked; a manifest tells what its artifact was compiled of; and what a release has published so far is in the site.

Only model-checked: all liveness (`Converges`, `EachFolds`, `EachMoves`, `CloseEnds`), which is out of the prover's reach, and `RoutesAgree` and `WalkExact`, which are about what recursive walks compute.

## 6. Plan

Done: the modules above and the proofs of section 5; every safety property of a run is proved but for the two that rest on recursion.

## 7. Not modelled

Formats (envelopes, codecs, catalogs), HTTP, SSR, images and the command line: input, output
and generated code with little state. Reads of the database that change nothing are left out. `NodeJS` timers, file times and process signals are modelled by what
they may do. Assumed: process numbers are of one machine; nobody changes artifacts by hand between a build's last check and its end; no timer fires early; clocks do not step.
