# Mattermost in TLA+: events, posts and jobs

This directory models the parts of Mattermost whose correctness depends on the order
in which things happen, checks them with TLC and proves parts of them with TLAPS:

* the *reliable websocket*, over which the server pushes every event to the browser:
  events are numbered, the server keeps the ones it wrote last, and a browser that lost
  its connection says which event it wants next and is served from there on, or is
  told to reload;
* the *posts* of a channel in the web application, which come as pages over REST, as
  events and as answers to the user's own posts, in any order;
* the *deduplication* of posts that a client sends twice;
* the *cluster mutex* of the plugin API and the scheduled jobs over it, the statuses of
  the *job server*, and the reports its batch workers make.

Paths below are relative to the repository's `src/`; `platform/` is
`server/channels/app/platform/`, `redux/` is
`webapp/channels/src/packages/mattermost-redux/src/`, `web/` is `webapp/channels/src/`.

## 1. Inventory of the system

| Component | State | Operations | What is hard | What makes it correct |
|---|---|---|---|---|
| **Dead queue** (`platform/web_conn.go`) | ring of 128 events, pointer, next sequence number | `addToDeadQueue`, `isInDeadQueue`, `hasMsgLoss`, `drainDeadQueue`, `clearDeadQueue` | roll-over, empty against full, numbers spent on events that do not encode | it answers like the log of all events written |
| **Web hub** (`platform/web_hub.go`) | index of connections by user, id and channel; one goroutine per hub | register, unregister, checkConn, directMsg, broadcast, invalidateUser, reaper, stop, recovery from a panic | channel operations that block or panic, hand-over of a stream, sessions that lapse under a connection, shutdown waiting for connections that wait for the hub | no send on a closed channel, no blocking send, index maps agree, `Stop` returns |
| **Connection** (`platform/web_conn.go`, `api4/websocket.go`, `platform/websocket_router.go`) | channel, dead queue, id, `Active`, reuse count; a handler goroutine that becomes the read pump, and a write pump | connect, authenticate, pump, drain, restart, tear down | two goroutines and the hub on one object without a lock; half-open sockets | one owner of a channel and dead queue; an inactive connection has no goroutine |
| **Browser client** (`webapp/platform/client/src/websocket.ts`) | socket, stream id, expected number, reconnect timer, ping interval | `initialize`, `close`, socket events, timers, online/offline | callbacks in any order; close events that come late | never idle, never two sockets, silence is noticed |
| **Event stream** (all of the above and the network) | | | failures anywhere, twice | no silent gap but for what the server leaves out on purpose, at most once, in order |
| **Posts of a channel** (`redux/reducers/entities/posts.ts`, `web/actions/views/channel.ts`, `web/components/post_view/post_list/post_list.tsx`, `web/actions/new_post.ts`, `web/actions/websocket_actions.jsx`) | blocks of neighbouring posts, the mark of the block that reaches the newest post, start of the last load, requests under way | load, page up, permalink, prefetch, synchronise, receive an event, close | replies and events overtake each other; events are lost with the connection | blocks sorted and disjoint, no hole but for lost events, the next synchronisation brings what was lost |
| **Creation of posts** (`redux/actions/posts.ts`, the same reducers) | pending and failed posts, `pendingPostIds` | write, retry, cancel; answer, event, failure, synchronisation | answer and event in any order or not at all | each post listed once, never beside its pending post, sent once at a time |
| **Debounced post events** (`web/actions/websocket_actions.jsx`) | timer, count, queue | receive, trigger | events that arrive while others are queued | order kept; what is given up is a whole run |
| **Deduplication of posts** (`server/channels/app/post.go`) | cache entry of a pending post id | `deduplicateCreatePost`, `CreatePost` | retries that race the first request, or come after its failure | one post per pending id |
| **Cluster mutex and scheduled jobs** (`server/public/pluginapi/cluster`) | a key that expires, `LastFinished` | lock, refresh, unlock, `Job.run` | expiry against refresh and unlock, crashes | one callback at a time, an interval apart, for ever |
| **Job server** (`server/channels/jobs`, `server/channels/app/job.go`) | the status of every job in the store | create, claim, cancel, watch, stop, end, set | claim against cancel on several nodes, updates that fail | a job has one worker; a cancelled job stops; an ended job stays ended |
| **Batch reports** (`server/channels/jobs/batch_report_worker.go`, `server/channels/app/report.go`) | files of rows, progress in the job's data | write a batch, compile, stop | a crash between the rows and the progress | a report that is sent has all rows |
| Reliable websocket across nodes (`platform/websocket_reliable.go`) | queues moved between nodes | `GetWSQueues`, cluster branch of `CheckWebConn` | queues taken out and then dropped | same promise as on one node |
| Presence (`platform/status.go`) | status per user, semaphore of the hub | online, away, offline | asynchronous offline against online | online while a connection is active |
| Remote clusters, shared channels | cursors per remote | invite, sync, receive | resumption after failure | nothing skipped |
| Caches (`localcachelayer`, `services/cache`) | read-through caches | get, invalidate | stale fill after invalidation | fresh after invalidation |
| Scheduled posts, uploads, email batching, busy state, configuration, summarization, the rest of redux, REST API and store | see `PROJECT.json` | | mostly data, or request and answer | - |

How they interact.  On the server the HTTP handler calls the hub through unbuffered
channels with a `select` on `h.stop` (`Register`, `CheckConn`, `Unregister`), the hub
feeds each connection's buffered `send` channel, the write pump empties it into the
socket, and the client's `onmessage` checks the numbers.  Failures travel back as
closed sockets, closed channels and unanswered pings.  The client's callbacks dispatch
what they receive to the reducers: posts as events (debounced), and after a
reconnection a synchronisation over REST.  A post of the user goes to the server
over REST, where it is deduplicated and saved, and comes back twice, as the answer and
as an event.  Nodes of a cluster agree on jobs through the status in the store and
through keys of the plugin key-value store, and by nothing else.

`PROJECT.json` lists the hazards of this code, each at its line, with the
properties that guard against it.

## 2. The modules

```
 the reliable websocket
   DeadQueue ──────┬─ DeadQueueLog ──────┐
   WebHub ─────────┼─ MCWebHub, WebHub_proofs
   StreamClient ───┼─ WebSocketClient ───┴─ EventStreamEnds_proofs
                   │    └─ implements StreamClient
                   └─ ReliableWebSocket ── MCReliableWebSocket, ReliableWebSocket_proofs
                        └─ implements EventStream
 posts
   PostsInChannel ─┬─ ChannelPosts ── MCChannelPosts, ChannelPosts_proofs
                   └─ PostCreation ─┬─ PostCreation_proofs
   PostEventDebounce ───────────────┤
   PostDeduplication ───────────────┘
        └─ implements IdempotentPost
   ListLemmas ── ChannelPosts_proofs, PostCreation_proofs
 jobs
   ClusterMutex ── ClusterJob ── ClusterJob_proofs
   JobServer ─┬─ JobServer_proofs
   BatchReport ┘
```

### The reliable websocket

**DeadQueue** holds the ring buffer's operations as pure operators, no state.  Loops
over slots become "the slot such that": `RolledOverLength` is the number of events
the loop of `drainDeadQueue` writes before it meets a smaller number.
**DeadQueueLog** lets a write pump use the buffer next to a history variable, the
log log of all events written, and states in terms of that log what every operator
has to answer.  Its specification is `LogSpec`, because its proofs stand beside those of
WebSocketClient.

**WebHub** is one hub and the goroutines of its connections.  The hub handles one
message at a time, so each case of its `select` is one action; a rendezvous on an
unbuffered channel is one action of both sides.  `phase` is how far the handler
goroutine is (`free`, `built` by `NewWebConn`, `registered`, `pumping`, `readDone`
after the read pump, `finished` after `HubUnregister`), `writer` how far the write
pump is.  A `send` channel is an object of its own, with its buffer `queue` and
membership in `closed`, because `CheckConn` hands it from one `WebConn` to the next.

| Action | Code |
|---|---|
| `ConnectFresh`, `ConnectReuse`, `ConnectNotFound` | `connectWebSocket` up to `NewWebConn`, with the hub's checkConn case |
| `HandlerRegister`, `HandlerRegisterFails`, `HandlerSkipsRegister` | `HubRegister` and the hub's register case |
| `Pump`, `ReadPumpEnds`, `Unregister` | `WebConn.Pump` |
| `AuthChallenge`, `AuthChallengeUnindexed`, `SendMessage` | `ServeWebSocket` and the directMsg case |
| `SessionLapses` | `IsBasicAuthenticated` of a connection whose session is gone or cannot be loaded |
| `WriterResumes` ... `WriterStops` | `writePump` |
| `Broadcast`, `Reap`, `InvalidateUserFails`, `Recover` | the other cases of `Hub.Start` and its recovery |
| `Stop`, `StopCase`, `CloseConn`, `ConnClosed`, `Stopped` | `Hub.Stop` and the stop case with `WebConn.Close` |

**StreamClient** is the browser as the protocol sees it: connection, stream id and
expected number.  **WebSocketClient** is the client in full, one action per callback;
that it implements StreamClient (property `ImplementsStreamClient`) justifies the use of
the small module in the composition.

**ReliableWebSocket** composes: every action conjoins the action of WebHub or
StreamClient with what it does to sequence numbers, the dead queue and the network,
so the hub in the composition is the hub that is checked and proved alone.
**EventStream** is the abstract promise.  Events arrive in the order produced, each at
most once, and no event is delivered while an earlier one is missing, unless that
one is excused.  The code leaves out four kinds of events without a trace in the numbers, or
with one nobody can fill, and a history variable collects each:

* `dropped`: produced during a hand-over;
* `unencodable`: not encodable (`platform/web_conn.go:578`);
* `skipped`: minor, and the write pump is slow (`platform/web_conn.go:885`);
* `unchecked`: a connection of the user has no session any more
  (`platform/web_conn.go:878`), or the channels of its user cannot be loaded
  (`platform/web_conn.go:985`).

What may be left out is part of the abstract specification: events of `MinorEvents` may be
skipped and no others.  The refinement is the identity on the history variables and
`handingOver <- HandingOver`.

### Posts

**PostsInChannel** is the reducer: one operator per action it handles, from the blocks
of a channel to the next blocks, with the merging of blocks that overlap.  It keeps no
state, and the two modules that do use it with different ideas of a pending post.
`Array.filter` and `Array.sort` (which is stable) are `Filter` and `Sort`, both by the ranks of
positions (`Enumerate`), and blocks are merged by a recursive function: the definitions a proof
can look into.

**ChannelPosts** is one channel in a browser whose user reads: REST requests that may
be answered late, fail and (in some scenarios) overtake each other, events, lost
connections, and the synchronisation.

| Action | Code |
|---|---|
| `OpenChannel` | `PostList.postsOnLoad`, which synchronises or loads |
| `Prefetch`, `DelayedPrefetch` | `DataPrefetch.prefetchPosts` and `prefetchChannelPosts` |
| `LoadMore`, `OpenPermalink` | `PostList.canLoadMorePosts` with `loadPosts`, and `loadPostsAround` |
| `Answer`, `ReceiveReply`, `Fail` | the answer of the server and the dispatch of `RECEIVED_POSTS_...` |
| `ReceiveThrows` | the same dispatch, where the reducer throws and nothing after it is done |
| `ReceiveEvent`, `HoldEvent`, `ApplyHeld`, `DropHeld` | `handleNewPostEvent` and `completePostReceive`, which first loads an unknown thread |
| `Disconnect`, `Reconnect` | the websocket's reducer, `reconnect` with `syncPostsInChannel` |
| `CreatePost`, `EditPost` | somebody else's post or edit, on the server |

Four history variables say what the properties depend on: `lost`, the posts whose events
did not reach the reducer; `unstamped`, that a block became the recent one without the time its
load started, or beside another recent one; `detached`, that a page which does not reach the
newest post lies wholly above the recent block; `truncated`, that a synchronisation had more
posts to bring than its limit (1000 in the code, `limit` of a scenario).

**PostCreation** is the same channel in a browser whose user writes: the pending post, its
request, and whatever comes back.

| Action | Code |
|---|---|
| `Write`, `Retry`, `Cancel` | `createPost`, the retry and delete of a failed post, with `isPostIdSending` |
| `Accept`, `Fail`, `Dismiss` | the server creates the post, fails, or a plugin dismisses it; the answer may be lost |
| `ReceiveCreated`, `ReceiveFailure`, `ReceiveDismissal` | the `then` and the `catch` of the request |
| `ReceiveEvent`, `Disconnect`, `Reconnect`, `AnswerSync`, `ReceiveSync` | as above |
| `OpenPermalink` | a page of posts beside the others |

**PostDeduplication** has the requests of one pending post id, each at a place of
`CreatePost`: `Get` and `Record` are the two calls of `deduplicateCreatePost`, `Save` to
`Succeed` the rest, `Undo` the deferred removal of the entry.  **IdempotentPost**
is what they promise together.  Its circumstances are called `Disturbances`, and its
specification is `ServerSpec`, because its proofs stand beside those of PostCreation.

**PostEventDebounce** is `debouncePostEvent`, one action per branch.  Its names differ from
those of PostCreation, for the sake of their common module of proofs.

### Jobs

**ClusterMutex** is `mutex.go`: `Lock`, `TryLock`, `RefreshLock` of the goroutine, `Unlock`
and the later `DeleteKey`; the key carries no owner, which the model keeps only as a
history variable.  **ClusterJob** extends it with the loop of `Job.run`: `Attempt`, `NotDue`,
`ReadFails`, `Start`, `Finish`, `SaveMetadata`.

**JobServer** is the status of jobs under claims (`ClaimJob`), ends (`Succeed`,
`SetJobError`, `SetJobCanceled`), workers that stop (`Stop`) or reset their job
(`ResetJob`), and requests in two steps: `CancelJob` then `CancelPending` and
`CancelInProgress`, and `PatchStatus` or `ReplaceJob` then `SetStatus`.  Under the circumstance
`failure` any update may fail (`UpdateFails`, the second alternative of `ClaimJob`,
`RequestFails`): workers only log it.  `ProgressFails` is the error path of `setJobSuccess`,
which sets an error and goes on to set success; `ending` marks its worker in between.  The
history variable `abandoned` holds the jobs left by a crash or by such an update.

**BatchReport** is one job of a `BatchReportWorker`: `DoBatch` and its failures, `Complete`,
`StopReport`, `CrashReport`, `SetPending`.  Its names differ from those of JobServer, so that one
module can prove things about both.

### Circumstances

Posts and jobs go wrong in many ways that do not belong together.  Their modules take
the constant `Conditions` (`Scenarios` in ChannelPosts), a set of sets of circumstances,
of which each behaviour has one from its beginning, kept in `may`.  What is named there
*may* happen and need not.  A property that does not hold under some circumstance says
so in its premise, and section 5 says what happens in the code then; no circumstance is
left out of a run because a property fails under it.

Operators named `Bug...` are seeded bugs; they are part of no specification and
document which mistake each property catches (`PROJECT.json`, "mutants").

### Abstractions

The reliable websocket:

* `ShouldSendEvent` decides by session, membership and permissions.  The model keeps what
  depends on the state of the connection (nothing without a session, no minor events behind a
  slow writer) and the checks that fail for a store error (the set `F` of `Broadcast`).
  Who else is filtered, a user who has not completed MFA included, is the choice of the targets:
  a client is not promised what it may not see.
* Sessions lapse at any time (`SessionLapses`), and the browser, which then has no
  way to know, does not challenge again.  In WebHub any client may: the model ends at the
  second challenge of a connection that was authenticated once (`rechallenged`), and the
  properties of the hub say nothing after it (section 5).
* `EnableWebHubChannelIteration` is off, except that its failures (of `Add` and of
  `InvalidateCMCacheForUser`) are possible.  One hub: users are hashed to hubs that
  share nothing.
* `connectWebSocket` from the upgrade to `NewWebConn` is one action: nothing but its
  checkConn request is visible to others.  The buffer of `h.broadcast` is linearised
  at the moment the hub takes an event.
* The write pump's start (draining included) is one action in `ReliableWebSocket`:
  only that goroutine touches `Sequence` and the dead queue then; a drain may stop
  after any number of its writes.
* The dead queue is kept per channel, because the two are always handed over together.
* `reuseCount` and `connectFailCount` are only compared with zero and are capped at 1.
* An object is collected (`Collect`) once nothing refers to it.  In the composition
  this also forgets the stale id of section 5, which nothing there reads.
* In the composition the client's pings are the predicate `Unanswered`: the ping
  interval can only give up a connection the server does not answer on.  A
  `CLOSING` socket delivers nothing, as the browser does not.
* A panic of the hub is taken between two cases.
* Presence, metrics, logging, plugin hooks and the text of messages are left out.

Posts:

* One channel and one thread.  The id of a post is its `create_at`, and the clocks of
  browser and server agree; time passes when something is posted, edited or lost.
* In PostCreation a synchronisation brings every post there is; which posts it asks
  for, and its limit, are the subject of ChannelPosts.  A retried post keeps its `create_at`,
  which only decides its place within a block.
* Which posts a synchronisation leaves out at its limit is open: the query takes 1000 rows
  before it orders them (`post_store.go:1382`).
* `getPostsUnread` is one request, as it is unless the user prefers to start from the newest
  post (`redux/actions/posts.ts:735`).
* Files, reactions, slash commands, collapsed threads and the posts' contents are
  left out.
* Post ids in PostDeduplication are the requests that saved them; the ends of hooks
  and of the database are choices between success and failure.

Jobs:

* Time passes in ticks and is the same for all instances.
* The waits between attempts to lock are left out: an instance tries at any time.
* A job's data and progress are left out of JobServer, and so are polls that find
  nothing but `ProgressFails`; the two conditional updates of `SetJobError` are one step.
* In BatchReport the rows of a batch are one number and do not change meanwhile; the
  job has one worker at a time, as JobServer shows.

## 3. The runs

| Run | Bounds | Distinct states | Question |
|---|---|---|---|
| `dead_queue` | 3 slots, 9 numbers | 1 023 | does the ring answer like the log, through two roll-overs, clears and spent numbers? |
| `hub` | 2 connections, 1 user, 3 ids, 2 channels of capacity 2, slow from 1, one lapsed session at a time | 1.9 million | the hub's safety invariants under every interleaving |
| `hub_liveness` | capacity 1, no symmetry, reduced data (`LiveNext`) | 0.53 million | does `Stop` return, is an evicted connection torn down? |
| `stream` | 4 events and faults together, of these 2 faults at most, 2 minor events; 2 slots | 0.55 million | does the whole implement `EventStream`, also when a second failure hits the recovery from the first? |
| `stream_liveness` | 2 events, 1 of them minor, 1 fault, 2 slots, 2 ids | 0.3 million | does the client come to know every event once failures end, if it still has a session? |
| `hand_over_loss` | 2 events, 1 fault | violated | the finding of section 5 |
| `client` | 3 sockets, 2 ids, 2 numbers, 3 faults | 0.3 million | no idle client, no forgotten or unwatched socket, implements StreamClient, notices silence, ends up connected |
| `channel_posts` | 8 scenarios of up to 5 instants, pages of 1, 1 or 2 requests | 2.9 million | are the blocks of a channel sorted, disjoint and whole, is one its end, and does a synchronisation reach what is lost? |
| `post_creation` | 2 own posts, 5 instants, 1 lost connection, 3 blocks | 91 584 | is each post listed once, without its pending post, and in the end? |
| `post_dedup` | 4 requests, undisturbed and with every disturbance | 55 624 | is the entry true once nobody is at it; do the requests implement `IdempotentPost`? |
| `cluster_job` | 3 instances, key of 2 ticks, interval of 2, 2 crashes | 0.16 million | one callback at a time, an interval apart, again and again; the key expires |
| `job_server` | 2 jobs, 2 nodes, 2 requests, 6 sets of circumstances | 73 289 | one node per job, no job left behind unless a worker crashed or could not say so, ends final, cancellations heard |

Why the bounds are enough for the cases that matter.

*Websocket.*  Two connections are a hand-over, and because objects are collected and used again,
chains of hand-overs of any length are explored.  Three ids are the old stream, the new one, and
one still held by the index or by a request.  A channel of capacity 2 fills up with the writer
both idle and busy, and with "slow" below "full".  Three slots roll over twice in `dead_queue`;
two slots make a number fall out of the buffer with three events and the hello.  The CONSTRAINT
`WithinBounds` of `MCReliableWebSocket` trades events for failures: four events, three beside
one failure, two beside two.  A fault is a failure that nothing provokes: a broken network, a
read or write error on a healthy connection, a store error, a panic, an event that does not
encode, a lapsed session, a check that fails.  What follows from a failure (the other end noticing, a write to a dead socket, a
reconnect) is free.  In the client module a fault is a failure of a socket or a network event of
the browser; three sockets are one closing, one in use and one that is being opened.  `OneLapse` of `MCWebHub` lets one session lapse
at a time and none beside a stopping hub: what a lapse changes is what its own connection gets.

*Posts.*  Each scenario of `channel_posts` has the posts its disturbance needs: a channel of
five posts in pages of one has blocks at both ends, a hole between them, and a page that closes
it; two requests are what can overtake; an empty channel at which five things happen is what it
takes for a page to meet an empty recent block (`ReceiveThrows`); a limit of one post cuts a
synchronisation short as soon as two were lost.  The other scenarios keep the limit of 1000,
which they do not reach.  Every premise is needed: without one of the four parts of
`Undisturbed`, or without `~ truncated`, TLC finds the property violated.  The theorems hold without
bounds; the run shows that they are not vacuous and what breaks them.  Two own posts with one of
somebody else's between them are what can be listed out of order.  Two requests race; four add a
retry that comes after both and one that is rejected.

*Jobs.*  Two instances contend and a third takes over when two have crashed.  The key
lives for two refresh intervals, as in `mutex.go`.  Two jobs are what `SaveOnce` keeps apart, two
requests what can be under way beside each other.

`CHECK_DEADLOCK FALSE` stands where behaviours really end: the hub stops, the bounds on
events, numbers and posts are used up, every request is answered, all instances have
crashed, all jobs have ended.  `client` checks deadlock.

`MaxEvents`, `MaxFaults`, `MaxSequence`, `MaxClock`, `MaxWrites`, `MaxLosses`, `MaxNumber`,
`MaxBlocks`, `MaxCrashes`, `MaxStops` and the `end` and `room` of a scenario are bounds; they appear
only as guards of the actions that produce what they bound, and in `WithinBounds`.  The CONSTRAINTs
`WithinBounds` and `OneLapse` are the others.

### Fairness

Weak fairness throughout, on steps the program takes when it can:

* goroutines that are runnable run: the handler's steps, the write pump emptying its
  channel or noticing `endWritePump`, the hub's cases (Go's `select` is random
  among ready cases, and a ready case stays ready until taken);
* the read pump of a closed or dead connection ends: the read deadline of
  `pongWaitTime`;
* the reaper's ticker fires;
* in the browser, timers fire, a socket told to close closes, and while the number of
  failures is bounded an opening socket opens and an answered ping is answered;
* in PostCreation, a request ends, one way or another, the connection comes back and
  delivers what it holds, and a synchronisation is answered;
* in ClusterJob, time passes, callbacks return, and an instance that is up goes on: it
  tries to lock, refreshes, writes what it has to write;
* in JobServer, the `CancellationWatcher` polls and its worker listens.

Nothing is assumed about users, applications, new events, failures, restarts of crashed
instances, or the end of a job's own work.

## 4. What is proved

Eight modules of theorems are checked by TLAPS, for every value of the constants that satisfies
the named assumptions of the modules.  One of them, `ListLemmas`, knows nothing of the system.

*Hub* (`WebHub_proofs`, from `HubAssumption`: a capacity of at least one, distinct null
values).  Its properties hold until a connection whose session
has lapsed is challenged again, where the model ends; the premise `~ rechallenged` runs through
all of them.  The invariant is built in layers, each inductive given those before it:

1. `Typed`: types, `IndexesAgree`, `Complete` (a connection in use has an id and a
   channel) and `Registered` (an indexed connection has been registered for a user).
2. `Owned`: `SoleOwner` with `InactiveMeansFinished`: the hand-over gives the channel
   away, so the old connection must have no goroutine left when it leaves the index.
3. `SendersOpen`: no connection that may still send to a channel finds it closed.
   Because a channel has one owner, closing it removes the only connection it
   belongs to.
4. `Fits`: the hub neither waits nor panics in its hello (`GreetingFindsRoom`).  It greets
   without checking; the channel of a connection that waits for its greeting is open
   (`SendersOpen`) and empty (`PendingEmpty`), although responses, events and evictions fill
   and close it as soon as the connection is indexed.
5. `Identified`: ids are unique among the connections in use, and where `byConnectionId`
   has an entry for the id of one of them it is that connection.  That is what
   survives a changed id (section 5): stale entries are for ids nobody has.

*Dead queue* (`EventStreamEnds_proofs`, from `DeadQueueSizeAssumption`, at least two slots:
with one slot the loop of `drainDeadQueue` would not end; and `NilAssumption`).  `LogInv` says
where each event of the log sits (`RingMatchesLog`) and that numbers in the log grow.
From it follow by arithmetic modulo the size of the buffer that the search finds exactly
the kept events, that no reported loss means no loss, and that draining writes exactly
the rest of the log.

*Event stream* (`ReliableWebSocket_proofs`, from `ReliableWebSocketAssumption` and
`NilAssumption`; any number of connections, ids, channels, events and failures, any sizes of the
dead queue and the channels).  `Spec => []NoSilentGap`, and the whole implements
`EventStream`: the client gets events in order, each at most once, and never one while an earlier
one is missing, but for the four kinds of excused events (section 2).  The argument is one assignment of events to numbers:

* A *stream* is a function `at` from numbers to events.  `Stream` says that the numbers the
  client still lacks stand for newer events in the order produced (`Ordered`), that whatever is
  older than one of them comes before it or is known or excused (`GapFree`), and that the network
  carries the next of them, or only numbers the client will refuse (`Carries`).
* Every owner of a channel, and there is one per channel (`WebHub_proofs`), has such a stream
  (`Served`): its dead queue holds the last records given out (`Ring`, `Recorded`), its channel
  the numbers to come (`Queued`); while it is live, these reach up to the last event produced
  that is not excused (`Covered`).  The numbers stay with the channel when a connection takes it over, and start
  again, with a hello, where `hasMsgLoss` finds that they have been overwritten.
* A write pump whose socket is dead may count on in vain, so the numbers it
  gives out past the ones explained are only ever refused (`t`, `m` in `NumbersView`).
* Types, the hub's invariants, the phases of the pumps, and what is known of the client and of
  its requests (`StreamTyped`, `HubOK`, `PumpsInOrder`, `ClientInOrder`, `RequestsInOrder`)
  complete the invariant `IInv`.

The proof has one lemma per action (`StreamsKeptBy...`), on two general ones for the owners
and streams a step leaves alone (`KeptOwner`, `KeptStream`) and on a small theory of numbered
messages that knows nothing of the system.  `IInv` quantifies over functions on all numbers,
so TLC cannot evaluate it; the run `stream` checks what follows from it.  The refinement
needs one invariant more: an event in a channel has been produced (`EventsQueued`).

*Deduplication* (also in `PostCreation_proofs`, any number of requests).  An answer that is a
post was saved, whatever is disturbed.  Undisturbed, one request at most is at work, and the
entry says how far it is and what was saved (`EntryTellsWho`).  From this invariant follow one
post at most, the truth of an idle entry, and that every step is a step of `IdempotentPost` or a
stutter.

*Creation of posts* (`PostCreation_proofs`, any number of posts, blocks, lost connections and
any set of circumstances, from `ConditionsAssumption` and `ConstantsAssumption`: null values are
not times, sets of times or lists of blocks).  Proved are the types, `EachPostOnce`,
`PendingOrCreated` and `SentOnceAtATime`.  A first part is about the reducer alone: what
`Enumerate`, `Filter` and `Sort` return, in particular that sorting lists nothing more often
than before; that merging overlapping blocks keeps them lists of the same posts without
repetitions, by the smallest number of blocks for which it would not; and what every action of
the reducer does to the lists (`TakesPlace`, `Leaves`).  The inductive invariant `Inv` has four
parts:

* `Types`, with the fact that an answer is only on its way for a post that was created, and that
  the times posts were written at are never the ids of stored posts;
* `Lists`: no block lists a post twice, but for the user's own where something is `Disturbed`;
* `Sending`: a post whose request is under way is in `pendingPostIds` or not marked as failed,
  so that it cannot be retried;
* `Calm`: while nothing but answers and events brings posts there is one block, and once a
  post of the user is listed or its answer was received, its pending post is not listed, and
  being no longer marked as failed cannot come back by a retry.  `PendingOrCreated` alone is not
  inductive: the event that comes after the answer would find the pending post in the list again.

*Posts of a channel* (`ChannelPosts_proofs`, any page size, any scenario, any number of posts,
requests, lost connections and syncs, from `ConstantsAssumption`).  Proved are the types (with
it that no block lists a post twice, which holds under every circumstance), `OrderedBlocks`,
`OneRecentNewest`, `HolesOnlyFromLostEvents` and `StampedSyncRepairs`.  `ListLemmas` says what
picking from a list, sorting it and joining two lists does to what they list and in which order;
the first parts of the module say so of the reducer: a merge joins exactly the runs of blocks
that touch, and the result falls from newest to oldest (`BlocksMerged`, by the ends that the
sorted blocks have); every received action preserves that, and which posts are between the ends
of a block but not in it (`Settled`); what the server picks for a request has no gaps
(`PagesServed`).  The invariant `Inv` is

* `Types`, always;
* while nothing is disturbed (`Undisturbed`): `Shape`, the blocks are sorted, disjoint, one of
  them at most is recent and newest, and what is missing inside them is lost or under way;
  `Upcoming`, events under way are newer than all that is loaded, come in order, and nothing
  after the first of them is missing elsewhere; `Quiet`, events and replies are not under way
  together; `Faithful`, a reply under way is still what the server would answer, and the posts
  that pages were asked before or after are still loaded;
* while also loads are stamped and made while connected (`Stamped`): `Repairable`, the blocks
  have no gaps but the recent one; what that lacks is newer than the stamp and than the start of
  every synchronisation under way; and if the stamp is not older than the last lost connection,
  what it lacks is newer than all of it and under way as an event.

`Shape` is not inductive without `Upcoming` and `Faithful`: an event that is older than a page,
or a page that is older than what was loaded since, would be put in the wrong place, which is
what the circumstances `threads` and `overtaking` do.  The last part of `Repairable` is what
makes a synchronisation from the newest loaded post sufficient, and it fails as soon as a block
becomes recent with a time that is not its own.  The steps of `Inv` have a lemma each
(`InvCreatePost` to `InvReceiveReply`); replies are split by the kind of their request.

*Debounce* (also in `PostCreation_proofs`, any limits, under the hypothesis
`DebounceAssumption`).  What was handled, then the queue, is the sequence of events received
(`InOrder`); that needs that an event that is applied at once finds an empty queue: it is
empty unless the timer runs and the count is above the limit (`QueueIsBehindTimer`).  What
is given up is a run of consecutive events, a full queue and one more.

*Mutex and jobs* (`ClusterJob_proofs`, any number of instances and any times with
`TimesAssumption`).  While calls are in time and refreshes succeed
(`Reliable`), the key of a holder lives longer than its next refresh is away (`Kept`), hence
it is there and nobody else's (`HolderHasKey`), hence `MutualExclusion`.  Every step of a
job's loop is a step of the mutex or leaves it alone (`ImplementsMutex`), and a callback
runs only under the mutex, hence `RunsOnce`.  Holding the mutex over the loop also
makes the loop's copy of the metadata the one in the store, so that the callback starts an
interval after the last saved end, whoever ran then (`StartsApart`).

*Job server* (`JobServer_proofs`, any number of jobs, nodes and requests).  While nobody sets
a status directly, one node works on a job and a job somebody works on is in progress or
its cancellation is requested, unless its worker has set an error and is about to set success
(`ending`); the other unconditional updates that end a job are made by its worker and so never
meet one that has ended.  Hence one worker, ends for good but for that one, and, with
watching workers, which do not record a progress, a request that stands.  A job that waits for
its end has a worker (`WaitingIsWorked`): a node that leaves a job has ended it, has set it back
to pending, or has abandoned it by a crash or a failed update (`LeavesNothing`), whoever else
sets the status; hence `NoneLeftBehind`.

*Browser client* (also in `EventStreamEnds_proofs`, any number of sockets, ids, numbers and
failures, from `ConstantsAssumption`: null values are not in their sets).  The invariant is
about close events that come late: every socket but the client's own is closed, or closing
without a handler (`OthersAreSilent`), and the client's own has its handler and its close event
still to come (`HasItsHandler`); a client that is not trying any more has stopped listening to
the browser's network events (`TryingOrDeaf`).  With it every safety property of the run is
proved, and so is that every step is a step of StreamClient or a stutter, on which the
composition rests.

*Batch reports* (in `JobServer_proofs`, any number of batches and stops, under the hypotheses
`BatchesAssumption` and `DistinctAssumption`).  The files up to the saved count hold the
rows up to the saved place (`FilesKeepPace`), also when a crash makes the next worker
write some again; a report that is sent is therefore complete, where chunks are saved and
read.

The invariants `IndexesAgree`, `RingMatchesLog`, `AtMostOnePost`, `AnswersAreSaved`,
`MutualExclusion`, `HolderHasKey`, `EndedIsLeft` and the modules' types are proved and
not repeated in a run, and neither are PostEventDebounce and BatchReport, whose theorems
cover more than a run would.

Only model-checked: everything temporal beyond safety (`StopTerminates`, `EvictedIsTornDown`,
`EventuallyKnown`, `SilenceIsNoticed`, `EventuallyConnected`, `OwnPostsCome`, `JobRuns`,
`KeyExpires`, `CancellationHeard`), because liveness under fairness is out of the prover's
reach.  Every safety property of a passing run is also a theorem. No module has a RECURSIVE
operator.

## 5. Findings and observations

**Events are lost in a hand-over** (`hand_over_loss`).  `CheckConn` takes the
inactive connection out of the index; the connection that inherits its channel
enters it only at `Register`.  An event broadcast in between is queued nowhere
and takes no number, so `hasMsgLoss` sees none, against its comment
(`platform/web_conn.go:662-663`).  The web application reloads some of its state
whenever it reconnects, which hides part of this.  `EventStream` therefore excuses these
events.  They are not the only ones without a number: minor events behind a slow writer
(`platform/web_conn.go:885`), events whose user's channels cannot be loaded
(`platform/web_conn.go:985`) and events for a connection that has lost its session
(`platform/web_conn.go:878`) are left out as silently, and excused as well.  The other properties
show that beyond these and the events that do not encode nothing is lost without the client
noticing.

What else was seen while modelling.  These are behaviours of the code that the models have
and that the premises of the properties exempt; no run of this project is about one of
them.

On the websocket:

* When the session of a connection cannot be loaded, `IsBasicAuthenticated` clears its token
  (`platform/web_conn.go:789`) and leaves it connected.  The router takes another
  `authentication_challenge` on a connection without a token
  (`platform/websocket_router.go:40`) and registers it a second time, and the hub sends it a
  hello, which by the comment at `platform/web_hub.go:577` is for a restart, a long timeout or a
  fresh connection.  That hello is sent without a default (`platform/web_hub.go:581`) on a
  channel that is in use: it may be full, and the hub waits until the write pump, if there
  still is one, takes a message; or closed, and the hub panics.  A challenge for another user
  also leaves the connection in the index of the first (`platform/web_hub.go:836`).  The models
  and theorems of the hub end there (`rechallenged`); the browser client of this repository does
  not challenge twice on a socket.
* A connection whose session has lapsed, or could not be loaded once, stays open and
  answers the client's pings, but is sent nothing: the client sees no reason to reconnect.
  `EventuallyKnown` exempts it.
* The write pump may give a registered connection a new id (`platform/web_conn.go:536`);
  `Remove` deletes the index entry of the new id (`platform/web_hub.go:888`, `960`), and
  that of the old one keeps the dead connection reachable.  `DirectedEventsReachOwner` shows that
  no event goes astray through it.
* `close()` in the browser client while the socket is connecting or closing
  (`websocket.ts:553`) leaves the socket's handlers in place, so that the client may come
  back; `ClosedStaysClosed` states what holds.

On the posts of a channel (circumstances `overtaking`, `threads`, `permalink`, `offline`,
`cursor`, and the limit; the four before the last two came out of proofs that did not go
through, and no small instance had shown them):

* A page that reaches the newest post takes the mark of the recent block whatever that block
  holds (`redux/reducers/entities/posts.ts:629`): a reply overtaken by a later one gives it to
  the older posts.  So it does where nothing is overtaken, when the recent block lacks what was
  lost: the stamp of the new block then hides what the old one still lacked (`unstamped`).
* `loadPosts` (`web/actions/views/channel.ts:371`) reaches the newest post page by page
  without stamping the time; a later synchronisation then asks since the newest post it has, and
  a lost post older than that one is left out (`unstamped`).
* The list synchronises also when only a permalink page is loaded (`post_list.tsx:227`);
  the answer finds no recent block and is dropped (`posts.ts:719`).
* An event whose thread is not loaded waits for it (`web/actions/new_post.ts:58`), a later one
  is applied meanwhile, and the older post is put on top of the newer one.  After that no order
  can be relied on.
* An event that comes while no block is recent makes one of its single post (`posts.ts:503`),
  and the mark of the last load says nothing of it (`unstamped`).
* Where several posts were lost, a permalink page can lie wholly above the recent block without
  reaching the newest post.  Until a synchronisation the recent block is not the newest, and a
  later page at the end of the channel leaves two blocks that claim to be (`detached`).  It
  takes four lost posts and a permalink.
* A load that starts while the connection is down is stamped later than the connection was lost
  (`web/actions/views/channel.ts:251`): the next synchronisation then begins at the newest
  loaded post, and a post whose event was lost between the answer and the reconnection is left
  out once a newer one came as an event (`offline`).
* The comparison of blocks reads the first post of each (`posts.ts:897`), and
  `RECEIVED_POSTS_SINCE` the last of the recent block (`posts.ts:728`), but a recent block is
  kept when it is empty, as in a channel that had no posts when it was loaded: merging a page
  into such a channel, or synchronising it, throws.  Nothing is stamped then, and a prefetch
  stays `started`, so that the channel is not loaded when it is opened.
* A synchronisation brings 1000 posts at most (`post_store.go:1344`, `1386`) and does not say
  that there are more; the next one begins at the newest it brought, or at the time of this one,
  and what was left out stays out (`truncated`).
* When the id of the post after a page cannot be read, the page is answered without it
  (`server/channels/app/post.go:1338`), and the browser takes it for one that reaches the newest
  post: it becomes the recent block (`cursor`).

On the creation of posts (circumstances `disconnect`, `lost answer`, `permalink`, `others`):

* A synchronisation lists the created post beside its pending post, whose place the answer then
  gives to the created post a second time: `RECEIVED_POST` does not look whether the id is
  listed already (`posts.ts:592`).  A permalink page that holds the created post does the same,
  and so does a lost answer: the event brings the post, and the retry lists the pending post
  beside it.  `EachPostOnce` exempts the user's own posts in these circumstances, and
  `EachOnce` proves that nothing else is ever listed twice.
* The event takes the pending post out of the thread, then the answer is lost and the failed
  pending post is added to the thread again (`posts.ts:980`).
* The created post takes the place of its pending post, below an older post of somebody else
  (`posts.ts:592`).
* The event of a created post adds its `pending_post_id` to `pendingPostIds` after the
  answer took it out (`posts.ts:417`), and nothing takes it out again; `SentOnceAtATime`
  holds all the same.
* A permalink page that reaches the newest post takes the mark from the block that holds a
  pending post (`posts.ts:574`, `629`), which then lists an id without a post.

On deduplication (circumstances `race`, `late failure`): two requests that both read the cache
before either writes it both create the post (`server/channels/app/post.go:126`, whose comment says
"atomically"); a failure after the post was saved (`post.go:399`, `425`) removes the entry, and
the retry creates it again.

On the mutex (circumstances `failure`, `delay`): the refresh goroutine returns at the first error
and its holder is not told (`mutex.go:148`), so the key expires under a running callback;
a late `Unlock` deletes the key whoever holds it by then (`mutex.go:184`).

On jobs (circumstances `patch`, `replace`, `failure`, and workers without a watcher):

* `setJobSuccess` records the progress first; if that fails it sets an error and, without a
  return, success (`batch_worker.go:166`, `base_workers.go:95`), so that a job that has ended in
  error becomes a success.
* When `SetJobPending` fails in a worker that stops (`batch_worker.go:141`), or any other
  update by which a worker leaves its job, the job stays in progress without a worker, and
  `SaveOnce` creates no other of its type.  Nothing returns it to pending.
* A job in progress may be set to pending (`server/channels/app/job.go:129`) or canceled
  (`app/job.go:109`) while its worker goes on; a status is set after a check of an earlier one
  (`server/channels/api4/job.go:370`), also when the job has ended by then.
* A cancel request tries pending, then in progress, and is refused when the job goes back to
  pending in between (`server/channels/jobs/jobs.go:262`).
* A stopped batch worker sets its job to pending over a requested cancellation
  (`batch_worker.go:141`); `SaveOnce` does not count a job whose cancellation is requested
  (`job_store.go:102`), so two can be active afterwards.
* Cancelling a pending job decrements the gauge of active jobs that only a claim increments
  (`jobs.go:256`).

On batch reports (hypothesis that rows are saved): when a chunk cannot be saved `processChunk`
returns `err`, which is nil there, instead of `appErr` (`batch_report_worker.go:109`): the batch
is skipped, and a report without its rows is sent as a success.

## 6. What is left

In the order in which it would be worth doing:

1. *Replies*: `WebSocketResponse` messages in the event stream, the client's
   `responseSequence` and callbacks, and replies queued for an earlier connection.
2. *Presence*: online, away and offline, the asynchronous part of unregister with
   the hub's semaphore, an abstract "online while connected".
3. *Second challenges*: what follows when a connection is registered twice, possibly for
   another user: the hub that waits, the panic and its recovery.
4. *ClusterQueues*: `GetWSQueues` and the cluster branch of `CheckWebConn`, with
   the same abstract `EventStream` over two nodes.
5. *Channel iteration*: `byChannelID` and `InvalidateCMCacheForUser`.
6. *Once-only jobs*: `job_once.go` and its scheduler over ClusterMutex; the schedulers of
   the job server.

Not modelled and not planned: the REST API, the store and its SQL, permissions,
configuration, most of redux, summarization and the other request-and-answer features.
They keep no state that interleaves, or their correctness lies in data a small model does
not have.  They, and the components that display what the store holds, are by far the larger part of
the repository's lines; the share of lines these modules map is small for that reason.
