# dock-pulse: TLA+ models, checks and proofs

dock-pulse watches a Docker daemon, shows its containers in a browser and
restarts those that crash. This directory holds TLA+ models of what it does from
its configuration to its shutdown, above all of the parts that run concurrently, the TLC configurations that check them on small
instances, and proofs, checked by TLAPS, of what holds for every instance.

Paths such as `supervisor.go:102` are those of the repository. The models are
translated from the code; where they disagree with the documentation, a run
shows the disagreement (see *What the documentation says and the code does not
do*).

## 1. The system

### Components

| Component | State it keeps | Operations | Module |
| --- | --- | --- | --- |
| Restart budget, `supervisor/backoff.go` | per container: attempts, time of the last restart, exhausted, stopped by the user | `NextDelay`, `MarkIntentionalStop`, `ClearIntentionalStop`, `GetState` | `Backoff` |
| Supervisor, `supervisor/supervisor.go` | the cancel function of each scheduled restart | `HandleContainerExit`, its restart goroutines, `cancelPending` | `Supervisor`; `RestartBudget` (what it promises) |
| HTTP handlers, `httpapi/handlers.go` | none | start, stop, restart; reads | `Gateway`, `Supervisor` (the first three) |
| Registry, `registry/registry.go` | the allowed containers, a sequence number | `Resync`, `UpdateFromEvent`, `List`, `Get`, `IsAllowed` | `LiveView`, `EventFeed`, `Config` (patterns), `Gateway` (`Get`) |
| Event watcher, `events/watcher.go` | its position, its backoff | `Run` | `EventFeed` |
| Docker client, `dockerx/client.go` | the event stream's goroutine and channels | `List`, `Inspect`, `Events`, `Stats`, `Logs` | `EventFeed`, parts in the others |
| Hub, `hub/hub.go` | the clients and what logs they follow | `Register`, `Unregister`, `BroadcastState`, `BroadcastLog`, `SubscribeLogs`, `UnsubscribeLogs` | `LiveView`, `LogStream`; `Mirror` (what it promises) |
| WebSocket handler, `httpapi/ws.go` | one read loop and one write loop per connection | upgrade, snapshot, queue, log subscriptions, end | `LiveView`, `LogStream`, `Gateway` (upgrade) |
| Log ring, `logs/ring.go` | the last lines of a container | `Push`, `ReadTail`, `ReadSinceSeq` | `LogRing` |
| Log streamer, `logs/streamer.go` | per container: ring, subscriber count, cancel function | `Subscribe`, `Unsubscribe`, `streamLogs` | `LogStream` |
| Stats collector, `stats/collector.go` | per container: cancel function, history; the slots | `StartCollecting`, `StopCollecting`, `Close`, `runContainerStream` | `Collector`; `StreamSlots` (what it promises) |
| Browser store, `web/src/state/store.ts`, `main.ts` | the browser's containers, stats and logs | snapshot, update, removal | `LiveView` (containers) |
| Wiring, `cmd/dock-pulse/main.go` | how far `run` has come, the exit code | start, the callbacks between the parts, shutdown | `Gateway`; `Supervisor`, `LiveView`, `EventFeed`, `Collector` (callbacks) |
| Stats parsing, `stats/parse.go` | the totals of a stream's last message | `ParseRawStats` and the formulas | `Metrics` |
| Browser transport, `web/src/api/transport.ts` | socket, reconnect timer, queue, explicit close | `connect`, `disconnect`, `send`, the socket's and the page's handlers | `Transport` |
| Configuration, `config/config.go` | the options | `Load`, `Validate` | `Config` |
| Authentication, `auth/auth.go` | the token | `IsRequired`, `AuthenticateRequest` | `Config` |
| Router, `httpapi/router.go` | none | routes, base path, page assets | `Gateway` |
| Middleware, `httpapi/middleware.go` | a sliding window per remote address | authentication, read-only test, rate limit | `Gateway` |
| Message encoding, version, assets, views, test double of the engine | none, or only what they show | | not modelled |

### How they interact

* One goroutine, the **watcher**, takes the daemon's events one after another.
  For each it first updates the registry (`UpdateFromEvent`), then runs the
  callback of `main.go`, which starts or stops a stats stream and hands a
  crash to the supervisor.
* The **registry** calls back into the **hub** while it holds its own lock (for
  a removal just after); the hub puts the message into each client's queue of
  256 under its read lock. A client whose queue is full is closed right there.
* Each **connection** has a read loop, which registers the client, lists the
  registry, writes the snapshot and then serves log subscriptions, and a write
  loop, which empties the queue.
* The **supervisor** starts one goroutine per scheduled restart. It sleeps, asks
  the daemon to restart, and handles a failure as another exit. HTTP requests
  mark or clear a container and cancel what is scheduled.
* The **streamer** starts one goroutine per followed container, which pushes each
  line into the ring and then broadcasts it. When the last subscriber leaves, a
  timer of two seconds decides whether the stream is cancelled.
* The **collector** starts one goroutine per running container, which holds one
  of twenty slots while it reads, and makes each message a point with the totals
  of the message before it.
* A **request** passes the base path, authentication, the read-only test and the
  rate limiter, and then reaches a handler, which looks the container up in the
  registry and calls the supervisor and the daemon, or the WebSocket handler.
* **`run`** loads the configuration, pings the daemon, fills the registry, starts
  the first stats streams, the watcher and the server, and waits for a signal or
  the server's failure; it then cancels the watcher, waits up to ten seconds for
  the requests in flight, and for the watcher.
* The **browser's transport** dials when the page starts, when its timer fires,
  when the page becomes visible and when the user asks; what it receives goes to
  the store, and so does its status, which shows or hides the offline banner.

### What is hard here

Everything above meets in a handful of mutexes that are held for one map access
at a time, so the hard behaviours are interleavings between two such critical
sections, and reads that are old when they are used:

* a stop, start or restart by the user against the scheduling of a restart,
  and goroutines that were superseded but have not ended (`supervisor.go:98-110`);
* the resync, the subscription and the inspects of the watcher against changes
  in the daemon, broken streams and failing calls (`watcher.go:44-98`);
* a snapshot against the updates broadcast meanwhile (`ws.go:60-84`), full queues,
  and a `Close` that waits under two locks (`hub.go:127`);
* the replay of old log lines against live ones (`ws.go:110-137`), and a new
  subscription against the timer of the last one that left (`streamer.go:77-87`);
* slots that are taken, waited for and given back by goroutines that are stopped
  at any moment (`collector.go:115-120`);
* four callers that dial, one timer, and sockets that report their end to a
  transport that has gone on to the next (`transport.ts:36-91`);
* requests that are under way when a signal comes or the server fails, and a
  registry that changes between the chain and the handler's look (`main.go:207-230`,
  `handlers.go:125`);
* three sources of each option, read one over the other (`config.go:52-145`), and
  tests in the chain that rely on what was decided there;
* arithmetic at a limit: the rate limiter's window, the ring at its wrap-around, the last attempt, byte
  counters that start again (`parse.go:95`).

Nothing is stored, so there is no crash recovery; a restart of dock-pulse is the
initial state. The list of hazards, each with its line and the properties that
would catch it, is in `PROJECT.json`.

### What makes each part correct

* **Budget and supervisor**: attempts are counted consistently and never against
  a stop by the user; a cancel function in the map is that of a live goroutine;
  an exhausted container is left alone; a crash is answered.
* **Registry, watcher**: the registry is behind the daemon only for a reason,
  and catches up.
* **Hub, connections, browser**: an open connection loses no update between
  snapshot and queue, whoever is slow; and nobody is held up for ever.
* **Log ring, streamer**: the ring holds the newest lines in order; a follower
  has no gap between replay and live lines; a stream lasts exactly as long as it
  is wanted.
* **Collector**: slots balance; one stream per container; the map follows the
  daemon for every container of whose last change the collector was told (not one
  whose event was lost with the stream, or that ran before and was not listed at
  the start); a stop takes effect even on a goroutine that waits.
* **Configuration, chain, handlers, shutdown**: what was configured holds for
  every request (token, read-only, patterns); the rate limit lets through as many
  as it says and refuses no other; the program ends when it is told
  to, and cuts no request off that it could wait for.
* **Stats parsing**: a rate reports the traffic there was, no more and no less.
* **Transport**: one connection, one timer, always a retry ahead, messages in
  order, and a banner that is not hidden by mistake.

## 2. The modules

An operator whose name says what it forgets or does wrong
(`FreedForgetsEntry`, `FullTooLate`, `StoppedNever`, ...) is a faulty variant of
the definition that follows it. It takes no part in the model; put in the place
of the right definition it shows that a property notices that fault.

### `Backoff`

Constants: the four numbers of `BackoffConfig`. One record per container and one
operator per method of `BackoffManager`, since each runs under its mutex:
`Marked`, `Cleared`, and `Suppressed` and `Charged` for the refusals and the
charge of `NextDelay`. `LastRestartAt` is an age in ticks that stops growing at
the only threshold anybody compares it with. The jitter is a choice of any delay
below `RawDelay`. The shift in `NextDelay` cannot overflow: attempts never exceed
the five of `DefaultBackoffConfig`.

### `Supervisor`

Extends `Backoff`. Processes: the watcher, the restart goroutines and the HTTP
requests; `pc` and `on` say where each is and which container it works on. A
step is one critical section or one engine call:

| Code | Actions |
| --- | --- |
| `HandleContainerExit` | `Check` (switch, label, policy, mark), `Budget` (`NextDelay`), `Refused` (the "exhausted" event), `Unschedule` (`cancelPending`), `Register` |
| restart goroutine | `Abandon`, `Fire`, `Call`, `RestartKills`, `RestartDone`, `RestartFails` (back to `Check`), `Finish` (the deferred delete) |
| stop request | `StopRequest` (the mark), `StopCancels`, `EngineReturns` |
| start and restart requests | `ClearRequest`, `RestartKills`, `EngineReturns` |
| `main.go` callback | `TakeDie` |
| the daemon (external) | `Outside`: a container exits, starts or is removed |
| time | `Tick` |

### `RestartBudget`

What the supervisor promises of one container, as an account: attempts are granted
up to the limit, to a container that is neither stopped by the user nor out of
attempts, each pays for one call of restart at most, and only a calm gives attempts
back. `Supervisor` implements it for each container (`Account(c)`, `KeepsAccounts`)
with the fields of its backoff record, `granted` the number of processes that were
granted an attempt and have not called yet, and `calls` the number of goroutines
inside their call. A charge is a `Grant` or a `Close`, a goroutine that takes the
attempt over a stutter, and a superseded goroutine a `Begin` without a call. The
account does not promise that a call waits for the mark: a call paid for before a
stop may still begin (see the first of the violated runs).

### `LiveView`

The registry's store, the messages its callbacks have still to broadcast
(`jobs`), the hub, and for each connection its progress, socket, queue and the
browser's view. Since nobody can read the store while the watcher holds the lock,
a write changes it at once and leaves the messages to be sent one by one.
`slow` holds the connections whose `Close` the watcher waits for inside a
broadcast; `HubFree` keeps `Register` and `Unregister` out meanwhile. The end of a
connection takes up to three steps: `Shut` (the socket is gone), `WriteFails` (the
write loop returns, with the message it could not write), and `Unregister`, when the
read loop has returned. Until then the client is in the hub, its queue goes on
filling, and one that overflows is closed once more, to no effect. A write that
fails during a close handshake is taken to fail after it. Sequence
numbers are left out: the browser does not look at them. `LiveView` and
`LogStream` start at a connection that is upgraded, whatever `Gateway` says of that.

### `Mirror`

What one browser is promised: a source, a copy, and per container the states on
their way, with no hub, lock or queue. Linked, the copy receives all of them in
order; unlinked, it may miss some. `LiveView` implements it for each connection
(`Feed(k)`, `Mirrors`): a connection is linked from its snapshot on while its
socket is open, and on their way are the states its queue tells of the container
(`Told`) and the one still to be broadcast. Once the socket is gone nothing is on
its way, whatever the hub still puts into the queue.

### `EventFeed`

The watcher against the daemon: `Lists`, `ReadsOne` for each container,
`Replaces`, `Subscribes`, then `TakesEvent`, `Inspects`, `Writes` until
`SeesError`, and `Wakes` after the sleep. `Breaks`, `ListFails` and `InspectFails`
are the failures. `missed` is auxiliary: the containers whose latest change no
event in hand and no later read will bring.

### `Selection`, `LogRing`, `LogStream`

`Selection` is the loop that appends some elements of a slice to a new one, written
without recursion so that it can be reasoned about. `LogRing` reads the lines after
a number with it (`Later`), the rate limiter of `Gateway` the timestamps that still
count (`Valid`), and `LiveView` what a queue tells of one container.

`LogRing` is `ring.go` as operators on the record of the buffer's fields, modular
arithmetic included. `LogStream` extends it with the streamer, the hub's log
subscriptions and the read loop of each connection; a subscription takes the
three steps `SubscribeHub`, `SubscribeStreamer` and `ReadRing`, then `Replay`,
and a stream the steps `OpenStream`, `PushLine`, `BroadcastLine`, `EndStream`.
One container is followed, for nothing of one container's log touches another's.
The end of a connection is simpler here than in `LiveView`: a slow client is
closed at once, the ways in which the write loop ends are the one `Disconnect`,
with which the queue goes, and `Leave` is the return of the read loop with
`Unregister`. `since` and
`got` are auxiliary: the first line a client was promised, and what it received.

### `StreamSlots`, `Collector`

`Collector`: the cancel map, the slots, and a goroutine's way through `Acquire` or
`GiveUp`, `Open`, then `Scan` and `Report` for each message, to `EndStream`. The
calls of the loop that `run` makes over the first list (`FirstCalls`) are handled
like the watcher's events after it (`HandleEvent`), for both end in
`StartCollecting`; only then the watcher `Connects`. When the first resync fails
(`main.go:130`) the list is empty, and no call is made for what is running. It may lose its stream
(`Breaks`) with all events on their way, and what happens until it connects again
is told to nobody; `Close` is the end of `run`. A cancelled goroutine may still be
on its way when the next one for the container starts. `unheard` and `late` are
auxiliary: the containers of whose last change the collector is not told (at the
start, those that run and are not listed, because the patterns exclude them or the
first resync failed), and the points broadcast after a stop. Of an unheard container
`MapFollowsDocker` and `DownIsLetGo` say nothing, until its next event. The ring of points is left out: its only reader,
`GetHistory`, is never called.

`StreamSlots` says the same with streams alone: whose stream each reader holds and
which are retired. A stream is taken if there is room and its owner has no other
that is not retired, and the only way on from retired is to end. `Collector` is
shown to implement it with `holding` the container of each goroutine between
opening and ending a stream, and `retired` those of them that are cancelled
(`Streams`, `KeepsSlots`).

### `Metrics`

The parser's state and its formulas over the messages of one container's stream,
against a daemon whose interfaces come, count and go. `Parse` is
`ParseRawStats` with the assignment of its state, `ParseFails` the message that
cannot be read, `StreamRestarts` a new goroutine on a new stream. Bytes are
words with unsigned subtraction, percentages hundredths. Of rx and tx, and of the
operations of block devices, one is modelled, for the code treats them alike.
The reading time is any instant, in whole seconds, so clocks may go back. `carried`,
`fell`, `heard` and `due` are auxiliary: what the traffic really was.

### `Transport`

The ready state of each socket the page ever made (a closed one may be taken
again), `this.ws`, the timer, the queue and the status in the store. A callback
runs to its end, so each is one action: `TimerFires`, `BecomesVisible`,
`RetryNow`, which share `Connect`; `Opens` with the flush of the queue,
`PeerCloses` (a close frame: the socket is closing, its `onclose` comes later),
`Ends` with `onclose` and, for an unclean end, the `onerror` before it in the same
task, which closes whatever `this.ws` is; `Disconnect` and `Send`, which the class
offers and the page does not call. `sent`, `handed` and `refused` are auxiliary.

### `Config`

The options as a record and their two sources as functions from some options to
values. `Chosen` is the precedence of `Load` (a flag, else an environment
variable that can be read, else the default), `Loaded` what follows it, `Validate`
and `Loads` the checks. The token (`auth.go`) and the patterns (`registry.go`) are
here too, being decided by the configuration alone. Texts are values: `Empty`,
`Junk` for what cannot be parsed, lists as sets of patterns, and `Matches` for the
four ways in which a pattern can match a container.

### `Gateway`

Extends `Config`. `stage` is how far `run` has come:

| Code | Actions |
| --- | --- |
| `run` up to the server | `LoadsConfig` or `RejectsConfig` (exit 2), `Pings` or `PingFails` (exit 1), `Syncs`; `Killed` by a signal before `Notify` |
| `run` from its `select` on | `ServerFails` or `Signalled`, then `ShutdownEnds` or `ShutdownTimesOut`, `Exits` |
| the watcher's goroutine | `WatcherWrites`, and `WatcherEnds` once its context is done |
| router and `MiddlewareChain` | `Arrives`, then `Misses` (base path), `Refuses` (401, 403), `TooMany` (429) or `Admits` |
| handlers | `AnswersAtOnce`, `LooksUp` (`NotFound`, `Shows`, `Invokes`), `EngineReturns` |
| `WSHandler.ServeHTTP`, its first call | `Upgrades` |
| time | `Tick` |

The chain is one step, since two of its tests look at what never changes and the
third runs under the limiter's mutex. A timestamp is an age in ticks that stops
growing at `Window`. What the handlers do to the supervisor is in `Supervisor`.
`passed` is auxiliary: the ages of the requests that were really let through.

### Composition

`Backoff`, `Config`, `LogRing` and `Selection` are extended by the modules that use them. `Supervisor`,
`EventFeed`, `LiveView`, `LogStream` and `Collector` meet in the watcher: what
`EventFeed` writes to the store are the writes `LiveView` starts from
(`Removes`, `Updates`, `Denies`, `Resyncs` are enabled for every value there), the
event queue of `Collector` and the counters `died` of `Supervisor` are the events after `UpdateFromEvent`. `Gateway`'s `WatcherWrites` are their writes once
more, restricted to what the patterns admit, and its calls to the daemon are the
requests of `Supervisor`. Each module takes the others' steps in any order
the real one could take them in, so its properties hold in the composition.

## 3. The runs

All bounds are constants of the cfg files. The passing runs take from some
seconds to about three minutes. What the runs need not repeat, since the theorems
of section 4 say it for every instance, are the types of six modules,
`ExhaustedDrains`, `JobsCurrent`, `QueueInv`, `WaitsForClients` and `OneStream`.

| Run | Instance | Checked |
| --- | --- | --- |
| `Supervisor` | 1 container, 2 restart goroutines, 1 request, 2 attempts | `BudgetInv`, `PendingInv`, `IntentFreezesBudget`, `KeepsAccounts`, `ExhaustedQuiesces`, `CrashIsAnswered` |
| `LiveView` | 1 container, 2 connections, queue of 2 | `InSync`, `Mirrors`, `Converges`, `WatcherGoesOn` |
| `EventFeed` | 2 containers with 2 states, all failures | `LagExplained`, `Tracks` |
| `LogStream` | 1 connection, 2 streams, ring of 2, queue of 1, 3 pushes | `RingInv`, `SubscribedIsStreamed`, `NoGap`, `Delivered`, `StreamReleased` |
| `Collector` | 2 containers, one of them excluded, 3 goroutines, 2 slots | `SlotsBalance`, `MapFollowsDocker`, `OneLatePoint`, `KeepsSlots`, `DownIsLetGo` |
| `Gateway` | 2 requests at a time of 8 kinds, 12 pairs of sources, 2 containers, a rate of 2 in 2 ticks | types, `BurstBound`, `RefusedOnlyWhenFull`, `ReadOnlyHolds`, `Guarded`, `OnlyAllowed`, `CleanExit`, `Terminates` |
| `Metrics` | 2 interfaces, counters up to 2, 3 instants, 16 samples | types, `NoPhantomTraffic`, `AllTrafficCounts`, `PercentsInRange` |
| `Transport` | 3 sockets, 2 messages | `NoOrphan`, `RetryArmed`, `OneTimer`, `ShownUp`, `QueueIsTheRest`, `KeepsTrying` |

**What they show.** `Supervisor`: however crashes, restarts, user requests and
time interleave, a container's budget is charged consistently, a mark set by the
user freezes it even between the handler's test and its charge, every call of
restart has a charge of its own that was within the limit (`RestartBudget`), the
entry in the map is worth cancelling, an exhausted container sees only the restarts granted
before and is left alone in the end, and a crash that should be handled is.
`LiveView`: the order *register, list, write the snapshot, read the queue* loses
nothing, a slow client is either current or closed, and to each browser all of it
is a `Mirror`, also while clients whose sockets are gone are still in the hub. `EventFeed`: every lag
has one of four reasons, and apart from missed changes each is made up for.
`LogStream`: subscribing in the hub before reading the ring leaves no gap, and the
grace period neither kills a wanted stream nor keeps an unwanted one.
`Collector`: no order of starts, deaths, failing streams and waits loses a slot or
leaves a stream that nobody can stop, not even a lost event stream, a first resync
that failed or the end of the program. `Gateway`: token, read-only switch and patterns hold for every
request whatever the source they come from, no boundary of the window lets one
request more through or refuses one too many, and a signal or a failing server
ends the program without cutting a request off, except after ten seconds.
`Metrics`: counters that start again and
messages that cannot be read add no traffic to the rates and take none away.
`Transport`: late ends of old sockets, retries, visits and disconnects leave one
connection at most, one timer at most, and always a way back.

### Bounds

* *One container* in `Supervisor`, `LiveView` and `LogStream`: the code keeps its
  state per container, and no rule there relates two of them. `EventFeed` and
  `Collector` have two, since the event queue and the slots are shared.
* *Goroutine slots* (`Goroutine`, `Stream`): two or three allow a superseded one
  to live beside its successor. With none free, starting another waits.
* `MaxBacklog`: events between the daemon and the watcher; with two there are
  events queued behind the one being handled. In `Supervisor` it bounds die
  events per container, and a crash beyond it is one more that reports code 0.
* `MaxLeftover = 0` (`Supervisor`): the age of the last restart reaches the
  stability threshold only when no restart goroutine of the container is left.
  With `DefaultBackoffConfig` the longest delay is 16 s, and a restart waits 10 s
  for the container to stop, so within the 30 s of the threshold a goroutine is
  gone unless the daemon is slow; the bound leaves out that one is still
  there. The theorems hold for every `MaxLeftover`. `Tick` does not fall between
  a grant and the start of its goroutine.
* `QueueSize`: the 256 of `ws.go` becomes 1 or 2, so that queues do overflow.
* `MaxAttempts = 2`, `MaxInterval = 2`: both an attempt that leaves one and the
  last one, a delay of zero and one that is waited for.
* `MaxLines`, `MaxPushes`, `MaxCount` (`LogStream`): what the container writes, what
  is pushed (one more than the ring holds), and how high the subscriber count
  and the number of timers may go.
* `MaxBacklog = 1` and two slots (`Collector`): three goroutines of two containers
  already want more than there is, and while the one event waits, deaths and
  starts wait for it as they do in the daemon's buffer.
* `Gateway`: `MCGateway` names what the environment and the flags say. Among them
  are a missing token, an unreadable value on either side, an empty flag, the
  read-only variable with and without a flag against it, lone TLS options, a base
  path, and both lists of patterns; five of the twelve pairs start the program. The queries are one of each kind of
  route, with the right token, a wrong one, none and both. `Rate` and `Window`
  are 2: a window may hold requests of different ages.
* `MaxBytes`, `Word` (`Metrics`): how far counters count, and the size of the word
  that a difference would wrap at; a total itself stays below it, as 2^64 bytes
  would not be counted. `MCMetrics` names the samples of CPU and memory.
* `MaxSends`, `Socket` (`Transport`): two messages can be put in the wrong order;
  with three sockets two may be closing while the third is current. With none
  closed, a dial waits.

That a ring wraps correctly for every capacity, that slots balance for every
number of them, and so on, does not rest on these bounds: it is proved.

### Fairness

`Spec` of each module has none, and every safety property is one of `Spec`.
`FairSpec` adds weak fairness of what the Go runtime and the daemon guarantee:
goroutines run, timers fire, a sleep ends, engine calls return (the handlers,
restarts and inspects have contexts with a timeout or end with the daemon's
answer), a write from the queue ends within its five seconds, the close
handshake too, a read whose context is cancelled ends. There is no fairness for
the environment: containers need not change, users need not ask, streams need
not break, a browser need not connect or leave, and the write of the snapshot,
which has no timeout, need not end. Waiting for a slot of the collector is only
weakly fair, so a goroutine may wait for ever, as it may in the program. In the
browser timers fire, and a closing socket reports its end, for browsers give up a
closing handshake without an answer; no dial need succeed. In `Gateway`
Shutdown gives up after ten seconds, and the watcher's every wait ends with its
context; no request need come or be answered, no signal, no failure.

### What the documentation says and the code does not do

Each of these runs checks one sentence of the repository's README and TLC finds
the behaviour that contradicts it.

| Run | Sentence | What happens |
| --- | --- | --- |
| `Supervisor_StopSuppressesRestart` | README:78, a manual stop suppresses supervisor action | the stop falls between the test of the mark and the registration of the goroutine, which then restarts the container |
| `Supervisor_UserActionReopens` | README:77, "until user action" | no user action clears the exhaustion |
| `EventFeed_StoreFollowsDocker` | README:97, state follows the event stream | a change between resync and subscription is never seen |
| `Gateway_StreamUpgrades` | README:105, clients communicate with `/api/stream` | the chain hands on a writer without `Hijack` or `Unwrap` (`middleware.go:20`), so `websocket.Accept` (`ws.go:45`) answers 501 to every request |

Also met, and without a run:

* A superseded restart goroutine deletes its successor's entry
  (`supervisor.go:108`), and a later stop finds nothing to cancel (README:78).
* An exhaustion does not cancel a restart scheduled before it
  (`supervisor.go:81`), which still fires (README:77).
* After a broken event stream the registry is resynchronised and the collector is
  not (`watcher.go:98`): a container that started in the gap has no statistics
  until its next start, one that stopped keeps its entry, and with it no stream
  is started at its next start either.
* When the first resync fails, `run` logs it and goes on (`main.go:130`): containers
  that run already have no statistics until their next start, and are not in the
  registry until an event about them or the first resync after a broken stream.
* A die event that is lost with a broken stream, or whose container the registry
  does not hold when the callback asks (`main.go:153`), never reaches the supervisor:
  such a crash is not answered. In `Supervisor` the events lost with the stream are
  not in `died`; of those without a container in the registry `TakeDie` drops the
  ones about removed containers, and takes the registry to hold the others.
* The rate limiter's key is `RemoteAddr` with its port (`middleware.go:74`), so each
  connection has a window of its own.
* With a token the page's own files need it too, and `SetCookie`, which would let a
  browser send it along, is never called.
* `subscribe.logs` and `GET .../logs` differ: the first looks at neither the registry
  nor the patterns (`ws.go:107`).
* `isNonLoopback` takes `localhost` for a public address (`config.go:194`).
* `Validate` accepts a log level in any case, the switch in `run` only in lower case.
* A signal before `signal.Notify` (`main.go:208`) kills the program, deferred calls
  and all; and after a shutdown that timed out the log says that it stopped cleanly.
* README:74 says that native restart policies are ignored; `HandleContainerExit`
  (`supervisor.go:58`) looks for their names in the container's status, where they
  never are (`NamesNativePolicy` in `Supervisor.tla`).
* README:64 says that the patterns filter telemetry too; a start event of an
  excluded container starts its stats all the same (`main.go:149`, `HandleEvent` in
  `Collector.tla`).
* `dock-pulse.autorestart.max` (README:73) is parsed by `ParseMaxAttempts`, which
  nobody calls.
* The "exhausted" event is also sent when `NextDelay` refused because of a stop
  by the user.
* `Resync` announces with the sequence number before its increment.
* A message without a time keeps Go's zero time, whose `UnixMilli` is not the zero
  that `parse.go:72` tests for.
* The converse of `ShownUp` does not hold: when a socket that is closing reports
  its end after its successor has opened (the timer of an earlier close fires in
  between, or the page disconnects and becomes visible again), the status is
  "disconnected", and the banner stays until the connection changes again.

## 4. The proofs

The proof modules prove, for all values of the constants that satisfy the named
assumptions (`BackoffAssumption`, `SupervisorAssumption`, ...), `Spec => []IInv`
from `Init => IInv` and `IInv /\ [Next]_vars => IInv'`, with one lemma or step per
action, and then each property from `IInv`.

| Module | Theorems | Why the invariant is stronger |
| --- | --- | --- |
| `SupervisorProofs` | `TypeCorrect`, `BudgetSafe`, `PendingSafe`, `IntentFreezes`, `ExhaustionDrains`, `KeepsEveryAccount` | a charge stays in its type only because a record that is not exhausted has an attempt left, and an entry names a live goroutine only because of the types; the conjunction is inductive |
| `LiveViewProofs` | `TypeCorrect`, `NothingLost`, `BroadcastsCurrent`, `QueuesSafe`, `EachIsAMirror` | a broadcast makes a browser current only because it announces what the store holds, and a new connection starts with an empty queue, for `Unregister` drops the old one with all that the hub had put into it; the messages about one container can be listed in one order only |
| `EventFeedProofs` | `LagHasAReason`, `TypeCorrect` | what the watcher is about to write is no older than what is still queued, a destroyed container stays gone, nothing is queued while nobody listens |
| `LogStreamProofs` | `NewIsWellFormed`, `PushKeepsWellFormed`, `TailIsNewest`, `SinceIsNewest`; `RingStaysWellFormed`, `StreamNotCancelled`, `NothingMissed`, `TypeCorrect` | the first four are of the ring alone, from lemmas on division and on slots; a stream is at a line that was written; a slot without a stream is not cancelled; only a client that is there is promised anything, a read loop on its way to the replay is subscribed and has nothing to replay yet; what is counted and about to be counted stays in its bound |
| `TransportProofs` | `TypeCorrect`, `OneConnection`, `AlwaysRetried`, `BannerNotHidden`, `NoTimerLeaks`, `SentInOrder` | a retry is certain only because a socket that is still named was not closed explicitly, and the order holds only because an open socket leaves nothing in the queue |
| `CollectorProofs` | `TypeCorrect`, `SlotsBalanced`, `AtMostOneStream`, `OneLatePointOnly`, `ImplementsStreamSlots`, `MapFollows` | slots balance and types go together; a message read before the stop is the only one; that there is room in `StreamSlots` follows from the balance; the last event queued about a container that is heard of is true of it |
| `GatewayProofs` | `TypeCorrect`, `ReadOnlyIsReadOnly`, `TokenHolds`, `PatternsHold`, `ExitsCleanly`, `BurstsBounded`, `RefusalsJustified` | a request past the chain passed its tests, under a configuration that `Validate` accepted and nobody changes; the registry holds allowed containers only; the timestamps that count are exactly the requests let through within the window, never more than the rate |
| `MetricsProofs` | `TypeCorrect`, `NothingInvented`, `NothingLost`, `PercentsBounded` | a balance (`Books`): the sum of the counters is what the parser remembers and what was carried since, or less when a counter fell |

`KeepsEveryAccount`, `ImplementsStreamSlots` and `EachIsAMirror` are refinements for
every value of the constants: the initial states map to initial states, and each
action of `Supervisor`, for each container, to a step of `RestartBudget`, each of
`Collector` to one of `StreamSlots`, each of `LiveView`, for each browser, to one of
`Mirror`, or to a stutter. That a charge is a `Grant` or a `Close` follows from
`BudgetInv`: a record that is not exhausted has an attempt left. A broadcast of the watcher is a stutter to the browser
that takes it, for the state only moves from the announced ones to the queue, and an
`Unlink` to the one whose queue is full.

What a selection returns is not computed by recursion, for which there is no
induction here, but by counting: the j-th element selected is the one with j places
up to it. `GatewayProofs` and `LiveViewProofs` each start with the lemmas they need: the
places can be listed in order, in one way only, and a list that gains an element, or
loses its first, is listed by the old listing with one more or one less. `Metrics`
counts too: a sum is the cardinality of a set of units (`Units`), so that the
lemmas on sums follow from those on finite sets.

The assumptions are the types of the constants, model values that differ, and in
`Metrics` that a counter and a sum of counters stay below `Word`, 2^64 in the code:
no machine counts that many bytes. TLC evaluates them on the runs' instances.

Only model-checked: the liveness properties `ExhaustedQuiesces`, `CrashIsAnswered`,
`Converges`, `WatcherGoesOn`, `Tracks`, `Delivered`, `StreamReleased`, `DownIsLetGo`,
`KeepsTrying` and `Terminates`, for TLAPS has no backend for ENABLED. Every
invariant and every action property of the passing runs is proved. That delays
double is neither: the solvers know no exponents, and no property relies on it.

## 5. Not modelled

Message encodings, the version, the embedded page with its entity tags and cache
headers, the browser's views, TLS, logging, pings: they have no state of their
own that a property could relate to another. Of the browser's store only the
containers and the connection status; its stats and log lists are bounded
appends. `dockerx/fake.go` is a test double. The fields that `client.go` copies
from the daemon's answers are data that no other part decides anything by, apart
from those the models name. The attempt numbers of reconnects and the length of
backoffs do not matter to any property, so sleeps only end.

A pattern says the same of a container as long as the program runs
(`Matches`): a rename, after which it may say something else until the next write
of the registry, is outside `Gateway`.

`LogStream` has one connection: with two, TLC passes ten million states without
an end. The safety properties are proved for any number; liveness is not. What two
clients add there is the shared subscriber count; that an
unsubscribe without a subscription lowers it is in the model with one
(`UnsubscribeHub` has no test), that it ends another client's stream is not.

## 6. Plan

Written in this order, most important first:

1. `Backoff`, `Supervisor`: done, with proofs, and the refinement of `RestartBudget`.
2. `LiveView`, `EventFeed`: done, with proofs, and the refinement of `Mirror`.
3. `LogRing`, `LogStream`: done, with proofs of the ring, of the delayed
   cancel and that no line is missed.
4. `Collector`: done, with proofs, and the refinement of `StreamSlots`.
   `Transport`, `Metrics`: done, with proofs.
5. `Config`, `Gateway`: done, with proofs.
6. Left: the streamer's counts with two clients in a module without ring and
   queues.
