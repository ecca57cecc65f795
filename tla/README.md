# poolpayminer in TLA+

TLA+ models of poolpayminer, a fork of XMRig 6.26: a miner that connects to
pools over stratum, hashes the jobs they send on worker threads, and spends a
minute in about a hundred on the operator's fee pool.

## 1. The system

One event loop (libuv) runs everything but the hashing: timers, name lookups,
sockets, HTTP. Callbacks run one after another, so the races of this part are
orders of callbacks, never torn state. Hash workers are threads.

| Component | Source (`src/src/`) | State it keeps | Operations |
|---|---|---|---|
| Stratum client | `base/net/stratum/Client.*`, `BaseClient.*` | socket state, pending lookup, socket, timers, failures, login id, job, shares waiting for an answer, learned lifetime of a connection | connect, disconnect, submit, tick, callbacks of lookup / connect / read / close, parse of answers and notifications |
| Failover strategy | `base/net/stratum/strategies/FailoverStrategy.*` | the clients, index of the one being tried, the active one | connect, stop, resume, tick, onClose, onLoginSuccess, onJobReceived |
| Single-pool strategy | `.../SinglePoolStrategy.*` | one client, active flag | the same |
| Fee strategy | `net/strategies/DonateStrategy.*` | NEW / IDLE / CONNECT / ACTIVE / WAIT, one timer, time stamp, routes version, a strategy of its own | onTimer, tick, onActive, setState, refreshRoutes, stop |
| Fee route table | `net/strategies/FeeTable.*` | routes per target, version, sequence number, busy, next request | start, tick, apply, onHttpData, routes |
| Network | `net/Network.*` | main strategy, fee strategy, grace period, quiet flag | onActive, onPause, onJob, onJobResult, onConfigChanged, tick, setJob |
| Miner | `core/Miner.cpp` | job, active, enabled, automatic pauses | setJob, pause, setEnabled, handleJobChange, onTimer, onDatasetReady, stop |
| Nonces and worker jobs | `crypto/common/Nonce.*`, `backend/common/WorkerJob.h`, `backend/cpu/CpuWorker.cpp` | nonce counters, sequence, paused flag; the job of each worker | next, reset, touch, pause, stop; consumeJob, the hash loop |
| Job results | `net/JobResults.cpp` | list of found shares between threads | submit, onAsync |
| RandomX queue | `crypto/rx/RxQueue.cpp`, `Rx.cpp` | queue of seeds, dataset state | enqueue, backgroundInit, onReady |
| `--auto` supervisor | `autoswitch/AutoSwitch.cpp` | child process, current route, time of the next fee round (on disk) | the supervising loop |
| Riecoin dispatch | `riecoin/Dispatch.cpp` | child process, phase | the supervising loop |
| HTTP fetch | `base/net/http/*` | one request | lookup, connect, answer, timeout |
| Network state | `base/net/stratum/NetworkState.cpp` | counters of shares, connection start | onActive, onPause, onResultAccepted |
| Solo mining client | `DaemonClient` | socket state, one timer, job, previous hash, template asked for last, ZMQ connection | connect, disconnect, submit, onTimer, onHttpData, the ZMQ callbacks, retry |
| Other clients | `EthStratumClient`, `SelfSelectClient`, `AutoClient` | their protocols | the client interface |
| Configuration, API, hash functions, OpenCL/CUDA, vendored code | the rest | | not modelled |

### How the parts interact

The strategies own the clients and are their listeners: every client callback
(lookup, connect, close, answer) calls the strategy, which may connect or
disconnect other clients before the callback returns. `Network` owns the main
strategy and the fee strategy and is the listener of both; `DonateStrategy`
owns a strategy of its own for the fee pools and asks `FeeTable` for their
addresses. `Network` tells `Miner` which job to hash or to pause; `Miner` tells
the worker threads through the counters of `Nonce`. Shares come back from the
threads through `JobResults` and go out through the active client. With
`--auto` or for Riecoin none of this runs in the first process: a supervisor
starts and stops child processes instead.

### What is hard

* Callbacks that are already on their way when the state they are about changes:
  `disconnect()` does not cancel a lookup, `uv_close` calls back later,
  `stop()` of a single-pool strategy reports its pause later, after a reload
  not at all.
* Strategies whose clients fail, retry and log in in any order, also at the
  same time.
* One timer that means different things in different states of the fee rounds.
* The grace period, which overlaps fee rounds, reloads and logins.
* Requests that end without an answer; files that are replayed or half valid.
* Threads that take a job and reserve nonces while the event loop changes both;
  a dataset that is rebuilt while threads still read it.
* A supervisor that keeps one deadline on disk and may be killed at any moment.
* Pauses for four reasons that share one flag and a counter.
* Requests to a node that each have a connection of their own, so that answers
  come in any order.

### What makes each part correct

| Part | Properties |
|---|---|
| Fee route table | always a route; never anything but signed, whole files; never an older file; always asks again |
| Client and strategies | one session at a time, and it is the one in use; no socket is lost but by a failover to a client that was just dropped; a TLS pool never sees a login in the clear; the miner recovers from an outage and goes back to the first pool; a stopped strategy comes to rest |
| Fee rounds | timer and state in step; rounds keep coming and keep ending |
| Network | a connected main pool is never left waiting; nothing is hashed for a pool that is gone |
| RandomX queue | never ready with another seed's data; the last seed is always built |
| Miner and workers | the miner resumes when it should; a stop returns; a pause is obeyed |
| Pauses | the miner rests while any reason holds and comes back when none is left; the workers see what the flags say |
| Nonces | no nonce of one job is hashed twice, but for three named restarts of the counter; no block leaves the nonce space or wraps its low word |
| Job results, shares | a connection carries shares of its own login only, a share is credited to the request that carried it, counted once, and handed over |
| Supervisors | one child at a time and none left behind; the fee comes around and is not repeated, as far as the state file can be written; the server's route is followed, but for password and coin; a shutdown ends |
| Solo mining client | goes on trying unless its name is not resolved while no timer runs; ends up on the tip of the chain; comes to rest after a disconnect |

The hazards behind these properties are listed with their lines in
`PROJECT.json`.

## 2. The modules

| Module | Models | State | Extends / instantiates |
|---|---|---|---|
| `FeeTable` | the table of fee routes and the request that refreshes it | table, version, sequence number, busy, time to the next request, requests with their phase, wall clock | |
| `MCFeeTable` | eleven files that differ in each check of `apply()` | | `FeeTable` |
| `Client` | one stratum connection: a record and the handlers as functions | socket state, pending lookup, socket, session, failures, deadline, renewal, TLS session | |
| `Strategy` | `FailoverStrategy` (n > 1) and `SinglePoolStrategy` (n = 1) over their clients | the number n of pools (one of `Sizes`), the clients, `m_index`, `m_active` | `Client`; refines `PoolLink` |
| `StrategyProofs` | proofs | | `Strategy` |
| `PoolLink` | what the owner of a strategy may rely on | none / trying / active / stopping, wanted | |
| `DonateStrategy` | the fee rounds | `m_state`, timer, changed table, the fee strategy | `PoolLink` for the fee pools |
| `Network` | whose job is hashed | the main strategy, job owed, grace period, origin of the job in work | `DonateStrategy`, `PoolLink` for the main pools |
| `NetworkProofs` | proofs | | `Network`, `FeeTable` |
| `RxQueue` | the queue of RandomX seeds and the thread that builds datasets | state, seed, queue, the seed being built and the one built, async handle | |
| `Mining` | `Miner` on the event loop, the counters of `Nonce`, the main loop of the CPU threads | job, active, enabled, what the handler under way still writes, paused, sequence number, the threads with their place, job and number | `RxQueue` |
| `MCMining` | three seeds of two algorithms, one thread | | `Mining` |
| `MiningProofs` | proofs | | `Mining` |
| `Pauses` | who may pause the miner: keys and API, battery, user activity, a lost pool; reloads of the options | enabled, active, `Nonce::m_paused`, what the timer saw, `auto_pause`, the options | |
| `PausesProofs` | proofs | | `Pauses` |
| `Nonces` | `Nonce::next`, the reset `Miner::setJob` decides on, `WorkerJob` with its user job and fee job | the two counters, job, reset, user job id, dataset ready or not, the workers with their jobs | |
| `MCNonces` | a CPU and a GPU worker with blocks of 2 and 3 nonces | | `Nonces` |
| `NoncesProofs` | proofs | | `Nonces` |
| `Shares` | the way of a share: `JobResults`, `Network::onJobResult`, `Client::submit`, the answer, `NetworkState` | the queues, the bundles on the thread pool, the clients with what they wait for, request ids, totals | |
| `SharesProofs` | proofs | | `Shares` |
| `Supervisor` | `--auto` and `-a ric`: the loops that start and stop miners | place in the loop, the children as the system and as the supervisor see them, route, fee deadline in memory and on disk, what the disk allows | |
| `SupervisorProofs` | proofs | | `Supervisor` |
| `DaemonClient` | solo mining against a node, by polling or by ZMQ | `m_state`, the timer, the job, the previous hash, the template asked for, requests under way, ZMQ connection | |
| `DaemonProofs` | proofs | | `DaemonClient` |

A callback is one action with everything it calls: `LoginAccepted(i)` is the
answer to the login, the change of `m_active`, and the disconnecting of the
reserves; `Closed(i)` is the close callback, `reconnect()`, the strategy's
`onClose` and the `connect()` of the next pool. `Tick` is one second for all
clients at once. In `Mining` threads run beside the event loop, so a handler is
the list of its writes to shared memory and each write is a step; what the
threads do is cut at their reads of the counters, of the job and of the
dataset. Definitions named `X_...` are changed versions of `X` that a
plausible mistake would produce; they are used only to see that the properties
notice it. `PROJECT.json` gives the source lines of every definition.

Composition. `Strategy` implements `PoolLink` (property `KeepsPromises`, run
`strategy` for a list and for a single pool, theorem `Refinement` for lists of
any length), and
`Network` and `DonateStrategy` use `PoolLink` in place of the strategies: their
runs and proofs cover every strategy that keeps the contract. `FeeTable` gives
`DonateStrategy` two facts: there is always a route, and every change of the
table is announced by the version.

Abstractions. A message is the event it causes: login accepted or refused, job,
loss. A deadline that is armed may be found due at any tick. A fee route or a
pool is a name. A job is its origin, and whether it is for a Diardi block. In
`Nonces` a job is its id, its blob and whether it is a fee job; in `Shares` a
request is its id and what it carries; in `Supervisor` a deadline has come or has
not; in `DaemonClient` height and hash of a block are one number.

## 3. The runs

| Run | Bounds | What it shows |
|---|---|---|
| `fee_table` | 2 targets, 11 files, wall clock to 3, intervals 1 to 3 | `FromSignedFile`, `SingleRequest`, `NoRollback`, `KeepsAsking` |
| `strategy` | 1 pool or 3 TLS pools, 2 retries, stops and restarts | `SessionInUse`, `NeverInTheClear`, `KeepsPromises` |
| `strategy_recovery` | 2 pools, losses, retries and timeouts while another client closes, connects or looks up (`Overlap`); the first, the reserve or both work in the end | `OnlyDroppedOverrun`, `FailsBack`, `Recovers` |
| `strategy_tls` | 3 pools with `Overlap` | violated, see findings |
| `network` | lists of pools, reloads | `MainServed`, `HashingIsCovered`, `FeeIsCovered`, `FeeComesAround`, `MainGetsItsTurn` |
| `mining` | 3 seeds, 2 algorithms, 1 thread, 4 calls | `TypeOK`, `ReadyIsBuilt`, `NeverTakesNothing`, `MinerResumes`, `StopEnds`, `RestIsRest` |
| `pauses` | none | `OnBatteryRests`, `PausedInStep`, `AutoDecides`, `ComesBack` |
| `nonces` | 2 workers, blocks of 2 and 3, nonces 0 to 5, words of 3, 3 jobs | `UniqueNonces`, `BlocksFit` |
| `shares` | a user pool (list) and a fee pool (single, TLS, fixed session id), 2 shares, 2 sessions each, 1 ping | `CreditedRight`, `CountedOnce`, `OwnSession`, `AllHandedOver` |
| `supervisor` | 2 places with 2 passwords each | `OneMiner`, `NothingLeft`, `FeeSpaced`, `FeeComesAround`, `FollowsServer`, `ShutdownEnds` |
| `supervisor_outage` | the same | violated, see findings |
| `daemon` | 2 blocks, 3 requests at once | `NeverStuck`, `FollowsChain`, `ComesToRest` |

Bounds. `FailCap` = 2 with `Retries` = 2: the code only compares the counter
with `m_retries` and with -1, so the counter is exact below the limit and
saturated at it. Three pools have a first, a middle and a last one: the loops
over reserves, the end of the list and a reserve dropped in favour of another
all happen. `strategy_recovery` has two pools: the liveness of three is out of
reach, and `OnlyDroppedOverrun` is proved for any number. With one retry only (`Retries` = 1) `connect()` may meet a client
that is still closing, as in the finding `strategy_tls`; the fee pools use 2 and the default is
5, so `Retries` > 1 is assumed. In the fee table every interval is longer than
one step, the files cover both sides of each comparison of `apply()`, and the
wall clock passes every expiry date. `Network` has no bound; its run has lists of pools, and the other
combinations of lists and single pools are covered by the proofs. Four calls of
the miner (`MaxInputs`) are enough for a job, a new seed while its dataset is
built, a change of algorithm and a pause or stop in between. Threads write
nothing shared in this model, so one of them shows what all of them can do;
`Workers::stop` waits for each. `mining` may come to rest (no call left, threads
asleep), so it is not checked for deadlock; `MinerResumes` and `StopEnds` say
where it may not.

`Nonces` has blocks that do not divide the space nor the word, so the end of the
space and the end of a word are met at every distance; three jobs are a user
job, a fee job and a third of either kind, or twice the blob of one of them. Its `VIEW` leaves out two fields of a worker
while they are dead (`Live` in `MCNonces`). The run ends when the jobs are used
up. In `Shares` two shares are enough for two requests under way at once, one of
a session that ended, and one on each pool; the run ends when shares, sessions
and pings are used up. `Supervisor` and `Pauses` have no bound. In
`DaemonClient` two blocks are an old and a new one; three requests are a poll, a
template and a submit at once.

Assumptions about the world.

* `Settled`, only with `Overlap` = FALSE (run `strategy`): what is left of a
  client that was disconnected (a lookup, a closing or connecting socket) ends
  before the next loss, retry or timeout of another client. Nothing in the code
  guarantees it. Without it three pools show the finding `strategy_tls`; with
  `Overlap` = TRUE (`strategy_recovery`, `strategy_tls`) it is nowhere assumed,
  and a behaviour ends where a socket has been overwritten (`Overrun`,
  `Beyond`): what the program does with two sockets of one client is undefined
  and not modelled.
* A strategy that was stopped is connected again only when nothing of it is
  alive any more (`Restart`, `Begins`): the fee rounds are at least 79 minutes
  apart.
* uv close callbacks run before the next timer (`NoClosePending`): they are run
  at the end of the same loop iteration.
* `Nonces`: a block that a worker takes between the store of a job and the
  reset of its counter is not held against `UniqueNonces` (the worker takes the
  job again after the touch that follows), nor is what is hashed of a blob whose
  counter the miner itself starts again (`again`, see observations).
* `Supervisor`: the children of a supervisor that was killed are out of sight;
  the next one cannot see them either.
* `DaemonClient`: the ZMQ socket that `retry()` closes is gone before the next request fails; a
  node with a ZMQ port is the only pool. Both are places where the code has no
  answer; the hazards list gives the lines.

Fairness.

* `Strategy`: lookups and `uv_close` always call back (WF on `Closed`, and on
  `Resolved` or `ResolveError`); the timer ticks every second, so a deadline
  that is armed again and again is found due (SF on the ticks); the outage of
  the good pools ends and they do their part from then on. Pools that are not
  good may fail forever. The liveness runs are for pools that answer pings and
  close after a refused login (Epic): for the others `send()` arms the response
  timeout and `startTimeout()` clears it again, and a login that is never
  answered keeps the client connected for ever.
* `Network`: the fee timer, `tick()` and the end of a stopped strategy happen
  (WF), and a fee pool that is being tried can be reached (WF on `FeeLogin`).
  Nothing is assumed of the main pool.
* `FeeTable`: time passes and a request ends, if only by its timeout.
* `Mining`: the event loop, the dataset thread and each worker are scheduled
  (WF); nobody has to call the miner.
* `Pauses`: the timer of the miner fires (WF); it is a repeating uv timer.
* `Shares`: the event loop and the thread pool run (WF); pools owe nothing.
* `Supervisor`: its loop runs and time passes (WF). Nobody has to start it
  again, `FeeComesAround` and `FollowsServer` ask for what happens as long as it
  gets around its loop, the first one if the state file can be read and written
  in the end.
* `DaemonClient`: timers fire and jobs age, the node's outage ends, and a node
  that works serves and answers its requests (WF). SF on the timer and on the
  ZMQ handshake only makes up for the bound `MaxHttp`, which may disable them.

Findings (each a run whose property, taken from a document or comment, TLC
refutes).

1. `strategy_tls`: a reserve logs in, the next one is disconnected, the first
   reserve is lost at once. The dropped reserve is connected while its socket
   is closing, the close callback deletes the new TLS session, and the login is
   sent unencrypted to a pool configured with TLS.
2. `supervisor_outage`: a fee round, or the death of the miner, makes `--auto`
   forget that it has a route. If the account server is away then, nothing is
   mined until it answers; the comment says it keeps mining what it has.

Observations. Places where a property needs an exception, which its definition
names, or where the code and a comment or document differ in a way no run is
kept for.

* A worker that sees a pause end takes its job a moment later; if the next pause
  comes in between it records the sequence number of after that pause and
  hashes on although the miner rests (`Waking`, the exception of `RestIsRest`: the
  thread was between these two steps when the last pause began; every other
  thread, however often it was paused and resumed, stops). README.md line 183
  says the hashrate is then 0. If `stop()` comes in between it records
  0, its loop never finds that outdated, and `Workers::stop` waits for it until
  its nonces are used up (`CaughtByStop`, the exception of `StopEnds`).
* A worker copies the miner's job and then reads the sequence number
  (`CpuWorker::consumeJob`, `WorkerJob::add`: `Take` and `Mark` in `Mining`). When
  `setJob()` stores a new job and touches the number in between, the worker
  takes the old job for the current one until the number changes again.
* A `stop` by the API leaves `Nonce::m_paused` cleared. If the pool is lost and
  a dataset is being built at that time, `onDatasetReady()` starts the threads
  again and nothing pauses them: they hash the old job without a pool, and a
  pause by hand only sets `enabled` (the exception of `NoUnwantedWork`).
* The counter of a blob in work starts again in three cases, the exceptions of
  `UniqueNonces`. The pool sends the blob with another id (a new target) during
  a fee round: the next user job has another id but the blob of before, while the
  miner's job is the fee job (`Retarget`; the comment at Miner.cpp line 607 and
  CHANGELOG.md line 13 are about this restart). The blob comes again while its
  dataset is being built: `setJob()` resets at line 624 (`SameUnready`). A job is
  set between the end of a build and `onDatasetReady()`, which resets once more
  for it at line 781.
* `WorkerJob::save` ignores that `Nonce::next` failed: a worker that takes a job
  with no nonces left hashes from an old offset until the end of its round.
* A pause option switched off by a reload keeps its flag and its count: the
  miner stays paused with no reason left (`Free`), or, when the option comes
  back, may be resumed on battery power (`stale`).
* A signed fee file that names one target resets the other target to the
  built-in routes (FeeTable.cpp line 453); the comment at line 445 says "the
  others stay as they are". `FromSignedFile` holds for both readings and the
  model (`Merged`) does what the code does.
* The planned renewal of a reserve's connection makes the failover go on to the
  next pool; the comment at Client.cpp line 1489 says it is no failure.
* With a single main pool a reload starts no grace period: the old pool's job is
  hashed until the new pool answers (`HashingIsCovered` and the theorem
  `NothingForNobody` are for the other cases; CHANGES.md line 548 says up to 60
  seconds).
* `DonateStrategy::onActive` starts a whole fee minute from any state, also in
  the short wait after a round and on a login that comes after `stop()`, so two
  fee minutes may follow each other (README.md line 16 says one in about a
  hundred).
* A request to a node whose name does not resolve ends without a callback
  (HttpClient.cpp line 73). A solo miner that is connecting has no timer then,
  and neither retries nor goes to its backup (the exceptions of `NeverStuck` and
  `FollowsChain`; usage.h calls `--retries` the "number of times to retry before
  switch to backup server").
* A failover may call `connect()` on a client that was dropped a moment ago and
  still connects or closes, with two pools as well: the retry of the first pool
  fails while the dropped reserve is in a slow connect. `Client::connect(addr)`
  then overwrites `m_socket`. `OnlyDroppedOverrun` says that this is the only
  way to it, `Recovers` and `FailsBack` except what follows.
* With three pools, a middle one that was dropped is not tried again while the
  later ones fail: `m_index` only grows until a login. `Recovers` is stated for
  the first and the last pool of a list.
* `saveFeeDueEpoch()` writes nothing when the state file cannot be opened
  (AutoSwitch.cpp line 597; the comment at 599 expects a fresh random wait). An
  old time that is still readable repeats the fee round at each restart, and
  without a readable file each start waits anew (`paid` in `FeeSpaced`, the
  condition of `FeeComesAround`).
* `Route::operator==` (AutoSwitch.cpp line 79) looks neither at the password nor
  at the coin: a route that changes only these is not followed until the miner
  is started for another reason (`Same` in `FollowsServer`).
* A share whose session has ended when it is handed over is thrown away
  (`Client::submit`), and a `SinglePoolStrategy`, which does not ask whether it is
  active, may send a share of the last session before the answer to the next
  login (`OwnSession` is about lists).

## 4. The proofs

`NetworkProofs`, for lists and single pools, with or without reloads, for any
strategies that keep `PoolLink`. The inductive invariant is `TypeOK`,
`TimerInStep`, `ConnectIsTrying`, `MainServed` and `GraceInStep`: a running
grace period means that no main pool is active, and an active main pool has
made the network resilient. `GraceInStep` is needed because `tick()` pauses the
miner when the grace period ends: without it the end of an old period could
pause a miner whose pool is back. `NothingForNobody` assumes that a single main
pool is not reloaded: in that case the code starts no grace period (see
observations). `FeeOnlyWhenDue` is its other half, about the fee pool.

The same module has the proofs about `FeeTable`, which the fee rounds use, for any
targets, routes, files and intervals, from the assumptions `BuiltinAssumption` (each target has a built-in route),
`FileAssumption` and `NumberAssumption`. `TableTypeOK`, `AlwaysARoute`,
`WholeFile` and `SingleRequest` together are inductive; `WholeFile` says exactly
what the code installs and implies `FromSignedFile`. The argument has
two halves that meet in `NextFeeTable`: a step either leaves the table alone or
installs one whole file that `apply()` took (`TableSteps`, `TableInv`); a
request is added only when none is under way and its callback removes it
(`TickInv`, `CallbackInv`). `NoRollback` follows from `TableSteps`, because a
file that is taken has a greater number (`Taken`).

`MiningProofs`, for any seeds, algorithms and threads: `ReadyIsBuilt` and
`NeverTakesNothing`. Their inductive invariant adds `IdleIsBuilt` (an idle queue
builds nothing and its seed is the one built: `isReady` looks at the first half
only) and `SeedsKnown` (whatever a handler still has to store or enqueue is a
seed), which ties the queue to the order of the miner's writes. `TypeCorrect`
includes that a backend without threads has none that still runs: `Join` waits
for all of them, and a step of a thread needs one that is not gone.

`NoLostWakeUp` is the safety half of `MinerResumes`: whenever the event loop is
free, a miner that has a pool and is enabled but paused waits for the dataset of
its own job, that seed is the one the queue builds last (`LastWins`), and the
queue is at work or its async call is on the way. A handler passes through
states where this is not so, hence the invariant `WakeInv` also counts what the
handler has yet to write: the seed of the job is queued or about to be
(`JobIsQueued`, which is why a callback for an older dataset does no harm: it
finds the state pending), and a pause of a miner that is wanted is followed by a
job (`PausesAreMeant`). `NoUnwantedWork` is the other direction: threads that are
not paused have a pool and an enabled miner. Its invariant `RestInv` orders the
writes: `handleJobChange()` pauses before it starts threads, a run outside of a
stop is wanted, a stop inside of `setJob()` ends the threads before the job is
stored. The theorem excludes a stop by request (`[][~Stop]_vars`), for which it
is false (see observations).

`PausesProofs`: `OnBatteryRests`, `PausedInStep` and `AutoDecides`. They become
inductive with the types and two facts: `auto_pause` is the number of reasons
the timer saw (`Count`), and a battery it saw and no longer asks for is `stale`
(`StaleKnown`). `AutoPauseFacts` is the heart: with the right count
`setEnabled()` never refuses what `onTimer()` asks for, and after a change of the
reasons the miner is enabled exactly when none is left.

`StrategyProofs`, for lists of pools of any length, has two invariants.

The first, `Inv`, gives `SessionInUse`, `NeverInTheClear` and the refinement of
`PoolLink`. It assumes `Orderly`: links fail and deadlines end only when nothing
is left of dropped clients (`Overlap` is FALSE). What that leaves out is real:
with `Overlap` the run `strategy_tls` refutes `NeverInTheClear`. The
invariant says of each client that lookup, socket, session, retry deadline and
TLS session are in step (`InStep`), and of the strategy that `m_index` points at
the pool in use, that the pools behind it are aside, and that in use of a
reserve only the first pool is tried besides. The difficult part is `Quiet`:
`connect()` finds no old socket because, while the pool of `m_index` has no
session, the remains of dropped clients are gone or the next close callback will
not go on to another pool (`Harmless`: it is the last one, or it is the first one
and its failures are not enough). The refinement maps the clients to
`LinkState`; the steps of a client that the strategy is not told about are
stutters, the rest are matched handler by handler (`LinkChanges`).

The second, `WeakInv`, assumes nothing and gives `TypeCorrect` and
`OnlyDroppedAreOverrun`. A client that is not connected has no socket, one that
waits for its retry no open one (`Steady`); with `NoClosePending` the retry of
`tick()` therefore finds none, although lookups may end at any time. The pools
behind `m_index` were dropped or never connected (`Waiting`), so the failover, the
only other caller besides a restart, meets a socket only at a dropped one. Each
operation of `Client` has a lemma that it `Keeps` this: no lookup over a socket,
nothing put aside comes back.

`SharesProofs`, for any number of shares, sessions and pings and any kind of
pools: `CreditedRight`, `CountedOnce` and `OwnSession`. `LinkOk` is the invariant
of a client: after a login, what it waits for is on the wire, an id is on the
wire once and below the next one, and over a list of pools a share on the wire
is of the session that is up. `CountedOnce` needs to know where a share is:
in `Spread` every share is in one queue, with one bundle on the thread pool,
waiting for its answer, or counted, and in no two of these.

`NoncesProofs`, for any workers, block sizes, nonce space and number of jobs.
`BlocksFit` follows from the types and from what `Nonce::next` computes:
`FetchedFacts` (the `CHOOSE` that stands for its loop has a value, by the least
number principle), `BlockFits` (division with remainder). It rests on the masks
that `Job::nonceMask()` can return, in `NonceAssumption`: the space is shorter
than a word or ends at the end of one. The invariant behind `UniqueNonces`:
nonces of the pool's last blob that were given are below the user
counter, those of a fee job's blob below the fee counter (`Below`); whenever a
counter is about to start again (`ResetDue`, now or in the callback of the
dataset, or decided by `setJob` for the job it is about to store) none of that
blob was given; and in a fee round the id remembered in `userJobId` is that of
the last user job unless none of its blob was given. `FitInv` adds that a blob
is the user's or the fee's wherever a copy of its job is, so a worker with an
old copy still counts on the right counter.

`DaemonProofs`, for any number of blocks and of requests under way:
`NeverStuck`, and `ConnectedPolls` (a connected client has its repeating timer).
`NeverStuck` is about `Going`: a timer, an early ZMQ state, or a request that
leads on. Not every request does: the answer to a height request that tells
nothing new leaves a client without a timer where it was, so `Going` names a
request for a template, or a height request while neither a previous hash nor a
template asked for is known, which must make the client ask. Every step but a
failed lookup keeps it (`HasCause` is `Going` in the form of the lemmas). `ServedInTime` and `WantedInStep` tie the answers to the chain and the
socket state to the owner's wish. `SentBag` and `TakenBag` say what a request
more or less does to the bag of requests.

`SupervisorProofs`, for any routes: `OneMiner`, `NothingLeft` and `FeeSpaced` for
both supervisors, with deaths, signals, kills and restarts. The inductive
invariant gives the places of the loop where each child may live
(`ChildrenInStep`), that the flags of the supervisor agree with the system
(`FlagsInStep`), that each program stays in its own loop (`ModeInStep`), and
`PaidIsLater`: after a fee round and before time passes the next round is later
in memory, except in the place where it is about to be written, and once it was
written (`paid` = "disk") a start finds it later or finds no file.
`FeeSpaced` follows because a round of `--auto` starts only at the top of the
loop when the deadline has come.

Type invariants are proved in all of these modules. The invariants were checked
by TLC on the instances of the runs before they were proved.

Only model-checked: liveness (fairness is out of the prover's reach), with it the
threads' obedience in `Mining` (`RestIsRest`, `StopEnds`, `MinerResumes` beyond
its safety half) and `FollowsChain` in `DaemonClient`. Every invariant and every
action property of the runs is proved, under the assumptions named above.

## 5. Not modelled

* `Client`: the contents of messages, SOCKS5, the ping schedule, extranonces,
  what follows a socket that was overwritten, and `client.reconnect`, which
  leaves the old socket open.
* The name lookup as a shared queue and cache; each client has its own lookup.
* The xmrig-proxy path of `DonateStrategy`: unreachable, a fee route always
  exists.
* Log lines, statistics, API answers, parsing of config.json.
* In `Mining`: algorithms other than RandomX, failing allocations and
  self-tests, and the shutdown of the process. Nonces and automatic pauses are
  modules of their own, which are not composed with `Mining`.
* In `Shares`: the proxy's and the benchmark's results, and how a share is
  checked.
* In `Supervisor`: the signature of a route, the quicker refresh while the
  child's pool is away, and what the child mines.
* `DaemonClient`: the older node API, whose `/getinfo` is handled as `/getheight`
  is, and what a template holds. `SelfSelectClient`, `EthStratumClient` and
  `AutoClient` are left out.
* Hash functions, OpenCL, CUDA and vendored code. They are by far most of the
  repository: of its 444 thousand lines some 28 thousand are in the parts with
  control of their own (`base/net`, `net`, `core`, `autoswitch`, `riecoin`,
  `backend/common`, `crypto/rx`, `crypto/common`), and much of those is parsing,
  formatting, logging and platform code. The share of all lines that a model
  translates is small for that reason.

## 6. Plan

1. `SelfSelectClient`: the template callback may find a newer job than the one
   it was asked for.
2. `DnsBackend`: the shared queue and cache, re-entered from a listener.
3. `client.reconnect` in `Client`, and what follows a lost socket (`Beyond`).
4. `EpicWatch`: how the lifetime of connections is learned
   (`Client::epicLearn`, `epicWatch`).
5. `Mining` with `Nonces`: one module in which the threads reserve nonces while
   the dataset is rebuilt.
