# EduTokens: a verification of the coordinator, its ledger and the mining pools

EduTokens is a small proof-of-work chain for university tokens. The university
(the *authority*) issues tokens to students with `EARN` transactions, students
pay vendors with `SPEND`. One coordinator process, the NCT, takes transactions
over HTTP, builds blocks, has them mined by pools and workers over RabbitMQ and
keeps the chain in Redis. This directory holds TLA+ models of that system, the
TLC runs that check them, and proofs checked by TLAPS.

All paths below are relative to `src/pilar2/` unless they start with `src/`.

## 1. The system

| Component | State | Operations | Talks to |
|---|---|---|---|
| HTTP handlers (`nct/nct.py`) | none of their own | `POST /transaction`, `GET /account`, `GET /balance`, `GET /chain`, `/status`, `/metrics` | pool of transactions in memory, Redis |
| Block loop (`nct/nct.py: block_loop`) | the block it is working on | accumulate, drain, create, gate, publish, wait, retry | `NCTState`, Redis, RabbitMQ |
| Result loop (`nct/nct.py: result_loop`) | the result it holds, unacknowledged | poll, judge, save, abort, complete, ack/nack | `NCTState`, Redis, RabbitMQ |
| `NCTState` (`nct/state.py`) | pool, current block, `_mining_active`, `block_mined` event, chain height | setters and snapshots, each under its lock | shared by the three threads above |
| Pool registry (`nct/state.py`) | pools with a recent heartbeat, pools that reported no workers, whether any was ever seen | heartbeat, report, timeout, `all_pools_dead` | result loop writes, the gate of the block loop reads |
| Chain store (`storage/chain_store.py`) | Redis: chain, balance index, nonce index, discarded sets, pending list | `save_block_atomic`, `rebuild_state_from_chain`, `trim_pending_txs`, ... | used by all threads and the boot |
| Boot (`nct/nct.py: main`, `ensure_genesis`) | none | genesis or rebuild, restore of the pending list, start of the threads | Redis |
| Transactions and blocks (`shared/block.py`) | values | `validate`, `fingerprint`, `compute_hash`, `verify_result` | everywhere |
| Pool coordinator (`pool/pool.py`) | workers, current task and its id, generation | task intake, partition, result check, monitor, heartbeats | RabbitMQ |
| Worker (`worker/worker.py`) | current task, stop event | abort handling, heartbeats, result publication | RabbitMQ, `MinerService` |
| Miner (`miner/miner.py`, `miner/cpu_miner.py`, `src/pilar1/md5_range_4060/`) | the process and its output; on the GPU a flag, a nonce and a digest in device memory | cancellable search over a range | the worker; a process of its own with the threads of a GPU |
| Broker helpers (`broker/`) | connections | topology, publish, partition, abort, reconnect | RabbitMQ |

Interaction. A handler checks a transaction against the *confirmed* nonce,
appends it to the pool and then to the pending list in Redis: two steps between
which anything may happen. The block loop takes a snapshot of the pool, sorts
it, decides each entry, removes what it decided from the pool, trims the pending
list and builds a block on the newest one. It makes the block current (flag on,
event cleared, under one lock), publishes it and waits on the event; when the
wait expires it goes round, through a gate that holds it back while every pool
is dead. The result loop takes results from the queue, looks at the flag under
one acquisition of the lock and at the current block under another, saves the
block with its indexes in one `MULTI/EXEC`, broadcasts an abort and only then
clears the flag and sets the event. A message is acknowledged last.

A pool gets a copy of every task, cuts its range into one sub-range per active
worker and puts the sub-tasks into one queue that its workers share. A worker
mines one sub-task at a time, publishes what it finds to the pool and only then
acknowledges; the pool checks the result against its current context, forwards
it to the NCT, acknowledges and clears the context. Each task starts one more
monitor thread, which compares the number of active workers with the number the
task was cut for and, when it is lower, publishes the whole range again. The main
thread and the monitors share the context under one lock, and the event, the
generation and `_original_worker_count` without one.

A worker's search is a process: `mine_cancellable` starts it, polls it, reads the
broker's messages between two polls and kills it on an abort or a timeout. On a
GPU each thread steps through the range with the stride of the grid; the first to
find a solution claims a flag by an atomic exchange and then writes nonce and
digest, which the host reads when every thread has returned.

What is hard: two loops and any number of handlers over shared state with locks
that are released between a check and its use; an event that stays set until
somebody clears it; answers that are late, lost, repeated, wrong or from an
earlier block; failed calls between two effects; and a crash between any two
steps, with Redis and the queues surviving; threads of a GPU that find solutions at
once, and an exit code that does not tell failure from exhaustion. `PROJECT.json` lists each hazard at
its line.

What makes it correct, per component:

* ledger: nobody spends what they have not earned, no nonce is used twice, only
  the authority issues (`TokenLedger`);
* chain store: the chain is well linked, the indexes say what the chain says;
* the two loops: the block saved is the block awaited, on an answer to it; a
  published block is mined in the end;
* handlers, drain and boot: a transaction answered with 201 is waiting, on the
  chain or reported as discarded; a due transaction is decided in the end;
* pools: whatever dies, is published again or delivered twice, the nonces that
  solve the current block stay within reach (`SolutionKept`), the NCT gets one
  answer per task, in order, and only solutions (`ForwardedOnce`, `AnswersInOrder`,
  with the solutions the abstract `MiningService`), a current block is watched
  (`Watched`) and the NCT's block answered in the end (`Answered`);
* drain: what is reported as discarded has a reason (`DiscardsJustified`), and a nonce
  that the index has passed was mined or reported (`NoncesAccounted`);
* miner: what it reports solves the block (`ResultSolves`), "no solution" is true of
  what it was to search (`NoneMeansNone`), and the search ends (`Ends`).

## 2. Modules

| Module | What it is |
|---|---|
| `Ledger` | transactions, blocks, balance and nonce indexes, block validation, drain order, `pending_nonce`: pure operators |
| `TokenLedger` | the abstract specification: a list of transactions that only grows and stays sound |
| `PoolRegistry` | which pools the coordinator counts alive: `state.py`'s registry, as actions on its variables |
| `NCT` | the coordinator: handlers, both loops, `NCTState`, Redis, the queues, faults, crash and boot; it extends `Ledger` and `PoolRegistry`; properties |
| `MCNCT` | small instances of `NCT` for TLC: one authority, one student, one vendor |
| `Partition` | how `publish_tasks` cuts a range into sub-ranges: pure operators |
| `Worker` | the workers of a pool with the miners they run, and the queues between them and their pool |
| `Pool` | the pool coordinator composed with its workers (it extends `Worker` and `Partition`): main thread, monitor threads, registry, faults; the NCT is its environment; properties |
| `MiningService` | the abstract specification of a pool as the NCT sees it: open tasks, and answers to the oldest |
| `MCPool` | small instances of `Pool` |
| `Miner` | one search: `mine_cancellable`, the GPU program with its threads and device memory, or the CPU program; properties |
| `MCMiner` | a grid of three threads, three ranges and words of three bits |
| `LedgerProofs` | lemmas about `Ledger`: types of the indexes, existence and steps of the running balance, the pending nonce, the drain's order |
| `NCTProofs` | type correctness, the agreement of the two loops, the pool and the drain's turns |
| `ChainProofs` | the chain is valid |
| `IndexProofs` | the nonce index and the balance index are what the chain says |
| `LossProofs` | nothing that was answered with 201 disappears |
| `PromiseProofs` | no nonce is applied twice, nobody overspends, discards are justified, no nonce is missing, the chain implements `TokenLedger` |
| `MinerProofs` | types, the reported result and "no solution" of the miner |
| `PoolProofs` | the sub-ranges cover the range and are disjoint; all invariants of the pool; the pool implements `MiningService` |

### State and code

| Variables of `NCT` | Code |
|---|---|
| `chain`, `balance`, `nonceOf`, `discarded`, `pending` | the keys of `chain_store.py` |
| `tasks`, `results` | tasks some miner can still answer; the results queue |
| `pool`, `job`, `active`, `mined`, `height` | `_tx_pool`, `_current_block`, `_mining_active`, `block_mined`, `chain_height` |
| `bpc`, `blk` and `snap`, `left`, `expected`, `overlay`, `valid`, `dropped` | the block loop: where it is, its block, the locals of `drain_pool_validated` |
| `rpc`, `held` | the result loop: where it is, the unacknowledged message |
| `http` | each running request: checked, to be added, to be saved |
| `proc`, `walked`, `applied`, `credited` | up or down; blocks rebuilt so far in this boot, transactions of the next one, and whether the amount of the one after those is added already |
| `space` | the local `nonce_space` of the block loop |
| `lastSeen`, `noWorkers`, `everSeen` (`PoolRegistry`) | `_pool_last_seen`, `_pool_no_workers`, `_pools_ever_seen` |
| `accepted`, `stamp`, `used` | history of 201 answers; a clock; how much of each bound is used |

A step ends wherever another thread, a failure or a crash can be noticed: at
each Redis call, each acquisition of a lock, each publish, each wait. The decision
on one transaction of the drain is a step as well, because the funds index is
read there. The nonce index, which the code reads when it comes to a sender, is
read with the snapshot: nothing writes it while the drain runs (a result is
saved only while a block is active, which `NCTProofs!Agree` shows is never
during a drain).

The pool, a list, is a set of transactions with their places; a place orders
entries exactly as the list does. Hashes are collision free: `prev` is the place
of the block whose hash is kept, and a fingerprint is the pair of index and
creation time (`Task`). A transaction is the record of the signed fields, so two
posts of the same content have the same `tx_id`. `BLOCK_SIZE` and `BLOCK_TIMEOUT`
only delay a drain: the model may drain as soon as there is one transaction.
`CheckActive` and `Verify` are two steps because the code takes the lock twice.

An entry of the registry that is too old is deleted in the code when the registry is
next looked at, and before it is counted; in the model it is gone as soon as it is
too old (`PoolTimesOut`), which no caller can tell apart. The result loop reads the
registry's messages when it has no result in hand (`rpc = "poll"`).

A range is `0 .. space - 1`. `CreateBlock` starts with `NonceSpace`, each timeout doubles
it up to `MaxNonceSpace`, and `Publish` gives the block to the miners as a task that can
be answered only if `FirstSolution`, the least nonce that solves it, lies inside. In
the code a search starts again from nonce 0 after each timeout; so does this one.

Miners and pools are an environment. `Solve` lets any task ever published and not
retired be answered at any time, by its last holder or by one of several (an abort
may not reach them, and several pools work on the same task); so the answer to a
save that failed may be the last one, and only the retry brings another. `Lose` ends
the current task without an answer or with a wrong one. Which of a pool's messages cause this
is not the coordinator's business.

`Timeout` says when a wait may expire. Normally it does when no answer to the
block is left anywhere (`Unanswered`); `MaxEarlyTimeouts` counts the waits that
expire although one is on its way. This separates the ordinary retry from the
race that the `late_answer` run shows.

### State and code of a pool

| Variables of `Worker` and `Pool` | Code |
|---|---|
| `tasksQ`, `resultsQ`, `registrations`, `inbox` | the queues `pool.<id>.tasks`, `.results`, `.registrations`, `.inbox`; the pool's unacknowledged message is the head of its queue |
| `worker`, `control` | `_do_task` of each worker with its unacknowledged sub-task and `_aborted`; abort messages in its exclusive queue |
| `current` | `_current_block_index`, `_current_fingerprint`, `_current_task_id` |
| `ppc`, `count` | the main thread: between which effects of a handler it is, the count it has read |
| `original`, `armed`, `monitors` | `_original_worker_count`, `_monitor_active`, the monitor threads with their locals; `_monitor_generation` is their number |
| `seen`, `registered` | workers with a recent heartbeat, `_registered_workers` |
| `latest`, `out`, `answered`, `reports` | the NCT: its last task, results it was sent, how many it has read, `pool_no_workers` |
| `round`, `abandoned`, `faults` | history: publications so far, blocks whose solution a miner gave up, faults of each kind so far |

A task is `[id, index, stamp]`: its identifier, its height and its fingerprint. A
sub-task remembers the task it was cut from (`of`), of which the code only carries
height and fingerprint; its identifier, a fresh UUID in the code, is the number of
the publication and of the share. A nonce solves the fingerprint it was searched
for and no other. `publish_tasks` is one step, because its messages go to the tail
of a queue that everybody else only takes from at the head; `PublishFails` is the
publication that stops after any number of them. Everything a monitor reads or
writes without a lock is a step of its own: its checks, its snapshot, its count,
its publication, its write of `_original_worker_count`. The main thread's three
effects after the context is set (publish, count, new generation) are steps too,
with the monitors between them. Bumping the generation and setting the event are
one step: a monitor that wakes between them ends, as it does after both.

Heartbeats are modelled by what they do to the registry: one may be read whenever the
main thread is idle, also one that a worker left in the queue when it died, and an
entry expires when its worker is down or, as a fault, when its heartbeats are late. A control message may be read
while the worker mines or is idle, in any order. RabbitMQ puts an unacknowledged
sub-task back at the head of the queue when its consumer is gone.

### State and code of a miner

| Variables of `Miner` | Code |
|---|---|
| `engine`, `range`, `solutions` | which program runs, its arguments, the nonces that solve the block (0 up to the end of the range) |
| `host`, `printed` | `main()` of the program, what it wrote to its output |
| `thread`, `flag`, `foundNonce`, `foundHash` | each GPU thread with its nonce; `d_found`, `d_result_nonce`, `d_result_hash` |
| `abort`, `answer` | the worker's `abort_event`; what `mine_cancellable` returned (`result`, `none`) or raised (`error`) |

Each access of a thread to the flag or the result is a step. A digest is named by
the nonce it is the digest of, so a result with the digest of another nonce shows.
Nonces wrap at `Word`, the number of values of a `uint64_t`; `MinerAssumption` says how
far below it the ranges stay, which `MAX_NONCE_SPACE` ensures. The poll interval is
left out: an exit, an abort and the time limit may come in any order.

One range is not below it. `publish_tasks` writes the share of a worker that gets no
nonce as `[0, -1]`, and the GPU program reads its arguments with `strtoull`, for which
`-1` is the largest `uint64_t`: it does not refuse the share, as its test `min > max`
suggests, but searches every nonce there is (`Uint64`, `Last`), until it finds one
or the service's time limit comes. The CPU program reads `-1` as it is and finds
nothing to do. So an empty share may be answered, and with a nonce that is in no
share (`SearchesAll`; `Finds` in `Worker`). The answer solves the block all the same,
and the pool and the NCT check no more than that.

## 3. Runs

The `nct_...` runs and the first five violated ones use `MCNCT`, the `pool_...` runs
`MCPool`. Transactions: `SmallTxs` is one EARN of 2 to the student,
a SPEND of 2 the EARN covers and a SPEND of 1 with the next nonce that is covered
only if something is counted twice; `BadTxs` are requests the handler must refuse;
`PairTxs` are two EARN of the authority and one SPEND, for the runs with
restarts; `RivalTxs` has two EARN with the same nonce, of which one must be
discarded, for the liveness run. Three posts of three transactions include every double post, every
order of arrival, gaps that are filled later, and up to three blocks.

| Run | Bounds that matter | Shows |
|---|---|---|
| `nct_core` | 2 handlers, 3 posts, 1 fault: a lost or wrong answer, a failed save or a lost ack | `TypeOK`, `ChainValid`, `NoReplay`, `NonceIndexExact`, `BalanceIndexExact`, `Solvent`, `NothingLost`, `NoncesAccounted`; `PersistsAwaited`, `DiscardsJustified`; the chain implements `TokenLedger` (`KeepsPromise`) |
| `nct_restart` | 2 posts, 2 crashes, 1 pool that falls silent or reports no workers | `ChainValid`, `NoReplay`, `NonceIndexExact`, `PersistsAwaited` across crashes at every step, between any two calls of the rebuild too |
| `nct_live` | 2 posts, 1 fault of any kind but a crash, a range that must grow twice, fairness | `PersistsAwaited` with late answers and failed aborts too, `MiningEnds`, `MineableDecided` |
| `restart_balance` | 1 crash | violated: `BalanceIndexExact` |
| `late_answer` | 1 early timeout | violated: `ChainValid` |
| `dead_pools` | 1 pool that falls silent or reports no workers | violated: `NothingLost` |
| `crash_loses` | 1 crash | violated: `NothingLost` |
| `discarded_mined` | 2 posts, no crash | violated: `DiscardedNotMined` |
| `pool_tasks` | 2 workers, 2 tasks, 1 interruption or restart of the coordinator | `TypeOK`, `ForwardedOnce`, `AnswersInOrder`, `SolutionKept`, `Watched`; the pool implements `MiningService` (`KeepsService`) |
| `pool_faults` | 2 workers, 1 nonce, 1 task and 1 retry, 1 fault of any kind, fairness | `SolutionKept`, `Watched`, `Answered` |
| `pool_overlap` | 2 workers, 1 task, 1 death | violated: `NoOverlap` |
| `miner_search` | 3 threads, 3 ranges, nonces of 3 bits, every set of up to 3 solutions, fairness | `TypeOK`, `ResultSolves`, `NoneMeansNone`, `Ends` |

Why the bounds are enough: a hazard of the two loops needs a block, an answer
that outlives it and a second block, which two or three posts give; each fault
occurs once because its effect does not depend on its number, except crashes,
which occur twice so that a second boot meets a half-finished first one.
`MaxFaults` bounds the faults of all kinds together: the state spaces of faults that
do not meet would only multiply. Faults that do meet are in `nct_restart` (crashes
and pools) and, without any bound, in the proofs. Two
results in the queue are enough for a stale one in front of a good one.
`CHECK_DEADLOCK` is off because the bounded system stops when its posts and faults
are used up. The handlers of `nct_core` are interchangeable (`HandlerSymmetry`).

Nonce ranges matter where something waits for an answer: `nct_live` starts with one
nonce, doubles to two and stops at three, of which the last solves the block. The
other runs search a range that holds a solution at once. Pools matter to the gate:
one pool in `nct_live`, `nct_restart` and `dead_pools`, none in the others, where nothing is
ever known of one and the gate stays open.

Bounds of `miner_search`. Four nonces for three threads: one of them takes a second
step, two do not. Two nonces for three threads: one starts beyond the end. The share
`[0, -1]`, of which the GPU makes all eight nonces there are: its threads wrap round.
The solutions are any set of up to three nonces, none, one of each thread and some
outside the range included, so every number of threads races for the flag.

Bounds of the pool runs. Three nonces of which the last, the remainder of the
division, solves a block: the shares of two workers have different sizes and only
the last one answers. Two tasks are a next block, a retry of the same block with
another identifier, or another block of the same height after a restart of the
NCT, at any moment, so results and monitors of the first meet the second; a
result that answers the wrong fingerprint, a second answer and a monitor of an
older generation that still publishes all occur. After two publications no monitor
takes another turn (`MaxRounds`), though one under way may still publish: without
that bound the queue grows for ever (see below). `Starts` lists which workers are
known at the beginning: all of them, in every run; a death, an expiry or a restart of
the coordinator makes one unknown again, until a heartbeat or registration is read.
Interruptions are a failed publication, forward or ack; a restart is a death of the
coordinator, which forgets the block and its workers.

In `pool_faults` one nonce is shared out to two workers: the first share is empty
(`[0, -1]`, which a GPU answers too), the second has the solution. Once a worker is
expired, or the coordinator has started again and is still to read its heartbeat or
registration, the task is cut for the other alone; there is no fallback count, so a
coordinator or a monitor that counts nobody reports that nobody is there. The shares of
different sizes are in `pool_tasks`.

What a miner gives up is gone: `SolutionKept` exempts a block whose solving sub-task
was given up (`abandoned`), and a pool that told the NCT it has nobody to mine
(`reports`). `Answered` exempts only the report: it is about the NCT's last block,
`latest`, which neither a coordinator that starts again nor a worker that gives up
touches. After either the block is answered only because the NCT publishes it again
(`NctRetries`), to a coordinator that has to learn of its workers once more. The NCT
retries whenever its wait expires; so that the state space stays finite, the retries
beyond `MaxTasks` are one for each fault that needs one, up to `MaxRetries`, and come
when the pool is quiet. Quiet means nothing is left to wait for, and is where the block
would stay unanswered for ever.

Fairness of `pool_faults`: the main thread handles what is ready, each worker goes on
and is started again when it died (`restart: unless-stopped`), and the NCT publishes
its block again when it gets no answer (its wait has a timeout). Monitors, heartbeats,
registrations, new blocks and faults get none: `Answered` does not need a monitor,
because the broker, not the monitor, hands a dead worker's sub-task on.

Fairness of `nct_live`: each loop is a running thread (`WF` on its steps: the
steps of one loop exclude each other, or differ only in data). Of the miners
that hold the current task one answers in the end, if its range holds a solution
(`SF` on `Solve`: tasks are lost at most `MaxLosses` times, and a retry renews it). Of the
pools one sends heartbeats again (`SF`: the result loop reads them only between two
results). Handlers, faults and timeouts of pools get no fairness; the run has no
crash, under which nothing could be promised to a client. `MineableDecided` promises
nothing once a pool has fallen silent, because of what `dead_pools` shows.

Fairness of `miner_search`: the process and each thread of the GPU run, and the service
polls. Nobody has to abort, and no time limit has to expire, for the search to end.

### What the violated runs say of the code

1. `restart_balance`. The rebuild at boot is called idempotent and "from scratch".
   It adds to the balance index what the index already holds.
2. `late_answer`. The duplicate guard does not cover an answer that is being
   saved when the wait expires: the block is made active again and saved twice.
3. `dead_pools`. `block_mined` is still set from the block before when the gate
   waits on it, and the block loop takes an unpublished block for mined.
4. `crash_loses`. Drained transactions leave the pending list before their block
   is saved, so "survives a restart" does not hold for them.
5. `discarded_mined`. A request that is sent twice is admitted twice. The first copy
   is mined; the second is below the expected nonce and is recorded as discarded under
   the same `tx_id`. The record, kept so that clients learn why a transaction "never
   appeared on-chain", then names one that did, and the client guide tells the client to
   send it again. The 409 for a transaction that is already in the pool, which the
   guide promises (line 186), does not exist.
6. `pool_overlap`. The monitor's abort names the NCT's task, the workers know the
   identifiers of sub-tasks only: nobody stops, and the range that is published
   again is searched twice. For the same reason the abort the NCT sends after an
   answer, which names the sub-task of the answer, stops no other worker of a pool.

Three limits that no run refutes a sentence about, and that are worth knowing:

`pending_nonce` of `GET /account` is what its code says, the first nonce from the index
on that no transaction in the *pool* bears (`PendingNonceShown`). While a block is being
mined its transactions are in no pool, so the number may be one they have taken,
which `doc/CLIENT_MULTI_TX_GUIDE.md:44` does not say.

A SPEND that cannot be paid uses its nonce up for the drain. If a later nonce of the same
sender is in the block, the index passes both, and the nonces on the chain have a hole,
although `doc/CHANGELOG_MULTI_TX.md:99` speaks of strictly sequential ones. `NoReplay`
holds all the same; `NoncesAccounted` is what is left of the sequence: each hole is a
discarded transaction the client can look up.

A limit of the code that the bound `MaxRounds` hides: `_monitor_active.wait` returns at
once while the event is set, so a monitor does not pause between turns. As long as
no heartbeat has been read and the fallback count is positive, the count (0) is
below the original at every turn, and the range is published again at every turn
although nobody died.

`NonceIndexExact` holds in `nct_restart`, where `BalanceIndexExact` would not: SET
is idempotent where INCRBY is not, and walking the chain in order repairs even
a rebuild that was interrupted (the mutant `WalkBackwards` breaks it).

## 4. Proofs

`NCTAssumption` and `LedgerAssumption` are all that is assumed of the constants:
the bounds are naturals, the transactions are records over the accounts, at
least one of them is well formed. Accounts, transactions and handlers may be
any sets, so the theorems cover every number of them.

* **`NCTProofs!TypeCorrect`**: `Spec => []TypeOK`. One lemma per group of actions. It
  rests on `LedgerProofs`: the recursive function `RunningBalance` exists and is
  an integer at every position, which needs that its equation has a solution
  (`RecursionExists`, by the least position where it would fail).
* **`NCTProofs!PersistsAwaitedCorrect`**: `Spec => PersistsAwaited`, without any bound on
  faults. The invariant `Agree` relates the loops: while a job is active it is the
  block loop's block, the block loop is between gate and wait and the event is
  clear; once past the duplicate guard the job stays active until the result loop
  itself completes it; what is about to be saved was checked against that block.
  So the second locked read is harmless although the flag was read before it.
* **`LedgerProofs!PendingNonceIsFirstFree`, `NCTProofs!PendingNonceShown`**: the pending nonce that
  `GET /account` shows is the first from the index on that no transaction of the account
  in the pool bears. (It need not be free of *every* undecided transaction: the drained
  ones are in no pool.) The code counts up until one is free; the model searches a window
  as wide as the pool is large, and the proof is that some nonce of the window is
  free (a map from the nonces of the window to the entries that bear them would be
  an injection into a smaller set). `PoolInv` says that the pool is finite.
* **`NCTProofs!DrainTakesTurns`**: while the drain has something left, exactly one entry
  has its turn. `PoolInv` gives the entries places of their own, which makes `Before`
  total on them (`TurnOrder`), and a finite set that is not empty has a first
  (`SomeTurn`). So the sort decides everything: no ties, and no state in which the drain waits.
* **`ChainProofs!ChainValidCorrect`**: with `Orderly` (no early timeout, no failed abort)
  `Spec => []ChainValid`, for any number of crashes, dead pools, failed saves, lost
  acks, stale and wrong answers. `ChainValid` is not inductive; `ChainInv` adds: every
  block stands on its predecessor (`ChainLinked`); no answer in the system is
  younger than the clock (`Stamped`); an unpublished block extends the present
  chain and nobody holds an answer to it (`BlockFresh`); an active block is not yet
  saved unless the result loop is about to complete it, and an answer to it is
  acknowledged only when it is mined (`SavedOnce`). `late_answer` shows that
  `Orderly` cannot be dropped.
* **`IndexProofs!NonceIndexCorrect`**: `Spec => []NonceIndexExact`, with no assumption on
  faults or crashes. `Indexed` says that an index is right up to a block of the chain: a
  sender with a block so far has the last nonce of the latest one plus one, a sender
  without any block on the chain has 0, and of the others nothing is said.
  `NonceInv` says so of all blocks while the threads run, and in a rebuild of the blocks
  walked so far and of the transactions gone over in the next one (`PartIndexed`, because
  each `SET` is a call of its own): whatever an interrupted rebuild left is overwritten when the walk
  comes to a later block of its sender. A saved block extends both sides alike
  (`RebuiltAppend`), also the same block a second time.
* **`IndexProofs!BalanceIndexCorrect`**: with `NoCrash`, `Spec => []BalanceIndexExact`. The
  index is written together with the chain; `restart_balance` shows what a crash does.
* **`LossProofs!NothingLostCorrect`**: with `Reliable` (no crash, no pool that falls silent
  or reports no workers), `Spec => []NothingLost`, whatever answers are late, lost or
  wrong and whatever saves, aborts and acks fail. `NothingLost` speaks of answered
  requests only; `LossInv` adds the requests about to be answered, that the gate stays
  open, and that the event is set in a wait only when the block is on the chain. The
  main lemma is that no step takes a transaction out of the places it can be in
  (`SafeKept`). `crash_loses` and `dead_pools` show that neither part of `Reliable` can go.
* **`PromiseProofs!NoReplayCorrect`**: with `Orderly`, `Spec => []NoReplay`, for any number of
  crashes. The drain compares nonces with an index that is older than the block, and
  `OrderInv` carries its verdict to the moment of saving: what is drained (`DrainFollows`)
  and then the unsaved block (`BlockFollows`) go on from the index as it is now, in
  the order of the list. With `NonceInv`, every nonce on the chain lies below the index
  (`ChainBelowIndex`), so a saved block keeps each account's nonces growing
  (`AppendOrdered`). A block that is saved twice, as in `late_answer`, breaks this.
* **`PromiseProofs!SolventCorrect`**: with `Orderly` and `NoCrash`, `Spec => []Solvent`. `FundsInv`
  says that the index as it is now covers what is drained, and then the unsaved block:
  no prefix of the list takes an account below zero (`Covers`). The drain's overlay is
  the sum of what it accepted, and saving the block applies exactly that. After a
  restart the balance index is too high (`restart_balance`), hence `NoCrash`.
* **`PromiseProofs!KeepsPromiseCorrect`**: with `Orderly` and `NoCrash`, `Spec => KeepsPromise`: the
  refinement, every step of it. Saving a block is `TokenLedger`'s `Extend`, by the block's
  transactions all at once (`ChainTxsAppend` unfolds the recursion of `FlattenSeq`), and every
  other step a stutter. `IssuedInv` follows the authority's check from the POST to the
  block; `LedgerInv` says that the whole list is one the indexes are right for (`Backed`),
  which appending keeps (`BackedLonger`) and which is a sound ledger (`BackedIsSound`).
* **`PromiseProofs!DiscardsJustifiedCorrect`**: `Spec => DiscardsJustified`, with no
  assumption. A record has one of three reasons: another transaction used the nonce up
  (`NonceTaken`), the index and the block could not pay (`Unfunded`), or it is a second
  copy of one that is mined or in the block (`Repeated`, the case of `discarded_mined`). The
  record is written some steps after the drain decided, when the block has got more
  transactions. `TurnInv` says that the turns come in the order of `Before` and that
  no entry that had its turn bears the nonce expected now: so no transaction that is
  accepted later is a copy of one with an earlier turn, and what the block held at the
  turn of a refused SPEND stays a prefix of the block (`CutStays`). `DroppedInv` gives
  every entry whose nonce is passed a reason as soon as its turn is over (`Settled`), so
  that a second copy of a *refused* transaction has the reason of the first. A nonce
  below the index has an owner on the chain (`NonceOwner`, from `NonceInv`), which is either
  another transaction or the mined copy. `Overlaid` makes the overlay the effect of the
  prefix. The indexes do not move before the record is written: by `Agree` a block is
  saved only while the block loop waits.
* **`PromiseProofs!NoncesAccountedCorrect`**: `Spec => []NoncesAccounted`, with no assumption.
  `AccountedInv` says that no nonce is missing (`Filled`) before one on the chain, before
  the index, before what the drain expects next and before one of the block; what the
  drain or the block holds counts where it is not decided yet. Recording moves a
  transaction from the drain to the decided ones, creating the block from the drain to
  the block, and saving it from there to the chain; saving it twice or rebuilding the
  index from the chain adds nothing.
* **`MinerProofs!MinerTypeCorrect`, `MinerResultSolves`, `MinerNoneMeansNone`**: for every grid,
  range, word and set of solutions, the share `[0, -1]` included. `MinerInv` adds to the
  types: the flag is up exactly when one thread has claimed it, that thread holds a
  solution and has written what its place says (`Claims`); each thread is at a nonce of
  what is searched (`Positions`); and, until the flag is up, every solution of the range
  lies ahead of a thread of its residue, or, in a search of all nonces, no thread has
  ended (`Covered`), so when all are done none is left.
* **`PoolProofs!PartitionCovers`, `PartitionDisjoint`**: for every range and every number of
  workers, also more workers than nonces, the sub-ranges are disjoint and their union
  is the range. They rest on the properties of `\div` (`Division`) and on
  `ProductMonotone`.
* **`PoolProofs!PoolTypeCorrect`**: for every finite set of workers. `InHand` is what the types
  need: from the count of the workers to the ack of the task, that task is the mining
  context and the head of the inbox, and while a result is being acknowledged it is at
  the head of its queue. So no step takes the head of an empty queue.
* **`PoolProofs!WatchedCorrect`**: `WatchInv` adds to `Watched` the moment between an answer and
  its ack, and that an armed event has a monitor. A monitor ends only if it is disarmed, not
  of the newest generation, without a context, or after a report; while a task is in
  the main thread's hands its monitor is still to be started.
* **`PoolProofs!ForwardedOnceCorrect`**: `ForwardedOnce` counts answers, and is far from
  inductive. `OnceInv` counts, for each task of the NCT, the answers together with what
  may still be answered: the context, unless it has just been answered, and the message
  in the inbox. Each step moves one of these into another; only a lost connection or a
  restart makes one more, and each is counted (`Mishaps`). That a task is not met twice
  needs that the ids in the inbox increase (`InboxInv`) and none is younger than the
  NCT's last (`BlockInv`, `OutInv`).
* **`PoolProofs!AnswersInOrderCorrect`**: `OrderInv` says that the context is none younger
  than the tasks in the inbox, `OutOrder` that what was answered is none younger than
  either. This rests on the broker's giving an unacknowledged task back at the head
  of its queue, which the prefetch of one makes it do.
* **`PoolProofs!KeepsServiceCorrect`**: `Spec => KeepsService`, the refinement of `MiningService`.
  A task is open while it is in the inbox or is the context. Publishing a task is `Ask`,
  `Forward` is `Answer` (by `OnceInv` for the number of answers and `OrderInv` for the oldest
  open task), a fault of the main thread is a `Mishap`, and every other step closes
  tasks or is a stutter: only the NCT opens one (`OpenGrows`, `OpenShrinks`). The steps
  of workers and monitors are invisible to the NCT. `NCT` assumes less of its miners
  (several pools may answer, in any order, also wrongly), so a pool that keeps this
  promise is one of the environments `NCT` allows (read off the two modules, not proved).
* **`PoolProofs!SolutionKeptCorrect`**: as long as some nonce of the range solves a block.
  `KeptInv` counts on a sub-task only if it is `Safe`: it holds a solution and no result
  with its identifier was forwarded. An abort names a task of the NCT, which no
  sub-task is called after, or a forwarded result (`HeldInv`), so it never hits a safe
  sub-task; and when a result is forwarded the result itself stays in its queue
  until the context ends. Some share of each publication holds a solution (`PublishKeeps`,
  by `PartitionCovers`), under an identifier of a new round. Blocks with one stamp have
  one height (`BlockInv`), so a result that is dropped as stale was not the current
  block's (`DropKeeps`).

TLC checked what is proved on the runs' instances first.

Every invariant and every action property of a passing run is a theorem. Only
model-checked: `MiningEnds`, `MineableDecided`, `Answered` and `Ends`, because
liveness under fairness is out of the prover's reach; and the properties the
violation runs refute. That `RunningBalance`
computes the sum it should is by TLC as well: induction over data is.

## 5. Not modelled

* Solo workers, which take the NCT's task from a queue of their own; the pool's
  heartbeat to the NCT; an exception that ends a monitor thread.
* pika may not dispatch `_on_control` inside the callback of a task. The model lets
  a worker read an abort while it mines, as the code intends, or later.
* A broker that notices a dead consumer late: its sub-task is back at once.
* Redis losing its data (`get_latest_block` returning `None` in the loop), a thread
  that dies alone by an unexpected exception, a `MULTI/EXEC` that takes effect
  although the client sees an error (its continuation is the one of `AbortFails`).
* Hashing, signatures and serialisation: collision-free values.
* Reconnection to RabbitMQ: a recoverable publish error only repeats the publish.
* The digest computation inside the GPU kernels, the other GPU programs of `src/pilar1`
  (none of them is called by the worker), tools and deployment files: no protocol
  state.

## 6. Plan

Done: `Ledger`, `TokenLedger`, `PoolRegistry`, `NCT`, `Partition`, `Worker`, `Pool`,
`MiningService`, `Miner`, the runs above, and the proofs of section 4. Next, in this order:

1. The monitor's races: what `_original_worker_count` says when an older monitor
   writes it after a newer task, and what that hides.
2. Solo workers beside pools, and the pool's heartbeat to the NCT.
