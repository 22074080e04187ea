--------------------------------- MODULE NCT ---------------------------------
(***************************************************************************)
(* The coordinator process of pilar2/nct: the block loop and the result    *)
(* loop of nct.py, the handlers of POST /transaction, the NCTState they    *)
(* share, the Redis keys of storage/chain_store.py, and the two RabbitMQ   *)
(* queues between the coordinator and the miners.  Miners and pools are    *)
(* an environment here: any of them may answer a published task, several   *)
(* times, late, wrongly or never.                                          *)
(*                                                                         *)
(* Each thread takes the steps between which another thread, a crash or a  *)
(* failed call can come.  The process may die at any step and boot again;  *)
(* Redis and the queues survive it.                                        *)
(***************************************************************************)
EXTENDS Ledger, PoolRegistry

CONSTANTS
    Handlers,             \* concurrent POST /transaction handlers
    MaxNonceWindow,       \* MAX_NONCE_WINDOW
    NonceSpace,           \* NONCE_SPACE: the range first searched
    MaxNonceSpace,        \* MAX_NONCE_SPACE: the widest range
    FirstSolution,        \* the least nonce that solves a block
    MaxPosts,             \* bound: requests that pass the checks
    MaxResults,           \* bound: results waiting in the results queue
    MaxLosses,            \* bound: tasks that end with no or a wrong answer
    MaxEarlyTimeouts,     \* bound: waits that expire with an answer on its way
    MaxSaveFailures,      \* bound: MULTI/EXEC calls that raise
    MaxAbortFailures,     \* bound: broadcast_abort calls that raise
    MaxRedeliveries,      \* bound: acks lost with the channel
    MaxPoolDeaths,        \* bound: reports and timeouts of pools
    MaxCrashes,           \* bound: crashes and restarts
    MaxFaults             \* bound: faults of all kinds together

Bounds == {MaxPosts, MaxResults, MaxLosses, MaxEarlyTimeouts, MaxSaveFailures,
           MaxAbortFailures, MaxRedeliveries, MaxPoolDeaths, MaxCrashes,
           MaxFaults}

ASSUME NCTAssumption ==
    /\ {MaxNonceWindow, NonceSpace, MaxNonceSpace, FirstSolution} \subseteq Nat
    /\ Bounds \subseteq Nat

VARIABLES
    chain, balance, nonceOf, discarded, pending,   \* Redis
    tasks, results,                                \* RabbitMQ
    proc, walked, applied, credited,               \* the process, and its boot
    pool, job, active, mined, height,              \* NCTState
    bpc, blk,                                      \* block loop
    snap, left, expected, overlay, valid, dropped, \* drain_pool_validated
    rpc, held,                                     \* result loop
    http, arrived,                                 \* request handlers
    space,                                         \* block loop: nonce_space
    accepted,                                      \* history: answered 201
    stamp,                                         \* the clock
    used                                           \* how much of each bound

redis   == <<chain, balance, nonceOf, discarded, pending>>
queues  == <<tasks, results>>
mining  == <<job, active, mined>>
drain   == <<snap, left, expected, overlay, valid, dropped>>
blockLoop  == <<bpc, blk, drain>>
resultLoop == <<rpc, held>>
handlers   == <<http, arrived>>
search  == <<registry, space>>     \* which pools search, and how far
env     == <<search, accepted, stamp, used>>
process == <<proc, walked, applied, credited>>
vars    == <<redis, queues, process, pool, mining, height, blockLoop, resultLoop,
             handlers, env>>

NoBlock == Genesis          \* block 0 is never mined
Task(b) == [index |-> b.index, stamp |-> b.stamp]
NoTask  == Task(NoBlock)
Wrong(t) == [t EXCEPT !.stamp = 0]   \* a result whose proof of work is bad
TaskRecord == [index : Nat, stamp : Nat]

HandlerRecord == [pc : {"idle", "add", "save"}, tx : GoodTxs]
Idle == [pc |-> "idle", tx |-> CHOOSE tx \in GoodTxs : TRUE]

Counted == {"posts", "losses", "early", "saves", "aborts", "acks", "deaths",
            "crashes", "faults"}

\* A fault f may happen, and is counted, alone and with the others.
May(f, max) == used[f] < max /\ used["faults"] < MaxFaults
Use(f) == used' = [used EXCEPT ![f] = @ + 1, !["faults"] = @ + 1]

Init ==
    /\ chain = <<Genesis>> /\ balance = NoBalances /\ nonceOf = NoNonces
    /\ discarded = [a \in Accounts |-> {}] /\ pending = <<>>
    /\ tasks = {} /\ results = <<>>
    /\ proc = "up" /\ walked = 0 /\ applied = 0 /\ credited = FALSE
    /\ pool = {} /\ job = NoBlock /\ active = FALSE /\ mined = FALSE
    /\ height = 1
    /\ bpc = "accumulate" /\ blk = NoBlock
    /\ snap = {} /\ left = {} /\ expected = NoNonces /\ overlay = NoBalances
    /\ valid = <<>> /\ dropped = <<>>
    /\ rpc = "poll" /\ held = NoTask
    /\ http = [h \in Handlers |-> Idle] /\ arrived = 0
    /\ RegistryInit /\ space = NonceSpace
    /\ accepted = {} /\ stamp = 0
    /\ used = [f \in Counted |-> 0]

----------------------------------------------------------------------------
(* POST /transaction: checks against Redis, then two separate effects. *)

Admissible(tx) ==
    /\ WellFormed(tx)
    /\ tx.nonce >= nonceOf[tx.sender]
    /\ tx.nonce <= nonceOf[tx.sender] + MaxNonceWindow
    /\ tx.type = "EARN" => tx.sender = Authority

PostCheck(h, tx) ==
    /\ proc = "up" /\ http[h].pc = "idle" /\ used["posts"] < MaxPosts
    /\ Admissible(tx)
    /\ http' = [http EXCEPT ![h] = [pc |-> "add", tx |-> tx]]
    /\ used' = [used EXCEPT !["posts"] = @ + 1]
    /\ UNCHANGED <<redis, queues, process, pool, mining, height, blockLoop,
                   resultLoop, arrived, search, accepted, stamp>>

PostAdd(h) ==
    /\ http[h].pc = "add"
    /\ arrived' = arrived + 1
    /\ pool' = pool \union {[at |-> arrived', tx |-> http[h].tx]}
    /\ http' = [http EXCEPT ![h].pc = "save"]
    /\ UNCHANGED <<redis, queues, process, mining, height, blockLoop, resultLoop,
                   env>>

PostSave(h) ==
    /\ http[h].pc = "save"
    /\ pending' = Append(pending, http[h].tx)
    /\ accepted' = accepted \union {http[h].tx}
    /\ http' = [http EXCEPT ![h] = Idle]
    /\ UNCHANGED <<chain, balance, nonceOf, discarded, queues, process, pool,
                   mining, height, blockLoop, resultLoop, arrived, search,
                   stamp, used>>

----------------------------------------------------------------------------
(* Block loop: drain the pool, build a block, publish it, wait. *)

\* BLOCK_SIZE and BLOCK_TIMEOUT only delay this step: it may be taken as soon
\* as the pool holds a transaction.  The code reads a sender's nonce when it
\* comes to the sender; nothing writes the index in between, because a block
\* is saved only while one is active.
TakeSnapshot ==
    /\ bpc = "accumulate" /\ pool # {}
    /\ snap' = pool /\ left' = pool
    /\ expected' = nonceOf /\ overlay' = NoBalances
    /\ bpc' = "drain"
    /\ UNCHANGED <<redis, queues, process, pool, mining, height, blk, valid,
                   dropped, resultLoop, handlers, env>>

\* e is the entry the sorted groups come to next.
Turn(e) ==
    /\ bpc = "drain" /\ e \in left
    /\ \A f \in left \ {e} : Before(snap, e, f)

\* Mutations: an old or a later nonce is taken for the expected one, or an old one
\* waits for ever.
Never(tx)           == FALSE
GapIfDifferent(tx)  == tx.nonce # expected[tx.sender]

\* Mutation of IsReplay: the expected nonce counts as consumed.
ReplayOffByOne(tx)  == tx.nonce <= expected[tx.sender]

\* Below the expected nonce: already consumed.
IsReplay(tx) == tx.nonce < expected[tx.sender]

\* Above it: stays in the pool until the missing nonce arrives.
IsGap(tx) == tx.nonce > expected[tx.sender]

\* Mutation of Affordable: the confirmed balance alone.
AffordableAlone(tx) == tx.type = "EARN" \/ balance[tx.sender] >= tx.amount

\* Only a SPEND needs funds: confirmed balance and overlay of this block.
Affordable(tx) ==
    \/ tx.type = "EARN"
    \/ balance[tx.sender] + overlay[tx.sender] >= tx.amount

DrainGap(e) ==
    /\ Turn(e) /\ IsGap(e.tx)
    /\ left' = left \ {e}
    /\ UNCHANGED <<redis, queues, process, pool, mining, height, bpc, blk, snap,
                   expected, overlay, valid, dropped, resultLoop, handlers,
                   env>>

DrainReplay(e) ==
    /\ Turn(e) /\ IsReplay(e.tx)
    /\ left' = left \ {e}
    /\ dropped' = Append(dropped, e.tx)
    /\ UNCHANGED <<redis, queues, process, pool, mining, height, bpc, blk, snap,
                   expected, overlay, valid, resultLoop, handlers, env>>

DrainAccept(e) ==
    /\ Turn(e) /\ ~IsReplay(e.tx) /\ ~IsGap(e.tx) /\ Affordable(e.tx)
    /\ left' = left \ {e}
    /\ valid' = Append(valid, e.tx)
    /\ overlay' = [a \in Accounts |-> overlay[a] + Delta(e.tx, a)]
    /\ expected' = [expected EXCEPT ![e.tx.sender] = @ + 1]
    /\ UNCHANGED <<redis, queues, process, pool, mining, height, bpc, blk, snap,
                   dropped, resultLoop, handlers, env>>

\* A SPEND without funds uses its nonce up for the rest of this drain.
DrainReject(e) ==
    /\ Turn(e) /\ ~IsReplay(e.tx) /\ ~IsGap(e.tx) /\ ~Affordable(e.tx)
    /\ left' = left \ {e}
    /\ dropped' = Append(dropped, e.tx)
    /\ expected' = [expected EXCEPT ![e.tx.sender] = @ + 1]
    /\ UNCHANGED <<redis, queues, process, pool, mining, height, bpc, blk, snap,
                   overlay, valid, resultLoop, handlers, env>>

\* Mutation of Remaining: the whole snapshot goes, the gaps with it.
RemainingAfterClear == pool \ snap

\* remove_transactions: by tx_id, so every copy of a transaction goes.
Remaining == {e \in pool : e.tx \notin ToSet(valid) \union ToSet(dropped)}

RemoveFromPool ==
    /\ bpc = "drain" /\ left = {}
    /\ pool' = Remaining
    /\ bpc' = "trim"
    /\ UNCHANGED <<redis, queues, process, mining, height, blk, drain, resultLoop,
                   handlers, env>>

\* LTRIM takes as many entries off the head of the list as were drained.
TrimPending ==
    /\ bpc = "trim"
    /\ LET count == Len(valid) + Len(dropped)
       IN  pending' = SubSeq(pending, count + 1, Len(pending))
    /\ bpc' = "record"
    /\ UNCHANGED <<chain, balance, nonceOf, discarded, queues, process, pool,
                   mining, height, blk, drain, resultLoop, handlers, env>>

RecordDiscarded ==
    /\ bpc = "record" /\ dropped # <<>>
    /\ LET tx == Head(dropped)
       IN  discarded' = [discarded EXCEPT ![tx.sender] = @ \union {tx}]
    /\ dropped' = Tail(dropped)
    /\ UNCHANGED <<chain, balance, nonceOf, pending, queues, process, pool, mining,
                   height, bpc, blk, snap, left, expected, overlay, valid,
                   resultLoop, handlers, env>>

\* The locals of the drain are gone.
ForgetDrain ==
    /\ snap' = {} /\ left' = {} /\ expected' = NoNonces
    /\ overlay' = NoBalances /\ valid' = <<>> /\ dropped' = <<>>

\* Only gaps or discarded transactions: back to waiting.
NothingToMine ==
    /\ bpc = "record" /\ dropped = <<>> /\ valid = <<>>
    /\ ForgetDrain
    /\ bpc' = "accumulate"
    /\ UNCHANGED <<redis, queues, process, pool, mining, height, blk, resultLoop,
                   handlers, env>>

\* Mutations of NextIndex: the height kept in memory, and a wrong offset.
NextIndexFromMemory == height
NextIndexOffByOne   == chain[Len(chain)].index - 1

NextIndex == chain[Len(chain)].index + 1

CreateBlock ==
    /\ bpc = "record" /\ dropped = <<>> /\ valid # <<>>
    /\ blk' = [index |-> NextIndex, prev |-> Len(chain), txs |-> valid,
               stamp |-> stamp + 1]
    /\ stamp' = stamp + 1
    /\ space' = NonceSpace
    /\ ForgetDrain
    /\ bpc' = "gate"
    /\ UNCHANGED <<redis, queues, process, pool, mining, height, resultLoop,
                   handlers, registry, accepted, used>>

\* The liveness gate: with every pool dead, wait on the event with a backoff.
GateClosed ==
    /\ bpc = "gate" /\ all_pools_dead
    /\ bpc' = "backoff"
    /\ UNCHANGED <<redis, queues, process, pool, mining, height, drain, blk,
                   resultLoop, handlers, env>>

BackoffOver ==
    /\ bpc = "backoff" /\ ~mined
    /\ bpc' = "gate"
    /\ UNCHANGED <<redis, queues, process, pool, mining, height, drain, blk,
                   resultLoop, handlers, env>>

\* The wait on block_mined returned True, at the gate or after publishing.
BlockDone ==
    /\ bpc \in {"backoff", "wait"} /\ mined
    /\ bpc' = "accumulate" /\ blk' = NoBlock
    /\ UNCHANGED <<redis, queues, process, pool, mining, height, drain, resultLoop,
                   handlers, env>>

GateOpen ==
    /\ bpc = "gate" /\ ~all_pools_dead
    /\ bpc' = "set"
    /\ UNCHANGED <<redis, queues, process, pool, mining, height, drain, blk,
                   resultLoop, handlers, env>>

SetCurrentBlock ==
    /\ bpc = "set"
    /\ job' = blk /\ active' = TRUE /\ mined' = FALSE
    /\ bpc' = "publish"
    /\ UNCHANGED <<redis, queues, process, pool, height, drain, blk, resultLoop,
                   handlers, env>>

\* A recoverable error only repeats the publish, and a task published twice
\* is one more chance of the same answers.  A range without a solution never
\* gets one.
Publish ==
    /\ bpc = "publish"
    /\ tasks' = IF FirstSolution < space THEN tasks \union {Task(blk)} ELSE tasks
    /\ bpc' = "wait"
    /\ UNCHANGED <<redis, results, process, pool, mining, height, drain, blk,
                   resultLoop, handlers, env>>

\* No miner, queue or handle_result call still carries an answer to b.
Unanswered(b) ==
    /\ Task(b) \notin tasks
    /\ Task(b) \notin ToSet(results)
    /\ ~(held = Task(b) /\ rpc \in {"guard", "verify", "save", "abort",
                                    "complete"})

\* Mutation of Expanded: the same range again.
SameRange == space

\* The range of the next round; it starts from nonce 0 again.
Expanded == Min({2 * space, MaxNonceSpace})

\* The wait expired: expand the range and go round.
Timeout ==
    /\ bpc = "wait" /\ ~mined
    /\ \/ Unanswered(blk) /\ UNCHANGED used
       \/ ~Unanswered(blk) /\ May("early", MaxEarlyTimeouts) /\ Use("early")
    /\ space' = Expanded
    /\ bpc' = "gate"
    /\ UNCHANGED <<redis, queues, process, pool, mining, height, drain, blk,
                   resultLoop, handlers, registry, accepted, stamp>>

----------------------------------------------------------------------------
(* Result loop: basic_get, handle_result, then ack or nack. *)

Get ==
    /\ proc = "up" /\ rpc = "poll" /\ results # <<>>
    /\ held' = Head(results) /\ results' = Tail(results)
    /\ rpc' = "guard"
    /\ UNCHANGED <<redis, tasks, process, pool, mining, height, blockLoop, handlers,
                   env>>

\* Mutation of Wanted: no duplicate guard.
WantedAlways == TRUE

\* The duplicate guard, under one acquisition of state.lock ...
Wanted == active

CheckActive ==
    /\ rpc = "guard"
    /\ rpc' = IF Wanted THEN "verify" ELSE "ack"
    /\ UNCHANGED <<redis, queues, process, pool, mining, height, blockLoop, held,
                   handlers, env>>

\* Mutation of Accepts: the stale check without the proof of work.
AcceptsByHeight(t) == job # NoBlock /\ t.index = job.index

\* ... and the snapshot under another: stale check, then proof of work
\* against the fingerprint.
Accepts(t) == job # NoBlock /\ t.index = job.index /\ t.stamp = job.stamp

Verify ==
    /\ rpc = "verify"
    /\ rpc' = IF Accepts(held) THEN "save" ELSE "ack"
    /\ UNCHANGED <<redis, queues, process, pool, mining, height, blockLoop, held,
                   handlers, env>>

\* Mutations of Persist: the transaction stops after the block, or after the
\* balances.
PersistBlockOnly(b) ==
    chain' = Append(chain, b) /\ UNCHANGED <<balance, nonceOf>>

PersistNoNonces(b) ==
    /\ chain' = Append(chain, b)
    /\ balance' = BalancesAfter(balance, b.txs)
    /\ UNCHANGED nonceOf

\* save_block_atomic, one MULTI/EXEC.
Persist(b) ==
    /\ chain' = Append(chain, b)
    /\ balance' = BalancesAfter(balance, b.txs)
    /\ nonceOf' = NoncesAfter(nonceOf, b.txs)

SaveBlock ==
    /\ rpc = "save"
    /\ Persist(job)
    /\ height' = job.index + 1
    /\ rpc' = "abort"
    /\ UNCHANGED <<discarded, pending, queues, process, pool, mining, blockLoop,
                   held, handlers, env>>

\* The transaction raised and nothing was written; the result is nacked
\* without requeue.
SaveFails ==
    /\ rpc = "save" /\ May("saves", MaxSaveFailures)
    /\ Use("saves")
    /\ rpc' = "poll" /\ held' = NoTask
    /\ UNCHANGED <<redis, queues, process, pool, mining, height, blockLoop, handlers,
                   search, accepted, stamp>>

BroadcastAbort ==
    /\ rpc = "abort"
    /\ rpc' = "complete"
    /\ UNCHANGED <<redis, queues, process, pool, mining, height, blockLoop, held,
                   handlers, env>>

\* broadcast_abort raised after the block was saved.  The nack drops the
\* result, or fails with the channel and the broker requeues it.
AbortFails ==
    /\ rpc = "abort" /\ May("aborts", MaxAbortFailures)
    /\ Use("aborts")
    /\ results' \in {results, <<held>> \o results}
    /\ rpc' = "poll" /\ held' = NoTask
    /\ UNCHANGED <<redis, tasks, process, pool, mining, height, blockLoop, handlers,
                   search, accepted, stamp>>

\* Mutation of mark_mining_complete: the flag without the event.
MarkWithoutEvent == active' = FALSE /\ UNCHANGED mined

\* Both under one acquisition of state.lock.
mark_mining_complete == active' = FALSE /\ mined' = TRUE

MarkComplete ==
    /\ rpc = "complete"
    /\ mark_mining_complete
    /\ rpc' = "ack"
    /\ UNCHANGED <<redis, queues, process, pool, job, height, blockLoop, held,
                   handlers, env>>

Ack ==
    /\ rpc = "ack"
    /\ rpc' = "poll" /\ held' = NoTask
    /\ UNCHANGED <<redis, queues, process, pool, mining, height, blockLoop, handlers,
                   env>>

\* The ack is lost with the channel: the broker delivers the result again.
AckLost ==
    /\ rpc = "ack" /\ May("acks", MaxRedeliveries)
    /\ Use("acks")
    /\ results' = <<held>> \o results
    /\ rpc' = "poll" /\ held' = NoTask
    /\ UNCHANGED <<redis, tasks, process, pool, mining, height, blockLoop, handlers,
                   search, accepted, stamp>>

----------------------------------------------------------------------------
(* Crash (a signal too: the threads are daemons) and boot. *)

Crash ==
    /\ proc = "up" \/ walked > 0
    /\ May("crashes", MaxCrashes)
    /\ Use("crashes")
    /\ proc' = "down" /\ walked' = 0 /\ applied' = 0 /\ credited' = FALSE
    /\ results' = IF rpc = "poll" THEN results ELSE <<held>> \o results
    /\ pool' = {} /\ job' = NoBlock /\ active' = FALSE /\ mined' = FALSE
    /\ height' = 0
    /\ bpc' = "down" /\ blk' = NoBlock /\ ForgetDrain
    /\ rpc' = "poll" /\ held' = NoTask
    /\ http' = [h \in Handlers |-> Idle] /\ arrived' = 0
    /\ ForgetPools /\ space' = NonceSpace
    /\ UNCHANGED <<redis, tasks, accepted, stamp>>

\* Mutation of Walk: newest block first.
WalkBackwards(i) == chain[Len(chain) + 1 - i]

\* The i-th block that rebuild_state_from_chain comes to.
Walk(i) == chain[i]

\* ensure_genesis on the existing chain: for every transaction INCRBY and then SET,
\* each a call of its own, over whatever the indexes hold.
Booting == proc = "down" /\ walked < Len(chain)
Walking == Walk(walked + 1).txs

RebuildBalance ==
    /\ Booting /\ applied < Len(Walking) /\ ~credited
    /\ LET tx == Walking[applied + 1]
       IN  balance' = [a \in Accounts |-> balance[a] + Delta(tx, a)]
    /\ credited' = TRUE
    /\ UNCHANGED <<chain, nonceOf, discarded, pending, queues, proc, walked,
                   applied, pool, mining, height, blockLoop, resultLoop,
                   handlers, env>>

RebuildNonce ==
    /\ Booting /\ applied < Len(Walking) /\ credited
    /\ LET tx == Walking[applied + 1]
       IN  nonceOf' = [nonceOf EXCEPT ![tx.sender] = tx.nonce + 1]
    /\ applied' = applied + 1 /\ credited' = FALSE
    /\ UNCHANGED <<chain, balance, discarded, pending, queues, proc, walked, pool,
                   mining, height, blockLoop, resultLoop, handlers, env>>

RebuildBlock ==
    /\ Booting /\ applied = Len(Walking)
    /\ walked' = walked + 1 /\ applied' = 0
    /\ UNCHANGED <<redis, queues, proc, credited, pool, mining, height, blockLoop,
                   resultLoop, handlers, env>>

\* The rest of main: a fresh NCTState, restored transactions, the threads.
StartThreads ==
    /\ proc = "down" /\ walked = Len(chain)
    /\ proc' = "up" /\ walked' = 0 /\ UNCHANGED <<applied, credited>>
    /\ pool' = {[at |-> i, tx |-> pending[i]] : i \in DOMAIN pending}
    /\ arrived' = Len(pending) /\ height' = 1
    /\ bpc' = "accumulate"
    /\ UNCHANGED <<redis, queues, mining, blk, drain, resultLoop, http, env>>

----------------------------------------------------------------------------
(* Miners and pools. *)

\* A miner finds a nonce for task t and is done with it; others may still hold it,
\* and the abort may not reach them.
Solve(t) ==
    /\ t \in tasks /\ Len(results) < MaxResults
    /\ results' = Append(results, t)
    /\ tasks' \in {tasks, tasks \ {t}}
    /\ UNCHANGED <<redis, process, pool, mining, height, blockLoop,
                   resultLoop, handlers, env>>

\* A task nobody waits for any more is aborted or found stale.
Retire(t) ==
    /\ t \in tasks /\ t # Task(blk)
    /\ tasks' = tasks \ {t}
    /\ UNCHANGED <<redis, results, process, pool, mining, height, blockLoop,
                   resultLoop, handlers, env>>

\* The current task ends without a solution: the range held none, or every
\* message was lost; perhaps a wrong result is sent.
Lose ==
    /\ Task(blk) \in tasks /\ May("losses", MaxLosses)
    /\ Use("losses")
    /\ tasks' = tasks \ {Task(blk)}
    /\ results' \in {results, Append(results, Wrong(Task(blk)))}
    /\ UNCHANGED <<redis, process, pool, mining, height, blockLoop, resultLoop,
                   handlers, search, accepted, stamp>>

----------------------------------------------------------------------------
(* Result loop: the worker registry, polled after the results. *)

\* What a message of the registry leaves alone, apart from the registry.
RegistryOnly ==
    UNCHANGED <<redis, queues, process, pool, mining, height, blockLoop,
                resultLoop, handlers, space, accepted, stamp>>

OnPoolHeartbeat(p) ==
    /\ proc = "up" /\ rpc = "poll"
    /\ mark_pool_alive(p)
    /\ RegistryOnly /\ UNCHANGED used

OnNoWorkers(p) ==
    /\ proc = "up" /\ rpc = "poll" /\ May("deaths", MaxPoolDeaths)
    /\ mark_pool_dead(p)
    /\ RegistryOnly /\ Use("deaths")

\* No heartbeat for pool_timeout: time passes, whatever the threads do.
PoolTimesOut(p) ==
    /\ May("deaths", MaxPoolDeaths)
    /\ ExpirePool(p)
    /\ RegistryOnly /\ Use("deaths")

----------------------------------------------------------------------------

HttpStep(h) == (\E tx \in Txs : PostCheck(h, tx)) \/ PostAdd(h) \/ PostSave(h)

BlockLoopStep ==
    \/ TakeSnapshot
    \/ \E e \in left : \/ DrainGap(e) \/ DrainReplay(e)
                      \/ DrainAccept(e) \/ DrainReject(e)
    \/ RemoveFromPool \/ TrimPending \/ RecordDiscarded
    \/ NothingToMine \/ CreateBlock \/ GateClosed \/ BackoffOver \/ BlockDone
    \/ GateOpen \/ SetCurrentBlock \/ Publish \/ Timeout

ResultLoopStep ==
    \/ Get \/ CheckActive \/ Verify \/ SaveBlock \/ BroadcastAbort
    \/ MarkComplete \/ Ack

Rebuild == RebuildBalance \/ RebuildNonce \/ RebuildBlock

Fault == SaveFails \/ AbortFails \/ AckLost \/ Crash \/ Lose

PoolStep(p) == OnPoolHeartbeat(p) \/ OnNoWorkers(p) \/ PoolTimesOut(p)

Next ==
    \/ \E h \in Handlers : HttpStep(h)
    \/ BlockLoopStep
    \/ ResultLoopStep
    \/ Fault
    \/ Rebuild \/ StartThreads
    \/ \E p \in Pools : PoolStep(p)
    \/ \E t \in tasks : Solve(t) \/ Retire(t)

Spec == Init /\ [][Next]_vars

\* Each thread keeps running, and of the miners that hold the current task
\* one that can answer in the end does: the range doubles until it holds a
\* solution, and losses are bounded.  Of the pools one sends heartbeats again
\* after any silence or report.
Fairness ==
    /\ WF_vars(BlockLoopStep)
    /\ WF_vars(ResultLoopStep)
    /\ SF_vars(Solve(Task(blk)))
    /\ SF_vars(\E p \in Pools : OnPoolHeartbeat(p))

FairSpec == Spec /\ Fairness

----------------------------------------------------------------------------
(* Properties. *)

BlockLoopPCs == {"accumulate", "drain", "trim", "record", "gate", "backoff",
                 "set", "publish", "wait", "down"}
ResultLoopPCs == {"poll", "guard", "verify", "save", "abort", "complete", "ack"}

TypeRedis ==
    /\ chain \in Seq(BlockRecord) /\ chain # <<>>
    /\ balance \in [Accounts -> Int] /\ nonceOf \in [Accounts -> Nat]
    /\ discarded \in [Accounts -> SUBSET GoodTxs] /\ pending \in Seq(GoodTxs)

TypeQueues == tasks \subseteq TaskRecord /\ results \in Seq(TaskRecord)

TypeState ==
    /\ proc \in {"up", "down"} /\ walked \in Nat /\ applied \in Nat
    /\ credited \in BOOLEAN /\ pool \subseteq PoolEntry
    /\ job \in BlockRecord /\ active \in BOOLEAN /\ mined \in BOOLEAN
    /\ height \in Nat

TypeDrain ==
    /\ snap \subseteq PoolEntry /\ left \subseteq snap
    /\ expected \in [Accounts -> Nat] /\ overlay \in [Accounts -> Int]
    /\ valid \in Seq(GoodTxs) /\ dropped \in Seq(GoodTxs)

TypeThreads ==
    /\ bpc \in BlockLoopPCs /\ blk \in BlockRecord
    /\ rpc \in ResultLoopPCs /\ held \in TaskRecord
    /\ http \in [Handlers -> HandlerRecord]
    /\ arrived \in Nat

TypeEnv ==
    /\ TypeRegistry /\ space \in Nat
    /\ accepted \subseteq GoodTxs /\ stamp \in Nat
    /\ used \in [Counted -> Nat]

\* Every variable keeps its type; only well-formed transactions get past the
\* handlers.
TypeOK ==
    TypeRedis /\ TypeQueues /\ TypeState /\ TypeDrain /\ TypeThreads /\ TypeEnv

\* validate_chain, run at every start, reports no error: heights are
\* consecutive, every block is chained to the one before it, none is empty
\* and none holds a malformed transaction.
ChainValid == \A i \in DOMAIN chain : BlockValid(chain, i)

\* Replay protection: along the chain the nonces of a sender only grow, so no
\* transaction is applied twice however often it is posted, restored or mined.
NoReplay ==
    \A b, c \in DOMAIN chain :
        \A i \in DOMAIN chain[b].txs, j \in DOMAIN chain[c].txs :
            /\ b < c \/ (b = c /\ i < j)
            /\ chain[b].txs[i].sender = chain[c].txs[j].sender
            => chain[b].txs[i].nonce < chain[c].txs[j].nonce

\* Whenever the threads run the nonce index says what the chain says: blocks,
\* failures and restarts notwithstanding, and even if the process died while it
\* was rebuilding the index.
NonceIndexExact == proc = "up" => nonceOf = RebuiltNonces(chain)

\* Whenever the threads run the balance index says what the chain says:
\* ensure_genesis is said to rebuild it "from scratch (idempotent)".
BalanceIndexExact == proc = "up" => balance = RebuiltBalances(chain)

\* Nobody spends what they have not earned.  drain_pool_validated checks each
\* SPEND against the index and an overlay before the block is mined; the
\* index moves only when it is saved.
Solvent == \A a \in Accounts : balance[a] >= 0

\* Where a transaction answered with 201 can be while it waits: in the memory
\* of the running process, or in the list a restart reads.
Waiting == IF proc = "up"
           THEN TxsOf(pool) \union ToSet(valid) \union ToSet(dropped)
                \union ToSet(blk.txs)
           ELSE ToSet(pending)

Mined == UNION {ToSet(chain[i].txs) : i \in DOMAIN chain}

Decided == Mined \union UNION {discarded[a] : a \in Accounts}

\* A transaction answered with 201 is waiting, on the chain or recorded as
\* discarded; it never silently disappears.
NothingLost == accepted \subseteq Waiting \union Decided

\* Every nonce of a sender that the index has passed was used by a transaction
\* that is on the chain or recorded as discarded: a SPEND without funds uses its
\* nonce up and leaves a hole in the chain, and nothing else does.
NoncesAccounted ==
    \A a \in Accounts : \A n \in 0..(nonceOf[a] - 1) :
        \E tx \in Decided : tx.sender = a /\ tx.nonce = n

\* add_discarded_tx: recorded "so clients can discover why their transaction never
\* appeared on-chain".
DiscardedNotMined == \A a \in Accounts : discarded[a] \cap Mined = {}

\* The chain, read as a list of transactions, is a TokenLedger.
Promised == INSTANCE TokenLedger WITH ledger <- ChainTxs(chain)
KeepsPromise == Promised!Spec

\* The two loops agree on the block: what the result loop appends to the chain
\* is the block the block loop is waiting for, on an answer to that very block.
PersistsAwaited ==
    [][chain' # chain => chain' = Append(chain, blk) /\ held = Task(blk)]_vars

\* Another transaction has taken the nonce of tx, or a later one of the same sender
\* was mined: on the chain, or in an entry that its turn came to earlier.
NonceTaken(tx) ==
    \/ \E other \in Mined \ {tx} :
          other.sender = tx.sender /\ other.nonce >= tx.nonce
    \/ \E e, f \in snap :
          /\ e.tx = tx /\ f.tx # tx
          /\ f.tx.sender = tx.sender /\ f.tx.nonce = tx.nonce
          /\ Before(snap, f, e)

\* What is dropped is a second copy: tx itself is mined, or in the block.
Repeated(tx) == tx \in Mined \union ToSet(valid)

\* The balance index, with what the block holds of earlier turns, cannot pay tx:
\* what was accepted before its turn is the first n transactions of the block.
Unfunded(tx) ==
    \E e \in snap, n \in 0..Len(valid) :
        /\ e.tx = tx /\ tx.type = "SPEND"
        /\ \A i \in DOMAIN valid :
              i <= n <=> \E f \in snap : f.tx = valid[i] /\ Before(snap, f, e)
        /\ BalancesAfter(balance, SubSeq(valid, 1, n))[tx.sender] < tx.amount

\* The discarded_transactions of GET /account are those the coordinator dropped
\* for a "replay o saldo insuficiente": another transaction of the chain or of an
\* earlier turn has the nonce, the balance does not cover it, or it is a second
\* copy (what that makes of the record is the subject of the run discarded_mined).
\* None that is due and covered is dropped.
DiscardsJustified ==
    [][\A a \in Accounts : \A tx \in discarded'[a] \ discarded[a] :
           NonceTaken(tx) \/ Unfunded(tx) \/ Repeated(tx)]_vars

\* A published block is mined in the end, whatever answers are lost, repeated,
\* wrong or stale, and however many waits expire without an answer.
MiningEnds == (bpc = "wait") ~> (bpc = "accumulate")

\* A waiting transaction whose nonce is not ahead of its sender's is decided in
\* the end, mined or recorded as discarded, unless a pool falls silent: what the
\* liveness gate then does to a block is the subject of the run dead_pools.
MineableDecided ==
    \A tx \in Txs :
        (tx \in TxsOf(pool) /\ tx.nonce <= nonceOf[tx.sender])
            ~> (tx \in Decided \/ used["deaths"] > 0)
=============================================================================
