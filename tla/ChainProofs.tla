----------------------------- MODULE ChainProofs -----------------------------
(***************************************************************************)
(* The chain.  Where no wait expires with an answer under way and no abort *)
(* fails, a block is saved at most once, and always onto the block it was  *)
(* built on: until it is published nobody holds an answer to it, and from  *)
(* the first publication on it is saved by the first answer that is kept.  *)
(***************************************************************************)
EXTENDS NCTProofs

Unpublished == {"gate", "backoff", "set", "publish"}

\* What may be taken for an answer: it can be solved, waits, or is in hand.
Answers == tasks \union ToSet(results) \union {held}

\* The block extends the chain as it is now.
Unsaved(b) == b.index = Len(chain) /\ b.prev = Len(chain)

\* The i-th block stands on the one before it.
Linked(i) ==
    /\ chain[i].index = i - 1 /\ chain[i].prev = i - 1
    /\ i > 1 => chain[i].txs # <<>>

ChainLinked == \A i \in 1..Len(chain) : Linked(i)

\* No answer is younger than the youngest block.
Stamped == (\A t \in Answers : t.stamp <= stamp) /\ blk.stamp <= stamp

\* A block on its way to the miners is a block, and was not answered before.
BlockFresh ==
    /\ bpc \in Mining => blk.stamp >= 1 /\ blk.txs # <<>>
    /\ bpc \in Unpublished => Unsaved(blk) /\ Task(blk) \notin Answers

\* From publication on either the job is active, or it is mined; while it is
\* active it is not saved, unless the result loop is about to say so.
SavedOnce ==
    /\ bpc \in {"publish", "wait"} => active \/ mined
    /\ active /\ rpc \notin {"abort", "complete"} => Unsaved(blk)
    /\ rpc \in {"save", "abort", "complete"} => held = Task(blk)
    /\ rpc = "poll" => held = NoTask
    /\ rpc = "ack" /\ held = Task(blk) /\ bpc \in Mining => mined

ChainInv == ChainLinked /\ Stamped /\ BlockFresh /\ SavedOnce

\* Bounds under which an answer is never late and an abort never fails.
Orderly == MaxEarlyTimeouts = 0 /\ MaxAbortFailures = 0

----------------------------------------------------------------------------

\* The genesis block alone is a chain, and nothing is on its way.
LEMMA InitChain == Init => ChainInv
<1>. SUFFICES ASSUME Init PROVE ChainInv
  OBVIOUS
<1>1. Len(chain) = 1 /\ chain[1] = Genesis
  BY DEF Init
<1>2. ChainLinked
  BY <1>1 DEF ChainLinked, Linked, Genesis
<1>3. Answers = {NoTask}
  BY DEF Init, Answers, ToSet
<1>4. Stamped
  BY <1>3 DEF Init, Stamped, NoTask, Task, NoBlock, Genesis
<1>5. BlockFresh /\ SavedOnce
  BY DEF Init, BlockFresh, SavedOnce, Mining, Unpublished
<1>. QED  BY <1>2, <1>4, <1>5 DEF ChainInv

\* What a task, a wrong answer and no task are stamped with.
LEMMA Stamps ==
    ASSUME TypeOK
    PROVE  /\ Task(blk).stamp = blk.stamp /\ NoTask.stamp = 0
           /\ Wrong(Task(blk)).stamp = 0
           /\ stamp \in Nat /\ blk.stamp \in Nat /\ blk.index \in Nat
           /\ held \in TaskRecord
           /\ \A t \in Answers : t \in TaskRecord /\ t.stamp \in Nat
<1>1. stamp \in Nat /\ blk.stamp \in Nat /\ blk.index \in Nat /\ held \in TaskRecord
  BY DEF TypeOK, TypeEnv, TypeThreads, BlockRecord
<1>2. Task(blk).stamp = blk.stamp /\ NoTask.stamp = 0 /\ Wrong(Task(blk)).stamp = 0
  BY DEF Task, NoTask, NoBlock, Genesis, Wrong
<1>3. \A t \in Answers : t \in TaskRecord
  BY <1>1 DEF TypeOK, TypeQueues, Answers, ToSet
<1>4. \A t \in TaskRecord : t.stamp \in Nat
  BY DEF TaskRecord
<1>. QED  BY <1>1, <1>2, <1>3, <1>4

\* A step that leaves the chain and the block alone, and brings no answer but
\* empty or wrong ones, keeps the block fresh as long as it is unpublished.
LEMMA FreshKept ==
    ASSUME TypeOK, ChainInv, UNCHANGED <<chain, blk, stamp>>,
           Answers' \subseteq Answers \union {NoTask, Wrong(Task(blk))},
           bpc' \in Mining => bpc \in Mining,
           bpc' \in Unpublished => bpc \in Unpublished
    PROVE  ChainLinked' /\ Stamped' /\ BlockFresh'
<1>1. ChainLinked'
  BY DEF ChainInv, ChainLinked, Linked
<1>2. Stamped'
  <2>1. \A t \in Answers' : t.stamp <= stamp
    BY Stamps DEF ChainInv, Stamped
  <2>. QED  BY <2>1 DEF ChainInv, Stamped
<1>3. BlockFresh'
  <2>1. CASE bpc' \in Unpublished
    <3>1. bpc \in Unpublished /\ bpc \in Mining
      BY <2>1 DEF Unpublished, Mining
    <3>2. Task(blk) \notin Answers /\ Task(blk).stamp >= 1 /\ blk.txs # <<>> /\ Unsaved(blk)
      BY <3>1, Stamps DEF ChainInv, BlockFresh
    <3>3. Task(blk) \notin Answers'
      BY <3>2, Stamps
    <3>. QED  BY <3>2, <3>3, Stamps DEF BlockFresh, Unsaved, Task
  <2>2. CASE bpc' \notin Unpublished
    BY <2>2 DEF ChainInv, BlockFresh
  <2>. QED  BY <2>1, <2>2
<1>. QED  BY <1>1, <1>2, <1>3

\* The same, when nothing else that matters changes either.
LEMMA Undisturbed ==
    ASSUME TypeOK, ChainInv,
           UNCHANGED <<chain, blk, stamp, tasks, results, held, rpc, active, mined>>,
           bpc' \in Mining => bpc \in Mining,
           bpc' \in Unpublished => bpc \in Unpublished,
           bpc' \in {"publish", "wait"} => bpc \in {"publish", "wait"}
    PROVE  ChainInv'
<1>1. Answers' = Answers
  BY DEF Answers, ToSet
<1>2. ChainLinked' /\ Stamped' /\ BlockFresh'
  BY <1>1, FreshKept
<1>3. SavedOnce'
  BY DEF ChainInv, SavedOnce, Unsaved, Task
<1>. QED  BY <1>2, <1>3 DEF ChainInv

\* Requests, the drain, the liveness gate and the boot touch neither the block
\* nor the answers to it.
LEMMA OthersKeepChain ==
    ASSUME TypeOK, ChainInv,
           \/ \E h \in Handlers : HttpStep(h)
           \/ \E e \in left : DrainGap(e) \/ DrainReplay(e) \/ DrainAccept(e)
                              \/ DrainReject(e)
           \/ TakeSnapshot \/ RemoveFromPool \/ TrimPending \/ RecordDiscarded
           \/ NothingToMine \/ \E p \in Pools : PoolStep(p)
           \/ Rebuild \/ StartThreads
           \/ GateClosed \/ BackoffOver \/ GateOpen
    PROVE  ChainInv'
<1>. USE DEF redis, queues, mining, resultLoop, blockLoop, env, RegistryOnly
<1>1. UNCHANGED <<chain, blk, stamp, tasks, results, held, rpc, active, mined>>
  BY DEF HttpStep, PostCheck, PostAdd, PostSave, DrainGap, DrainReplay, DrainAccept,
      DrainReject, TakeSnapshot, RemoveFromPool, TrimPending, RecordDiscarded,
      NothingToMine, PoolStep, OnPoolHeartbeat, OnNoWorkers, PoolTimesOut,
      Rebuild, RebuildBalance, RebuildNonce, RebuildBlock, StartThreads,
      GateClosed, BackoffOver, GateOpen
<1>2. /\ bpc' \in Mining => bpc \in Mining
      /\ bpc' \in Unpublished => bpc \in Unpublished
      /\ bpc' \in {"publish", "wait"} => bpc \in {"publish", "wait"}
  BY DEF HttpStep, PostCheck, PostAdd, PostSave, DrainGap, DrainReplay, DrainAccept,
      DrainReject, TakeSnapshot, RemoveFromPool, TrimPending, RecordDiscarded,
      NothingToMine, PoolStep, OnPoolHeartbeat, OnNoWorkers, PoolTimesOut,
      Rebuild, RebuildBalance, RebuildNonce, RebuildBlock, StartThreads,
      GateClosed, BackoffOver, GateOpen, Mining, Unpublished
<1>. QED  BY <1>1, <1>2, Undisturbed

\* A new block stands on the newest one, and is younger than every answer.
LEMMA CreateKeepsChain ==
    ASSUME TypeOK, Agree, ChainInv, CreateBlock
    PROVE  ChainInv'
<1>. USE DEF queues, mining, resultLoop, redis
<1>1. /\ UNCHANGED <<chain, tasks, results, held, rpc, active, mined>>
      /\ bpc = "record" /\ bpc' = "gate" /\ stamp' = stamp + 1
      /\ blk' = [index |-> NextIndex, prev |-> Len(chain), txs |-> valid,
                 stamp |-> stamp + 1]
      /\ valid # <<>>
  BY DEF CreateBlock
<1>2. Answers' = Answers
  BY <1>1 DEF Answers, ToSet
<1>3. ChainLinked'
  BY <1>1 DEF ChainInv, ChainLinked, Linked
<1>4. Stamped'
  BY <1>1, <1>2, Stamps DEF ChainInv, Stamped
<1>5. Unsaved(blk)'
  <2>1. Len(chain) \in 1..Len(chain)
    BY DEF TypeOK, TypeRedis
  <2>2. Linked(Len(chain))
    BY <2>1 DEF ChainInv, ChainLinked
  <2>3. NextIndex = Len(chain)
    BY <2>1, <2>2 DEF Linked, NextIndex
  <2>. QED  BY <1>1, <2>3 DEF Unsaved
<1>6. Task(blk') \notin Answers
  <2>1. Task(blk').stamp = stamp + 1
    BY <1>1 DEF Task
  <2>. QED  BY <2>1, Stamps DEF ChainInv, Stamped
<1>7. Task(blk)' \notin Answers'
  BY <1>2, <1>6 DEF Task
<1>8. BlockFresh'
  BY <1>1, <1>5, <1>7, Stamps DEF BlockFresh
<1>9. ~active /\ rpc \notin Judged
  BY <1>1 DEF Agree, Mining
<1>10. held # Task(blk)'
  BY <1>6 DEF Answers, Task
<1>11. SavedOnce'
  BY <1>1, <1>9, <1>10 DEF ChainInv, SavedOnce, Judged
<1>. QED  BY <1>3, <1>4, <1>8, <1>11 DEF ChainInv

\* From the current block to the task, and back when the wait expires.
LEMMA PublishKeepsChain ==
    ASSUME TypeOK, Agree, ChainInv, Orderly,
           SetCurrentBlock \/ Publish \/ Timeout \/ BlockDone
    PROVE  ChainInv'
<1>. USE DEF queues, mining, resultLoop, redis, env
<1>1. CASE SetCurrentBlock
  <2>1. /\ UNCHANGED <<chain, blk, stamp, tasks, results, held, rpc>>
        /\ bpc = "set" /\ bpc' = "publish" /\ active'
    BY <1>1 DEF SetCurrentBlock
  <2>2. Answers' = Answers
    BY <2>1 DEF Answers, ToSet
  <2>3. ChainLinked' /\ Stamped' /\ BlockFresh'
    BY <2>1, <2>2, FreshKept DEF Mining, Unpublished
  <2>4. Unsaved(blk) /\ held # Task(blk)
    BY <2>1 DEF ChainInv, BlockFresh, Unpublished, Answers
  <2>5. SavedOnce'
    BY <2>1, <2>4 DEF ChainInv, SavedOnce, Unsaved, Task
  <2>. QED  BY <2>3, <2>5 DEF ChainInv
<1>2. CASE Publish
  <2>1. /\ UNCHANGED <<chain, blk, stamp, results, held, rpc, active, mined>>
        /\ bpc = "publish" /\ bpc' = "wait"
        /\ tasks' \in {tasks, tasks \union {Task(blk)}}
    BY <1>2 DEF Publish
  <2>2. Answers' \subseteq Answers \union {Task(blk)}
    BY <2>1 DEF Answers, ToSet
  <2>3. Stamped'
    BY <2>1, <2>2, Stamps DEF ChainInv, Stamped
  <2>4. BlockFresh'
    BY <2>1 DEF ChainInv, BlockFresh, Mining, Unpublished
  <2>5. ChainLinked'
    BY <2>1 DEF ChainInv, ChainLinked, Linked
  <2>6. SavedOnce'
    BY <2>1 DEF ChainInv, SavedOnce, Unsaved, Task, Mining
  <2>. QED  BY <2>3, <2>4, <2>5, <2>6 DEF ChainInv
<1>3. CASE Timeout
  <2>1. /\ UNCHANGED <<chain, blk, stamp, tasks, results, held, rpc, active, mined>>
        /\ bpc = "wait" /\ bpc' = "gate" /\ ~mined
    BY <1>3 DEF Timeout
  <2>2. Unanswered(blk)
    <3>1. used["early"] \in Nat
      BY DEF TypeOK, TypeEnv, Counted
    <3>. QED  BY <1>3, <3>1 DEF Timeout, May, Orderly
  <2>3. active
    BY <2>1 DEF ChainInv, SavedOnce
  <2>4. held # Task(blk)
    <3>1. Task(blk).stamp >= 1
      BY <2>1, Stamps DEF ChainInv, BlockFresh, Mining
    <3>2. rpc = "poll" => held # Task(blk)
      BY <3>1, Stamps DEF ChainInv, SavedOnce
    <3>3. rpc = "ack" => held # Task(blk)
      BY <2>1 DEF ChainInv, SavedOnce, Mining
    <3>4. rpc \in {"guard", "verify", "save", "abort", "complete", "poll", "ack"}
      BY DEF TypeOK, TypeThreads, ResultLoopPCs
    <3>. QED  BY <2>2, <3>2, <3>3, <3>4 DEF Unanswered
  <2>5. Unsaved(blk)
    BY <2>3, <2>4 DEF ChainInv, SavedOnce
  <2>6. Answers' = Answers
    BY <2>1 DEF Answers, ToSet
  <2>7. Task(blk) \notin Answers
    BY <2>2, <2>4 DEF Answers, Unanswered
  <2>8. ChainLinked' /\ Stamped'
    BY <2>1, <2>6 DEF ChainInv, ChainLinked, Linked, Stamped
  <2>9. BlockFresh'
    BY <2>1, <2>5, <2>6, <2>7 DEF ChainInv, BlockFresh, Unsaved, Task, Mining
  <2>10. SavedOnce'
    BY <2>1 DEF ChainInv, SavedOnce, Unsaved, Task, Mining
  <2>. QED  BY <2>8, <2>9, <2>10 DEF ChainInv
<1>4. CASE BlockDone
  <2>1. /\ UNCHANGED <<chain, stamp, tasks, results, held, rpc, active, mined>>
        /\ mined /\ bpc' = "accumulate" /\ blk' = NoBlock
    BY <1>4 DEF BlockDone
  <2>2. ~active /\ rpc \notin Judged
    BY <2>1 DEF Agree
  <2>3. Answers' = Answers /\ NoBlock.stamp = 0
    BY <2>1 DEF Answers, ToSet, NoBlock, Genesis
  <2>4. ChainLinked' /\ Stamped'
    BY <2>1, <2>3, Stamps DEF ChainInv, ChainLinked, Linked, Stamped
  <2>5. BlockFresh' /\ SavedOnce'
    BY <2>1, <2>2 DEF ChainInv, BlockFresh, SavedOnce, Mining, Unpublished, Judged
  <2>. QED  BY <2>4, <2>5 DEF ChainInv
<1>. QED  BY <1>1, <1>2, <1>3, <1>4

\* What a result in the queue can be.
LEMMA HeadIsAnswer ==
    ASSUME TypeOK
    PROVE  /\ results # <<>> => Head(results) \in ToSet(results)
                                /\ ToSet(Tail(results)) \subseteq ToSet(results)
           /\ ToSet(<<held>> \o results) = ToSet(results) \union {held}
           /\ \A t : ToSet(Append(results, t)) = ToSet(results) \union {t}
<1>1. results \in Seq(TaskRecord) /\ held \in TaskRecord
  BY DEF TypeOK, TypeQueues, TypeThreads
<1>2. ASSUME results # <<>>
      PROVE  Head(results) \in ToSet(results) /\ ToSet(Tail(results)) \subseteq ToSet(results)
  BY <1>1, <1>2 DEF ToSet
<1>3. ToSet(<<held>> \o results) = ToSet(results) \union {held}
  <2>1. <<held>> \o results \in Seq(TaskRecord)
        /\ Len(<<held>> \o results) = Len(results) + 1
        /\ (<<held>> \o results)[1] = held
    BY <1>1
  <2>2. \A i \in 1..Len(results) : (<<held>> \o results)[i + 1] = results[i]
    BY <1>1
  <2>3. \A i \in 2..(Len(results) + 1) : (<<held>> \o results)[i] = results[i - 1]
    BY <1>1
  <2>4. DOMAIN (<<held>> \o results) = 1..(Len(results) + 1)
    BY <1>1, <2>1
  <2>. DEFINE all == <<held>> \o results
  <2>5. \A i \in DOMAIN all : all[i] \in ToSet(results) \union {held}
    <3>1. \A i \in DOMAIN all : i = 1 \/ i - 1 \in 1..Len(results)
      BY <1>1, <2>4
    <3>. QED  BY <1>1, <2>1, <2>3, <2>4, <3>1 DEF ToSet
  <2>6. \A i \in DOMAIN results : results[i] = all[i + 1] /\ i + 1 \in DOMAIN all
    BY <1>1, <2>2, <2>4
  <2>7. 1 \in DOMAIN all /\ all[1] = held
    BY <1>1, <2>1, <2>4
  <2>. HIDE DEF all
  <2>8. ToSet(all) = ToSet(results) \union {held}
    BY <2>5, <2>6, <2>7 DEF ToSet
  <2>. QED  BY <2>8 DEF all
<1>4. ASSUME NEW t PROVE ToSet(Append(results, t)) = ToSet(results) \union {t}
  <2>1. /\ Len(Append(results, t)) = Len(results) + 1
        /\ Append(results, t)[Len(results) + 1] = t
        /\ \A i \in 1..Len(results) : Append(results, t)[i] = results[i]
    BY <1>1
  <2>2. DOMAIN Append(results, t) = 1..(Len(results) + 1)
    BY <1>1
  <2>. QED  BY <1>1, <2>1, <2>2 DEF ToSet
<1>. QED  BY <1>2, <1>3, <1>4

\* A result is taken from the queue and judged.  An answer to the block is
\* turned away only after the block was mined.
LEMMA JudgeKeepsChain ==
    ASSUME TypeOK, Agree, ChainInv, Get \/ CheckActive \/ Verify
    PROVE  ChainInv'
<1>. USE DEF queues, mining, blockLoop, redis, env
<1>1. /\ UNCHANGED <<chain, blk, stamp, tasks, bpc, active, mined, job>>
  BY DEF Get, CheckActive, Verify
<1>2. Answers' \subseteq Answers
  <2>1. CASE Get
    BY <2>1, <1>1, HeadIsAnswer DEF Get, Answers
  <2>2. CASE CheckActive \/ Verify
    BY <2>2, <1>1 DEF CheckActive, Verify, Answers, ToSet
  <2>. QED  BY <2>1, <2>2
<1>3. ChainLinked' /\ Stamped' /\ BlockFresh'
  BY <1>1, <1>2, FreshKept
<1>4. CASE Get
  BY <1>1, <1>3, <1>4 DEF Get, ChainInv, SavedOnce, Unsaved, Task
<1>5. ASSUME bpc \in Mining, held = Task(blk), ~active PROVE mined
  <2>1. bpc \notin Unpublished
    BY <1>5 DEF ChainInv, BlockFresh, Answers
  <2>. QED  BY <1>5, <2>1 DEF ChainInv, SavedOnce, Mining, Unpublished
<1>6. CASE CheckActive
  <2>1. SavedOnce'
    BY <1>1, <1>5, <1>6 DEF CheckActive, Wanted, ChainInv, SavedOnce, Unsaved, Task
  <2>. QED  BY <1>3, <2>1 DEF ChainInv
<1>7. CASE Verify
  <2>1. active /\ job = blk /\ bpc \in Mining
    BY <1>7 DEF Verify, Agree, Judged
  <2>2. Accepts(held) <=> held = Task(blk)
    <3>1. job # NoBlock
      BY <2>1, Stamps DEF ChainInv, BlockFresh, NoBlock, Genesis
    <3>2. held = [index |-> held.index, stamp |-> held.stamp]
      BY Stamps DEF TaskRecord
    <3>. QED  BY <2>1, <3>1, <3>2 DEF Accepts, Task
  <2>3. rpc' = IF held = Task(blk) THEN "save" ELSE "ack"
    BY <1>7, <2>2 DEF Verify
  <2>4. held' = held /\ rpc = "verify"
    BY <1>7 DEF Verify
  <2>5. SavedOnce'
    BY <1>1, <2>1, <2>3, <2>4 DEF ChainInv, SavedOnce, Unsaved, Task
  <2>. QED  BY <1>3, <2>5 DEF ChainInv
<1>. QED  BY <1>4, <1>6, <1>7

\* The block is saved onto the block it was built on.
LEMMA SaveKeepsChain ==
    ASSUME TypeOK, Agree, ChainInv, SaveBlock
    PROVE  ChainInv'
<1>. USE DEF queues, mining, blockLoop, env
<1>1. /\ UNCHANGED <<blk, stamp, tasks, results, held, bpc, active, mined>>
      /\ rpc = "save" /\ rpc' = "abort" /\ chain' = Append(chain, job)
  BY DEF SaveBlock, Persist
<1>2. active /\ job = blk /\ bpc \in Mining /\ held = Task(blk)
  BY <1>1 DEF Agree, Judged
<1>3. bpc \notin Unpublished
  BY <1>2 DEF ChainInv, BlockFresh, Answers
<1>4. Unsaved(blk) /\ blk.txs # <<>>
  BY <1>1, <1>2 DEF ChainInv, SavedOnce, BlockFresh
<1>5. ChainLinked'
  <2>1. chain \in Seq(BlockRecord) /\ Len(chain) \in Nat
    BY DEF TypeOK, TypeRedis
  <2>2. Len(chain') = Len(chain) + 1 /\ chain'[Len(chain) + 1] = blk
    BY <1>1, <1>2, <2>1
  <2>3. \A i \in 1..Len(chain) : chain'[i] = chain[i]
    BY <1>1, <2>1
  <2>4. \A i \in 1..Len(chain) : Linked(i)'
    BY <2>3 DEF ChainInv, ChainLinked, Linked
  <2>5. ASSUME NEW i \in 1..Len(chain'), i \notin 1..Len(chain) PROVE Linked(i)'
    <3>1. i = Len(chain) + 1
      BY <2>1, <2>2, <2>5
    <3>. QED  BY <1>4, <2>1, <2>2, <3>1 DEF Linked, Unsaved
  <2>. QED  BY <2>4, <2>5 DEF ChainLinked
<1>6. Answers' = Answers
  BY <1>1 DEF Answers, ToSet
<1>7. Stamped'
  BY <1>1, <1>6 DEF ChainInv, Stamped
<1>8. BlockFresh'
  BY <1>1, <1>3 DEF ChainInv, BlockFresh
<1>9. SavedOnce'
  BY <1>1, <1>2 DEF ChainInv, SavedOnce, Task
<1>. QED  BY <1>5, <1>7, <1>8, <1>9 DEF ChainInv

\* The answer is disposed of: the block complete, or nothing written.
LEMMA DisposeKeepsChain ==
    ASSUME TypeOK, Agree, ChainInv,
           BroadcastAbort \/ MarkComplete \/ Ack \/ SaveFails \/ AckLost
    PROVE  ChainInv'
<1>. USE DEF queues, mining, blockLoop, redis, env
<1>1. UNCHANGED <<chain, blk, stamp, tasks, bpc>>
  BY DEF BroadcastAbort, MarkComplete, Ack, SaveFails, AckLost
<1>2. Answers' \subseteq Answers \union {NoTask}
  <2>1. CASE AckLost
    BY <2>1, <1>1, HeadIsAnswer DEF AckLost, Answers
  <2>2. CASE BroadcastAbort \/ MarkComplete \/ Ack \/ SaveFails
    BY <2>2, <1>1 DEF BroadcastAbort, MarkComplete, Ack, SaveFails, Answers, ToSet
  <2>. QED  BY <2>1, <2>2
<1>3. ChainLinked' /\ Stamped' /\ BlockFresh'
  BY <1>1, <1>2, FreshKept
<1>4. SavedOnce'
  <2>1. CASE BroadcastAbort
    BY <1>1, <2>1 DEF BroadcastAbort, ChainInv, SavedOnce, Unsaved, Task
  <2>2. CASE MarkComplete
    BY <1>1, <2>2 DEF MarkComplete, mark_mining_complete, SavedOnce
  <2>3. CASE Ack \/ SaveFails \/ AckLost
    <3>1. /\ rpc \notin {"abort", "complete"} /\ rpc' = "poll" /\ held' = NoTask
          /\ UNCHANGED <<active, mined>>
      BY <2>3 DEF Ack, SaveFails, AckLost
    <3>. QED  BY <1>1, <3>1 DEF ChainInv, SavedOnce, Unsaved
  <2>. QED  BY <2>1, <2>2, <2>3
<1>. QED  BY <1>3, <1>4 DEF ChainInv

\* Miners answer only what was published; a crash loses block and job.
LEMMA EnvironmentKeepsChain ==
    ASSUME TypeOK, Agree, ChainInv,
           Crash \/ Lose \/ \E t \in tasks : Solve(t) \/ Retire(t)
    PROVE  ChainInv'
<1>. USE DEF queues, mining, blockLoop, resultLoop, redis, env
<1>1. CASE Crash
  <2>1. /\ UNCHANGED <<chain, stamp, tasks>> /\ blk' = NoBlock /\ bpc' = "down"
        /\ ~active' /\ rpc' = "poll" /\ held' = NoTask
        /\ results' \in {results, <<held>> \o results}
    BY <1>1 DEF Crash
  <2>2. Answers' \subseteq Answers \union {NoTask}
    BY <2>1, HeadIsAnswer DEF Answers
  <2>3. NoBlock.stamp = 0
    BY DEF NoBlock, Genesis
  <2>4. ChainLinked' /\ Stamped'
    BY <2>1, <2>2, <2>3, Stamps DEF ChainInv, ChainLinked, Linked, Stamped
  <2>5. BlockFresh' /\ SavedOnce'
    BY <2>1 DEF BlockFresh, SavedOnce, Mining, Unpublished
  <2>. QED  BY <2>4, <2>5 DEF ChainInv
<1>2. ASSUME Lose \/ \E t \in tasks : Solve(t) \/ Retire(t) PROVE ChainInv'
  <2>1. UNCHANGED <<chain, blk, stamp, bpc, rpc, held, active, mined>>
    BY <1>2 DEF Lose, Solve, Retire
  <2>2. Answers' \subseteq Answers \union {Wrong(Task(blk))}
    <3>1. ASSUME NEW t \in tasks, Solve(t) \/ Retire(t) PROVE Answers' \subseteq Answers
      <4>1. CASE Solve(t)
        BY <2>1, <4>1, HeadIsAnswer DEF Solve, Answers
      <4>2. CASE Retire(t)
        BY <2>1, <4>2 DEF Retire, Answers, ToSet
      <4>. QED  BY <3>1, <4>1, <4>2
    <3>2. CASE Lose
      BY <2>1, <3>2, HeadIsAnswer DEF Lose, Answers
    <3>. QED  BY <1>2, <3>1, <3>2
  <2>3. ChainLinked' /\ Stamped' /\ BlockFresh'
    BY <2>1, <2>2, FreshKept
  <2>4. SavedOnce'
    BY <2>1 DEF ChainInv, SavedOnce, Unsaved, Task
  <2>. QED  BY <2>3, <2>4 DEF ChainInv
<1>. QED  BY <1>1, <1>2

\* Every step keeps the chain, if answers are never late and aborts never fail.
LEMMA NextChain ==
    Orderly /\ TypeOK /\ Agree /\ ChainInv /\ [Next]_vars => ChainInv'
<1>. SUFFICES ASSUME Orderly, TypeOK, Agree, ChainInv, [Next]_vars PROVE ChainInv'
  OBVIOUS
<1>1. CASE BlockLoopStep
  BY <1>1, OthersKeepChain, CreateKeepsChain, PublishKeepsChain DEF BlockLoopStep
<1>2. CASE ResultLoopStep
  BY <1>2, JudgeKeepsChain, SaveKeepsChain, DisposeKeepsChain DEF ResultLoopStep
<1>3. CASE Fault
  <2>1. ~AbortFails
    <3>1. used["aborts"] \in Nat
      BY DEF TypeOK, TypeEnv, Counted
    <3>. QED  BY <3>1 DEF AbortFails, May, Orderly
  <2>. QED  BY <1>3, <2>1, OthersKeepChain, DisposeKeepsChain, EnvironmentKeepsChain DEF Fault
<1>4. CASE \/ \E h \in Handlers : HttpStep(h)
           \/ Rebuild \/ StartThreads \/ \E p \in Pools : PoolStep(p)
  BY <1>4, OthersKeepChain
<1>5. CASE \E t \in tasks : Solve(t) \/ Retire(t)
  BY <1>5, EnvironmentKeepsChain
<1>6. CASE UNCHANGED vars
  <2>1. /\ UNCHANGED <<chain, blk, stamp, tasks, results, held, rpc, active, mined>>
        /\ UNCHANGED bpc
    BY <1>6 DEF vars, redis, queues, mining, blockLoop, resultLoop, env
  <2>. QED  BY <2>1, Undisturbed
<1>. QED  BY <1>1, <1>2, <1>3, <1>4, <1>5, <1>6 DEF Next

\* validate_chain finds nothing wrong at any restart, however many of them,
\* and however many answers were lost, wrong, stale or repeated, as long as no
\* wait expires with an answer on its way and no abort raises after a save.
THEOREM ChainValidCorrect ==
    ASSUME Orderly
    PROVE  Spec => []ChainValid
<1>1. Init => TypeOK /\ Agree /\ ChainInv
  BY InitType, InitChain DEF Init, Agree, Judged
<1>2. TypeOK /\ Agree /\ ChainInv /\ [Next]_vars => TypeOK' /\ Agree' /\ ChainInv'
  BY NextType, NextAgree, NextChain
<1>3. TypeOK /\ ChainInv => ChainValid
  <2>. SUFFICES ASSUME TypeOK, ChainInv, NEW i \in DOMAIN chain
                PROVE  BlockValid(chain, i)
    BY DEF ChainValid
  <2>1. chain \in Seq(BlockRecord) /\ i \in 1..Len(chain)
    BY DEF TypeOK, TypeRedis
  <2>2. Linked(i) /\ (i > 1 => Linked(i - 1))
    BY <2>1 DEF ChainInv, ChainLinked
  <2>3. chain[i].txs \in Seq(GoodTxs)
    BY <2>1, BlockTxsType
  <2>4. \A k \in DOMAIN chain[i].txs : WellFormed(chain[i].txs[k])
    BY <2>3 DEF GoodTxs
  <2>. QED  BY <2>1, <2>2, <2>4 DEF BlockValid, Linked
<1>. QED  BY <1>1, <1>2, <1>3, PTL DEF Spec
=============================================================================
