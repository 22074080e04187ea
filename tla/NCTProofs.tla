------------------------------ MODULE NCTProofs ------------------------------
(***************************************************************************)
(* Theorems about the coordinator, for every set of accounts, transactions *)
(* and handlers, every nonce window and every value of the bounds.         *)
(***************************************************************************)
EXTENDS NCT, LedgerProofs, SequenceTheorems

(***************************************************************************)
(* Types.                                                                  *)
(***************************************************************************)

\* The values the locals start from.
LEMMA ConstantsType ==
    /\ Genesis \in BlockRecord /\ NoBlock \in BlockRecord /\ NoTask \in TaskRecord
    /\ NoBalances \in [Accounts -> Int] /\ NoNonces \in [Accounts -> Nat]
    /\ Idle \in HandlerRecord
<1>1. (CHOOSE tx \in GoodTxs : TRUE) \in GoodTxs
  BY LedgerAssumption
<1>2. Idle \in HandlerRecord
  BY <1>1 DEF Idle, HandlerRecord
<1>3. Genesis \in BlockRecord
  BY DEF Genesis, BlockRecord
<1>4. NoBlock \in BlockRecord
  BY <1>3 DEF NoBlock
<1>5. NoTask \in TaskRecord
  BY DEF NoTask, Task, NoBlock, Genesis, TaskRecord
<1>6. NoBalances \in [Accounts -> Int] /\ NoNonces \in [Accounts -> Nat]
  BY DEF NoBalances, NoNonces
<1>. QED  BY <1>2, <1>3, <1>4, <1>5, <1>6

\* The initial state has the right types.
LEMMA InitType == Init => TypeOK
<1>. SUFFICES ASSUME Init PROVE TypeOK
  OBVIOUS
<1>1. TypeRedis
  BY ConstantsType DEF Init, TypeRedis
<1>2. TypeQueues
  BY DEF Init, TypeQueues
<1>3. TypeState
  BY ConstantsType DEF Init, TypeState, process
<1>4. TypeDrain
  BY ConstantsType DEF Init, TypeDrain
<1>5. TypeThreads
  BY ConstantsType DEF Init, TypeThreads, HandlerRecord, BlockLoopPCs, ResultLoopPCs
<1>6. TypeEnv
  BY NCTAssumption DEF Init, TypeEnv, TypeRegistry, RegistryInit
<1>. QED  BY <1>1, <1>2, <1>3, <1>4, <1>5, <1>6 DEF TypeOK

\* A part of the type invariant that an action does not touch holds after it.
LEMMA Unchanged ==
    ASSUME TypeOK
    PROVE  /\ UNCHANGED redis => TypeRedis'
           /\ UNCHANGED queues => TypeQueues'
           /\ UNCHANGED <<process, pool, mining, height>> => TypeState'
           /\ UNCHANGED drain => TypeDrain'
           /\ UNCHANGED <<bpc, blk, rpc, held, http, arrived>> => TypeThreads'
           /\ UNCHANGED env => TypeEnv'
<1>1. UNCHANGED redis => TypeRedis'
  BY DEF TypeOK, TypeRedis, redis
<1>2. UNCHANGED queues => TypeQueues'
  BY DEF TypeOK, TypeQueues, queues
<1>3. UNCHANGED <<process, pool, mining, height>> => TypeState'
  BY DEF TypeOK, TypeState, mining, process
<1>4. UNCHANGED drain => TypeDrain'
  BY DEF TypeOK, TypeDrain, drain
<1>5. UNCHANGED <<bpc, blk, rpc, held, http, arrived>> => TypeThreads'
  BY DEF TypeOK, TypeThreads
<1>6. UNCHANGED env => TypeEnv'
  BY DEF TypeOK, TypeEnv, TypeRegistry, env, search, registry
<1>. QED  BY <1>1, <1>2, <1>3, <1>4, <1>5, <1>6

\* Counting a fault keeps the counters' types.
LEMMA UsedType ==
    ASSUME TypeOK, NEW f \in Counted, Use(f)
    PROVE  used' \in [Counted -> Nat]
<1>1. "faults" \in Counted /\ used \in [Counted -> Nat]
  BY DEF TypeOK, TypeEnv, Counted
<1>2. \A g \in Counted : used[g] \in Nat /\ used[g] + 1 \in Nat
  BY <1>1
<1>. QED  BY <1>1, <1>2 DEF Use

\* Counting a fault keeps the environment's types.
LEMMA UseType ==
    ASSUME TypeOK, NEW f \in Counted, Use(f),
           UNCHANGED <<registry, accepted, stamp>>, space' \in Nat
    PROVE  TypeEnv'
BY UsedType DEF TypeOK, TypeEnv, TypeRegistry, registry

\* The requests: what gets past the checks is a well-formed transaction.
LEMMA HttpStepType ==
    ASSUME TypeOK, NEW h \in Handlers, HttpStep(h)
    PROVE  TypeOK'
<1>. USE DEF blockLoop, resultLoop, handlers, env
<1>1. ASSUME NEW tx \in Txs, PostCheck(h, tx) PROVE TypeOK'
  <2>1. tx \in GoodTxs
    BY <1>1 DEF PostCheck, Admissible, GoodTxs
  <2>2. http' \in [Handlers -> HandlerRecord]
    BY <1>1, <2>1 DEF PostCheck, TypeOK, TypeThreads, HandlerRecord
  <2>3. TypeThreads'
    BY <1>1, <2>2 DEF PostCheck, TypeOK, TypeThreads, HandlerRecord
  <2>4. TypeEnv'
    BY <1>1 DEF PostCheck, TypeOK, TypeEnv, TypeRegistry, search, registry, Counted
  <2>. QED  BY <1>1, <2>3, <2>4, Unchanged DEF PostCheck, TypeOK
<1>2. CASE PostAdd(h)
  <2>1. http[h].tx \in GoodTxs /\ arrived' \in Nat
    BY <1>2 DEF PostAdd, TypeOK, TypeThreads, HandlerRecord
  <2>2. TypeState'
    BY <1>2, <2>1 DEF PostAdd, TypeOK, TypeState, process, PoolEntry, mining
  <2>3. TypeThreads'
    BY <1>2, <2>1 DEF PostAdd, TypeOK, TypeThreads, HandlerRecord
  <2>. QED  BY <1>2, <2>2, <2>3, Unchanged DEF PostAdd, TypeOK
<1>3. CASE PostSave(h)
  <2>1. http[h].tx \in GoodTxs
    BY DEF TypeOK, TypeThreads, HandlerRecord
  <2>2. TypeRedis'
    BY <1>3, <2>1 DEF PostSave, TypeOK, TypeRedis
  <2>3. TypeThreads'
    BY <1>3, ConstantsType DEF PostSave, TypeOK, TypeThreads, HandlerRecord
  <2>4. TypeEnv'
    BY <1>3, <2>1 DEF PostSave, TypeOK, TypeEnv, TypeRegistry, search, registry
  <2>. QED  BY <1>3, <2>2, <2>3, <2>4, Unchanged DEF PostSave, TypeOK
<1>. QED  BY <1>1, <1>2, <1>3 DEF HttpStep

\* The drain: it sorts entries of the pool into lists of good transactions.
LEMMA DrainStepType ==
    ASSUME TypeOK, NEW e \in left,
           DrainGap(e) \/ DrainReplay(e) \/ DrainAccept(e) \/ DrainReject(e)
    PROVE  TypeOK'
<1>. USE DEF resultLoop, handlers
<1>1. e.tx \in GoodTxs /\ e.tx.sender \in Accounts
  <2>1. e.tx \in GoodTxs
    BY DEF TypeOK, TypeDrain, PoolEntry
  <2>. QED  BY <2>1, GoodTxsType DEF TxRecord
<1>2. TypeDrain'
  <2>1. CASE DrainGap(e)
    BY <2>1 DEF DrainGap, TypeOK, TypeDrain
  <2>2. CASE DrainReplay(e)
    BY <2>2, <1>1 DEF DrainReplay, TypeOK, TypeDrain
  <2>3. CASE DrainAccept(e)
    <3>1. \A a \in Accounts : overlay[a] + Delta(e.tx, a) \in Int
      BY <1>1, DeltaType DEF TypeOK, TypeDrain
    <3>2. overlay' \in [Accounts -> Int]
      BY <2>3, <3>1 DEF DrainAccept
    <3>3. expected' \in [Accounts -> Nat]
      BY <2>3, <1>1 DEF DrainAccept, TypeOK, TypeDrain
    <3>4. valid' \in Seq(GoodTxs)
      BY <2>3, <1>1 DEF DrainAccept, TypeOK, TypeDrain
    <3>. QED  BY <2>3, <3>2, <3>3, <3>4 DEF DrainAccept, TypeOK, TypeDrain
  <2>4. CASE DrainReject(e)
    BY <2>4, <1>1 DEF DrainReject, TypeOK, TypeDrain
  <2>. QED  BY <2>1, <2>2, <2>3, <2>4
<1>3. UNCHANGED <<redis, queues, process, pool, mining, height, bpc, blk,
                  resultLoop, handlers, env>>
  BY DEF DrainGap, DrainReplay, DrainAccept, DrainReject
<1>. QED  BY <1>2, <1>3, Unchanged DEF TypeOK

\* The locals of the drain, forgotten, keep their types.
LEMMA ForgetDrainType == ForgetDrain => TypeDrain'
BY ConstantsType DEF ForgetDrain, TypeDrain

\* From the drained transactions to a block that waits to be mined.
LEMMA BuildStepType ==
    ASSUME TypeOK,
           \/ TakeSnapshot \/ RemoveFromPool \/ TrimPending \/ RecordDiscarded
           \/ NothingToMine \/ CreateBlock
    PROVE  TypeOK'
<1>. USE DEF resultLoop, handlers, drain, env
<1>1. CASE TakeSnapshot
  <2>1. TypeDrain'
    BY <1>1, ConstantsType DEF TakeSnapshot, TypeOK, TypeRedis, TypeState, process, TypeDrain
  <2>2. TypeThreads'
    BY <1>1 DEF TakeSnapshot, TypeOK, TypeThreads, BlockLoopPCs
  <2>. QED  BY <1>1, <2>1, <2>2, Unchanged DEF TakeSnapshot, TypeOK
<1>2. CASE RemoveFromPool
  <2>1. TypeState'
    BY <1>2 DEF RemoveFromPool, Remaining, TypeOK, TypeState, process, mining
  <2>2. TypeThreads'
    BY <1>2 DEF RemoveFromPool, TypeOK, TypeThreads, BlockLoopPCs
  <2>. QED  BY <1>2, <2>1, <2>2, Unchanged DEF RemoveFromPool, TypeOK
<1>3. CASE TrimPending
  <2>. DEFINE count == Len(valid) + Len(dropped)
  <2>1. count \in Nat /\ pending \in Seq(GoodTxs)
    BY DEF TypeOK, TypeDrain, TypeRedis
  <2>2. \A i \in (count + 1)..Len(pending) : pending[i] \in GoodTxs
    BY <2>1
  <2>3. pending' \in Seq(GoodTxs)
    <3>1. pending' = SubSeq(pending, count + 1, Len(pending))
      BY <1>3 DEF TrimPending
    <3>. HIDE DEF count
    <3>. QED  BY <2>1, <2>2, <3>1, SubSeqProperties
  <2>4. TypeRedis'
    BY <1>3, <2>3 DEF TrimPending, TypeOK, TypeRedis
  <2>5. TypeThreads'
    BY <1>3 DEF TrimPending, TypeOK, TypeThreads, BlockLoopPCs
  <2>. QED  BY <1>3, <2>4, <2>5, Unchanged DEF TrimPending, TypeOK
<1>4. CASE RecordDiscarded
  <2>1. Head(dropped) \in GoodTxs /\ Tail(dropped) \in Seq(GoodTxs)
    BY <1>4, HeadTailProperties DEF RecordDiscarded, TypeOK, TypeDrain
  <2>2. Head(dropped).sender \in Accounts
    BY <2>1, GoodTxsType DEF TxRecord
  <2>3. TypeRedis'
    BY <1>4, <2>1, <2>2 DEF RecordDiscarded, TypeOK, TypeRedis
  <2>4. TypeDrain'
    BY <1>4, <2>1 DEF RecordDiscarded, TypeOK, TypeDrain
  <2>. QED  BY <1>4, <2>3, <2>4, Unchanged DEF RecordDiscarded, TypeOK
<1>5. CASE NothingToMine
  <2>1. TypeDrain'
    BY <1>5, ForgetDrainType DEF NothingToMine
  <2>2. TypeThreads'
    BY <1>5 DEF NothingToMine, TypeOK, TypeThreads, BlockLoopPCs
  <2>. QED  BY <1>5, <2>1, <2>2, Unchanged DEF NothingToMine, TypeOK
<1>6. CASE CreateBlock
  <2>1. chain[Len(chain)] \in BlockRecord /\ Len(chain) \in Nat
    BY DEF TypeOK, TypeRedis
  <2>2. NextIndex \in Nat
    BY <2>1 DEF NextIndex, BlockRecord
  <2>3. blk' \in BlockRecord /\ stamp' \in Nat
    BY <1>6, <2>1, <2>2 DEF CreateBlock, BlockRecord, TypeOK, TypeDrain, TypeEnv
  <2>4. TypeDrain'
    BY <1>6, ForgetDrainType DEF CreateBlock
  <2>5. TypeThreads'
    BY <1>6, <2>3 DEF CreateBlock, TypeOK, TypeThreads, BlockLoopPCs
  <2>6. TypeEnv'
    BY <1>6, <2>3, NCTAssumption DEF CreateBlock, TypeOK, TypeEnv, TypeRegistry, registry
  <2>. QED  BY <1>6, <2>4, <2>5, <2>6, Unchanged DEF CreateBlock, TypeOK
<1>. QED  BY <1>1, <1>2, <1>3, <1>4, <1>5, <1>6

\* The doubled range is a range.
LEMMA ExpandedType == TypeOK => Expanded \in Nat
<1>. SUFFICES ASSUME TypeOK PROVE Expanded \in Nat
  OBVIOUS
<1>1. 2 * space \in Nat /\ MaxNonceSpace \in Nat
  BY NCTAssumption DEF TypeOK, TypeEnv
<1>2. CASE 2 * space <= MaxNonceSpace
  BY <1>1, <1>2 DEF Expanded, Min
<1>3. CASE ~(2 * space <= MaxNonceSpace)
  BY <1>1, <1>3 DEF Expanded, Min
<1>. QED  BY <1>2, <1>3

\* Waiting for the miners moves control, and makes the block the current one.
LEMMA MineStepType ==
    ASSUME TypeOK,
           \/ GateClosed \/ BackoffOver \/ BlockDone \/ GateOpen
           \/ SetCurrentBlock \/ Publish \/ Timeout
    PROVE  TypeOK'
<1>. USE DEF resultLoop, handlers, env
<1>1. TypeThreads'
  <2>1. bpc' \in BlockLoopPCs /\ blk' \in BlockRecord
    BY ConstantsType DEF GateClosed, BackoffOver, BlockDone, GateOpen, SetCurrentBlock,
        Publish, Timeout, TypeOK, TypeThreads, BlockLoopPCs
  <2>2. UNCHANGED <<rpc, held, http, arrived>>
    BY DEF GateClosed, BackoffOver, BlockDone, GateOpen, SetCurrentBlock, Publish,
        Timeout
  <2>. QED  BY <2>1, <2>2 DEF TypeOK, TypeThreads
<1>2. CASE GateClosed \/ BackoffOver \/ BlockDone \/ GateOpen
  BY <1>1, <1>2, Unchanged DEF GateClosed, BackoffOver, BlockDone, GateOpen, TypeOK
<1>3. CASE SetCurrentBlock
  <2>1. TypeState'
    BY <1>3 DEF SetCurrentBlock, TypeOK, TypeState, process, TypeThreads
  <2>. QED  BY <1>1, <1>3, <2>1, Unchanged DEF SetCurrentBlock, TypeOK
<1>4. CASE Publish
  <2>1. Task(blk) \in TaskRecord
    BY DEF Task, TaskRecord, BlockRecord, TypeOK, TypeThreads
  <2>2. TypeQueues'
    BY <1>4, <2>1 DEF Publish, TypeOK, TypeQueues
  <2>. QED  BY <1>1, <1>4, <2>2, Unchanged DEF Publish, TypeOK
<1>5. CASE Timeout
  <2>1. space' \in Nat
    BY <1>5, ExpandedType DEF Timeout
  <2>2. TypeEnv'
    <3>1. CASE UNCHANGED used
      BY <1>5, <2>1, <3>1 DEF Timeout, TypeOK, TypeEnv, TypeRegistry, registry
    <3>2. CASE Use("early")
      BY <1>5, <2>1, <3>2, UseType DEF Timeout, Counted
    <3>. QED  BY <1>5, <3>1, <3>2 DEF Timeout
  <2>. QED  BY <1>1, <1>5, <2>2, Unchanged DEF Timeout, TypeOK
<1>. QED  BY <1>2, <1>3, <1>4, <1>5

\* A result taken from the queue, judged, and acknowledged or put back.
LEMMA ResultStepType ==
    ASSUME TypeOK,
           \/ Get \/ CheckActive \/ Verify \/ BroadcastAbort \/ MarkComplete
           \/ Ack \/ SaveFails \/ AbortFails \/ AckLost
    PROVE  TypeOK'
<1>. USE DEF blockLoop, handlers
<1>1. TypeQueues' /\ held' \in TaskRecord
  <2>1. held \in TaskRecord /\ results \in Seq(TaskRecord) /\ NoTask \in TaskRecord
    BY ConstantsType DEF TypeOK, TypeThreads, TypeQueues
  <2>2. CASE Get
    <3>1. Head(results) \in TaskRecord /\ Tail(results) \in Seq(TaskRecord)
      BY <2>1, <2>2, HeadTailProperties DEF Get
    <3>. QED  BY <2>2, <3>1 DEF Get, TypeOK, TypeQueues
  <2>3. CASE AbortFails \/ AckLost
    <3>1. <<held>> \o results \in Seq(TaskRecord)
      BY <2>1
    <3>2. results' \in Seq(TaskRecord) /\ tasks' = tasks /\ held' = NoTask
      BY <2>1, <2>3, <3>1 DEF AbortFails, AckLost
    <3>. QED  BY <2>1, <3>2 DEF TypeOK, TypeQueues
  <2>4. CASE ~(Get \/ AbortFails \/ AckLost)
    <3>1. UNCHANGED queues /\ held' \in {held, NoTask}
      BY <2>4 DEF CheckActive, Verify, BroadcastAbort, MarkComplete, Ack, SaveFails
    <3>. QED  BY <2>1, <3>1, Unchanged
  <2>. QED  BY <2>2, <2>3, <2>4
<1>2. TypeThreads'
  <2>1. rpc' \in ResultLoopPCs
    BY DEF Get, CheckActive, Verify, BroadcastAbort, MarkComplete, Ack, SaveFails,
        AbortFails, AckLost, ResultLoopPCs
  <2>2. UNCHANGED <<bpc, blk, http, arrived>>
    BY DEF Get, CheckActive, Verify, BroadcastAbort, MarkComplete, Ack, SaveFails,
        AbortFails, AckLost
  <2>. QED  BY <1>1, <2>1, <2>2 DEF TypeOK, TypeThreads
<1>3. TypeState'
  <2>1. CASE MarkComplete
    BY <2>1 DEF MarkComplete, mark_mining_complete, TypeOK, TypeState, process
  <2>2. CASE ~MarkComplete
    <3>1. UNCHANGED <<process, pool, mining, height>>
      BY <2>2 DEF Get, CheckActive, Verify, BroadcastAbort, Ack, SaveFails, AbortFails,
          AckLost
    <3>. QED  BY <3>1, Unchanged
  <2>. QED  BY <2>1, <2>2
<1>4. TypeEnv'
  <2>1. CASE SaveFails \/ AbortFails \/ AckLost
    BY <2>1, UseType DEF SaveFails, AbortFails, AckLost, Counted, search, TypeOK, TypeEnv
  <2>2. CASE ~(SaveFails \/ AbortFails \/ AckLost)
    BY <2>2, Unchanged DEF Get, CheckActive, Verify, BroadcastAbort, MarkComplete, Ack
  <2>. QED  BY <2>1, <2>2
<1>5. UNCHANGED <<redis, drain>>
  BY DEF Get, CheckActive, Verify, BroadcastAbort, MarkComplete, Ack, SaveFails,
      AbortFails, AckLost
<1>. QED  BY <1>1, <1>2, <1>3, <1>4, <1>5, Unchanged DEF TypeOK

\* Saving a block leaves a chain of blocks, balances and nonces.
LEMMA SaveBlockType ==
    ASSUME TypeOK, SaveBlock
    PROVE  TypeOK'
<1>. USE DEF blockLoop, handlers
<1>1. job \in BlockRecord /\ job.txs \in Seq(GoodTxs) /\ job.index \in Nat
  BY DEF TypeOK, TypeState, process, BlockRecord
<1>2. chain' \in Seq(BlockRecord) /\ chain' # <<>>
  <2>1. chain' = Append(chain, job) /\ chain \in Seq(BlockRecord)
    BY DEF SaveBlock, Persist, TypeOK, TypeRedis
  <2>2. Len(chain') = Len(chain) + 1 /\ Len(chain) \in Nat
    BY <2>1, <1>1
  <2>. QED  BY <1>1, <2>1, <2>2, EmptySeq
<1>3. balance' \in [Accounts -> Int]
  BY <1>1, BalancesAfterType DEF SaveBlock, Persist, TypeOK, TypeRedis
<1>4. nonceOf' \in [Accounts -> Nat]
  BY <1>1, NoncesAfterType DEF SaveBlock, Persist, TypeOK, TypeRedis
<1>5. TypeRedis'
  BY <1>2, <1>3, <1>4 DEF SaveBlock, TypeOK, TypeRedis
<1>6. TypeState'
  BY <1>1 DEF SaveBlock, TypeOK, TypeState, process, mining
<1>7. TypeThreads'
  BY DEF SaveBlock, TypeOK, TypeThreads, ResultLoopPCs
<1>. QED  BY <1>5, <1>6, <1>7, Unchanged DEF SaveBlock, TypeOK

\* Dying loses the memory of the process; booting reads it back from Redis.
LEMMA RestartType ==
    ASSUME TypeOK, Crash \/ Rebuild \/ StartThreads
    PROVE  TypeOK'
<1>. USE DEF blockLoop, resultLoop, handlers, env, redis, queues
<1>1. CASE Crash
  <2>1. TypeQueues'
    <3>1. <<held>> \o results \in Seq(TaskRecord)
      BY DEF TypeOK, TypeQueues, TypeThreads
    <3>. QED  BY <1>1, <3>1 DEF Crash, TypeOK, TypeQueues
  <2>2. TypeState'
    BY <1>1, ConstantsType DEF Crash, TypeOK, TypeState, process
  <2>3. TypeDrain'
    BY <1>1, ForgetDrainType DEF Crash
  <2>4. TypeThreads'
    BY <1>1, ConstantsType DEF Crash, TypeOK, TypeThreads, BlockLoopPCs, ResultLoopPCs
  <2>5. TypeEnv'
    BY <1>1, UsedType, NCTAssumption DEF Crash, Counted, ForgetPools, TypeOK, TypeEnv,
        TypeRegistry
  <2>6. TypeRedis'
    BY <1>1, Unchanged DEF Crash
  <2>. QED  BY <2>1, <2>2, <2>3, <2>4, <2>5, <2>6 DEF TypeOK
<1>2. CASE Rebuild
  <2>1. CASE RebuildBlock
    <3>1. TypeState'
      BY <2>1 DEF RebuildBlock, TypeOK, TypeState, mining
    <3>. QED  BY <2>1, <3>1, Unchanged DEF RebuildBlock, TypeOK
  <2>2. CASE Booting /\ applied < Len(Walking)
    <3>. DEFINE tx == Walking[applied + 1]
    <3>1. walked + 1 \in 1..Len(chain) /\ chain \in Seq(BlockRecord)
      BY <2>2 DEF Booting, TypeOK, TypeRedis, TypeState
    <3>2. Walking \in Seq(GoodTxs)
      BY <3>1, BlockTxsType DEF Walking, Walk
    <3>3. tx \in GoodTxs
      BY <2>2, <3>2 DEF TypeOK, TypeState
    <3>4. tx.sender \in Accounts /\ tx.nonce + 1 \in Nat
      BY <3>3, GoodTxsType DEF TxRecord
    <3>. HIDE DEF tx
    <3>5. CASE RebuildBalance
      <4>1. balance' = [a \in Accounts |-> balance[a] + Delta(tx, a)]
        BY <3>5 DEF RebuildBalance, tx
      <4>2. \A a \in Accounts : balance[a] + Delta(tx, a) \in Int
        BY <3>3, DeltaType DEF TypeOK, TypeRedis
      <4>3. TypeRedis'
        BY <3>5, <4>1, <4>2 DEF RebuildBalance, TypeOK, TypeRedis
      <4>4. TypeState'
        BY <3>5 DEF RebuildBalance, TypeOK, TypeState, mining
      <4>. QED  BY <3>5, <4>3, <4>4, Unchanged DEF RebuildBalance, TypeOK
    <3>6. CASE RebuildNonce
      <4>1. nonceOf' = [nonceOf EXCEPT ![tx.sender] = tx.nonce + 1]
        BY <3>6 DEF RebuildNonce, tx
      <4>2. TypeRedis'
        BY <3>4, <3>6, <4>1 DEF RebuildNonce, TypeOK, TypeRedis
      <4>3. /\ applied' = applied + 1 /\ credited' = FALSE
            /\ UNCHANGED <<proc, walked, pool, mining, height>>
        BY <3>6 DEF RebuildNonce
      <4>4. applied' \in Nat
        BY <4>3 DEF TypeOK, TypeState
      <4>5. TypeState'
        BY <4>3, <4>4 DEF TypeOK, TypeState, mining
      <4>. QED  BY <3>6, <4>2, <4>5, Unchanged DEF RebuildNonce, TypeOK
    <3>. QED  BY <1>2, <2>2, <3>5, <3>6 DEF Rebuild, RebuildBlock
  <2>. QED  BY <1>2, <2>1, <2>2 DEF Rebuild, RebuildBalance, RebuildNonce
<1>3. CASE StartThreads
  <2>1. \A i \in DOMAIN pending : [at |-> i, tx |-> pending[i]] \in PoolEntry
    BY DEF TypeOK, TypeRedis, PoolEntry
  <2>2. Len(pending) \in Nat
    BY DEF TypeOK, TypeRedis
  <2>3. TypeState'
    BY <1>3, <2>1 DEF StartThreads, TypeOK, TypeState, process, mining
  <2>4. TypeThreads'
    BY <1>3, <2>2 DEF StartThreads, TypeOK, TypeThreads, BlockLoopPCs
  <2>. QED  BY <1>3, <2>3, <2>4, Unchanged DEF StartThreads, TypeOK
<1>. QED  BY <1>1, <1>2, <1>3

\* Miners and pools touch the queues and what is seen of the pools.
LEMMA MinerStepType ==
    ASSUME TypeOK,
           \/ Lose
           \/ \E t \in tasks : Solve(t) \/ Retire(t)
    PROVE  TypeOK'
<1>. USE DEF blockLoop, resultLoop, handlers
<1>1. ASSUME NEW t \in tasks, Solve(t) \/ Retire(t) PROVE TypeOK'
  <2>1. TypeQueues'
    BY <1>1 DEF Solve, Retire, TypeOK, TypeQueues
  <2>. QED  BY <1>1, <2>1, Unchanged DEF Solve, Retire, TypeOK
<1>2. CASE Lose
  <2>1. Wrong(Task(blk)) \in TaskRecord
    BY DEF Wrong, Task, TaskRecord, BlockRecord, TypeOK, TypeThreads
  <2>2. TypeQueues'
    BY <1>2, <2>1 DEF Lose, TypeOK, TypeQueues
  <2>3. TypeEnv'
    BY <1>2, UseType DEF Lose, Counted, search, TypeOK, TypeEnv
  <2>. QED  BY <1>2, <2>2, <2>3, Unchanged DEF Lose, TypeOK
<1>. QED  BY <1>1, <1>2

\* Heartbeats, reports and timeouts of pools touch the registry.
LEMMA PoolStepType ==
    ASSUME TypeOK, NEW p \in Pools, PoolStep(p)
    PROVE  TypeOK'
<1>. USE DEF blockLoop, resultLoop, handlers, RegistryOnly
<1>1. RegistryOnly
  BY DEF PoolStep, OnPoolHeartbeat, OnNoWorkers, PoolTimesOut
<1>2. TypeRegistry'
  BY DEF PoolStep, OnPoolHeartbeat, OnNoWorkers, PoolTimesOut, mark_pool_alive,
      mark_pool_dead, ExpirePool, TypeOK, TypeEnv, TypeRegistry
<1>3. used' \in [Counted -> Nat]
  <2>1. CASE OnPoolHeartbeat(p)
    BY <2>1 DEF OnPoolHeartbeat, TypeOK, TypeEnv
  <2>2. CASE OnNoWorkers(p) \/ PoolTimesOut(p)
    BY <2>2, UsedType DEF OnNoWorkers, PoolTimesOut, Counted
  <2>. QED  BY <2>1, <2>2 DEF PoolStep
<1>4. TypeEnv'
  BY <1>1, <1>2, <1>3 DEF TypeOK, TypeEnv
<1>. QED  BY <1>1, <1>4, Unchanged DEF TypeOK

\* Every step keeps the types.
LEMMA NextType == TypeOK /\ [Next]_vars => TypeOK'
<1>. SUFFICES ASSUME TypeOK, [Next]_vars PROVE TypeOK'
  OBVIOUS
<1>1. ASSUME NEW h \in Handlers, HttpStep(h) PROVE TypeOK'
  BY <1>1, HttpStepType
<1>2. CASE BlockLoopStep
  BY <1>2, DrainStepType, BuildStepType, MineStepType DEF BlockLoopStep
<1>3. CASE ResultLoopStep
  BY <1>3, ResultStepType, SaveBlockType DEF ResultLoopStep
<1>4. CASE Fault
  BY <1>4, ResultStepType, RestartType, MinerStepType DEF Fault
<1>5. CASE Rebuild \/ StartThreads
  BY <1>5, RestartType
<1>6. CASE \E t \in tasks : Solve(t) \/ Retire(t)
  BY <1>6, MinerStepType
<1>7. CASE \E p \in Pools : PoolStep(p)
  BY <1>7, PoolStepType
<1>8. CASE UNCHANGED vars
  BY <1>8, Unchanged DEF vars, blockLoop, resultLoop, handlers, TypeOK
<1>. QED  BY <1>1, <1>2, <1>3, <1>4, <1>5, <1>6, <1>7, <1>8 DEF Next

\* Every variable keeps its type: whatever clients post, only well-formed
\* transactions reach the pool, a block or Redis.
THEOREM TypeCorrect == Spec => []TypeOK
<1>1. Init => TypeOK
  BY InitType
<1>2. TypeOK /\ [Next]_vars => TypeOK'
  BY NextType
<1>. QED  BY <1>1, <1>2, PTL DEF Spec

(***************************************************************************)
(* The two loops agree on the block.  While a job is active it is the      *)
(* block loop's block, and the block loop is between the gate and the      *)
(* wait; past the duplicate guard the job stays active, whatever the block *)
(* loop does, until the result loop itself marks it complete; and what is  *)
(* about to be saved was checked against that very block.  No thread runs  *)
(* while the process is down.                                              *)
(***************************************************************************)

Mining == {"gate", "backoff", "set", "publish", "wait"}

Judged == {"verify", "save", "abort", "complete"}

Agree ==
    /\ proc # "up" => bpc = "down"
    /\ active => job = blk /\ bpc \in Mining /\ ~mined
    /\ rpc \in Judged => active
    /\ rpc = "save" => held = Task(job)

\* Every step keeps the agreement.
LEMMA NextAgree == TypeOK /\ Agree /\ [Next]_vars => Agree'
<1>. SUFFICES ASSUME TypeOK, Agree, [Next]_vars PROVE Agree'
  OBVIOUS
<1>. USE DEF blockLoop, resultLoop, mining, process
<1>1. ASSUME NEW h \in Handlers, HttpStep(h) PROVE Agree'
  BY <1>1 DEF HttpStep, PostCheck, PostAdd, PostSave, Agree, Task
<1>2. CASE BlockLoopStep
  <2>1. bpc # "down" /\ UNCHANGED proc
    BY <1>2 DEF BlockLoopStep, TakeSnapshot, DrainGap, DrainReplay, DrainAccept,
        DrainReject, Turn, RemoveFromPool, TrimPending, RecordDiscarded, NothingToMine,
        CreateBlock, GateClosed, BackoffOver, BlockDone, GateOpen, SetCurrentBlock,
        Publish, Timeout
  <2>2. CASE SetCurrentBlock
    BY <2>2, <2>1 DEF SetCurrentBlock, Agree, Mining, Judged, Task
  <2>3. CASE UNCHANGED <<job, active, mined, rpc, held>> /\ ~active
    BY <2>3, <2>1 DEF Agree, Judged, Task
  <2>4. CASE /\ UNCHANGED <<job, active, mined, rpc, held, blk>>
             /\ bpc \in Mining /\ bpc' \in Mining
    BY <2>4, <2>1 DEF Agree, Judged, Task
  <2>5. \/ UNCHANGED <<job, active, mined, rpc, held>> /\ bpc \notin Mining
        \/ UNCHANGED <<job, active, mined, rpc, held>> /\ mined
        \/ UNCHANGED <<job, active, mined, rpc, held, blk>> /\ bpc \in Mining
           /\ bpc' \in Mining
        \/ SetCurrentBlock
    <3>1. ASSUME NEW e \in left,
                 DrainGap(e) \/ DrainReplay(e) \/ DrainAccept(e) \/ DrainReject(e)
          PROVE  UNCHANGED <<job, active, mined, rpc, held>> /\ bpc \notin Mining
      BY <3>1 DEF DrainGap, DrainReplay, DrainAccept, DrainReject, Turn, Mining
    <3>2. CASE \/ TakeSnapshot \/ RemoveFromPool \/ TrimPending \/ RecordDiscarded
               \/ NothingToMine \/ CreateBlock
      BY <3>2 DEF TakeSnapshot, RemoveFromPool, TrimPending, RecordDiscarded,
          NothingToMine, CreateBlock, Mining
    <3>3. CASE BlockDone
      BY <3>3 DEF BlockDone
    <3>4. CASE GateClosed \/ BackoffOver \/ GateOpen \/ Publish \/ Timeout
      BY <3>4 DEF GateClosed, BackoffOver, GateOpen, Publish, Timeout, Mining
    <3>. QED  BY <1>2, <3>1, <3>2, <3>3, <3>4 DEF BlockLoopStep
  <2>. QED  BY <2>2, <2>3, <2>4, <2>5 DEF Agree
<1>3. CASE Get \/ CheckActive \/ BroadcastAbort \/ MarkComplete \/ Ack
  BY <1>3 DEF Get, CheckActive, Wanted, BroadcastAbort, MarkComplete,
      mark_mining_complete, Ack, Agree, Judged, Task
<1>4. CASE Verify
  <2>1. held \in TaskRecord
    BY DEF TypeOK, TypeThreads
  <2>2. Accepts(held) => held = Task(job)
    BY <2>1 DEF Accepts, Task, TaskRecord
  <2>. QED  BY <1>4, <2>2 DEF Verify, Agree, Judged, Task
<1>5. CASE SaveBlock
  BY <1>5 DEF SaveBlock, Agree, Judged, Task
<1>6. CASE SaveFails \/ AbortFails \/ AckLost \/ Crash
  BY <1>6 DEF SaveFails, AbortFails, AckLost, Crash, Agree, Judged
<1>7. CASE \/ Lose \/ Rebuild \/ \E p \in Pools : PoolStep(p)
           \/ \E t \in tasks : Solve(t) \/ Retire(t)
  BY <1>7 DEF Lose, PoolStep, OnPoolHeartbeat, OnNoWorkers, PoolTimesOut,
      RegistryOnly, Rebuild, RebuildBalance, RebuildNonce, RebuildBlock, Solve, Retire,
      Agree, Task
<1>8. CASE StartThreads
  BY <1>8 DEF StartThreads, Agree, Mining, Judged, Task
<1>9. CASE UNCHANGED vars
  BY <1>9 DEF vars, Agree, Task
<1>. QED  BY <1>1, <1>2, <1>3, <1>4, <1>5, <1>6, <1>7, <1>8, <1>9
       DEF Next, ResultLoopStep, Fault

\* In every reachable state the loops agree.
LEMMA AlwaysAgree == Spec => [](TypeOK /\ Agree)
<1>1. Init => TypeOK /\ Agree
  BY InitType DEF Init, Agree, Judged
<1>2. TypeOK /\ Agree /\ [Next]_vars => TypeOK' /\ Agree'
  BY NextType, NextAgree
<1>. QED  BY <1>1, <1>2, PTL DEF Spec

\* Only save_block_atomic writes the chain, and it appends the active job.
LEMMA OnlySaveAppends ==
    ASSUME Next, chain' # chain
    PROVE  SaveBlock
<1>. USE DEF redis
<1>1. ASSUME NEW h \in Handlers, HttpStep(h) PROVE chain' = chain
  BY <1>1 DEF HttpStep, PostCheck, PostAdd, PostSave
<1>2. CASE BlockLoopStep
  BY <1>2 DEF BlockLoopStep, TakeSnapshot, DrainGap, DrainReplay, DrainAccept,
      DrainReject, RemoveFromPool, TrimPending, RecordDiscarded, NothingToMine,
      CreateBlock, GateClosed, BackoffOver, BlockDone, GateOpen, SetCurrentBlock,
      Publish, Timeout
<1>3. CASE ResultLoopStep
  BY <1>3 DEF ResultLoopStep, Get, CheckActive, Verify, BroadcastAbort, MarkComplete, Ack
<1>4. CASE Fault
  BY <1>4 DEF Fault, SaveFails, AbortFails, AckLost, Crash, Lose
<1>5. CASE \/ Rebuild \/ StartThreads \/ \E p \in Pools : PoolStep(p)
           \/ \E t \in tasks : Solve(t) \/ Retire(t)
  BY <1>5 DEF Rebuild, RebuildBalance, RebuildNonce, RebuildBlock, StartThreads, PoolStep, OnPoolHeartbeat, OnNoWorkers,
      PoolTimesOut, RegistryOnly, Solve, Retire
<1>. QED  BY <1>1, <1>2, <1>3, <1>4, <1>5 DEF Next

\* What the result loop appends to the chain is the block the block loop is
\* waiting for, on an answer to that very block: with any number of stale,
\* wrong, repeated or late answers, expired waits, failed calls, dead pools
\* and restarts.
THEOREM PersistsAwaitedCorrect == Spec => PersistsAwaited
<1>1. TypeOK /\ Agree /\ [Next]_vars
      => [chain' # chain => chain' = Append(chain, blk) /\ held = Task(blk)]_vars
  <2>. SUFFICES ASSUME TypeOK, Agree, Next, chain' # chain
                PROVE  chain' = Append(chain, blk) /\ held = Task(blk)
    BY DEF vars, redis
  <2>1. SaveBlock
    BY OnlySaveAppends
  <2>2. job = blk /\ held = Task(blk)
    BY <2>1 DEF SaveBlock, Agree, Judged
  <2>. QED  BY <2>1, <2>2 DEF SaveBlock, Persist
<1>. QED  BY <1>1, AlwaysAgree, PTL DEF PersistsAwaited, Spec
(***************************************************************************)
(* The pool.  Its entries have places of their own, as in a list, and it   *)
(* is finite.                                                              *)
(***************************************************************************)

PoolInv ==
    /\ IsFiniteSet(pool) /\ Places(pool) /\ Places(snap)
    /\ \A e \in pool : e.at <= arrived

\* A transaction that arrives gets a place of its own; a restart numbers what it
\* restores.
LEMMA NextPool == TypeOK /\ PoolInv /\ [Next]_vars => PoolInv'
<1>. SUFFICES ASSUME TypeOK, PoolInv, [Next]_vars PROVE PoolInv'
  OBVIOUS
<1>. USE DEF blockLoop, drain, handlers
<1>1. /\ pool \subseteq PoolEntry /\ arrived \in Nat /\ pending \in Seq(GoodTxs)
      /\ \A e \in pool : e.at \in Nat
  BY DEF TypeOK, TypeState, TypeThreads, TypeRedis, PoolEntry
<1>2. CASE UNCHANGED <<pool, snap, arrived>>
  BY <1>2 DEF PoolInv
<1>3. ASSUME NEW h \in Handlers, HttpStep(h) PROVE PoolInv'
  <2>1. CASE PostAdd(h)
    <3>. DEFINE new == [at |-> arrived + 1, tx |-> http[h].tx]
    <3>1. pool' = pool \union {new} /\ arrived' = arrived + 1 /\ snap' = snap
      BY <2>1 DEF PostAdd
    <3>2. new.at = arrived + 1
      OBVIOUS
    <3>. HIDE DEF new
    <3>3. IsFiniteSet(pool')
      BY <3>1, FS_AddElement DEF PoolInv
    <3>4. Places(pool') /\ \A e \in pool' : e.at <= arrived'
      BY <1>1, <3>1, <3>2 DEF PoolInv, Places
    <3>. QED  BY <3>1, <3>3, <3>4 DEF PoolInv
  <2>2. CASE PostSave(h) \/ \E tx \in Txs : PostCheck(h, tx)
    BY <1>2, <2>2 DEF PostSave, PostCheck
  <2>. QED  BY <1>3, <2>1, <2>2 DEF HttpStep
<1>4. CASE BlockLoopStep
  <2>1. CASE TakeSnapshot
    BY <2>1 DEF TakeSnapshot, PoolInv
  <2>2. CASE RemoveFromPool
    <3>1. pool' \subseteq pool /\ UNCHANGED <<snap, arrived>>
      BY <2>2 DEF RemoveFromPool, Remaining
    <3>. QED  BY <3>1, FS_Subset DEF PoolInv, Places
  <2>3. CASE NothingToMine \/ CreateBlock
    BY <2>3 DEF NothingToMine, CreateBlock, ForgetDrain, PoolInv, Places
  <2>4. ASSUME NEW e \in left,
               DrainGap(e) \/ DrainReplay(e) \/ DrainAccept(e) \/ DrainReject(e)
        PROVE  PoolInv'
    BY <1>2, <2>4 DEF DrainGap, DrainReplay, DrainAccept, DrainReject
  <2>5. CASE TrimPending \/ RecordDiscarded \/ GateClosed \/ BackoffOver \/ BlockDone
             \/ GateOpen \/ SetCurrentBlock \/ Publish \/ Timeout
    BY <1>2, <2>5 DEF TrimPending, RecordDiscarded, GateClosed, BackoffOver, BlockDone,
        GateOpen, SetCurrentBlock, Publish, Timeout
  <2>. QED  BY <1>4, <2>1, <2>2, <2>3, <2>4, <2>5 DEF BlockLoopStep
<1>5. CASE Crash
  <2>1. pool' = {} /\ snap' = {}
    BY <1>5 DEF Crash, ForgetDrain
  <2>. QED  BY <2>1, FS_EmptySet DEF PoolInv, Places
<1>6. CASE StartThreads
  <2>. DEFINE entry(i) == [at |-> i, tx |-> pending[i]]
  <2>1. /\ pool' = {entry(i) : i \in DOMAIN pending} /\ arrived' = Len(pending)
        /\ snap' = snap
    BY <1>6 DEF StartThreads
  <2>2. DOMAIN pending = 1..Len(pending) /\ Len(pending) \in Nat
    BY <1>1
  <2>3. \A i \in DOMAIN pending : entry(i).at = i
    OBVIOUS
  <2>4. IsFiniteSet(pool')
    <3>1. IsFiniteSet(DOMAIN pending)
      BY <2>2, FS_Interval
    <3>. DEFINE f == [i \in DOMAIN pending |-> entry(i)]
    <3>2. f \in Surjection(DOMAIN pending, pool')
      BY <2>1 DEF Surjection
    <3>. QED  BY <3>1, <3>2, FS_Surjection
  <2>. HIDE DEF entry
  <2>5. Places(pool') /\ \A e \in pool' : e.at <= arrived'
    BY <2>1, <2>2, <2>3 DEF Places
  <2>. QED  BY <2>1, <2>4, <2>5 DEF PoolInv
<1>7. CASE ResultLoopStep
  BY <1>2, <1>7 DEF ResultLoopStep, Get, CheckActive, Verify, SaveBlock, BroadcastAbort,
      MarkComplete, Ack
<1>8. CASE Fault
  BY <1>2, <1>5, <1>8 DEF Fault, SaveFails, AbortFails, AckLost, Lose
<1>9. CASE Rebuild
  BY <1>2, <1>9 DEF Rebuild, RebuildBalance, RebuildNonce, RebuildBlock
<1>10. CASE \/ (\E p \in Pools : PoolStep(p))
            \/ (\E t \in tasks : Solve(t) \/ Retire(t))
            \/ UNCHANGED vars
  BY <1>2, <1>10 DEF PoolStep, OnPoolHeartbeat, OnNoWorkers, PoolTimesOut, RegistryOnly,
      Solve, Retire, vars
<1>. QED  BY <1>3, <1>4, <1>6, <1>7, <1>8, <1>9, <1>10 DEF Next

\* The pool is empty at first.
LEMMA AlwaysPool == Spec => [](TypeOK /\ PoolInv)
<1>1. Init => PoolInv
  BY FS_EmptySet DEF Init, PoolInv, Places
<1>. QED  BY <1>1, InitType, NextType, NextPool, PTL DEF Spec

\* While entries are left exactly one of them has its turn: the drain never gets
\* stuck, and the snapshot alone decides its order, as sorting a list does.
THEOREM DrainTakesTurns ==
    Spec => [](bpc = "drain" /\ left # {}
                 => \E e \in left : Turn(e) /\ \A f \in left : Turn(f) => f = e)
<1>1. TypeOK /\ PoolInv
      => (bpc = "drain" /\ left # {}
            => \E e \in left : Turn(e) /\ \A f \in left : Turn(f) => f = e)
  <2>1. SUFFICES ASSUME TypeOK, PoolInv, bpc = "drain", left # {}
                 PROVE  \E e \in left : Turn(e) /\ \A f \in left : Turn(f) => f = e
    OBVIOUS
  <2>2. snap \in SUBSET PoolEntry /\ left \in SUBSET snap /\ Places(snap)
    BY <2>1 DEF TypeOK, TypeDrain, PoolInv
  <2>3. PICK e \in left : \A f \in left \ {e} : Before(snap, e, f)
    BY <2>1, <2>2, SomeTurn
  <2>4. ASSUME NEW f \in left, Turn(f), f # e PROVE FALSE
    <3>1. Before(snap, e, f) /\ Before(snap, f, e)
      BY <2>3, <2>4 DEF Turn
    <3>. QED  BY <2>2, <3>1, TurnOrder
  <2>. QED  BY <2>1, <2>3, <2>4 DEF Turn
<1>. QED  BY <1>1, AlwaysPool, PTL

\* GET /account always finds its pending nonce: from the confirmed nonce on, the
\* first that no transaction of the sender in the pool has.
THEOREM PendingNonceShown ==
    Spec => [](\A a \in Accounts :
                  FirstFree(pool, nonceOf[a], a, PendingNonce(pool, nonceOf, a)))
<1>1. TypeOK /\ PoolInv
      => \A a \in Accounts :
            FirstFree(pool, nonceOf[a], a, PendingNonce(pool, nonceOf, a))
  BY PendingNonceIsFirstFree DEF TypeOK, TypeState, TypeRedis, PoolInv
<1>. QED  BY <1>1, AlwaysPool, PTL
=============================================================================
