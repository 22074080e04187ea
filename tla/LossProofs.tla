------------------------------ MODULE LossProofs ------------------------------
(***************************************************************************)
(* Nothing that was answered with 201 disappears, as long as the process   *)
(* lives and no pool falls silent.  The runs crash_loses and dead_pools    *)
(* show that neither can be left out.                                      *)
(***************************************************************************)
EXTENDS IndexProofs

Reliable == MaxCrashes = 0 /\ MaxPoolDeaths = 0

\* Where a transaction is either waiting or decided.
Safe == Waiting \union Decided

\* No pool was ever counted dead, so the liveness gate is open.
PoolsAlive == noWorkers = {} /\ (everSeen => lastSeen # {}) /\ bpc # "backoff"

\* The block loop has no block, or one that holds what it drained; it takes it
\* for mined only when it is on the chain.
BlockKept ==
    /\ bpc \notin Mining => blk.txs = <<>>
    /\ rpc \in {"abort", "complete"} => blk \in ToSet(chain)
    /\ bpc \in {"publish", "wait"} /\ mined => blk \in ToSet(chain)

\* A request that is about to be answered has its transaction in the pool, or
\* further on.
RequestsKept == \A h \in Handlers : http[h].pc = "save" => http[h].tx \in Safe

LossInv ==
    /\ proc = "up" /\ PoolsAlive /\ BlockKept
    /\ RequestsKept /\ accepted \subseteq Safe

----------------------------------------------------------------------------

\* Appending adds one element and takes none away.
LEMMA AppendAdds ==
    ASSUME NEW S, NEW s \in Seq(S), NEW t \in S
    PROVE  ToSet(Append(s, t)) = ToSet(s) \union {t}
<1>1. /\ Len(Append(s, t)) = Len(s) + 1 /\ Append(s, t)[Len(s) + 1] = t
      /\ \A i \in 1..Len(s) : Append(s, t)[i] = s[i]
      /\ DOMAIN Append(s, t) = 1..(Len(s) + 1) /\ DOMAIN s = 1..Len(s)
      /\ Len(s) \in Nat
  OBVIOUS
<1>. QED  BY <1>1 DEF ToSet

\* What a queue loses with its head is the head.
LEMMA HeadAndTail ==
    ASSUME NEW S, NEW s \in Seq(S), s # <<>>
    PROVE  ToSet(s) \subseteq ToSet(Tail(s)) \union {Head(s)}
<1>1. /\ Head(s) = s[1] /\ DOMAIN s = 1..Len(s) /\ Len(s) \in Nat
      /\ DOMAIN Tail(s) = 1..(Len(s) - 1)
      /\ \A i \in 1..(Len(s) - 1) : Tail(s)[i] = s[i + 1]
  OBVIOUS
<1>2. ASSUME NEW i \in 1..Len(s), i # 1 PROVE s[i] \in ToSet(Tail(s))
  <2>1. i - 1 \in 1..(Len(s) - 1) /\ (i - 1) + 1 = i
    BY <1>1, <1>2
  <2>2. Tail(s)[i - 1] = s[i]
    BY <1>1, <2>1
  <2>. QED  BY <1>1, <2>1, <2>2 DEF ToSet
<1>. QED  BY <1>1, <1>2 DEF ToSet

\* While the process runs, Safe is these places.
LEMMA SafePlaces ==
    ASSUME proc = "up"
    PROVE  Safe = TxsOf(pool) \union ToSet(valid) \union ToSet(dropped)
                  \union ToSet(blk.txs) \union Mined
                  \union UNION {discarded[a] : a \in Accounts}
BY DEF Safe, Waiting, Decided

\* After a step that keeps the process running, too.
LEMMA SafePlacesThen ==
    ASSUME proc' = "up"
    PROVE  Safe' = TxsOf(pool') \union ToSet(valid') \union ToSet(dropped')
                   \union ToSet(blk'.txs) \union Mined'
                   \union UNION {discarded'[a] : a \in Accounts}
BY DEF Safe, Waiting, Decided

\* What is mined or discarded stays so; so Safe grows if what waits is safe.
LEMMA SafeGrows ==
    ASSUME proc = "up", proc' = "up", Mined \subseteq Mined',
           \A a \in Accounts : discarded[a] \subseteq discarded'[a],
           TxsOf(pool) \union ToSet(valid) \union ToSet(dropped)
             \union ToSet(blk.txs) \subseteq Safe'
    PROVE  Safe \subseteq Safe'
<1>1. UNION {discarded[a] : a \in Accounts} \subseteq Safe'
  <2>1. UNION {discarded'[a] : a \in Accounts} \subseteq Safe'
    BY SafePlacesThen
  <2>. QED  BY <2>1
<1>2. Mined \subseteq Safe'
  BY SafePlacesThen
<1>. QED  BY <1>1, <1>2, SafePlaces

\* Without crashes and deaths these steps are never taken.
LEMMA ReliableSteps ==
    ASSUME Reliable, TypeOK, LossInv
    PROVE  /\ ~Crash /\ ~Rebuild /\ ~StartThreads
           /\ \A p \in Pools : ~OnNoWorkers(p) /\ ~PoolTimesOut(p)
           /\ ~GateClosed /\ ~BackoffOver
<1>1. used["crashes"] \in Nat /\ used["deaths"] \in Nat
  BY DEF TypeOK, TypeEnv, Counted
<1>2. ~all_pools_dead
  BY DEF LossInv, PoolsAlive, all_pools_dead
<1>. QED  BY <1>1, <1>2 DEF Reliable, LossInv, PoolsAlive, Crash, May, Rebuild,
       RebuildBalance, RebuildNonce, RebuildBlock, Booting, StartThreads, OnNoWorkers,
       PoolTimesOut, GateClosed, BackoffOver

\* What a block on the chain holds is decided.
LEMMA MinedHolds ==
    ASSUME NEW b \in ToSet(chain)
    PROVE  ToSet(b.txs) \subseteq Mined
BY DEF Mined, ToSet

\* Nobody has been answered.
LEMMA InitLoss == Init => LossInv
BY DEF Init, LossInv, PoolsAlive, RegistryInit, BlockKept, RequestsKept, Mining, Idle,
    NoBlock, Genesis

\* The drain moves transactions from the pool to the block or to the discarded
\* ones, and keeps the others in the pool.
LEMMA DrainKeeps ==
    ASSUME TypeOK, proc = "up", proc' = "up", NEW e \in left,
           DrainGap(e) \/ DrainReplay(e) \/ DrainAccept(e) \/ DrainReject(e)
    PROVE  Safe \subseteq Safe'
<1>1. e.tx \in GoodTxs /\ valid \in Seq(GoodTxs) /\ dropped \in Seq(GoodTxs)
  BY DEF TypeOK, TypeDrain, PoolEntry
<1>2. /\ ToSet(Append(valid, e.tx)) = ToSet(valid) \union {e.tx}
      /\ ToSet(Append(dropped, e.tx)) = ToSet(dropped) \union {e.tx}
  BY <1>1, AppendAdds
<1>3. UNCHANGED <<pool, blk, chain, discarded>>
  BY DEF DrainGap, DrainReplay, DrainAccept, DrainReject, redis
<1>4. valid' \in {valid, Append(valid, e.tx)} /\ dropped' \in {dropped, Append(dropped, e.tx)}
  BY DEF DrainGap, DrainReplay, DrainAccept, DrainReject
<1>5. ToSet(valid) \subseteq ToSet(valid') /\ ToSet(dropped) \subseteq ToSet(dropped')
  BY <1>2, <1>4
<1>6. Mined' = Mined
  BY <1>3 DEF Mined, ToSet
<1>7. TxsOf(pool) \union ToSet(valid) \union ToSet(dropped)
        \union ToSet(blk.txs) \subseteq Safe'
  BY <1>3, <1>5, SafePlacesThen
<1>. QED  BY <1>3, <1>6, <1>7, SafeGrows

\* So do the steps that end a drain.
LEMMA EndOfDrainKeeps ==
    ASSUME TypeOK, proc = "up", proc' = "up", BlockKept,
           RemoveFromPool \/ RecordDiscarded \/ NothingToMine \/ CreateBlock
    PROVE  Safe \subseteq Safe'
<1>1. chain' = chain
  BY DEF RemoveFromPool, RecordDiscarded, NothingToMine, CreateBlock, redis
<1>2. Mined' = Mined
  BY <1>1 DEF Mined, ToSet
<1>3. CASE RemoveFromPool
  <2>1. UNCHANGED <<valid, dropped, blk, discarded>> /\ pool' = Remaining
    BY <1>3 DEF RemoveFromPool, drain, redis
  <2>2. TxsOf(pool) \subseteq TxsOf(Remaining) \union ToSet(valid) \union ToSet(dropped)
    BY DEF TxsOf, Remaining
  <2>3. TxsOf(pool) \union ToSet(valid) \union ToSet(dropped)
          \union ToSet(blk.txs) \subseteq Safe'
    BY <2>1, <2>2, SafePlacesThen
  <2>. QED  BY <1>2, <2>1, <2>3, SafeGrows
<1>4. CASE RecordDiscarded
  <2>1. /\ UNCHANGED <<valid, pool, blk>> /\ dropped # <<>> /\ dropped' = Tail(dropped)
        /\ discarded' = [discarded EXCEPT ![Head(dropped).sender] = @ \union {Head(dropped)}]
    BY <1>4 DEF RecordDiscarded
  <2>2. dropped \in Seq(GoodTxs) /\ discarded \in [Accounts -> SUBSET GoodTxs]
    BY DEF TypeOK, TypeDrain, TypeRedis
  <2>3. Head(dropped) \in GoodTxs
    BY <2>1, <2>2
  <2>4. Head(dropped).sender \in Accounts
    BY <2>3, GoodTxsType DEF TxRecord
  <2>5. \A a \in Accounts : discarded[a] \subseteq discarded'[a]
    BY <2>1, <2>2
  <2>6. Head(dropped) \in discarded'[Head(dropped).sender]
    BY <2>1, <2>2, <2>4
  <2>7. Head(dropped) \in Safe'
    <3>1. Head(dropped) \in UNION {discarded'[a] : a \in Accounts}
      BY <2>4, <2>6
    <3>. QED  BY <3>1, SafePlacesThen
  <2>8. ToSet(dropped) \subseteq ToSet(dropped') \union {Head(dropped)}
    BY <2>1, <2>2, HeadAndTail
  <2>9. TxsOf(pool) \union ToSet(valid) \union ToSet(dropped)
          \union ToSet(blk.txs) \subseteq Safe'
    BY <2>1, <2>7, <2>8, SafePlacesThen
  <2>. QED  BY <1>2, <2>5, <2>9, SafeGrows
<1>5. CASE NothingToMine \/ CreateBlock
  <2>1. UNCHANGED <<pool, discarded>> /\ dropped = <<>>
    BY <1>5 DEF NothingToMine, CreateBlock, redis
  <2>2. ToSet(valid) \subseteq ToSet(blk'.txs) /\ ToSet(blk.txs) \subseteq ToSet(blk'.txs)
    <3>1. CASE NothingToMine
      BY <3>1 DEF NothingToMine, ToSet
    <3>2. CASE CreateBlock
      <4>1. blk'.txs = valid /\ blk.txs = <<>>
        BY <3>2 DEF CreateBlock, BlockKept, Mining
      <4>. QED  BY <4>1 DEF ToSet
    <3>. QED  BY <1>5, <3>1, <3>2
  <2>3. ToSet(dropped) = {}
    BY <2>1 DEF ToSet
  <2>4. TxsOf(pool) \union ToSet(valid) \union ToSet(dropped)
          \union ToSet(blk.txs) \subseteq Safe'
    BY <2>1, <2>2, <2>3, SafePlacesThen
  <2>. QED  BY <1>2, <2>1, <2>4, SafeGrows
<1>. QED  BY <1>3, <1>4, <1>5

\* A block is forgotten when it is on the chain, and the chain only grows.
LEMMA MineKeeps ==
    ASSUME TypeOK, Agree, proc = "up", proc' = "up", PoolsAlive, BlockKept,
           BlockDone \/ SaveBlock
    PROVE  Safe \subseteq Safe'
<1>1. UNCHANGED <<pool, valid, dropped, discarded>>
  BY DEF BlockDone, SaveBlock, redis, drain, blockLoop
<1>2. CASE BlockDone
  <2>1. chain' = chain /\ bpc = "wait" /\ mined
    BY <1>2 DEF BlockDone, redis, PoolsAlive
  <2>2. Mined' = Mined
    BY <2>1 DEF Mined, ToSet
  <2>3. ToSet(blk.txs) \subseteq Mined
    BY <2>1, MinedHolds DEF BlockKept
  <2>4. TxsOf(pool) \union ToSet(valid) \union ToSet(dropped)
          \union ToSet(blk.txs) \subseteq Safe'
    BY <1>1, <2>2, <2>3, SafePlacesThen
  <2>. QED  BY <1>1, <2>2, <2>4, SafeGrows
<1>3. CASE SaveBlock
  <2>1. chain' = Append(chain, job) /\ blk' = blk
    BY <1>3 DEF SaveBlock, Persist, blockLoop
  <2>2. chain \in Seq(BlockRecord) /\ job \in BlockRecord
    BY DEF TypeOK, TypeRedis, TypeState
  <2>3. \A i \in DOMAIN chain : i \in DOMAIN chain' /\ chain'[i] = chain[i]
    BY <2>1, <2>2
  <2>4. Mined \subseteq Mined'
    BY <2>3 DEF Mined, ToSet
  <2>5. TxsOf(pool) \union ToSet(valid) \union ToSet(dropped)
          \union ToSet(blk.txs) \subseteq Safe'
    BY <1>1, <2>1, SafePlacesThen
  <2>. QED  BY <1>1, <2>4, <2>5, SafeGrows
<1>. QED  BY <1>2, <1>3

\* A request puts its transaction into the pool.
LEMMA AddKeeps ==
    ASSUME proc = "up", proc' = "up", NEW h \in Handlers, PostAdd(h)
    PROVE  Safe \subseteq Safe' /\ http[h].tx \in Safe'
<1>1. /\ UNCHANGED <<chain, valid, dropped, blk, discarded>>
      /\ pool' = pool \union {[at |-> arrived', tx |-> http[h].tx]}
  BY DEF PostAdd, redis, blockLoop, drain
<1>2. Mined' = Mined
  BY <1>1 DEF Mined, ToSet
<1>3. TxsOf(pool) \union {http[h].tx} \subseteq TxsOf(pool')
  <2>. DEFINE e == [at |-> arrived', tx |-> http[h].tx]
  <2>1. e \in pool' /\ e.tx = http[h].tx
    BY <1>1
  <2>. HIDE DEF e
  <2>. QED  BY <1>1, <2>1 DEF TxsOf
<1>4. TxsOf(pool) \union ToSet(valid) \union ToSet(dropped)
        \union ToSet(blk.txs) \subseteq Safe'
  BY <1>1, <1>3, SafePlacesThen
<1>. QED  BY <1>1, <1>2, <1>3, <1>4, SafeGrows, SafePlacesThen

\* Every other step leaves these places alone.
LEMMA OthersKeep ==
    ASSUME proc = "up",
           \/ \E h \in Handlers : PostSave(h) \/ \E tx \in Txs : PostCheck(h, tx)
           \/ TakeSnapshot \/ TrimPending \/ GateOpen \/ SetCurrentBlock \/ Publish
           \/ Timeout \/ Get \/ CheckActive \/ Verify \/ BroadcastAbort \/ MarkComplete
           \/ Ack \/ SaveFails \/ AbortFails \/ AckLost \/ Lose
           \/ \E p \in Pools : OnPoolHeartbeat(p)
           \/ \E t \in tasks : Solve(t) \/ Retire(t)
           \/ UNCHANGED vars
    PROVE  proc' = "up" /\ Safe' = Safe
<1>1. UNCHANGED <<proc, pool, valid, dropped, blk, chain, discarded>>
  BY DEF PostSave, PostCheck, TakeSnapshot, TrimPending, GateOpen, SetCurrentBlock,
      Publish, Timeout, Get, CheckActive, Verify, BroadcastAbort, MarkComplete, Ack,
      SaveFails, AbortFails, AckLost, Lose, OnPoolHeartbeat, RegistryOnly, Solve,
      Retire, vars, redis, process, blockLoop, drain
<1>2. Mined' = Mined
  BY <1>1 DEF Mined, ToSet
<1>. QED  BY <1>1, <1>2, SafePlaces, SafePlacesThen

\* The steps of the block loop that read or change the block it has.
BlockSteps == CreateBlock \/ SetCurrentBlock \/ Publish \/ Timeout \/ BlockDone

\* No step takes a transaction out of the places it can be in.
LEMMA SafeKept ==
    ASSUME Reliable, TypeOK, Agree, LossInv, [Next]_vars
    PROVE  proc' = "up" /\ Safe \subseteq Safe'
<1>. USE DEF process
<1>1. proc = "up" /\ PoolsAlive /\ BlockKept
  BY DEF LossInv
<1>2. ASSUME NEW h \in Handlers, HttpStep(h) PROVE proc' = "up" /\ Safe \subseteq Safe'
  <2>1. CASE PostAdd(h)
    <3>1. proc' = "up"
      BY <1>1, <2>1 DEF PostAdd
    <3>. QED  BY <1>1, <2>1, <3>1, AddKeeps
  <2>2. CASE PostSave(h) \/ \E tx \in Txs : PostCheck(h, tx)
    BY <1>1, <2>2, OthersKeep
  <2>. QED  BY <1>2, <2>1, <2>2 DEF HttpStep
<1>3. CASE BlockLoopStep
  <2>1. ASSUME NEW e \in left,
               DrainGap(e) \/ DrainReplay(e) \/ DrainAccept(e) \/ DrainReject(e)
        PROVE  proc' = "up" /\ Safe \subseteq Safe'
    <3>1. proc' = "up"
      BY <1>1, <2>1 DEF DrainGap, DrainReplay, DrainAccept, DrainReject
    <3>. QED  BY <1>1, <2>1, <3>1, DrainKeeps
  <2>2. CASE RemoveFromPool \/ RecordDiscarded \/ NothingToMine \/ CreateBlock
    <3>1. proc' = "up"
      BY <1>1, <2>2 DEF RemoveFromPool, RecordDiscarded, NothingToMine, CreateBlock
    <3>. QED  BY <1>1, <2>2, <3>1, EndOfDrainKeeps
  <2>3. CASE BlockDone
    <3>1. proc' = "up"
      BY <1>1, <2>3 DEF BlockDone
    <3>. QED  BY <1>1, <2>3, <3>1, MineKeeps
  <2>4. CASE TakeSnapshot \/ TrimPending \/ GateOpen \/ SetCurrentBlock \/ Publish \/ Timeout
    BY <1>1, <2>4, OthersKeep
  <2>. QED  BY <1>3, <2>1, <2>2, <2>3, <2>4, ReliableSteps DEF BlockLoopStep
<1>4. CASE ResultLoopStep
  <2>1. CASE SaveBlock
    <3>1. proc' = "up"
      BY <1>1, <2>1 DEF SaveBlock
    <3>. QED  BY <1>1, <2>1, <3>1, MineKeeps
  <2>. QED  BY <1>1, <1>4, <2>1, OthersKeep DEF ResultLoopStep
<1>5. CASE Fault \/ Rebuild \/ StartThreads
  BY <1>1, <1>5, OthersKeep, ReliableSteps DEF Fault
<1>6. CASE \/ (\E p \in Pools : PoolStep(p))
           \/ (\E t \in tasks : Solve(t) \/ Retire(t))
           \/ UNCHANGED vars
  BY <1>1, <1>6, OthersKeep, ReliableSteps DEF PoolStep
<1>. QED  BY <1>2, <1>3, <1>4, <1>5, <1>6 DEF Next

\* No pool is ever counted dead.
LEMMA PoolsStayAlive ==
    ASSUME Reliable, TypeOK, LossInv, [Next]_vars
    PROVE  PoolsAlive'
<1>. USE DEF env, search, registry
<1>1. PoolsAlive /\ proc = "up"
  BY DEF LossInv
<1>2. CASE BlockLoopStep
  <2>1. UNCHANGED registry
    BY <1>2 DEF BlockLoopStep, TakeSnapshot, DrainGap, DrainReplay, DrainAccept,
        DrainReject, RemoveFromPool, TrimPending, RecordDiscarded, NothingToMine,
        CreateBlock, GateClosed, BackoffOver, BlockDone, GateOpen, SetCurrentBlock,
        Publish, Timeout
  <2>2. bpc' # "backoff"
    BY <1>1, <1>2, ReliableSteps DEF BlockLoopStep, TakeSnapshot, DrainGap, DrainReplay,
        DrainAccept, DrainReject, RemoveFromPool, TrimPending, RecordDiscarded,
        NothingToMine, CreateBlock, BlockDone, GateOpen, SetCurrentBlock, Publish,
        Timeout, Turn
  <2>. QED  BY <1>1, <2>1, <2>2 DEF PoolsAlive
<1>3. ASSUME NEW p \in Pools, OnPoolHeartbeat(p) PROVE PoolsAlive'
  BY <1>1, <1>3 DEF OnPoolHeartbeat, mark_pool_alive, PoolsAlive, RegistryOnly, blockLoop
<1>4. CASE UNCHANGED <<registry, bpc>>
  BY <1>1, <1>4 DEF PoolsAlive
<1>5. ASSUME NEW h \in Handlers, HttpStep(h) PROVE PoolsAlive'
  BY <1>4, <1>5 DEF HttpStep, PostCheck, PostAdd, PostSave, blockLoop
<1>6. CASE ResultLoopStep \/ Fault
  BY <1>4, <1>6, ReliableSteps DEF ResultLoopStep, Fault, Get, CheckActive, Verify,
      SaveBlock, BroadcastAbort, MarkComplete, Ack, SaveFails, AbortFails, AckLost,
      Lose, blockLoop
<1>7. CASE (\E t \in tasks : Solve(t) \/ Retire(t)) \/ UNCHANGED vars
  BY <1>4, <1>7 DEF Solve, Retire, vars, blockLoop
<1>. QED  BY <1>2, <1>3, <1>5, <1>6, <1>7, ReliableSteps DEF Next, PoolStep

\* The block loop's block stays its own until it is on the chain.
LEMMA BlockStaysKept ==
    ASSUME Reliable, TypeOK, Agree, LossInv, [Next]_vars
    PROVE  BlockKept'
<1>. USE DEF mining
<1>1. BlockKept
  BY DEF LossInv
<1>2. CASE BlockLoopStep
  <2>1. chain' = chain /\ rpc' = rpc
    BY <1>2 DEF BlockLoopStep, TakeSnapshot, DrainGap, DrainReplay, DrainAccept,
        DrainReject, RemoveFromPool, TrimPending, RecordDiscarded, NothingToMine,
        CreateBlock, GateClosed, BackoffOver, BlockDone, GateOpen, SetCurrentBlock,
        Publish, Timeout, redis, resultLoop
  <2>2. CASE BlockSteps
    <3>1. CASE CreateBlock
      BY <1>1, <2>1, <3>1 DEF CreateBlock, BlockKept, Agree, Judged, Mining
    <3>2. CASE SetCurrentBlock \/ Publish \/ Timeout
      BY <1>1, <2>1, <3>2 DEF SetCurrentBlock, Publish, Timeout, BlockKept, Mining
    <3>3. CASE BlockDone
      BY <1>1, <2>1, <3>3 DEF BlockDone, BlockKept, Agree, Judged, NoBlock, Genesis
    <3>. QED  BY <2>2, <3>1, <3>2, <3>3 DEF BlockSteps
  <2>3. CASE ~BlockSteps
    <3>1. blk' = blk /\ mined' = mined /\ (bpc' \in Mining <=> bpc \in Mining)
          /\ bpc' \notin {"publish", "wait"}
      BY <1>2, <2>3, ReliableSteps DEF BlockLoopStep, BlockSteps, TakeSnapshot, DrainGap,
          DrainReplay, DrainAccept, DrainReject, Turn, RemoveFromPool, TrimPending,
          RecordDiscarded, NothingToMine, GateOpen, Mining, drain
    <3>. QED  BY <1>1, <2>1, <3>1 DEF BlockKept
  <2>. QED  BY <2>2, <2>3
<1>3. CASE SaveBlock
  <2>1. chain' = Append(chain, job) /\ job = blk /\ UNCHANGED <<blk, bpc, mined>>
    BY <1>3 DEF SaveBlock, Persist, Agree, Judged, blockLoop
  <2>2. chain \in Seq(BlockRecord) /\ job \in BlockRecord
    BY DEF TypeOK, TypeRedis, TypeState
  <2>3. ToSet(chain') = ToSet(chain) \union {blk}
    BY <2>1, <2>2, AppendAdds
  <2>. QED  BY <1>1, <2>1, <2>3 DEF BlockKept
<1>4. CASE MarkComplete
  BY <1>1, <1>4 DEF MarkComplete, mark_mining_complete, BlockKept, redis, blockLoop
<1>5. CASE /\ UNCHANGED <<chain, blk, bpc, mined>>
           /\ rpc' \in {"abort", "complete"} => rpc \in {"abort", "complete"}
  BY <1>1, <1>5 DEF BlockKept, ToSet
<1>6. CASE Get \/ CheckActive \/ Verify \/ BroadcastAbort \/ Ack
  BY <1>5, <1>6 DEF Get, CheckActive, Verify, BroadcastAbort, Ack, redis, blockLoop
<1>7. CASE Fault
  BY <1>5, <1>7, ReliableSteps DEF Fault, SaveFails, AbortFails, AckLost, Lose, redis,
      blockLoop, resultLoop
<1>8. ASSUME NEW h \in Handlers, HttpStep(h) PROVE BlockKept'
  BY <1>5, <1>8 DEF HttpStep, PostCheck, PostAdd, PostSave, redis, blockLoop, resultLoop
<1>9. CASE \/ (\E p \in Pools : PoolStep(p))
           \/ (\E t \in tasks : Solve(t) \/ Retire(t))
           \/ UNCHANGED vars
  BY <1>5, <1>9 DEF PoolStep, OnPoolHeartbeat, OnNoWorkers, PoolTimesOut, RegistryOnly,
      Solve, Retire, vars, redis, blockLoop, resultLoop
<1>. QED  BY <1>2, <1>3, <1>4, <1>6, <1>7, <1>8, <1>9, ReliableSteps
       DEF Next, ResultLoopStep

\* Who is answered has a transaction that is safe.
LEMMA AnswersStayKept ==
    ASSUME Reliable, TypeOK, Agree, LossInv, [Next]_vars
    PROVE  RequestsKept' /\ accepted' \subseteq Safe'
<1>1. proc = "up" /\ proc' = "up" /\ Safe \subseteq Safe'
  BY SafeKept DEF LossInv
<1>2. RequestsKept /\ accepted \subseteq Safe /\ http \in [Handlers -> HandlerRecord]
  BY DEF LossInv, TypeOK, TypeThreads
<1>3. ASSUME NEW h \in Handlers, HttpStep(h)
      PROVE  RequestsKept' /\ accepted' \subseteq Safe'
  <2>1. ASSUME NEW tx \in Txs, PostCheck(h, tx)
        PROVE  RequestsKept' /\ accepted' \subseteq Safe'
    <3>1. accepted' = accepted /\ http' = [http EXCEPT ![h] = [pc |-> "add", tx |-> tx]]
      BY <2>1 DEF PostCheck
    <3>2. \A i \in Handlers : http'[i].pc = "save" => http'[i] = http[i]
      BY <1>2, <3>1
    <3>. QED  BY <1>1, <1>2, <3>1, <3>2 DEF RequestsKept
  <2>2. CASE PostAdd(h)
    <3>1. accepted' = accepted /\ http' = [http EXCEPT ![h].pc = "save"]
      BY <2>2 DEF PostAdd, env
    <3>2. \A i \in Handlers : i # h => http'[i] = http[i]
      BY <1>2, <3>1
    <3>3. http'[h].tx = http[h].tx
      BY <1>2, <3>1 DEF HandlerRecord
    <3>4. http[h].tx \in Safe'
      BY <1>1, <2>2, AddKeeps
    <3>5. \A i \in Handlers : http'[i].pc = "save" => http'[i].tx \in Safe'
      BY <1>1, <1>2, <3>2, <3>3, <3>4 DEF RequestsKept
    <3>. QED  BY <1>1, <1>2, <3>1, <3>5 DEF RequestsKept
  <2>3. CASE PostSave(h)
    <3>1. /\ accepted' = accepted \union {http[h].tx} /\ http[h].pc = "save"
          /\ http' = [http EXCEPT ![h] = Idle]
      BY <2>3 DEF PostSave
    <3>2. \A i \in Handlers : http'[i].pc = "save" => http'[i] = http[i]
      BY <1>2, <3>1 DEF Idle
    <3>. QED  BY <1>1, <1>2, <3>1, <3>2 DEF RequestsKept
  <2>. QED  BY <1>3, <2>1, <2>2, <2>3 DEF HttpStep
<1>4. CASE UNCHANGED <<accepted, http>>
  BY <1>1, <1>2, <1>4 DEF RequestsKept
<1>5. CASE BlockLoopStep
  BY <1>4, <1>5 DEF BlockLoopStep, TakeSnapshot, DrainGap, DrainReplay, DrainAccept,
      DrainReject, RemoveFromPool, TrimPending, RecordDiscarded, NothingToMine,
      CreateBlock, GateClosed, BackoffOver, BlockDone, GateOpen, SetCurrentBlock,
      Publish, Timeout, handlers, env
<1>6. CASE ResultLoopStep \/ Fault
  BY <1>4, <1>6, ReliableSteps DEF ResultLoopStep, Fault, Get, CheckActive, Verify,
      SaveBlock, BroadcastAbort, MarkComplete, Ack, SaveFails, AbortFails, AckLost,
      Lose, handlers, env
<1>7. CASE \/ (\E p \in Pools : PoolStep(p))
           \/ (\E t \in tasks : Solve(t) \/ Retire(t))
           \/ UNCHANGED vars
  BY <1>4, <1>7 DEF PoolStep, OnPoolHeartbeat, OnNoWorkers, PoolTimesOut, RegistryOnly,
      Solve, Retire, vars, handlers, env
<1>. QED  BY <1>3, <1>5, <1>6, <1>7, ReliableSteps DEF Next

\* While the process lives and no pool falls silent, a transaction answered with
\* 201 is waiting, on the chain or recorded as discarded, whatever answers are
\* late, lost or wrong and whatever saves, aborts and acks fail.
THEOREM NothingLostCorrect ==
    ASSUME Reliable
    PROVE  Spec => []NothingLost
<1>1. Init => TypeOK /\ Agree /\ LossInv
  BY InitType, InitLoss DEF Init, Agree, Judged
<1>2. TypeOK /\ Agree /\ LossInv /\ [Next]_vars => TypeOK' /\ Agree' /\ LossInv'
  BY NextType, NextAgree, SafeKept, PoolsStayAlive, BlockStaysKept, AnswersStayKept
     DEF LossInv
<1>3. LossInv => NothingLost
  BY DEF LossInv, NothingLost, Safe
<1>. QED  BY <1>1, <1>2, <1>3, PTL DEF Spec
=============================================================================
