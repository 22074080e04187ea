----------------------------- MODULE PromiseProofs -----------------------------
(***************************************************************************)
(* What the chain promises: no nonce is used twice, nobody spends what     *)
(* they have not earned, and only the authority issues.  The drain decides *)
(* it against indexes that are older than the block; that it is still true *)
(* of the block when it is saved is what is proved here, and that what the *)
(* drain turned away is still unfit for the block when that is recorded.   *)
(***************************************************************************)
EXTENDS IndexProofs, ChainProofs

(***************************************************************************)
(* Nonces.  While a list of transactions is drained, mined or saved its    *)
(* nonces go on from the index as it is now, in the order of the list.     *)
(***************************************************************************)

Increasing(txs) ==
    \A i, j \in DOMAIN txs :
        i < j /\ txs[i].sender = txs[j].sender => txs[i].nonce < txs[j].nonce

Follows(n, txs) ==
    /\ \A i \in DOMAIN txs : n[txs[i].sender] <= txs[i].nonce
    /\ Increasing(txs)

Draining == {"drain", "trim", "record"}

\* What is drained so far lies between the index and what is expected next.
DrainFollows ==
    /\ bpc \notin Draining => valid = <<>>
    /\ Follows(nonceOf, valid)
    /\ bpc = "drain" =>
          /\ \A a \in Accounts : nonceOf[a] <= expected[a]
          /\ \A i \in DOMAIN valid : valid[i].nonce < expected[valid[i].sender]

BlockFollows == bpc \in Mining /\ Unsaved(blk) => Follows(nonceOf, blk.txs)

OrderInv == DrainFollows /\ BlockFollows

\* A transaction of a sender whose entries are all older goes to the end.
LEMMA AppendFollows ==
    ASSUME NEW n \in [Accounts -> Nat], NEW txs \in Seq(GoodTxs), NEW tx \in GoodTxs,
           Follows(n, txs), n[tx.sender] <= tx.nonce,
           \A i \in DOMAIN txs : txs[i].sender = tx.sender => txs[i].nonce < tx.nonce
    PROVE  Follows(n, Append(txs, tx))
<1>. DEFINE new == Append(txs, tx)
<1>1. /\ DOMAIN txs = 1..Len(txs) /\ DOMAIN new = 1..(Len(txs) + 1) /\ Len(txs) \in Nat
      /\ new[Len(txs) + 1] = tx /\ \A i \in 1..Len(txs) : new[i] = txs[i]
  OBVIOUS
<1>. HIDE DEF new
<1>2. ASSUME NEW i \in DOMAIN new PROVE n[new[i].sender] <= new[i].nonce
  <2>1. i \in 1..Len(txs) \/ i = Len(txs) + 1
    BY <1>1
  <2>. QED  BY <1>1, <2>1 DEF Follows
<1>3. ASSUME NEW i \in DOMAIN new, NEW j \in DOMAIN new, i < j,
             new[i].sender = new[j].sender
      PROVE  new[i].nonce < new[j].nonce
  <2>1. i \in 1..Len(txs) /\ (j \in 1..Len(txs) \/ j = Len(txs) + 1)
    BY <1>1, <1>3
  <2>2. CASE j \in 1..Len(txs)
    BY <1>1, <1>3, <2>1, <2>2 DEF Follows, Increasing
  <2>3. CASE j = Len(txs) + 1
    BY <1>1, <1>3, <2>1, <2>3
  <2>. QED  BY <2>1, <2>2, <2>3
<1>4. Follows(n, new)
  BY <1>2, <1>3 DEF Follows, Increasing
<1>. QED  BY <1>4 DEF new

\* A sender's expected nonce is that of the transaction that is accepted.
LEMMA DrainKeepsOrder ==
    ASSUME TypeOK, DrainFollows, NEW e \in left,
           DrainGap(e) \/ DrainReplay(e) \/ DrainAccept(e) \/ DrainReject(e)
    PROVE  DrainFollows'
<1>. USE DEF redis
<1>1. /\ e.tx \in GoodTxs /\ valid \in Seq(GoodTxs) /\ nonceOf \in [Accounts -> Nat]
      /\ expected \in [Accounts -> Nat] /\ bpc = "drain" /\ bpc' = "drain"
      /\ nonceOf' = nonceOf
  BY DEF TypeOK, TypeDrain, TypeRedis, PoolEntry, DrainGap, DrainReplay, DrainAccept,
      DrainReject, Turn
<1>2. e.tx.sender \in Accounts /\ e.tx.nonce \in Nat /\ DOMAIN valid = 1..Len(valid)
  BY <1>1, GoodTxsType DEF TxRecord
<1>3. /\ Follows(nonceOf, valid) /\ \A a \in Accounts : nonceOf[a] <= expected[a]
      /\ \A i \in DOMAIN valid : /\ valid[i].nonce < expected[valid[i].sender]
                                 /\ valid[i].nonce \in Nat
                                 /\ valid[i].sender \in Accounts
  <2>1. \A i \in DOMAIN valid : valid[i] \in GoodTxs
    BY <1>1, <1>2
  <2>. QED  BY <1>1, <2>1, GoodTxsType DEF DrainFollows, TxRecord
<1>4. CASE DrainGap(e) \/ DrainReplay(e)
  <2>1. valid' = valid /\ expected' = expected
    BY <1>4 DEF DrainGap, DrainReplay
  <2>. QED  BY <1>1, <1>3, <2>1 DEF DrainFollows, Draining
<1>5. CASE DrainReject(e)
  <2>1. valid' = valid /\ expected' = [expected EXCEPT ![e.tx.sender] = @ + 1]
    BY <1>5 DEF DrainReject
  <2>2. \A a \in Accounts : expected[a] <= expected'[a] /\ expected'[a] \in Nat
    BY <1>1, <1>2, <2>1
  <2>. QED  BY <1>1, <1>3, <2>1, <2>2 DEF DrainFollows, Draining
<1>6. CASE DrainAccept(e)
  <2>1. /\ valid' = Append(valid, e.tx) /\ e.tx.nonce = expected[e.tx.sender]
        /\ expected' = [expected EXCEPT ![e.tx.sender] = @ + 1]
    BY <1>1, <1>2, <1>6 DEF DrainAccept, IsReplay, IsGap
  <2>2. Follows(nonceOf', valid')
    BY <1>1, <1>2, <1>3, <2>1, AppendFollows
  <2>3. /\ DOMAIN valid' = 1..(Len(valid) + 1) /\ Len(valid) \in Nat
        /\ valid'[Len(valid) + 1] = e.tx
        /\ \A i \in 1..Len(valid) : valid'[i] = valid[i]
    BY <1>1, <2>1
  <2>4. \A a \in Accounts : expected[a] <= expected'[a] /\ expected'[a] \in Nat
    BY <1>1, <1>2, <2>1
  <2>5. ASSUME NEW i \in DOMAIN valid' PROVE valid'[i].nonce < expected'[valid'[i].sender]
    <3>1. CASE i \in 1..Len(valid)
      BY <1>1, <1>2, <1>3, <2>3, <2>4, <3>1
    <3>2. CASE i = Len(valid) + 1
      BY <1>1, <1>2, <2>1, <2>3, <3>2
    <3>. QED  BY <2>3, <3>1, <3>2
  <2>. QED  BY <1>1, <1>3, <2>2, <2>4, <2>5 DEF DrainFollows, Draining
<1>. QED  BY <1>4, <1>5, <1>6

\* The block that is saved is the one that was built on the chain as it is, and
\* after it has been saved it is no longer such a block.
LEMMA SavedBlock ==
    ASSUME TypeOK, Agree, ChainInv, SaveBlock
    PROVE  /\ job = blk /\ bpc \in Mining /\ blk.txs # <<>> /\ Unsaved(blk)
           /\ blk \in BlockRecord /\ blk.txs \in Seq(GoodTxs)
           /\ chain' = Append(chain, blk) /\ UNCHANGED <<bpc, blk, valid>>
           /\ nonceOf' = NoncesAfter(nonceOf, blk.txs)
           /\ balance' = BalancesAfter(balance, blk.txs)
           /\ ~Unsaved(blk)'
<1>. USE DEF blockLoop, drain
<1>1. /\ job = blk /\ bpc \in Mining /\ blk.txs # <<>> /\ Unsaved(blk)
  BY DEF SaveBlock, Agree, Judged, ChainInv, SavedOnce, BlockFresh
<1>2. blk \in BlockRecord /\ blk.txs \in Seq(GoodTxs) /\ chain \in Seq(BlockRecord)
  BY DEF TypeOK, TypeThreads, TypeRedis, BlockRecord
<1>3. /\ chain' = Append(chain, blk) /\ UNCHANGED <<bpc, blk, valid>>
      /\ nonceOf' = NoncesAfter(nonceOf, blk.txs)
      /\ balance' = BalancesAfter(balance, blk.txs)
  BY <1>1 DEF SaveBlock, Persist
<1>4. Len(chain') = Len(chain) + 1 /\ Len(chain) \in Nat
  BY <1>2, <1>3
<1>5. ~Unsaved(blk)'
  BY <1>1, <1>3, <1>4 DEF Unsaved
<1>. QED  BY <1>1, <1>2, <1>3, <1>5

\* Nothing is drained and no block is built.
LEMMA InitOrder == Init => OrderInv
BY DEF Init, OrderInv, DrainFollows, BlockFollows, Follows, Increasing, Draining, Mining

\* The steps of the block loop behind the drain.
LEMMA BlockLoopKeepsOrder ==
    ASSUME TypeOK, OrderInv, BlockLoopStep
    PROVE  OrderInv'
<1>. USE DEF redis, OrderInv
<1>1. /\ nonceOf' = nonceOf /\ chain' = chain /\ nonceOf \in [Accounts -> Nat]
  BY DEF TypeOK, TypeRedis, BlockLoopStep, TakeSnapshot, DrainGap, DrainReplay,
      DrainAccept, DrainReject, RemoveFromPool, TrimPending, RecordDiscarded,
      NothingToMine, CreateBlock, GateClosed, BackoffOver, BlockDone, GateOpen,
      SetCurrentBlock, Publish, Timeout
<1>2. ASSUME NEW e \in left,
             DrainGap(e) \/ DrainReplay(e) \/ DrainAccept(e) \/ DrainReject(e)
      PROVE  OrderInv'
  <2>1. bpc' = "drain"
    BY <1>2 DEF DrainGap, DrainReplay, DrainAccept, DrainReject, Turn
  <2>. QED  BY <1>2, <2>1, DrainKeepsOrder DEF BlockFollows, Mining
<1>3. CASE TakeSnapshot
  BY <1>1, <1>3 DEF TakeSnapshot, DrainFollows, BlockFollows, Draining, Mining
<1>4. CASE RemoveFromPool \/ TrimPending \/ RecordDiscarded
  <2>1. bpc \in Draining /\ bpc' \in {"trim", "record"} /\ valid' = valid
    BY <1>4 DEF RemoveFromPool, TrimPending, RecordDiscarded, Draining, drain
  <2>. QED  BY <1>1, <2>1 DEF DrainFollows, BlockFollows, Draining, Mining
<1>5. CASE NothingToMine
  BY <1>1, <1>5 DEF NothingToMine, ForgetDrain, DrainFollows, BlockFollows, Draining,
      Mining, Follows, Increasing
<1>6. CASE CreateBlock
  <2>1. blk'.txs = valid /\ valid' = <<>> /\ bpc' = "gate"
    BY <1>6 DEF CreateBlock, ForgetDrain
  <2>2. DrainFollows'
    BY <2>1 DEF DrainFollows, Follows, Increasing
  <2>3. BlockFollows'
    BY <1>1, <2>1 DEF DrainFollows, BlockFollows
  <2>. QED  BY <2>2, <2>3
<1>7. CASE GateClosed \/ BackoffOver \/ BlockDone \/ GateOpen \/ SetCurrentBlock
           \/ Publish \/ Timeout
  <2>1. /\ bpc \in Mining /\ bpc' \notin Draining /\ UNCHANGED <<valid, expected>>
        /\ bpc' \in Mining => blk' = blk
    BY <1>7 DEF GateClosed, BackoffOver, BlockDone, GateOpen, SetCurrentBlock, Publish,
        Timeout, Mining, Draining, drain
  <2>2. DrainFollows'
    BY <1>1, <2>1 DEF DrainFollows, Draining, Mining
  <2>3. BlockFollows'
    BY <1>1, <2>1 DEF BlockFollows, Unsaved
  <2>. QED  BY <2>2, <2>3
<1>. QED  BY <1>2, <1>3, <1>4, <1>5, <1>6, <1>7 DEF BlockLoopStep

\* What no other step but saving a block and a restart changes.
LEMMA OthersKeepDrain ==
    ASSUME Next, ~BlockLoopStep, ~Writers
    PROVE  UNCHANGED <<chain, nonceOf, balance, bpc, blk, snap, left, expected, overlay,
                       valid, dropped>>
<1>1. UNCHANGED <<chain, nonceOf, balance>>
  BY OthersRead
<1>2. ASSUME NEW h \in Handlers, HttpStep(h) PROVE UNCHANGED blockLoop
  BY <1>2 DEF HttpStep, PostCheck, PostAdd, PostSave
<1>3. ASSUME ResultLoopStep PROVE UNCHANGED blockLoop
  BY <1>3 DEF ResultLoopStep, Get, CheckActive, Verify, BroadcastAbort, MarkComplete,
      Ack, Writers
<1>4. ASSUME Fault PROVE UNCHANGED blockLoop
  BY <1>4 DEF Fault, SaveFails, AbortFails, AckLost, Lose, Writers
<1>5. ASSUME \/ (\E p \in Pools : PoolStep(p))
             \/ (\E t \in tasks : Solve(t) \/ Retire(t))
      PROVE  UNCHANGED blockLoop
  BY <1>5 DEF PoolStep, OnPoolHeartbeat, OnNoWorkers, PoolTimesOut, RegistryOnly,
      Solve, Retire
<1>. QED  BY <1>1, <1>2, <1>3, <1>4, <1>5 DEF Next, Writers, blockLoop, drain

\* Saving the block is what changes the nonce index, and the block is then no longer
\* one that is still to be saved; a restart forgets what was drained.
LEMMA NextOrder ==
    TypeOK /\ Agree /\ ChainInv /\ OrderInv /\ [Next]_vars => OrderInv'
<1>. SUFFICES ASSUME TypeOK, Agree, ChainInv, OrderInv, [Next]_vars PROVE OrderInv'
  OBVIOUS
<1>1. CASE BlockLoopStep
  BY <1>1, BlockLoopKeepsOrder
<1>2. CASE SaveBlock
  <2>1. /\ bpc \in Mining /\ UNCHANGED <<bpc, blk, valid>> /\ ~Unsaved(blk)'
    BY <1>2, SavedBlock
  <2>2. valid' = <<>> /\ bpc' # "drain"
    BY <2>1 DEF OrderInv, DrainFollows, Draining, Mining
  <2>. QED  BY <2>1, <2>2 DEF OrderInv, DrainFollows, BlockFollows, Follows, Increasing
<1>3. CASE Crash \/ Rebuild \/ StartThreads
  <2>1. valid' = <<>> /\ bpc' \notin Draining \union Mining
    <3>1. CASE Crash
      BY <3>1 DEF Crash, ForgetDrain, Draining, Mining
    <3>2. CASE Rebuild \/ StartThreads
      BY <3>2 DEF Rebuild, RebuildBalance, RebuildNonce, RebuildBlock, Booting,
          StartThreads, Agree, OrderInv, DrainFollows, Draining, Mining, blockLoop, drain
    <3>. QED  BY <1>3, <3>1, <3>2
  <2>. QED  BY <2>1 DEF OrderInv, DrainFollows, BlockFollows, Follows, Increasing,
            Draining
<1>4. CASE UNCHANGED <<chain, nonceOf, bpc, blk, expected, valid>>
  BY <1>4 DEF OrderInv, DrainFollows, BlockFollows, Unsaved
<1>5. CASE UNCHANGED vars
  BY <1>4, <1>5 DEF vars, redis, blockLoop, drain
<1>. QED  BY <1>1, <1>2, <1>3, <1>4, <1>5, OthersKeepDrain DEF Writers

\* The chain's nonces of one sender grow.
Ordered(c) ==
    \A b, d \in DOMAIN c : \A i \in DOMAIN c[b].txs, j \in DOMAIN c[d].txs :
        /\ b < d \/ (b = d /\ i < j)
        /\ c[b].txs[i].sender = c[d].txs[j].sender
        => c[b].txs[i].nonce < c[d].txs[j].nonce

\* The last transaction of a sender in a list sets the sender's nonce.
LEMMA AfterLast ==
    ASSUME NEW txs \in Seq(GoodTxs), NEW a \in Accounts, SentBy(a, txs) # {}
    PROVE  \E k \in SentBy(a, txs) :
              /\ \A i \in SentBy(a, txs) : i <= k
              /\ \A n : NoncesAfter(n, txs)[a] = txs[k].nonce + 1
<1>1. SentBy(a, txs) \subseteq 1..Len(txs) /\ Len(txs) \in Nat
  BY DEF SentBy
<1>2. /\ Max(SentBy(a, txs)) \in SentBy(a, txs)
      /\ \A i \in SentBy(a, txs) : i <= Max(SentBy(a, txs))
  BY <1>1, MaxOfPositions
<1>3. \A n : NoncesAfter(n, txs)[a] = txs[Max(SentBy(a, txs))].nonce + 1
  BY DEF NoncesAfter
<1>. QED  BY <1>2, <1>3

\* Every nonce on the chain lies below an index that is right for it.
LEMMA ChainBelowIndex ==
    ASSUME NEW c \in Seq(BlockRecord), NEW n \in [Accounts -> Nat],
           Ordered(c), Indexed(n, c, Len(c)),
           NEW b \in DOMAIN c, NEW i \in DOMAIN c[b].txs
    PROVE  c[b].txs[i].nonce < n[c[b].txs[i].sender]
<1>. DEFINE a == c[b].txs[i].sender
            blocks == BlocksUpTo(a, c, Len(c))
            m == Max(blocks)
<1>1. /\ Len(c) \in Nat /\ DOMAIN c = 1..Len(c)
      /\ \A k \in 1..Len(c) : c[k].txs \in Seq(GoodTxs)
  BY BlockTxsType
<1>2. /\ a \in Accounts /\ c[b].txs[i].nonce \in Nat
  <2>1. c[b].txs[i] \in GoodTxs
    BY <1>1
  <2>. QED  BY <2>1, GoodTxsType DEF TxRecord
<1>3. b \in BlocksOf(a, c) /\ blocks = BlocksOf(a, c) /\ blocks \subseteq 1..Len(c)
  <2>1. b \in BlocksOf(a, c)
    BY DEF BlocksOf, SentBy
  <2>. QED  BY <1>1, <2>1 DEF BlocksOf, BlocksUpTo
<1>4. m \in blocks /\ b <= m
  <2>. HIDE DEF blocks
  <2>. QED  BY <1>1, <1>3, MaxOfPositions
<1>5. m \in 1..Len(c) /\ SentBy(a, c[m].txs) # {} /\ c[m].txs \in Seq(GoodTxs)
  <2>. HIDE DEF m, blocks
  <2>. QED  BY <1>1, <1>3, <1>4 DEF BlocksOf
<1>6. n[a] = After(c[m].txs, a)
  BY <1>2, <1>3 DEF Indexed
<1>. HIDE DEF m
<1>7. PICK k \in SentBy(a, c[m].txs) :
         /\ \A j \in SentBy(a, c[m].txs) : j <= k
         /\ \A s : NoncesAfter(s, c[m].txs)[a] = c[m].txs[k].nonce + 1
  BY <1>2, <1>5, AfterLast
<1>8. n[a] = c[m].txs[k].nonce + 1 /\ c[m].txs[k].nonce \in Nat
  <2>1. c[m].txs[k] \in GoodTxs /\ k \in DOMAIN c[m].txs
    BY <1>5, <1>7 DEF SentBy
  <2>. QED  BY <1>6, <1>7, <2>1, GoodTxsType DEF After
<1>9. k \in DOMAIN c[m].txs /\ c[m].txs[k].sender = a /\ m \in DOMAIN c
  BY <1>1, <1>5, <1>7 DEF SentBy
<1>10. CASE b = m
  <2>1. i \in SentBy(a, c[m].txs) /\ i \in Nat /\ k \in Nat
    <3>1. DOMAIN c[m].txs = 1..Len(c[m].txs)
      BY <1>5
    <3>. QED  BY <1>9, <1>10, <3>1 DEF SentBy
  <2>2. i = k \/ i < k
    BY <1>7, <2>1
  <2>. QED  BY <1>2, <1>8, <1>9, <1>10, <2>2 DEF Ordered
<1>11. CASE b < m
  BY <1>2, <1>8, <1>9, <1>11 DEF Ordered
<1>. QED  BY <1>1, <1>4, <1>5, <1>10, <1>11

\* A block whose nonces go on from an index that is right keeps the order.
LEMMA AppendOrdered ==
    ASSUME NEW c \in Seq(BlockRecord), NEW n \in [Accounts -> Nat], NEW x \in BlockRecord,
           Ordered(c), Indexed(n, c, Len(c)), Follows(n, x.txs)
    PROVE  Ordered(Append(c, x))
<1>. DEFINE e == Append(c, x)
<1>1. /\ Len(c) \in Nat /\ DOMAIN c = 1..Len(c) /\ DOMAIN e = 1..(Len(c) + 1)
      /\ e[Len(c) + 1] = x /\ \A k \in 1..Len(c) : e[k] = c[k]
  OBVIOUS
<1>. HIDE DEF e
<1>2. ASSUME NEW b \in DOMAIN e, NEW d \in DOMAIN e,
             NEW i \in DOMAIN e[b].txs, NEW j \in DOMAIN e[d].txs,
             b < d \/ (b = d /\ i < j), e[b].txs[i].sender = e[d].txs[j].sender
      PROVE  e[b].txs[i].nonce < e[d].txs[j].nonce
  <2>1. CASE d \in 1..Len(c)
    <3>1. b \in 1..Len(c)
      BY <1>1, <1>2, <2>1
    <3>. QED  BY <1>1, <1>2, <2>1, <3>1 DEF Ordered
  <2>2. CASE d = Len(c) + 1 /\ b = Len(c) + 1
    BY <1>1, <1>2, <2>2 DEF Follows, Increasing
  <2>3. CASE d = Len(c) + 1 /\ b \in 1..Len(c)
    <3>1. e[b].txs[i].nonce < n[e[b].txs[i].sender]
      BY <1>1, <1>2, <2>3, ChainBelowIndex
    <3>2. n[e[d].txs[j].sender] <= e[d].txs[j].nonce
      BY <1>1, <1>2, <2>3 DEF Follows
    <3>3. c[b].txs[i] \in GoodTxs /\ x.txs[j] \in GoodTxs
      <4>1. c[b].txs \in Seq(GoodTxs) /\ x.txs \in Seq(GoodTxs)
        BY <2>3, BlockTxsType DEF BlockRecord
      <4>. QED  BY <1>1, <1>2, <2>3, <4>1
    <3>4. /\ e[b].txs[i].nonce \in Nat /\ e[d].txs[j].nonce \in Nat
          /\ n[e[b].txs[i].sender] \in Nat
      BY <1>1, <2>3, <3>3, GoodTxsType DEF TxRecord
    <3>. QED  BY <1>2, <3>1, <3>2, <3>4
  <2>. QED  BY <1>1, <2>1, <2>2, <2>3
<1>3. Ordered(e)
  BY <1>2 DEF Ordered
<1>. QED  BY <1>3 DEF e

\* The chain only grows by a block whose nonces go on from the index, and the
\* index is right for the chain whenever a block is saved.
LEMMA NextReplay ==
    /\ TypeOK /\ Agree /\ ChainInv /\ NonceInv /\ OrderInv
    /\ NoReplay /\ [Next]_vars
    => NoReplay'
<1>. SUFFICES ASSUME TypeOK, Agree, ChainInv, NonceInv, OrderInv, NoReplay, [Next]_vars
              PROVE  NoReplay'
  OBVIOUS
<1>1. Ordered(chain) /\ (Ordered(chain') => NoReplay')
  BY DEF NoReplay, Ordered
<1>2. CASE SaveBlock
  <2>1. /\ bpc \in Mining /\ Unsaved(blk) /\ blk \in BlockRecord
        /\ chain' = Append(chain, blk)
    BY <1>2, SavedBlock
  <2>2. chain \in Seq(BlockRecord) /\ nonceOf \in [Accounts -> Nat]
    BY DEF TypeOK, TypeRedis
  <2>3. Indexed(nonceOf, chain, Len(chain))
    BY <1>2, SavesWhileUp DEF NonceInv, Booting, Covered
  <2>4. Follows(nonceOf, blk.txs)
    BY <2>1 DEF OrderInv, BlockFollows
  <2>. QED  BY <1>1, <2>1, <2>2, <2>3, <2>4, AppendOrdered
<1>3. CASE chain' = chain
  BY <1>1, <1>3
<1>4. CASE UNCHANGED vars
  BY <1>3, <1>4 DEF vars, redis
<1>. QED  BY <1>2, <1>3, <1>4, OnlySaveAppends

\* Every account's nonces grow along the chain: no transaction is applied twice,
\* however often it is posted, restored after a crash or mined.
THEOREM NoReplayCorrect ==
    ASSUME Orderly
    PROVE  Spec => []NoReplay
<1>. DEFINE Inv == TypeOK /\ Agree /\ ChainInv /\ NonceInv /\ OrderInv /\ NoReplay
<1>1. Init => Inv
  <2>1. Init => NoReplay
    BY DEF Init, NoReplay, Genesis
  <2>. QED  BY <2>1, InitType, InitChain, InitNonce, InitOrder DEF Init, Agree, Judged
<1>2. Inv /\ [Next]_vars => Inv'
  BY NextType, NextAgree, NextChain, NextNonce, NextOrder, NextReplay
<1>. QED  BY <1>1, <1>2, PTL DEF Spec

(***************************************************************************)
(* Balances.  A list of transactions is covered by an index if no prefix   *)
(* of it takes an account below zero.                                      *)
(***************************************************************************)

Covers(bal, txs) ==
    \A a \in Accounts : \A n \in 0..Len(txs) : RunningBalance(bal[a], txs, a)[n] >= 0

\* Lists that agree up to a position give the same balance there.
LEMMA SamePrefix ==
    ASSUME NEW start \in Int, NEW a, NEW s \in Seq(GoodTxs), NEW t \in Seq(GoodTxs),
           Len(s) <= Len(t), \A i \in 1..Len(s) : t[i] = s[i]
    PROVE  \A n \in 0..Len(s) :
              RunningBalance(start, t, a)[n] = RunningBalance(start, s, a)[n]
<1>. DEFINE f == RunningBalance(start, s, a)
            g == RunningBalance(start, t, a)
            P == {i \in 0..Len(s) : g[i] = f[i]}
<1>1. /\ f[0] = start /\ \A i \in 1..Len(s) : f[i] = f[i - 1] + Delta(s[i], a)
      /\ g[0] = start /\ \A i \in 1..Len(t) : g[i] = g[i - 1] + Delta(t[i], a)
  BY RunningBalanceSteps
<1>2. Len(s) \in Nat /\ Len(t) \in Nat
  OBVIOUS
<1>. HIDE DEF f, g
<1>3. 0 \in P
  BY <1>1, <1>2
<1>4. ASSUME NEW i \in 1..Len(s), i - 1 \in P PROVE i \in P
  <2>1. i \in 1..Len(t) /\ i \in 0..Len(s)
    BY <1>2
  <2>. QED  BY <1>1, <1>4, <2>1
<1>5. 0..Len(s) \subseteq P
  <2>. HIDE DEF P
  <2>. QED  BY <1>2, <1>3, <1>4, PositionsInduction
<1>. QED  BY <1>5 DEF f, g

\* Of two lists, the second starts from where the first one ends.
LEMMA Concatenated ==
    ASSUME NEW start \in Int, NEW a, NEW s \in Seq(GoodTxs), NEW t \in Seq(GoodTxs)
    PROVE  \A k \in 0..Len(t) :
              RunningBalance(start, s \o t, a)[Len(s) + k]
              = RunningBalance(RunningBalance(start, s, a)[Len(s)], t, a)[k]
<1>. DEFINE st == s \o t
            mid == RunningBalance(start, s, a)[Len(s)]
            f == RunningBalance(mid, t, a)
            g == RunningBalance(start, st, a)
            P == {k \in 0..Len(t) : g[Len(s) + k] = f[k]}
<1>1. /\ st \in Seq(GoodTxs) /\ Len(st) = Len(s) + Len(t)
      /\ \A i \in 1..Len(s) : st[i] = s[i]
      /\ \A k \in 1..Len(t) : st[Len(s) + k] = t[k]
      /\ Len(s) \in Nat /\ Len(t) \in Nat
  OBVIOUS
<1>. HIDE DEF st
<1>2. mid \in Int
  <2>1. RunningBalance(start, s, a) \in [0..Len(s) -> Int]
    BY RunningBalanceSteps
  <2>. QED  BY <1>1, <2>1
<1>3. g[Len(s)] = mid
  <2>1. Len(s) <= Len(st) /\ Len(s) \in 0..Len(s) /\ \A i \in 1..Len(s) : st[i] = s[i]
    BY <1>1
  <2>2. \A n \in 0..Len(s) :
           RunningBalance(start, st, a)[n] = RunningBalance(start, s, a)[n]
    <3>1. st \in Seq(GoodTxs)
      BY <1>1
    <3>. HIDE DEF f, g, P, mid
    <3>. QED  BY <2>1, <3>1, SamePrefix
  <2>. QED  BY <2>1, <2>2 DEF g, mid
<1>. HIDE DEF mid
<1>4. f[0] = mid /\ \A k \in 1..Len(t) : f[k] = f[k - 1] + Delta(t[k], a)
  BY <1>2, RunningBalanceSteps
<1>8. \A i \in 1..Len(st) : g[i] = g[i - 1] + Delta(st[i], a)
  <2>1. \A x \in Seq(GoodTxs) : \A i \in 1..Len(x) :
           RunningBalance(start, x, a)[i]
           = RunningBalance(start, x, a)[i - 1] + Delta(x[i], a)
    BY RunningBalanceSteps
  <2>. QED  BY <1>1, <2>1
<1>. HIDE DEF f, g
<1>5. 0 \in P
  BY <1>1, <1>3, <1>4
<1>6. ASSUME NEW k \in 1..Len(t), k - 1 \in P PROVE k \in P
  <2>1. Len(s) + k \in 1..Len(st) /\ (Len(s) + k) - 1 = Len(s) + (k - 1)
    BY <1>1
  <2>2. g[Len(s) + k] = g[Len(s) + (k - 1)] + Delta(st[Len(s) + k], a)
    BY <1>8, <2>1
  <2>3. g[Len(s) + k] = f[k - 1] + Delta(t[k], a)
    BY <1>1, <1>6, <2>2
  <2>. QED  BY <1>1, <1>4, <2>3
<1>7. 0..Len(t) \subseteq P
  <2>. HIDE DEF P
  <2>. QED  BY <1>1, <1>5, <1>6, PositionsInduction
<1>. QED  BY <1>7 DEF f, g, mid, st

\* What two lists one after the other make of an index, and when it covers them.
LEMMA AppliedInTurn ==
    ASSUME NEW bal \in [Accounts -> Int], NEW s \in Seq(GoodTxs), NEW t \in Seq(GoodTxs)
    PROVE  /\ BalancesAfter(bal, s \o t) = BalancesAfter(BalancesAfter(bal, s), t)
           /\ Covers(bal, s) /\ Covers(BalancesAfter(bal, s), t) => Covers(bal, s \o t)
<1>1. /\ s \o t \in Seq(GoodTxs) /\ Len(s \o t) = Len(s) + Len(t)
      /\ Len(s) \in Nat /\ Len(t) \in Nat
      /\ \A i \in 1..Len(s) : (s \o t)[i] = s[i]
  OBVIOUS
<1>2. ASSUME NEW a \in Accounts
      PROVE  /\ bal[a] \in Int
             /\ BalancesAfter(bal, s)[a] = RunningBalance(bal[a], s, a)[Len(s)]
             /\ \A n \in 0..Len(s) : RunningBalance(bal[a], s \o t, a)[n]
                                     = RunningBalance(bal[a], s, a)[n]
             /\ \A k \in 0..Len(t) :
                   RunningBalance(bal[a], s \o t, a)[Len(s) + k]
                   = RunningBalance(BalancesAfter(bal, s)[a], t, a)[k]
  <2>1. bal[a] \in Int /\ BalancesAfter(bal, s)[a] = RunningBalance(bal[a], s, a)[Len(s)]
    BY DEF BalancesAfter
  <2>2. \A n \in 0..Len(s) :
           RunningBalance(bal[a], s \o t, a)[n] = RunningBalance(bal[a], s, a)[n]
    <3>1. Len(s) <= Len(s \o t)
      BY <1>1
    <3>. QED  BY <1>1, <2>1, <3>1, SamePrefix
  <2>3. \A k \in 0..Len(t) :
           RunningBalance(bal[a], s \o t, a)[Len(s) + k]
           = RunningBalance(RunningBalance(bal[a], s, a)[Len(s)], t, a)[k]
    BY <2>1, Concatenated
  <2>. QED  BY <2>1, <2>2, <2>3
<1>3. BalancesAfter(bal, s \o t) = BalancesAfter(BalancesAfter(bal, s), t)
  <2>1. ASSUME NEW a \in Accounts
        PROVE  BalancesAfter(bal, s \o t)[a] = BalancesAfter(BalancesAfter(bal, s), t)[a]
    <3>1. Len(t) \in 0..Len(t)
      BY <1>1
    <3>2. RunningBalance(bal[a], s \o t, a)[Len(s \o t)]
          = RunningBalance(BalancesAfter(bal, s)[a], t, a)[Len(t)]
      BY <1>1, <1>2, <3>1
    <3>. QED  BY <3>2 DEF BalancesAfter
  <2>. QED  BY <2>1 DEF BalancesAfter
<1>4. ASSUME Covers(bal, s), Covers(BalancesAfter(bal, s), t),
             NEW a \in Accounts, NEW n \in 0..Len(s \o t)
      PROVE  RunningBalance(bal[a], s \o t, a)[n] >= 0
  <2>1. CASE n \in 0..Len(s)
    BY <1>2, <1>4, <2>1 DEF Covers
  <2>2. CASE n \notin 0..Len(s)
    <3>1. n - Len(s) \in 0..Len(t) /\ n = Len(s) + (n - Len(s))
      BY <1>1, <2>2
    <3>2. RunningBalance(bal[a], s \o t, a)[n]
          = RunningBalance(BalancesAfter(bal, s)[a], t, a)[n - Len(s)]
      BY <1>2, <3>1
    <3>. QED  BY <1>4, <3>1, <3>2 DEF Covers
  <2>. QED  BY <2>1, <2>2
<1>. QED  BY <1>3, <1>4 DEF Covers

\* One transaction more.
LEMMA AppliedLast ==
    ASSUME NEW bal \in [Accounts -> Int], NEW s \in Seq(GoodTxs), NEW tx \in GoodTxs
    PROVE  /\ \A a \in Accounts : BalancesAfter(bal, Append(s, tx))[a]
                                  = BalancesAfter(bal, s)[a] + Delta(tx, a)
           /\ /\ Covers(bal, s)
              /\ \A a \in Accounts : BalancesAfter(bal, Append(s, tx))[a] >= 0
              => Covers(bal, Append(s, tx))
<1>. DEFINE new == Append(s, tx)
<1>1. /\ new \in Seq(GoodTxs) /\ Len(new) = Len(s) + 1 /\ Len(s) \in Nat
      /\ new[Len(s) + 1] = tx /\ \A i \in 1..Len(s) : new[i] = s[i]
  OBVIOUS
<1>. HIDE DEF new
<1>2. ASSUME NEW a \in Accounts
      PROVE  /\ BalancesAfter(bal, s)[a] = RunningBalance(bal[a], s, a)[Len(s)]
             /\ BalancesAfter(bal, new)[a] = RunningBalance(bal[a], new, a)[Len(s) + 1]
             /\ \A n \in 0..Len(s) : RunningBalance(bal[a], new, a)[n]
                                     = RunningBalance(bal[a], s, a)[n]
             /\ RunningBalance(bal[a], new, a)[Len(s) + 1]
                = RunningBalance(bal[a], new, a)[Len(s)] + Delta(tx, a)
  <2>1. bal[a] \in Int
    OBVIOUS
  <2>2. /\ BalancesAfter(bal, s)[a] = RunningBalance(bal[a], s, a)[Len(s)]
        /\ BalancesAfter(bal, new)[a] = RunningBalance(bal[a], new, a)[Len(s) + 1]
    BY <1>1 DEF BalancesAfter
  <2>3. \A n \in 0..Len(s) :
           RunningBalance(bal[a], new, a)[n] = RunningBalance(bal[a], s, a)[n]
    BY <1>1, <2>1, SamePrefix
  <2>4. \A i \in 1..Len(new) : RunningBalance(bal[a], new, a)[i]
                               = RunningBalance(bal[a], new, a)[i - 1] + Delta(new[i], a)
    BY <1>1, <2>1, RunningBalanceSteps
  <2>5. Len(s) + 1 \in 1..Len(new) /\ (Len(s) + 1) - 1 = Len(s)
    BY <1>1
  <2>. QED  BY <1>1, <2>2, <2>3, <2>4, <2>5
<1>3. ASSUME NEW a \in Accounts
      PROVE  BalancesAfter(bal, new)[a] = BalancesAfter(bal, s)[a] + Delta(tx, a)
  <2>1. Len(s) \in 0..Len(s)
    BY <1>1
  <2>. QED  BY <1>2, <2>1
<1>4. ASSUME Covers(bal, s), \A a \in Accounts : BalancesAfter(bal, new)[a] >= 0,
             NEW a \in Accounts, NEW n \in 0..Len(new)
      PROVE  RunningBalance(bal[a], new, a)[n] >= 0
  <2>1. n \in 0..Len(s) \/ n = Len(s) + 1
    BY <1>1
  <2>. QED  BY <1>2, <1>4, <2>1 DEF Covers
<1>5. Covers(bal, s) /\ (\A a \in Accounts : BalancesAfter(bal, new)[a] >= 0)
      => Covers(bal, new)
  BY <1>4 DEF Covers
<1>. QED  BY <1>3, <1>5 DEF new

\* No transactions.
LEMMA NothingCovered ==
    ASSUME NEW bal \in [Accounts -> Int]
    PROVE  /\ BalancesAfter(bal, <<>>) = bal
           /\ Covers(bal, <<>>) <=> \A a \in Accounts : bal[a] >= 0
<1>1. <<>> \in Seq(GoodTxs) /\ Len(<<>>) = 0 /\ 0..0 = {0}
  OBVIOUS
<1>2. ASSUME NEW a \in Accounts PROVE RunningBalance(bal[a], <<>>, a)[0] = bal[a]
  <2>1. bal[a] \in Int
    OBVIOUS
  <2>2. \A txs \in Seq(GoodTxs) : RunningBalance(bal[a], txs, a)[0] = bal[a]
    BY <2>1, RunningBalanceSteps
  <2>. QED  BY <1>1, <2>2
<1>3. Covers(bal, <<>>) <=> \A a \in Accounts : bal[a] >= 0
  BY <1>1, <1>2 DEF Covers
<1>. QED  BY <1>1, <1>3, NothingApplied

\* The overlay is what the transactions accepted so far change.
Overlaid ==
    bpc = "drain" => \A a \in Accounts :
        BalancesAfter(balance, valid)[a] = balance[a] + overlay[a]

\* The index as it is now covers what is drained, and then the block until it is
\* saved.
DrainFunds == Covers(balance, valid) /\ Overlaid

BlockFunds == bpc \in Mining /\ Unsaved(blk) => Covers(balance, blk.txs)

FundsInv == Solvent /\ DrainFunds /\ BlockFunds

\* No account owes anything.
LEMMA InitFunds == Init => FundsInv
<1>. SUFFICES ASSUME Init PROVE FundsInv
  OBVIOUS
<1>1. /\ balance = NoBalances /\ valid = <<>> /\ bpc = "accumulate"
      /\ \A a \in Accounts : balance[a] = 0
  BY DEF Init, NoBalances
<1>2. Covers(balance, valid)
  BY <1>1, ConstantsType, NothingCovered
<1>. QED  BY <1>1, <1>2 DEF FundsInv, Solvent, DrainFunds, Overlaid, BlockFunds, Mining

\* Where a list covers, its whole leaves no account below zero.
LEMMA CoveredAfter ==
    ASSUME NEW bal \in [Accounts -> Int], NEW txs \in Seq(GoodTxs), Covers(bal, txs)
    PROVE  \A a \in Accounts : BalancesAfter(bal, txs)[a] >= 0
<1>1. Len(txs) \in 0..Len(txs)
  OBVIOUS
<1>. QED  BY <1>1 DEF Covers, BalancesAfter

\* Accepting a transaction adds to the overlay what it adds to the block.
LEMMA AcceptKeepsOverlay ==
    ASSUME TypeOK, Overlaid, NEW e \in left, DrainAccept(e)
    PROVE  Overlaid'
<1>1. /\ e.tx \in GoodTxs /\ valid \in Seq(GoodTxs) /\ balance \in [Accounts -> Int]
      /\ overlay \in [Accounts -> Int] /\ bpc = "drain"
      /\ balance' = balance /\ valid' = Append(valid, e.tx)
      /\ overlay' = [a \in Accounts |-> overlay[a] + Delta(e.tx, a)]
  BY DEF TypeOK, TypeDrain, TypeRedis, PoolEntry, DrainAccept, Turn, redis
<1>2. ASSUME NEW a \in Accounts
      PROVE  BalancesAfter(balance', valid')[a] = balance'[a] + overlay'[a]
  <2>1. BalancesAfter(balance, Append(valid, e.tx))[a]
        = BalancesAfter(balance, valid)[a] + Delta(e.tx, a)
    BY <1>1, AppliedLast
  <2>2. BalancesAfter(balance, valid)[a] = balance[a] + overlay[a]
    BY <1>1 DEF Overlaid
  <2>3. Delta(e.tx, a) \in Int /\ balance[a] \in Int /\ overlay[a] \in Int
    BY <1>1, DeltaType
  <2>. QED  BY <1>1, <2>1, <2>2, <2>3
<1>. QED  BY <1>2 DEF Overlaid

\* A transaction that is accepted can be paid.
LEMMA AcceptKeepsFunds ==
    ASSUME TypeOK, DrainFunds, NEW e \in left, DrainAccept(e)
    PROVE  DrainFunds'
<1>. USE DEF redis
<1>1. /\ e.tx \in GoodTxs /\ valid \in Seq(GoodTxs) /\ balance \in [Accounts -> Int]
      /\ overlay \in [Accounts -> Int] /\ bpc = "drain" /\ bpc' = "drain"
      /\ balance' = balance /\ valid' = Append(valid, e.tx)
      /\ overlay' = [a \in Accounts |-> overlay[a] + Delta(e.tx, a)]
      /\ Affordable(e.tx)
  BY DEF TypeOK, TypeDrain, TypeRedis, PoolEntry, DrainAccept, Turn
<1>2. /\ e.tx.amount \in Int /\ e.tx.amount > 0 /\ e.tx.type \in {"EARN", "SPEND"}
      /\ e.tx.sender \in Accounts
  BY <1>1, GoodTxsType DEF TxRecord, WellFormed, Types
<1>3. ASSUME NEW a \in Accounts
      PROVE  /\ BalancesAfter(balance, valid')[a] = balance[a] + overlay'[a]
             /\ BalancesAfter(balance, valid')[a] >= 0
  <2>1. /\ Delta(e.tx, a) \in Int /\ balance[a] \in Int /\ overlay[a] \in Int
        /\ overlay'[a] = overlay[a] + Delta(e.tx, a)
    BY <1>1, DeltaType
  <2>2. BalancesAfter(balance, valid')[a] = (balance[a] + overlay[a]) + Delta(e.tx, a)
    <3>1. Overlaid'
      BY AcceptKeepsOverlay DEF DrainFunds
    <3>. QED  BY <1>1, <2>1, <3>1 DEF Overlaid
  <2>3. balance[a] + overlay[a] >= 0
    BY <1>1, CoveredAfter DEF DrainFunds, Overlaid
  <2>4. Delta(e.tx, a) >= 0 \/ (a = e.tx.sender /\ e.tx.type = "SPEND"
                                /\ Delta(e.tx, a) = -e.tx.amount)
    BY <1>2 DEF Delta
  <2>5. CASE Delta(e.tx, a) >= 0
    BY <2>1, <2>2, <2>3, <2>5
  <2>6. CASE a = e.tx.sender /\ e.tx.type = "SPEND" /\ Delta(e.tx, a) = -e.tx.amount
    <3>1. balance[a] + overlay[a] >= e.tx.amount
      BY <1>1, <2>6 DEF Affordable
    <3>. QED  BY <1>2, <2>1, <2>2, <2>6, <3>1
  <2>. QED  BY <2>4, <2>5, <2>6
<1>4. Covers(balance, valid')
  BY <1>1, <1>3, AppliedLast DEF DrainFunds, Overlaid
<1>. QED  BY <1>1, <1>3, <1>4 DEF DrainFunds, Overlaid

\* The steps of the block loop, the drain's among them.
LEMMA BlockLoopKeepsFunds ==
    ASSUME TypeOK, OrderInv, FundsInv, BlockLoopStep
    PROVE  FundsInv'
<1>. USE DEF redis, FundsInv
<1>1. balance' = balance /\ chain' = chain /\ balance \in [Accounts -> Int]
  BY DEF TypeOK, TypeRedis, BlockLoopStep, TakeSnapshot, DrainGap, DrainReplay,
      DrainAccept, DrainReject, RemoveFromPool, TrimPending, RecordDiscarded,
      NothingToMine, CreateBlock, GateClosed, BackoffOver, BlockDone, GateOpen,
      SetCurrentBlock, Publish, Timeout
<1>2. Solvent' /\ Covers(balance, <<>>)
  BY <1>1, NothingCovered DEF Solvent
<1>3. ASSUME NEW e \in left,
             DrainGap(e) \/ DrainReplay(e) \/ DrainAccept(e) \/ DrainReject(e)
      PROVE  FundsInv'
  <2>1. bpc = "drain" /\ bpc' = "drain"
    BY <1>3 DEF DrainGap, DrainReplay, DrainAccept, DrainReject, Turn
  <2>2. DrainFunds'
    <3>1. CASE DrainAccept(e)
      BY <3>1, AcceptKeepsFunds
    <3>2. CASE DrainGap(e) \/ DrainReplay(e) \/ DrainReject(e)
      BY <1>1, <2>1, <3>2 DEF DrainGap, DrainReplay, DrainReject, DrainFunds, Overlaid
    <3>. QED  BY <1>3, <3>1, <3>2
  <2>. QED  BY <1>2, <2>1, <2>2 DEF BlockFunds, Mining
<1>4. CASE TakeSnapshot
  <2>1. valid = <<>> /\ valid' = <<>> /\ overlay' = NoBalances /\ bpc' = "drain"
    BY <1>4 DEF TakeSnapshot, OrderInv, DrainFollows, Draining
  <2>2. BalancesAfter(balance, <<>>) = balance
    BY <1>1, NothingCovered
  <2>3. \A a \in Accounts : balance[a] = balance[a] + NoBalances[a]
    BY <1>1 DEF NoBalances
  <2>. QED  BY <1>1, <1>2, <2>1, <2>2, <2>3 DEF DrainFunds, Overlaid, BlockFunds, Mining
<1>5. CASE RemoveFromPool \/ TrimPending \/ RecordDiscarded
  <2>1. bpc' \in {"trim", "record"} /\ valid' = valid
    BY <1>5 DEF RemoveFromPool, TrimPending, RecordDiscarded, drain
  <2>. QED  BY <1>1, <1>2, <2>1 DEF DrainFunds, Overlaid, BlockFunds, Mining
<1>6. CASE NothingToMine
  <2>1. bpc' = "accumulate" /\ valid' = <<>>
    BY <1>6 DEF NothingToMine, ForgetDrain
  <2>. QED  BY <1>1, <1>2, <2>1 DEF DrainFunds, Overlaid, BlockFunds, Mining
<1>7. CASE CreateBlock
  <2>1. blk'.txs = valid /\ valid' = <<>> /\ bpc' = "gate"
    BY <1>7 DEF CreateBlock, ForgetDrain
  <2>. QED  BY <1>1, <1>2, <2>1 DEF DrainFunds, Overlaid, BlockFunds
<1>8. CASE GateClosed \/ BackoffOver \/ BlockDone \/ GateOpen \/ SetCurrentBlock
           \/ Publish \/ Timeout
  <2>1. /\ bpc \in Mining /\ bpc' # "drain" /\ valid' = valid
        /\ bpc' \in Mining => blk' = blk
    BY <1>8 DEF GateClosed, BackoffOver, BlockDone, GateOpen, SetCurrentBlock, Publish,
        Timeout, Mining, drain
  <2>2. DrainFunds'
    BY <1>1, <2>1 DEF DrainFunds, Overlaid
  <2>3. BlockFunds'
    BY <1>1, <2>1 DEF BlockFunds, Unsaved
  <2>. QED  BY <1>2, <2>2, <2>3
<1>. QED  BY <1>3, <1>4, <1>5, <1>6, <1>7, <1>8 DEF BlockLoopStep

\* While the process lives it is never restarted.
LEMMA NeverRestarts ==
    ASSUME NoCrash, TypeOK, proc = "up"
    PROVE  ~Crash /\ ~Rebuild /\ ~StartThreads
<1>1. used["crashes"] \in Nat
  BY DEF TypeOK, TypeEnv, Counted
<1>. QED  BY <1>1 DEF Crash, May, NoCrash, Rebuild, RebuildBalance, RebuildNonce,
       RebuildBlock, Booting, StartThreads

\* Saving the block applies to the balances what they were found to cover.
LEMMA NextFunds ==
    /\ NoCrash /\ TypeOK /\ Agree /\ ChainInv /\ BalanceInv /\ OrderInv
    /\ FundsInv /\ [Next]_vars
    => FundsInv'
<1>. SUFFICES ASSUME NoCrash, TypeOK, Agree, ChainInv, BalanceInv, OrderInv, FundsInv,
                     [Next]_vars
              PROVE  FundsInv'
  OBVIOUS
<1>1. CASE BlockLoopStep
  BY <1>1, BlockLoopKeepsFunds
<1>2. CASE SaveBlock
  <2>1. /\ bpc \in Mining /\ Unsaved(blk) /\ blk.txs \in Seq(GoodTxs)
        /\ UNCHANGED <<bpc, blk, valid>> /\ ~Unsaved(blk)'
        /\ balance' = BalancesAfter(balance, blk.txs)
    BY <1>2, SavedBlock
  <2>2. balance \in [Accounts -> Int]
    BY DEF TypeOK, TypeRedis
  <2>3. Solvent' /\ balance' \in [Accounts -> Int]
    BY <2>1, <2>2, CoveredAfter, BalancesAfterType DEF FundsInv, BlockFunds, Solvent
  <2>4. valid' = <<>> /\ bpc' # "drain"
    BY <2>1 DEF OrderInv, DrainFollows, Draining, Mining
  <2>5. Covers(balance', <<>>)
    BY <2>3, NothingCovered DEF Solvent
  <2>. QED  BY <2>1, <2>3, <2>4, <2>5 DEF FundsInv, DrainFunds, Overlaid, BlockFunds
<1>3. ~Crash /\ ~Rebuild /\ ~StartThreads
  BY NeverRestarts DEF BalanceInv
<1>4. CASE UNCHANGED <<chain, balance, bpc, blk, overlay, valid>>
  BY <1>4 DEF FundsInv, Solvent, DrainFunds, Overlaid, BlockFunds, Unsaved
<1>5. CASE UNCHANGED vars
  BY <1>4, <1>5 DEF vars, redis, blockLoop, drain
<1>. QED  BY <1>1, <1>2, <1>3, <1>4, <1>5, OthersKeepDrain DEF Writers

\* Nobody spends what they have not earned, although the drain looks at an index
\* that is older than the block, as long as no boot adds to it once more.
THEOREM SolventCorrect ==
    ASSUME Orderly, NoCrash
    PROVE  Spec => []Solvent
<1>. DEFINE Inv == TypeOK /\ Agree /\ ChainInv /\ BalanceInv /\ OrderInv /\ FundsInv
<1>1. Init => Inv
  BY InitType, InitChain, InitBalance, InitOrder, InitFunds DEF Init, Agree, Judged
<1>2. Inv /\ [Next]_vars => Inv'
  BY NextType, NextAgree, NextChain, NextBalance, NextOrder, NextFunds
<1>3. Inv => Solvent
  BY DEF FundsInv
<1>. QED  BY <1>1, <1>2, <1>3, PTL DEF Spec

(***************************************************************************)
(* Discards.  The drain takes the snapshot's entries in their order, and   *)
(* what it drops is dropped for good.  That a dropped transaction was      *)
(* justly dropped is still true, of the whole of the block, when it is     *)
(* recorded.                                                               *)
(***************************************************************************)

\* The entries whose turn has come.
Done == snap \ left

NoDrain ==
    /\ snap = {} /\ left = {} /\ expected = NoNonces
    /\ valid = <<>> /\ dropped = <<>>

\* The turns come in order and no nonce is left that could be due once more; what
\* is accepted had its turn; a nonce below the expected one is used up by the
\* chain or by an entry that had its turn.
TurnInv ==
    /\ bpc \notin Draining => NoDrain
    /\ \A f \in Done, e \in left : Before(snap, f, e)
    /\ \A f \in Done : f.tx.nonce # expected[f.tx.sender]
    /\ \A i \in DOMAIN valid : \E f \in Done : f.tx = valid[i]
    /\ \A a \in Accounts : \A n \in Nat :
          n < expected[a] => \/ n < nonceOf[a]
                             \/ \E f \in Done : f.tx.sender = a /\ f.tx.nonce = n

\* Unfunded, of an entry that had its turn: what the block got before that turn
\* could not pay it.
Accepted(e, i) == \E f \in snap : f.tx = valid[i] /\ Before(snap, f, e)

CutAt(e, n) == \A i \in DOMAIN valid : i <= n <=> Accepted(e, i)

Refused(tx) ==
    \E e \in Done, n \in 0..Len(valid) :
        /\ e.tx = tx /\ tx.type = "SPEND" /\ CutAt(e, n)
        /\ BalancesAfter(balance, SubSeq(valid, 1, n))[tx.sender] < tx.amount

\* The nonce was used up when the entry had its turn.
Replayed(tx) ==
    \/ tx.nonce < nonceOf[tx.sender]
    \/ \E e, f \in snap :
          /\ e.tx = tx /\ f.tx # tx
          /\ f.tx.sender = tx.sender /\ f.tx.nonce = tx.nonce
          /\ Before(snap, f, e)

\* What is known of a transaction that is neither due nor early any more.
Settled(tx) == Replayed(tx) \/ Refused(tx) \/ tx \in ToSet(valid)

\* An entry whose nonce is passed is settled when its turn is over, and so is what is
\* dropped: a second copy of an entry that was dropped has the reason of the first.
DroppedInv ==
    /\ \A f \in Done : f.tx.nonce < expected[f.tx.sender] => Settled(f.tx)
    /\ \A tx \in ToSet(dropped) : Settled(tx)

\* Nothing is drained at first.
LEMMA InitTurn == Init => TurnInv /\ DroppedInv /\ Overlaid
BY DEF Init, TurnInv, DroppedInv, Overlaid, NoDrain, Done, Draining, NoNonces, ToSet

\* What a turn of the drain does to the snapshot.
LEMMA TurnTaken ==
    ASSUME TypeOK, TurnInv, NEW e \in left,
           DrainGap(e) \/ DrainReplay(e) \/ DrainAccept(e) \/ DrainReject(e)
    PROVE  /\ e \in snap /\ e \notin Done /\ snap \in SUBSET PoolEntry
           /\ snap' = snap /\ left' = left \ {e} /\ Done' = Done \union {e}
           /\ \A f \in left' : Before(snap, e, f)
           /\ \A f \in Done : Before(snap, f, e)
           /\ bpc = "drain" /\ bpc' = "drain"
           /\ balance' = balance /\ nonceOf' = nonceOf
           /\ e.tx \in GoodTxs /\ e.tx.sender \in Accounts /\ e.tx.nonce \in Nat
           /\ expected \in [Accounts -> Nat] /\ nonceOf \in [Accounts -> Nat]
           /\ valid \in Seq(GoodTxs) /\ dropped \in Seq(GoodTxs)
           /\ balance \in [Accounts -> Int] /\ overlay \in [Accounts -> Int]
<1>1. /\ snap \in SUBSET PoolEntry /\ left \subseteq snap
      /\ expected \in [Accounts -> Nat] /\ nonceOf \in [Accounts -> Nat]
      /\ valid \in Seq(GoodTxs) /\ dropped \in Seq(GoodTxs)
      /\ balance \in [Accounts -> Int] /\ overlay \in [Accounts -> Int]
  BY DEF TypeOK, TypeDrain, TypeRedis
<1>2. /\ Turn(e) /\ snap' = snap /\ left' = left \ {e} /\ bpc' = bpc
      /\ balance' = balance /\ nonceOf' = nonceOf
  BY DEF DrainGap, DrainReplay, DrainAccept, DrainReject, redis
<1>3. e.tx \in GoodTxs
  BY <1>1 DEF PoolEntry
<1>4. e.tx.sender \in Accounts /\ e.tx.nonce \in Nat
  BY <1>3, GoodTxsType DEF TxRecord
<1>5. Done' = Done \union {e} /\ e \in snap /\ e \notin Done
  BY <1>1, <1>2 DEF Done
<1>. QED  BY <1>1, <1>2, <1>3, <1>4, <1>5 DEF Turn, TurnInv

\* A nonce that is due is due to one entry only: the next one of the sender is
\* expected before another entry's turn comes.
LEMMA DrainKeepsTurns ==
    ASSUME TypeOK, TurnInv, NEW e \in left,
           DrainGap(e) \/ DrainReplay(e) \/ DrainAccept(e) \/ DrainReject(e)
    PROVE  TurnInv'
<1>1. /\ e \in snap /\ snap \in SUBSET PoolEntry
      /\ snap' = snap /\ left' = left \ {e} /\ Done' = Done \union {e}
      /\ \A f \in left' : Before(snap, e, f)
      /\ \A f \in Done : Before(snap, f, e)
      /\ bpc' = "drain" /\ nonceOf' = nonceOf
      /\ e.tx \in GoodTxs /\ e.tx.sender \in Accounts /\ e.tx.nonce \in Nat
      /\ expected \in [Accounts -> Nat] /\ nonceOf \in [Accounts -> Nat]
      /\ valid \in Seq(GoodTxs)
  BY TurnTaken
<1>2. \A f \in Done', g \in left' : Before(snap', f, g)
  BY <1>1 DEF TurnInv
<1>3. ASSUME NEW f \in Done
      PROVE  /\ f.tx.sender \in Accounts /\ f.tx.nonce \in Nat
             /\ f.tx.sender = e.tx.sender => f.tx.nonce <= e.tx.nonce
             /\ f.tx.nonce # expected[f.tx.sender]
  <2>1. f \in snap /\ Before(snap, f, e)
    BY <1>1 DEF Done
  <2>2. f.tx \in GoodTxs
    BY <1>1, <2>1 DEF PoolEntry
  <2>. QED  BY <1>1, <2>1, <2>2, TurnOrder, GoodTxsType DEF TxRecord, TurnInv
<1>4. ASSUME expected' = expected, valid' = valid, e.tx.nonce # expected[e.tx.sender]
      PROVE  TurnInv'
  <2>1. \A f \in Done' : f.tx.nonce # expected'[f.tx.sender]
    BY <1>1, <1>3, <1>4
  <2>2. \A i \in DOMAIN valid' : \E f \in Done' : f.tx = valid'[i]
    BY <1>1, <1>4 DEF TurnInv
  <2>3. \A a \in Accounts : \A n \in Nat :
           n < expected'[a]
           => n < nonceOf'[a] \/ \E f \in Done' : f.tx.sender = a /\ f.tx.nonce = n
    BY <1>1, <1>4 DEF TurnInv
  <2>. QED  BY <1>1, <1>2, <2>1, <2>2, <2>3 DEF TurnInv, Draining
<1>5. ASSUME expected' = [expected EXCEPT ![e.tx.sender] = @ + 1],
             e.tx.nonce = expected[e.tx.sender], valid' \in {valid, Append(valid, e.tx)}
      PROVE  TurnInv'
  <2>1. /\ expected'[e.tx.sender] = e.tx.nonce + 1
        /\ \A a \in Accounts : a # e.tx.sender => expected'[a] = expected[a]
    BY <1>1, <1>5
  <2>2. \A f \in Done' : f.tx.nonce # expected'[f.tx.sender]
    BY <1>1, <1>3, <2>1
  <2>3. ASSUME NEW i \in DOMAIN valid' PROVE \E f \in Done' : f.tx = valid'[i]
    <3>1. CASE valid' = valid
      BY <1>1, <3>1 DEF TurnInv
    <3>2. CASE valid' = Append(valid, e.tx)
      <4>1. (i \in DOMAIN valid /\ valid'[i] = valid[i]) \/ valid'[i] = e.tx
        BY <1>1, <3>2
      <4>. QED  BY <1>1, <4>1 DEF TurnInv
    <3>. QED  BY <1>5, <3>1, <3>2
  <2>4. ASSUME NEW a \in Accounts, NEW n \in Nat, n < expected'[a]
        PROVE  n < nonceOf'[a] \/ \E f \in Done' : f.tx.sender = a /\ f.tx.nonce = n
    <3>1. n < expected[a] \/ (a = e.tx.sender /\ n = e.tx.nonce)
      BY <1>1, <1>5, <2>1, <2>4
    <3>. QED  BY <1>1, <3>1 DEF TurnInv
  <2>. QED  BY <1>1, <1>2, <2>2, <2>3, <2>4 DEF TurnInv, Draining
<1>6. CASE DrainGap(e) \/ DrainReplay(e)
  <2>1. expected' = expected /\ valid' = valid
    BY <1>6 DEF DrainGap, DrainReplay
  <2>2. e.tx.nonce # expected[e.tx.sender]
    BY <1>1, <1>6 DEF DrainGap, DrainReplay, IsGap, IsReplay
  <2>. QED  BY <2>1, <2>2, <1>4
<1>7. CASE DrainAccept(e) \/ DrainReject(e)
  <2>1. e.tx.nonce = expected[e.tx.sender]
    BY <1>1, <1>7 DEF DrainAccept, DrainReject, IsGap, IsReplay
  <2>2. /\ expected' = [expected EXCEPT ![e.tx.sender] = @ + 1]
        /\ valid' \in {valid, Append(valid, e.tx)}
    BY <1>7 DEF DrainAccept, DrainReject
  <2>. QED  BY <2>1, <2>2, <1>5
<1>. QED  BY <1>6, <1>7

\* Until the turn of e the block holds what came before e and nothing else.
LEMMA AllBefore ==
    ASSUME TurnInv, NEW e \in left PROVE CutAt(e, Len(valid)) \/ valid \notin Seq(GoodTxs)
<1>. SUFFICES ASSUME valid \in Seq(GoodTxs), NEW i \in DOMAIN valid
              PROVE  i <= Len(valid) /\ Accepted(e, i)
  BY DEF CutAt
<1>1. i <= Len(valid)
  OBVIOUS
<1>2. PICK f \in Done : f.tx = valid[i]
  BY DEF TurnInv
<1>3. f \in snap /\ Before(snap, f, e)
  BY <1>2 DEF TurnInv, Done
<1>. QED  BY <1>1, <1>2, <1>3 DEF Accepted

\* What the block gets later does not count for an entry that had its turn: no
\* earlier entry is a copy of the one that is accepted.
LEMMA CutStays ==
    ASSUME TypeOK, TurnInv, NEW e \in left, DrainAccept(e),
           NEW d \in Done, NEW n \in 0..Len(valid), CutAt(d, n)
    PROVE  /\ n \in 0..Len(valid') /\ CutAt(d, n)'
           /\ SubSeq(valid', 1, n) = SubSeq(valid, 1, n)
<1>1. /\ e \in snap /\ e \notin Done /\ snap \in SUBSET PoolEntry /\ snap' = snap
      /\ \A f \in Done : Before(snap, f, e)
      /\ e.tx \in GoodTxs /\ e.tx.sender \in Accounts /\ e.tx.nonce \in Nat
      /\ expected \in [Accounts -> Nat] /\ valid \in Seq(GoodTxs)
  BY TurnTaken
<1>2. valid' = Append(valid, e.tx) /\ e.tx.nonce = expected[e.tx.sender]
  BY <1>1 DEF DrainAccept, IsReplay, IsGap
<1>3. /\ Len(valid) \in Nat /\ DOMAIN valid = 1..Len(valid)
      /\ Len(valid') = Len(valid) + 1 /\ DOMAIN valid' = 1..(Len(valid) + 1)
      /\ valid'[Len(valid) + 1] = e.tx
      /\ \A i \in 1..Len(valid) : valid'[i] = valid[i]
  BY <1>1, <1>2
<1>4. ~\E f \in snap : f.tx = e.tx /\ Before(snap, f, d)
  <2>1. SUFFICES ASSUME NEW f \in snap, f.tx = e.tx, Before(snap, f, d) PROVE FALSE
    OBVIOUS
  <2>2. f \in Done
    <3>1. SUFFICES ASSUME f \in left PROVE FALSE
      BY DEF Done
    <3>2. Before(snap, d, f) /\ d \in snap
      BY <3>1 DEF TurnInv, Done
    <3>. QED  BY <1>1, <2>1, <3>2, TurnOrder
  <2>. QED  BY <1>2, <2>1, <2>2 DEF TurnInv
<1>5. \A i \in 1..Len(valid) : Accepted(d, i)' <=> Accepted(d, i)
  BY <1>1, <1>3 DEF Accepted
<1>6. CutAt(d, n)'
  <2>1. ASSUME NEW i \in DOMAIN valid' PROVE i <= n <=> Accepted(d, i)'
    <3>1. CASE i \in 1..Len(valid)
      BY <1>3, <1>5, <3>1 DEF CutAt
    <3>2. CASE i = Len(valid) + 1
      <4>1. ~Accepted(d, i)'
        BY <1>1, <1>3, <1>4, <3>2 DEF Accepted
      <4>. QED  BY <1>3, <3>2, <4>1
    <3>. QED  BY <1>3, <2>1, <3>1, <3>2
  <2>. QED  BY <2>1 DEF CutAt
<1>7. SubSeq(valid', 1, n) = SubSeq(valid, 1, n)
  BY <1>2, <1>1, <1>3
<1>. QED  BY <1>3, <1>6, <1>7

\* The nonce of a replay was used up by the chain, by another transaction of an
\* earlier turn, or by a copy that is settled; a SPEND that is refused is not covered
\* by the index and the overlay, which is what the block so far changes.
LEMMA DrainKeepsDropped ==
    ASSUME TypeOK, TurnInv, Overlaid, DroppedInv, NEW e \in left,
           DrainGap(e) \/ DrainReplay(e) \/ DrainAccept(e) \/ DrainReject(e)
    PROVE  DroppedInv'
<1>1. /\ e \in snap /\ snap' = snap /\ Done' = Done \union {e} /\ bpc = "drain"
      /\ \A f \in Done : Before(snap, f, e)
      /\ balance' = balance /\ nonceOf' = nonceOf
      /\ e.tx \in GoodTxs /\ e.tx.sender \in Accounts /\ e.tx.nonce \in Nat
      /\ expected \in [Accounts -> Nat] /\ dropped \in Seq(GoodTxs)
      /\ valid \in Seq(GoodTxs)
      /\ balance \in [Accounts -> Int] /\ overlay \in [Accounts -> Int]
  BY TurnTaken
<1>2. \A tx : Replayed(tx)' <=> Replayed(tx)
  BY <1>1 DEF Replayed
<1>3. ASSUME NEW tx, Refused(tx) PROVE Refused(tx)'
  <2>1. PICK d \in Done, n \in 0..Len(valid) :
           /\ d.tx = tx /\ tx.type = "SPEND" /\ CutAt(d, n)
           /\ BalancesAfter(balance, SubSeq(valid, 1, n))[tx.sender] < tx.amount
    BY <1>3 DEF Refused
  <2>2. /\ n \in 0..Len(valid') /\ CutAt(d, n)'
        /\ SubSeq(valid', 1, n) = SubSeq(valid, 1, n)
    <3>1. CASE DrainAccept(e)
      BY <2>1, <3>1, CutStays
    <3>2. CASE DrainGap(e) \/ DrainReplay(e) \/ DrainReject(e)
      <4>1. valid' = valid
        BY <3>2 DEF DrainGap, DrainReplay, DrainReject
      <4>. QED  BY <1>1, <2>1, <4>1 DEF CutAt, Accepted
    <3>. QED  BY <3>1, <3>2
  <2>. QED  BY <1>1, <2>1, <2>2 DEF Refused
<1>4. ASSUME NEW tx, Settled(tx) PROVE Settled(tx)'
  <2>1. CASE tx \in ToSet(valid)
    <3>1. valid' \in {valid, Append(valid, e.tx)}
      BY DEF DrainGap, DrainReplay, DrainAccept, DrainReject
    <3>2. PICK i \in DOMAIN valid : valid[i] = tx
      BY <2>1 DEF ToSet
    <3>3. i \in DOMAIN valid' /\ valid'[i] = tx
      <4>1. i \in 1..Len(valid) /\ Len(valid) \in Nat
        BY <1>1, <3>2
      <4>2. CASE valid' = Append(valid, e.tx)
        BY <1>1, <3>2, <4>1, <4>2
      <4>. QED  BY <3>1, <3>2, <4>2
    <3>. QED  BY <3>3 DEF Settled, ToSet
  <2>. QED  BY <1>2, <1>3, <1>4, <2>1 DEF Settled
<1>5. ASSUME DrainReject(e) PROVE Settled(e.tx)'
  <2>1. /\ valid' = valid /\ e.tx.type # "EARN"
        /\ ~(balance[e.tx.sender] + overlay[e.tx.sender] >= e.tx.amount)
    BY <1>5 DEF DrainReject, Affordable
  <2>2. e.tx.type = "SPEND" /\ e.tx.amount \in Int
    BY <1>1, <2>1, GoodTxsType DEF TxRecord, Types
  <2>3. Len(valid) \in 0..Len(valid) /\ SubSeq(valid, 1, Len(valid)) = valid
    BY <1>1
  <2>4. CutAt(e, Len(valid))'
    <3>1. CutAt(e, Len(valid))
      BY <1>1, AllBefore
    <3>. QED  BY <1>1, <2>1, <3>1 DEF CutAt, Accepted
  <2>5. BalancesAfter(balance, valid)[e.tx.sender] < e.tx.amount
    <3>1. BalancesAfter(balance, valid)[e.tx.sender]
          = balance[e.tx.sender] + overlay[e.tx.sender]
      BY <1>1 DEF Overlaid
    <3>. QED  BY <1>1, <2>1, <2>2, <3>1
  <2>. QED  BY <1>1, <2>1, <2>2, <2>3, <2>4, <2>5 DEF Refused, Settled
<1>6. ASSUME DrainReplay(e) PROVE Settled(e.tx)'
  <2>1. e.tx.nonce < expected[e.tx.sender]
    BY <1>6 DEF DrainReplay, IsReplay
  <2>2. CASE e.tx.nonce < nonceOf[e.tx.sender]
    BY <1>4, <2>2 DEF Settled, Replayed
  <2>3. ASSUME NEW f \in Done, f.tx.sender = e.tx.sender, f.tx.nonce = e.tx.nonce
        PROVE  Settled(e.tx)'
    <3>1. CASE f.tx = e.tx
      BY <1>4, <2>1, <3>1 DEF DroppedInv
    <3>2. CASE f.tx # e.tx
      <4>1. f \in snap /\ Before(snap, f, e)
        BY <1>1 DEF Done
      <4>2. Replayed(e.tx)
        BY <1>1, <2>3, <3>2, <4>1 DEF Replayed
      <4>. QED  BY <1>4, <4>2 DEF Settled
    <3>. QED  BY <3>1, <3>2
  <2>4. \/ e.tx.nonce < nonceOf[e.tx.sender]
        \/ \E f \in Done : f.tx.sender = e.tx.sender /\ f.tx.nonce = e.tx.nonce
    BY <1>1, <2>1 DEF TurnInv
  <2>. QED  BY <2>2, <2>3, <2>4
<1>7. ASSUME DrainAccept(e) PROVE Settled(e.tx)'
  <2>1. valid' = Append(valid, e.tx)
    BY <1>7 DEF DrainAccept
  <2>2. Len(valid) + 1 \in DOMAIN valid' /\ valid'[Len(valid) + 1] = e.tx
    BY <1>1, <2>1
  <2>. QED  BY <2>2 DEF Settled, ToSet
<1>8. ASSUME NEW f \in Done', f.tx.nonce < expected'[f.tx.sender] PROVE Settled(f.tx)'
  <2>1. CASE f = e
    <3>1. ~DrainGap(e)
      <4>1. SUFFICES ASSUME DrainGap(e) PROVE FALSE
        OBVIOUS
      <4>2. expected' = expected /\ e.tx.nonce > expected[e.tx.sender]
        BY <4>1 DEF DrainGap, IsGap
      <4>. QED  BY <1>1, <1>8, <2>1, <4>2
    <3>. QED  BY <1>5, <1>6, <1>7, <2>1, <3>1
  <2>2. CASE f # e
    <3>1. f \in Done /\ f.tx.nonce # expected[f.tx.sender]
      BY <1>1, <2>2 DEF TurnInv
    <3>2. f.tx.sender \in Accounts /\ f.tx.nonce \in Nat
      <4>1. f.tx \in GoodTxs
        BY <1>1, <3>1 DEF Done, PoolEntry, TypeOK, TypeDrain
      <4>. QED  BY <4>1, GoodTxsType DEF TxRecord
    <3>3. expected' \in {expected, [expected EXCEPT ![e.tx.sender] = @ + 1]}
      BY DEF DrainGap, DrainReplay, DrainAccept, DrainReject
    <3>4. f.tx.nonce < expected[f.tx.sender]
      <4>1. expected[f.tx.sender] \in Nat
        BY <1>1, <3>2
      <4>2. \/ expected'[f.tx.sender] = expected[f.tx.sender]
            \/ expected'[f.tx.sender] = expected[f.tx.sender] + 1
        BY <1>1, <3>2, <3>3
      <4>. QED  BY <1>8, <3>1, <3>2, <4>1, <4>2
    <3>. QED  BY <1>4, <3>1, <3>4 DEF DroppedInv
  <2>. QED  BY <2>1, <2>2
<1>9. ASSUME NEW tx \in ToSet(dropped') PROVE Settled(tx)'
  <2>1. CASE dropped' = dropped
    BY <1>4, <1>9, <2>1 DEF DroppedInv
  <2>2. CASE dropped' = Append(dropped, e.tx) /\ (DrainReplay(e) \/ DrainReject(e))
    <3>1. tx = e.tx \/ tx \in ToSet(dropped)
      <4>1. PICK i \in DOMAIN dropped' : tx = dropped'[i]
        BY <1>9 DEF ToSet
      <4>2. dropped'[i] = e.tx \/ (i \in DOMAIN dropped /\ dropped'[i] = dropped[i])
        BY <1>1, <2>2
      <4>. QED  BY <4>1, <4>2 DEF ToSet
    <3>2. CASE tx = e.tx
      BY <1>5, <1>6, <2>2, <3>2
    <3>3. CASE tx \in ToSet(dropped)
      BY <1>4, <3>3 DEF DroppedInv
    <3>. QED  BY <3>1, <3>2, <3>3
  <2>. QED  BY <2>1, <2>2 DEF DrainGap, DrainReplay, DrainAccept, DrainReject
<1>10. (ToSet(dropped))' = ToSet(dropped')
  BY DEF ToSet
<1>. QED  BY <1>8, <1>9, <1>10 DEF DroppedInv

DiscardInv == TurnInv /\ Overlaid /\ DroppedInv

\* Where nothing is drained there is nothing to justify.
LEMMA NothingDrained ==
    ASSUME NoDrain', bpc' \notin Draining
    PROVE  DiscardInv'
BY DEF DiscardInv, TurnInv, Overlaid, DroppedInv, NoDrain, Done, Draining, NoNonces,
    ToSet

\* The steps of the block loop.
LEMMA BlockLoopKeepsDiscards ==
    ASSUME TypeOK, DiscardInv, BlockLoopStep
    PROVE  DiscardInv'
<1>. USE DEF redis, DiscardInv
<1>1. /\ nonceOf' = nonceOf /\ balance' = balance
      /\ nonceOf \in [Accounts -> Nat] /\ balance \in [Accounts -> Int]
      /\ dropped \in Seq(GoodTxs)
  BY DEF TypeOK, TypeRedis, TypeDrain, BlockLoopStep, TakeSnapshot, DrainGap,
      DrainReplay, DrainAccept, DrainReject, RemoveFromPool, TrimPending,
      RecordDiscarded, NothingToMine, CreateBlock, GateClosed, BackoffOver, BlockDone,
      GateOpen, SetCurrentBlock, Publish, Timeout
<1>2. ASSUME NEW e \in left,
             DrainGap(e) \/ DrainReplay(e) \/ DrainAccept(e) \/ DrainReject(e)
      PROVE  DiscardInv'
  <2>1. Overlaid'
    <3>1. CASE DrainAccept(e)
      BY <3>1, AcceptKeepsOverlay
    <3>2. CASE DrainGap(e) \/ DrainReplay(e) \/ DrainReject(e)
      BY <1>1, <3>2 DEF DrainGap, DrainReplay, DrainReject, Overlaid
    <3>. QED  BY <1>2, <3>1, <3>2
  <2>. QED  BY <1>2, <2>1, DrainKeepsTurns, DrainKeepsDropped
<1>3. CASE TakeSnapshot
  <2>1. NoDrain
    BY <1>3 DEF TakeSnapshot, TurnInv, Draining
  <2>2. /\ Done' = {} /\ valid' = <<>> /\ dropped' = <<>> /\ expected' = nonceOf
        /\ bpc' = "drain" /\ overlay' = NoBalances
    BY <1>3, <2>1 DEF TakeSnapshot, NoDrain, Done
  <2>3. TurnInv' /\ DroppedInv'
    BY <1>1, <2>2 DEF TurnInv, DroppedInv, Draining, ToSet
  <2>4. BalancesAfter(balance, <<>>) = balance
        /\ \A a \in Accounts : balance[a] = balance[a] + NoBalances[a]
    BY <1>1, NothingCovered DEF NoBalances
  <2>. QED  BY <1>1, <2>2, <2>3, <2>4 DEF Overlaid
<1>4. CASE RemoveFromPool \/ TrimPending \/ RecordDiscarded
  <2>1. /\ bpc \in Draining /\ bpc' \in {"trim", "record"}
        /\ UNCHANGED <<snap, left, expected, valid>>
        /\ dropped' = dropped \/ (dropped # <<>> /\ dropped' = Tail(dropped))
    BY <1>4 DEF RemoveFromPool, TrimPending, RecordDiscarded, Draining, drain
  <2>2. TurnInv' /\ Overlaid'
    BY <1>1, <2>1 DEF TurnInv, Overlaid, Draining, Done
  <2>3. /\ \A tx : Settled(tx) => Settled(tx)'
        /\ Done' = Done /\ expected' = expected
    BY <1>1, <2>1 DEF Settled, Replayed, Refused, CutAt, Accepted, Done
  <2>4. ToSet(dropped)' \subseteq ToSet(dropped)
    <3>1. CASE dropped # <<>> /\ dropped' = Tail(dropped)
      <4>1. ASSUME NEW i \in DOMAIN dropped'
            PROVE  i + 1 \in DOMAIN dropped /\ dropped'[i] = dropped[i + 1]
        BY <1>1, <3>1
      <4>. QED  BY <4>1 DEF ToSet
    <3>. QED  BY <2>1, <3>1 DEF ToSet
  <2>. QED  BY <2>2, <2>3, <2>4 DEF DroppedInv
<1>5. CASE NothingToMine \/ CreateBlock
  <2>1. NoDrain' /\ bpc' \notin Draining
    BY <1>5 DEF NothingToMine, CreateBlock, ForgetDrain, NoDrain, Draining
  <2>. QED  BY <2>1, NothingDrained
<1>6. CASE GateClosed \/ BackoffOver \/ BlockDone \/ GateOpen \/ SetCurrentBlock
           \/ Publish \/ Timeout
  <2>1. bpc \in Mining /\ bpc' \notin Draining /\ UNCHANGED drain
    BY <1>6 DEF GateClosed, BackoffOver, BlockDone, GateOpen, SetCurrentBlock, Publish,
        Timeout, Mining, Draining
  <2>2. NoDrain'
    BY <2>1 DEF TurnInv, NoDrain, drain, Mining, Draining
  <2>. QED  BY <2>1, <2>2, NothingDrained
<1>. QED  BY <1>2, <1>3, <1>4, <1>5, <1>6 DEF BlockLoopStep

\* A block is saved only while nothing is drained: what the drain decided against
\* the indexes is recorded before they change.
LEMMA NextDiscards ==
    TypeOK /\ Agree /\ DiscardInv /\ [Next]_vars => DiscardInv'
<1>. SUFFICES ASSUME TypeOK, Agree, DiscardInv, [Next]_vars PROVE DiscardInv'
  OBVIOUS
<1>1. CASE BlockLoopStep
  BY <1>1, BlockLoopKeepsDiscards
<1>2. CASE SaveBlock \/ Crash \/ Rebuild \/ StartThreads
  <2>1. NoDrain' /\ bpc' \notin Draining
    <3>1. CASE Crash
      BY <3>1 DEF Crash, ForgetDrain, NoDrain, Draining
    <3>2. CASE SaveBlock
      <4>1. bpc \in Mining
        BY <3>2 DEF SaveBlock, Agree, Judged
      <4>. QED  BY <3>2, <4>1 DEF SaveBlock, DiscardInv, TurnInv, NoDrain, Draining,
                Mining, blockLoop, drain
    <3>3. CASE Rebuild \/ StartThreads
      BY <3>3 DEF Rebuild, RebuildBalance, RebuildNonce, RebuildBlock, Booting,
          StartThreads, Agree, DiscardInv, TurnInv, NoDrain, Draining, blockLoop, drain
    <3>. QED  BY <1>2, <3>1, <3>2, <3>3
  <2>. QED  BY <2>1, NothingDrained
<1>3. CASE UNCHANGED <<nonceOf, balance, bpc, snap, left, expected, overlay, valid,
                       dropped>>
  BY <1>3 DEF DiscardInv, TurnInv, Overlaid, DroppedInv, NoDrain, Done, Settled,
      Replayed, Refused, CutAt, Accepted, ToSet
<1>4. CASE UNCHANGED vars
  BY <1>3, <1>4 DEF vars, redis, blockLoop, drain
<1>. QED  BY <1>1, <1>2, <1>3, <1>4, OthersKeepDrain DEF Writers

\* Only the drain's record writes discarded_transactions.
LEMMA OnlyRecordDiscards ==
    ASSUME [Next]_vars, discarded' # discarded
    PROVE  RecordDiscarded
<1>. USE DEF redis
<1>1. ~UNCHANGED vars
  BY DEF vars
<1>2. CASE \E h \in Handlers : HttpStep(h)
  BY <1>2 DEF HttpStep, PostCheck, PostAdd, PostSave
<1>3. CASE BlockLoopStep
  BY <1>3 DEF BlockLoopStep, TakeSnapshot, DrainGap, DrainReplay, DrainAccept,
      DrainReject, RemoveFromPool, TrimPending, NothingToMine, CreateBlock, GateClosed,
      BackoffOver, BlockDone, GateOpen, SetCurrentBlock, Publish, Timeout
<1>4. CASE ResultLoopStep \/ Fault
  BY <1>4 DEF ResultLoopStep, Get, CheckActive, Verify, SaveBlock, BroadcastAbort,
      MarkComplete, Ack, Fault, SaveFails, AbortFails, AckLost, Crash, Lose
<1>5. CASE Rebuild \/ StartThreads
  BY <1>5 DEF Rebuild, RebuildBalance, RebuildNonce, RebuildBlock, StartThreads
<1>6. CASE \/ (\E p \in Pools : PoolStep(p))
           \/ (\E t \in tasks : Solve(t) \/ Retire(t))
  BY <1>6 DEF PoolStep, OnPoolHeartbeat, OnNoWorkers, PoolTimesOut, RegistryOnly,
      Solve, Retire
<1>. QED  BY <1>1, <1>2, <1>3, <1>4, <1>5, <1>6 DEF Next

\* A nonce below the index was used up by a transaction on the chain.
LEMMA NonceOwner ==
    ASSUME TypeOK, NonceInv, proc = "up", NEW a \in Accounts, NEW n \in Nat,
           n < nonceOf[a]
    PROVE  \E other \in Mined : other.sender = a /\ other.nonce >= n
<1>1. chain \in Seq(BlockRecord) /\ Len(chain) \in Nat
  BY DEF TypeOK, TypeRedis
<1>2. Indexed(nonceOf, chain, Len(chain))
  BY DEF NonceInv, Booting, Covered
<1>3. BlocksOf(a, chain) # {} /\ BlocksOf(a, chain) \subseteq 1..Len(chain)
  <2>1. nonceOf[a] \in Nat
    BY DEF TypeOK, TypeRedis
  <2>2. nonceOf[a] # 0
    BY <2>1
  <2>3. BlocksOf(a, chain) # {}
    BY <1>2, <2>2 DEF Indexed
  <2>4. BlocksOf(a, chain) \subseteq DOMAIN chain
    BY DEF BlocksOf
  <2>. QED  BY <1>1, <2>3, <2>4
<1>. DEFINE b == Max(BlocksOf(a, chain))
            txs == chain[b].txs
            i == Max(SentBy(a, txs))
<1>4. b \in BlocksOf(a, chain) /\ b \in 1..Len(chain)
  BY <1>1, <1>3, MaxOfPositions
<1>5. nonceOf[a] = After(txs, a)
  <2>1. BlocksUpTo(a, chain, Len(chain)) = BlocksOf(a, chain)
    BY <1>3 DEF BlocksUpTo
  <2>. QED  BY <1>2, <1>3, <2>1 DEF Indexed
<1>6. txs \in Seq(GoodTxs) /\ SentBy(a, txs) # {}
  BY <1>1, <1>4, BlockTxsType DEF BlocksOf
<1>. HIDE DEF b, txs
<1>7. i \in SentBy(a, txs) /\ i \in DOMAIN txs
  <2>1. SentBy(a, txs) \subseteq 1..Len(txs) /\ Len(txs) \in Nat
    BY <1>6 DEF SentBy
  <2>2. Max(SentBy(a, txs)) \in SentBy(a, txs)
    BY <1>6, <2>1, MaxOfPositions
  <2>. QED  BY <2>2 DEF SentBy
<1>8. nonceOf[a] = txs[i].nonce + 1
  BY <1>5, <1>6 DEF After, NoncesAfter
<1>. HIDE DEF i
<1>9. txs[i] \in Mined /\ txs[i].sender = a
  BY <1>1, <1>4, <1>7 DEF Mined, ToSet, SentBy, txs
<1>10. txs[i].nonce \in Nat
  <2>1. txs[i] \in GoodTxs
    BY <1>6, <1>7
  <2>. QED  BY <2>1, GoodTxsType DEF TxRecord
<1>. QED  BY <1>8, <1>9, <1>10

\* Every transaction that is recorded as discarded is a replay of another one, could
\* not be paid, whatever was accepted after its turn, or is a second copy of one that
\* is mined or about to be, whatever fails, is late or crashes.
THEOREM DiscardsJustifiedCorrect == Spec => DiscardsJustified
<1>. DEFINE Inv == TypeOK /\ Agree /\ NonceInv /\ DiscardInv
            Just == \A a \in Accounts : \A tx \in discarded'[a] \ discarded[a] :
                       NonceTaken(tx) \/ Unfunded(tx) \/ Repeated(tx)
<1>1. Init => Inv
  BY InitType, InitNonce, InitTurn DEF Init, Agree, Judged, DiscardInv
<1>2. Inv /\ [Next]_vars => Inv'
  BY NextType, NextAgree, NextNonce, NextDiscards
<1>3. Inv /\ [Next]_vars => [Just]_vars
  <2>1. SUFFICES ASSUME Inv, [Next]_vars, discarded' # discarded,
                        NEW a \in Accounts, NEW tx \in discarded'[a] \ discarded[a]
                 PROVE  NonceTaken(tx) \/ Unfunded(tx) \/ Repeated(tx)
    OBVIOUS
  <2>2. /\ dropped # <<>> /\ dropped \in Seq(GoodTxs) /\ bpc = "record"
        /\ discarded \in [Accounts -> SUBSET GoodTxs]
        /\ discarded' = [discarded EXCEPT ![Head(dropped).sender]
                                          = @ \union {Head(dropped)}]
    BY <2>1, OnlyRecordDiscards DEF RecordDiscarded, TypeOK, TypeDrain, TypeRedis
  <2>3. tx = Head(dropped) /\ tx = dropped[1] /\ 1 \in DOMAIN dropped
    BY <2>1, <2>2
  <2>4. Settled(tx) /\ tx \in GoodTxs /\ proc = "up"
    BY <2>1, <2>2, <2>3 DEF DiscardInv, DroppedInv, Agree, ToSet
  <2>5. Refused(tx) => Unfunded(tx)
    BY DEF Refused, Unfunded, CutAt, Accepted, Done
  <2>6. CASE tx.nonce < nonceOf[tx.sender]
    <3>1. tx.sender \in Accounts /\ tx.nonce \in Nat
      BY <2>4, GoodTxsType DEF TxRecord
    <3>2. PICK other \in Mined : other.sender = tx.sender /\ other.nonce >= tx.nonce
      BY <2>1, <2>4, <2>6, <3>1, NonceOwner
    <3>. QED  BY <3>2 DEF NonceTaken, Repeated
  <2>. QED  BY <2>4, <2>5, <2>6 DEF Settled, Replayed, NonceTaken, Repeated
<1>. QED  BY <1>1, <1>2, <1>3, PTL DEF Spec, DiscardsJustified

(***************************************************************************)
(* The nonces that the index has passed.                                   *)
(***************************************************************************)

\* Every nonce of a below k is used by a transaction of S.
Filled(S, a, k) == \A n \in Nat : n < k => \E tx \in S : tx.sender = a /\ tx.nonce = n

\* What the drain has decided so far.
Drained == ToSet(valid) \union ToSet(dropped)

\* No nonce before one of the chain, before the index, before what the drain expects
\* next or before one of the block is missing.
AccountedInv ==
    /\ \A tx \in Mined : Filled(Decided, tx.sender, tx.nonce + 1)
    /\ \A a \in Accounts : Filled(Decided, a, nonceOf[a])
    /\ \A a \in Accounts : Filled(Decided \union Drained, a, expected[a])
    /\ \A tx \in ToSet(valid) : tx.nonce < expected[tx.sender]
    /\ \A tx \in ToSet(blk.txs) :
          Filled(Decided \union ToSet(blk.txs), tx.sender, tx.nonce + 1)

\* A larger set fills as much.
LEMMA FilledGrows ==
    ASSUME NEW S, NEW T, S \subseteq T, NEW a, NEW k, Filled(S, a, k)
    PROVE  Filled(T, a, k)
BY DEF Filled

\* What is filled is filled up to any smaller bound.
LEMMA FilledBelow ==
    ASSUME NEW S, NEW a, NEW k \in Nat, NEW m \in Nat, m <= k, Filled(S, a, k)
    PROVE  Filled(S, a, m)
BY DEF Filled

\* A transaction with the next nonce fills one more.
LEMMA FilledNext ==
    ASSUME NEW S, NEW tx \in S, tx.nonce \in Nat, Filled(S, tx.sender, tx.nonce)
    PROVE  Filled(S, tx.sender, tx.nonce + 1)
<1>1. ASSUME NEW n \in Nat, n < tx.nonce + 1
      PROVE  \E other \in S : other.sender = tx.sender /\ other.nonce = n
  <2>1. CASE n = tx.nonce
    BY <2>1
  <2>2. CASE n < tx.nonce
    BY <2>2 DEF Filled
  <2>. QED  BY <1>1, <2>1, <2>2
<1>. QED  BY <1>1 DEF Filled

\* Nothing is sent yet.
LEMMA InitAccounted == Init => AccountedInv
<1>. SUFFICES ASSUME Init PROVE AccountedInv
  OBVIOUS
<1>1. /\ Mined = {} /\ ToSet(valid) = {} /\ ToSet(blk.txs) = {}
      /\ nonceOf = NoNonces /\ expected = NoNonces
  BY DEF Init, Mined, ToSet, NoBlock, Genesis
<1>2. \A a \in Accounts : \A S : Filled(S, a, NoNonces[a])
  BY DEF Filled, NoNonces
<1>. QED  BY <1>1, <1>2 DEF AccountedInv

\* Each decision about the expected nonce uses that nonce up; the others decide
\* nothing that was not decided.
LEMMA DrainAccounts ==
    ASSUME TypeOK, TurnInv, AccountedInv, NEW e \in left,
           DrainGap(e) \/ DrainReplay(e) \/ DrainAccept(e) \/ DrainReject(e)
    PROVE  AccountedInv'
<1>. USE DEF redis
<1>1. /\ e.tx \in GoodTxs /\ e.tx.sender \in Accounts /\ e.tx.nonce \in Nat
      /\ expected \in [Accounts -> Nat] /\ dropped \in Seq(GoodTxs)
      /\ valid \in Seq(GoodTxs)
  BY TurnTaken
<1>2. /\ UNCHANGED <<chain, discarded, nonceOf, blk>>
      /\ valid' \in {valid, Append(valid, e.tx)}
      /\ dropped' \in {dropped, Append(dropped, e.tx)}
  BY DEF DrainGap, DrainReplay, DrainAccept, DrainReject
<1>3. Mined' = Mined /\ Decided' = Decided
  BY <1>2 DEF Mined, Decided, ToSet
<1>4. \A s \in Seq(GoodTxs) : ToSet(Append(s, e.tx)) = ToSet(s) \union {e.tx}
  <2>1. ASSUME NEW s \in Seq(GoodTxs)
        PROVE  ToSet(Append(s, e.tx)) = ToSet(s) \union {e.tx}
    <3>1. /\ DOMAIN s = 1..Len(s) /\ Len(s) \in Nat
          /\ DOMAIN Append(s, e.tx) = 1..(Len(s) + 1)
          /\ Append(s, e.tx)[Len(s) + 1] = e.tx
          /\ \A i \in 1..Len(s) : Append(s, e.tx)[i] = s[i]
      BY <1>1
    <3>. QED  BY <3>1 DEF ToSet
  <2>. QED  BY <2>1
<1>5. ToSet(valid)' = ToSet(valid') /\ ToSet(dropped)' = ToSet(dropped')
  BY DEF ToSet
<1>6. CASE DrainGap(e) \/ DrainReplay(e)
  <2>1. valid' = valid /\ expected' = expected
    BY <1>6 DEF DrainGap, DrainReplay
  <2>2. Decided \union Drained \subseteq (Decided \union Drained)'
    BY <1>1, <1>2, <1>3, <1>4, <1>5 DEF Drained
  <2>3. \A a \in Accounts : Filled((Decided \union Drained)', a, expected[a])
    BY <2>2, FilledGrows DEF AccountedInv
  <2>. QED  BY <1>2, <1>3, <1>5, <2>1, <2>3 DEF AccountedInv
<1>7. CASE DrainAccept(e) \/ DrainReject(e)
  <2>1. /\ e.tx.nonce = expected[e.tx.sender]
        /\ expected' = [expected EXCEPT ![e.tx.sender] = @ + 1]
    BY <1>1, <1>7 DEF DrainAccept, DrainReject, IsGap, IsReplay
  <2>2. (Decided \union Drained)' = Decided \union Drained \union {e.tx}
    BY <1>1, <1>3, <1>4, <1>5, <1>7 DEF DrainAccept, DrainReject, Drained
  <2>3. ASSUME NEW a \in Accounts
        PROVE  Filled((Decided \union Drained)', a, expected'[a])
    <3>1. Filled(Decided \union Drained \union {e.tx}, a, expected[a])
      BY FilledGrows DEF AccountedInv
    <3>2. CASE a = e.tx.sender
      <4>1. expected'[a] = e.tx.nonce + 1 /\ e.tx.nonce = expected[a]
        BY <1>1, <2>1, <3>2
      <4>. QED  BY <1>1, <2>2, <3>1, <3>2, <4>1, FilledNext
    <3>3. CASE a # e.tx.sender
      <4>1. expected'[a] = expected[a]
        BY <1>1, <2>1, <3>3
      <4>. QED  BY <2>2, <3>1, <4>1
    <3>. QED  BY <3>2, <3>3
  <2>4. ToSet(valid') \subseteq ToSet(valid) \union {e.tx}
    <3>1. CASE valid' = valid
      BY <3>1
    <3>2. CASE valid' = Append(valid, e.tx)
      BY <1>1, <1>4, <3>2
    <3>. QED  BY <1>2, <3>1, <3>2
  <2>5. ASSUME NEW tx \in ToSet(valid') PROVE tx.nonce < expected'[tx.sender]
    <3>1. tx \in GoodTxs /\ tx.sender \in Accounts /\ tx.nonce \in Nat
      <4>1. tx = e.tx \/ tx \in ToSet(valid)
        BY <2>5, <2>4
      <4>2. ToSet(valid) \subseteq GoodTxs
        BY <1>1 DEF ToSet
      <4>3. tx \in GoodTxs
        BY <1>1, <4>1, <4>2
      <4>. QED  BY <4>3, GoodTxsType DEF TxRecord
    <3>2. expected[tx.sender] \in Nat /\ expected[tx.sender] <= expected'[tx.sender]
      BY <1>1, <2>1, <3>1
    <3>3. CASE tx = e.tx
      BY <1>1, <2>1, <3>1, <3>3
    <3>4. CASE tx \in ToSet(valid)
      BY <1>1, <2>1, <3>1, <3>2, <3>4 DEF AccountedInv
    <3>. QED  BY <2>5, <2>4, <3>3, <3>4
  <2>. QED  BY <1>2, <1>3, <1>5, <2>3, <2>5 DEF AccountedInv
<1>. QED  BY <1>6, <1>7

\* A step that decides nothing.
LEMMA UndecidedAccounts ==
    ASSUME AccountedInv,
           UNCHANGED <<chain, discarded, nonceOf, expected, valid, dropped, blk>>
    PROVE  AccountedInv'
<1>1. /\ Mined' = Mined /\ Decided' = Decided /\ Drained' = Drained
      /\ ToSet(valid)' = ToSet(valid) /\ ToSet(blk.txs)' = ToSet(blk.txs)
  BY DEF Mined, Decided, Drained, ToSet
<1>. QED  BY <1>1 DEF AccountedInv

\* The drain's locals, and perhaps the block, are forgotten.
LEMMA ForgottenAccounts ==
    ASSUME AccountedInv, UNCHANGED <<chain, discarded, nonceOf>>,
           blk' = blk \/ blk' = NoBlock, ForgetDrain \/ UNCHANGED drain
    PROVE  AccountedInv'
<1>1. /\ Mined' = Mined /\ Decided' = Decided
      /\ ToSet(blk.txs)' = ToSet(blk.txs) \/ ToSet(blk.txs)' = {}
  BY DEF Mined, Decided, ToSet, NoBlock, Genesis
<1>2. \A a \in Accounts : \A S : Filled(S, a, NoNonces[a])
  BY DEF Filled, NoNonces
<1>3. CASE ForgetDrain
  <2>1. ToSet(valid)' = {} /\ expected' = NoNonces
    BY <1>3 DEF ForgetDrain, ToSet
  <2>. QED  BY <1>1, <1>2, <2>1 DEF AccountedInv
<1>4. CASE UNCHANGED drain
  <2>1. ToSet(valid)' = ToSet(valid) /\ Drained' = Drained /\ expected' = expected
    BY <1>4 DEF drain, Drained, ToSet
  <2>. QED  BY <1>1, <2>1 DEF AccountedInv
<1>. QED  BY <1>3, <1>4

\* The steps of the block loop: what is dropped is decided when it is recorded, what
\* is valid becomes the block.
LEMMA BlockLoopAccounts ==
    ASSUME TypeOK, TurnInv, AccountedInv, BlockLoopStep
    PROVE  AccountedInv'
<1>. USE DEF redis
<1>1. ASSUME NEW e \in left,
             DrainGap(e) \/ DrainReplay(e) \/ DrainAccept(e) \/ DrainReject(e)
      PROVE  AccountedInv'
  BY <1>1, DrainAccounts
<1>2. dropped \in Seq(GoodTxs) /\ valid \in Seq(GoodTxs) /\ expected \in [Accounts -> Nat]
  BY DEF TypeOK, TypeDrain
<1>3. ASSUME UNCHANGED <<chain, discarded>> PROVE Mined' = Mined /\ Decided' = Decided
  BY <1>3 DEF Mined, Decided, ToSet
<1>4. CASE TakeSnapshot
  <2>1. NoDrain
    BY <1>4 DEF TakeSnapshot, TurnInv, Draining
  <2>2. /\ expected' = nonceOf /\ valid' = <<>>
        /\ UNCHANGED <<chain, discarded, nonceOf, blk>>
    BY <1>4, <2>1 DEF TakeSnapshot, NoDrain
  <2>3. Mined' = Mined /\ Decided' = Decided
    BY <1>3, <2>2
  <2>4. \A a \in Accounts : Filled((Decided \union Drained)', a, nonceOf[a])
    BY <2>3, FilledGrows DEF AccountedInv
  <2>5. ToSet(valid)' = {} /\ ToSet(blk.txs)' = ToSet(blk.txs)
    BY <2>2 DEF ToSet
  <2>. QED  BY <2>2, <2>3, <2>4, <2>5 DEF AccountedInv
<1>5. CASE RecordDiscarded
  <2>1. /\ dropped # <<>> /\ dropped' = Tail(dropped)
        /\ discarded' = [discarded EXCEPT ![Head(dropped).sender]
                                          = @ \union {Head(dropped)}]
        /\ UNCHANGED <<chain, nonceOf, blk, expected, valid>>
    BY <1>5 DEF RecordDiscarded
  <2>2. discarded \in [Accounts -> SUBSET GoodTxs] /\ Head(dropped).sender \in Accounts
    <3>1. Head(dropped) \in GoodTxs
      BY <1>2, <2>1
    <3>. QED  BY <3>1, GoodTxsType DEF TypeOK, TypeRedis, TxRecord
  <2>3. Mined' = Mined /\ Decided \union {Head(dropped)} \subseteq Decided'
    <3>1. Mined' = Mined
      BY <2>1 DEF Mined, ToSet
    <3>2. \A a \in Accounts : discarded[a] \subseteq discarded'[a]
      BY <2>1, <2>2
    <3>3. Head(dropped) \in discarded'[Head(dropped).sender]
      BY <2>1, <2>2
    <3>. QED  BY <2>2, <3>1, <3>2, <3>3 DEF Decided
  <2>4. ToSet(dropped) \subseteq {Head(dropped)} \union ToSet(dropped')
    <3>1. ASSUME NEW i \in DOMAIN dropped, i # 1
          PROVE  i - 1 \in DOMAIN dropped' /\ dropped'[i - 1] = dropped[i]
      BY <1>2, <2>1, <3>1
    <3>2. Head(dropped) = dropped[1]
      BY <1>2, <2>1
    <3>. QED  BY <3>1, <3>2 DEF ToSet
  <2>5. ToSet(valid)' = ToSet(valid) /\ ToSet(dropped)' = ToSet(dropped')
        /\ ToSet(blk.txs)' = ToSet(blk.txs)
    BY <2>1 DEF ToSet
  <2>6. Decided \union Drained \subseteq (Decided \union Drained)'
    BY <2>3, <2>4, <2>5 DEF Drained
  <2>7. \A a \in Accounts : /\ Filled((Decided \union Drained)', a, expected[a])
                            /\ Filled(Decided', a, nonceOf[a])
    BY <2>3, <2>6, FilledGrows DEF AccountedInv
  <2>8. \A tx \in Mined : Filled(Decided', tx.sender, tx.nonce + 1)
    BY <2>3, FilledGrows DEF AccountedInv
  <2>9. \A tx \in ToSet(blk.txs) :
           Filled(Decided' \union ToSet(blk.txs), tx.sender, tx.nonce + 1)
    BY <2>3, FilledGrows DEF AccountedInv
  <2>. QED  BY <2>1, <2>3, <2>5, <2>7, <2>8, <2>9 DEF AccountedInv
<1>6. CASE CreateBlock
  <2>1. /\ dropped = <<>> /\ blk'.txs = valid /\ ForgetDrain
        /\ UNCHANGED <<chain, discarded, nonceOf>>
    BY <1>6 DEF CreateBlock
  <2>2. Mined' = Mined /\ Decided' = Decided
    BY <1>3, <2>1
  <2>3. Decided \union Drained = Decided \union ToSet(valid)
    BY <2>1 DEF Drained, ToSet
  <2>4. ASSUME NEW tx \in ToSet(valid)
        PROVE  Filled(Decided \union ToSet(valid), tx.sender, tx.nonce + 1)
    <3>1. tx \in GoodTxs
      BY <1>2 DEF ToSet
    <3>2. tx.sender \in Accounts /\ tx.nonce \in Nat
      BY <3>1, GoodTxsType DEF TxRecord
    <3>3. tx.nonce + 1 <= expected[tx.sender] /\ expected[tx.sender] \in Nat
      BY <1>2, <3>2 DEF AccountedInv
    <3>. QED  BY <2>3, <3>2, <3>3, FilledBelow DEF AccountedInv
  <2>5. \A a \in Accounts : \A S : Filled(S, a, NoNonces[a])
    BY DEF Filled, NoNonces
  <2>6. ToSet(valid)' = {} /\ ToSet(blk.txs)' = ToSet(valid) /\ expected' = NoNonces
    BY <2>1 DEF ForgetDrain, ToSet
  <2>. QED  BY <2>1, <2>2, <2>4, <2>5, <2>6 DEF AccountedInv
<1>7. CASE NothingToMine \/ BlockDone
  <2>1. /\ UNCHANGED <<chain, discarded, nonceOf>>
        /\ blk' = blk \/ blk' = NoBlock
        /\ ForgetDrain \/ UNCHANGED drain
    BY <1>7 DEF NothingToMine, BlockDone
  <2>2. Mined' = Mined /\ Decided' = Decided
    BY <1>3, <2>1
  <2>. QED  BY <2>1, <2>2, ForgottenAccounts
<1>8. CASE RemoveFromPool \/ TrimPending \/ GateClosed \/ BackoffOver \/ GateOpen
           \/ SetCurrentBlock \/ Publish \/ Timeout
  <2>1. UNCHANGED <<chain, discarded, nonceOf, expected, valid, dropped, blk>>
    BY <1>8 DEF RemoveFromPool, TrimPending, GateClosed, BackoffOver, GateOpen,
        SetCurrentBlock, Publish, Timeout, drain
  <2>. QED  BY <2>1, UndecidedAccounts
<1>. QED  BY <1>1, <1>4, <1>5, <1>6, <1>7, <1>8 DEF BlockLoopStep

\* Saving the block decides what it holds; a rebuild of the index sets it to what the
\* chain holds, and a restart forgets the rest.
LEMMA NextAccounted ==
    TypeOK /\ Agree /\ TurnInv /\ AccountedInv /\ [Next]_vars => AccountedInv'
<1>. SUFFICES ASSUME TypeOK, Agree, TurnInv, AccountedInv, [Next]_vars
              PROVE  AccountedInv'
  OBVIOUS
<1>. USE DEF redis
<1>1. chain \in Seq(BlockRecord) /\ nonceOf \in [Accounts -> Nat] /\ blk \in BlockRecord
  BY DEF TypeOK, TypeRedis, TypeThreads
<1>2. CASE BlockLoopStep
  BY <1>2, BlockLoopAccounts
<1>3. CASE SaveBlock
  <2>1. /\ job = blk /\ chain' = Append(chain, blk)
        /\ nonceOf' = NoncesAfter(nonceOf, blk.txs)
        /\ UNCHANGED <<discarded, expected, valid, dropped, blk>>
    BY <1>3 DEF SaveBlock, Persist, Agree, Judged, blockLoop, drain
  <2>2. Mined' = Mined \union ToSet(blk.txs)
    <3>1. /\ DOMAIN chain' = 1..(Len(chain) + 1) /\ DOMAIN chain = 1..Len(chain)
          /\ Len(chain) \in Nat /\ chain'[Len(chain) + 1] = blk
          /\ \A i \in 1..Len(chain) : chain'[i] = chain[i]
      BY <1>1, <2>1
    <3>. QED  BY <3>1 DEF Mined
  <2>3. Decided' = Decided \union ToSet(blk.txs)
    BY <2>1, <2>2 DEF Decided
  <2>4. \A tx \in Mined' : Filled(Decided', tx.sender, tx.nonce + 1)
    BY <2>2, <2>3, FilledGrows DEF AccountedInv
  <2>5. ASSUME NEW a \in Accounts PROVE Filled(Decided', a, nonceOf'[a])
    <3>1. CASE SentBy(a, blk.txs) = {}
      <4>1. nonceOf'[a] = nonceOf[a]
        BY <2>1, <3>1 DEF NoncesAfter
      <4>. QED  BY <2>3, <4>1, FilledGrows DEF AccountedInv
    <3>2. CASE SentBy(a, blk.txs) # {}
      <4>1. blk.txs \in Seq(GoodTxs)
        BY <1>1 DEF BlockRecord
      <4>2. SentBy(a, blk.txs) \subseteq 1..Len(blk.txs) /\ Len(blk.txs) \in Nat
        BY <4>1 DEF SentBy
      <4>3. PICK i \in SentBy(a, blk.txs) : i = Max(SentBy(a, blk.txs))
        BY <3>2, <4>2, MaxOfPositions
      <4>4. nonceOf'[a] = blk.txs[i].nonce + 1
        BY <2>1, <3>2, <4>3 DEF NoncesAfter
      <4>5. blk.txs[i] \in ToSet(blk.txs) /\ blk.txs[i].sender = a
        BY <4>3 DEF SentBy, ToSet
      <4>. QED  BY <2>3, <4>4, <4>5 DEF AccountedInv
    <3>. QED  BY <3>1, <3>2
  <2>6. \A a \in Accounts : Filled((Decided \union Drained)', a, expected[a])
    <3>1. Decided \union Drained \subseteq (Decided \union Drained)'
      BY <2>1, <2>3 DEF Drained, ToSet
    <3>. QED  BY <3>1, FilledGrows DEF AccountedInv
  <2>7. \A tx \in ToSet(blk.txs) :
           Filled(Decided' \union ToSet(blk.txs), tx.sender, tx.nonce + 1)
    BY <2>3, FilledGrows DEF AccountedInv
  <2>8. ToSet(valid)' = ToSet(valid) /\ ToSet(blk.txs)' = ToSet(blk.txs)
    BY <2>1 DEF ToSet
  <2>. QED  BY <2>1, <2>4, <2>5, <2>6, <2>7, <2>8 DEF AccountedInv
<1>4. CASE RebuildNonce
  <2>1. /\ walked < Len(chain) /\ applied < Len(Walking) /\ walked \in Nat
        /\ applied \in Nat
        /\ UNCHANGED <<chain, discarded, expected, valid, dropped, blk>>
        /\ nonceOf' = [nonceOf EXCEPT ![Walking[applied + 1].sender]
                                      = Walking[applied + 1].nonce + 1]
    BY <1>4 DEF RebuildNonce, Booting, TypeOK, TypeState, blockLoop, drain
  <2>2. Walking = chain[walked + 1].txs /\ walked + 1 \in DOMAIN chain
    BY <1>1, <2>1 DEF Walking, Walk
  <2>3. Walking \in Seq(GoodTxs)
    BY <1>1, <2>2, BlockTxsType
  <2>4. Walking[applied + 1] \in Mined
    <3>1. applied + 1 \in DOMAIN Walking
      BY <2>1, <2>3
    <3>. QED  BY <2>2, <3>1 DEF Mined, ToSet
  <2>5. Mined' = Mined /\ Decided' = Decided /\ Drained' = Drained
    BY <2>1 DEF Mined, Decided, Drained, ToSet
  <2>6. ASSUME NEW a \in Accounts PROVE Filled(Decided, a, nonceOf'[a])
    BY <1>1, <2>1, <2>4 DEF AccountedInv
  <2>. QED  BY <2>1, <2>5, <2>6 DEF AccountedInv, ToSet
<1>5. CASE Crash
  <2>1. UNCHANGED <<chain, discarded, nonceOf>> /\ blk' = NoBlock /\ ForgetDrain
    BY <1>5 DEF Crash
  <2>. QED  BY <2>1, ForgottenAccounts
<1>6. CASE UNCHANGED <<chain, discarded, nonceOf, expected, valid, dropped, blk>>
  BY <1>6, UndecidedAccounts
<1>7. CASE RebuildBalance \/ RebuildBlock \/ StartThreads \/ UNCHANGED vars
  BY <1>6, <1>7 DEF RebuildBalance, RebuildBlock, StartThreads, vars, blockLoop, drain
<1>8. ASSUME Next, ~BlockLoopStep, ~Writers
      PROVE  UNCHANGED <<chain, discarded, nonceOf, expected, valid, dropped, blk>>
  <2>1. discarded' = discarded
    BY <1>8, OnlyRecordDiscards DEF BlockLoopStep
  <2>. QED  BY <1>8, <2>1, OthersKeepDrain
<1>. QED  BY <1>2, <1>3, <1>4, <1>5, <1>6, <1>7, <1>8 DEF Writers, Rebuild

\* Every nonce the index has passed was used by a transaction that is on the chain or
\* recorded as discarded, however often blocks, saves and rebuilds fail or repeat.
THEOREM NoncesAccountedCorrect == Spec => []NoncesAccounted
<1>. DEFINE Inv == TypeOK /\ Agree /\ NonceInv /\ DiscardInv /\ AccountedInv
<1>1. Init => Inv
  BY InitType, InitNonce, InitTurn, InitAccounted DEF Init, Agree, Judged, DiscardInv
<1>2. Inv /\ [Next]_vars => Inv'
  BY NextType, NextAgree, NextNonce, NextDiscards, NextAccounted DEF DiscardInv
<1>3. Inv => NoncesAccounted
  <2>1. SUFFICES ASSUME Inv, NEW a \in Accounts, NEW n \in 0..(nonceOf[a] - 1)
                 PROVE  \E tx \in Decided : tx.sender = a /\ tx.nonce = n
    BY DEF NoncesAccounted
  <2>2. n \in Nat /\ n < nonceOf[a]
    BY <2>1 DEF TypeOK, TypeRedis
  <2>. QED  BY <2>1, <2>2 DEF AccountedInv, Filled
<1>. QED  BY <1>1, <1>2, <1>3, PTL DEF Spec

(***************************************************************************)
(* The refinement: the chain, read as one list, is a TokenLedger.          *)
(***************************************************************************)

\* Only the authority issues.
Allowed(tx) == tx.type = "EARN" => tx.sender = Authority

\* What is on its way to the chain got past the handlers.
IssuedInv ==
    /\ \A h \in Handlers : http[h].pc # "idle" => Allowed(http[h].tx)
    /\ \A e \in pool \union snap : Allowed(e.tx)
    /\ \A tx \in ToSet(valid) \union ToSet(blk.txs) : Allowed(tx)

\* Nothing is on its way.
LEMMA InitIssued == Init => IssuedInv
BY DEF Init, IssuedInv, Idle, NoBlock, Genesis, ToSet

\* Only the check of POST lets a transaction in; every other step passes on what
\* is there already.
LEMMA NextIssued ==
    /\ NoCrash /\ TypeOK /\ BalanceInv /\ IssuedInv /\ [Next]_vars => IssuedInv'
<1>. SUFFICES ASSUME NoCrash, TypeOK, BalanceInv, IssuedInv, [Next]_vars
              PROVE  IssuedInv'
  OBVIOUS
<1>1. /\ http \in [Handlers -> HandlerRecord] /\ left \subseteq snap
      /\ valid \in Seq(GoodTxs) /\ snap \subseteq PoolEntry
  BY DEF TypeOK, TypeThreads, TypeDrain
<1>2. ASSUME NEW h \in Handlers, HttpStep(h) PROVE IssuedInv'
  <2>1. UNCHANGED <<snap, valid, blk>>
    BY <1>2 DEF HttpStep, PostCheck, PostAdd, PostSave, blockLoop, drain
  <2>2. ASSUME NEW tx \in Txs, PostCheck(h, tx) PROVE IssuedInv'
    <3>1. Allowed(tx) /\ pool' = pool
      BY <2>2 DEF PostCheck, Admissible, Allowed
    <3>2. http' = [http EXCEPT ![h] = [pc |-> "add", tx |-> tx]]
      BY <2>2 DEF PostCheck
    <3>3. \A g \in Handlers : http'[g].pc # "idle" => Allowed(http'[g].tx)
      BY <1>1, <3>1, <3>2 DEF IssuedInv
    <3>. QED  BY <2>1, <3>1, <3>3 DEF IssuedInv
  <2>3. CASE PostAdd(h)
    <3>1. /\ http[h].pc = "add" /\ http' = [http EXCEPT ![h].pc = "save"]
          /\ pool' = pool \union {[at |-> arrived', tx |-> http[h].tx]}
      BY <2>3 DEF PostAdd
    <3>2. Allowed(http[h].tx)
      BY <3>1 DEF IssuedInv
    <3>3. \A g \in Handlers : /\ http'[g].tx = http[g].tx
                              /\ http'[g].pc # "idle" => http[g].pc # "idle"
      BY <1>1, <3>1 DEF HandlerRecord
    <3>4. \A e \in pool' : e \in pool \/ e.tx = http[h].tx
      BY <3>1
    <3>5. \A g \in Handlers : http'[g].pc # "idle" => Allowed(http'[g].tx)
      BY <3>3 DEF IssuedInv
    <3>6. \A e \in pool' \union snap' : Allowed(e.tx)
      BY <2>1, <3>2, <3>4 DEF IssuedInv
    <3>. QED  BY <2>1, <3>5, <3>6 DEF IssuedInv
  <2>4. CASE PostSave(h)
    <3>1. http' = [http EXCEPT ![h] = Idle] /\ pool' = pool
      BY <2>4 DEF PostSave
    <3>2. \A g \in Handlers : http'[g].pc # "idle" => Allowed(http'[g].tx)
      BY <1>1, <3>1 DEF IssuedInv, Idle
    <3>. QED  BY <2>1, <3>1, <3>2 DEF IssuedInv
  <2>. QED  BY <1>2, <2>2, <2>3, <2>4 DEF HttpStep
<1>3. ASSUME NEW e \in left,
             DrainGap(e) \/ DrainReplay(e) \/ DrainAccept(e) \/ DrainReject(e)
      PROVE  IssuedInv'
  <2>1. /\ UNCHANGED <<http, pool, snap, blk>>
        /\ valid' = valid \/ valid' = Append(valid, e.tx)
    BY <1>3 DEF DrainGap, DrainReplay, DrainAccept, DrainReject, handlers
  <2>2. Allowed(e.tx) /\ e.tx \in GoodTxs
    BY <1>1 DEF IssuedInv, PoolEntry
  <2>3. \A tx \in ToSet(Append(valid, e.tx)) : Allowed(tx)
    <3>1. /\ DOMAIN Append(valid, e.tx) = 1..(Len(valid) + 1)
          /\ DOMAIN valid = 1..Len(valid) /\ Len(valid) \in Nat
          /\ Append(valid, e.tx)[Len(valid) + 1] = e.tx
          /\ \A i \in 1..Len(valid) : Append(valid, e.tx)[i] = valid[i]
      BY <1>1
    <3>2. ASSUME NEW i \in 1..(Len(valid) + 1) PROVE Allowed(Append(valid, e.tx)[i])
      <4>1. i \in 1..Len(valid) \/ i = Len(valid) + 1
        BY <3>1
      <4>. QED  BY <2>2, <3>1, <4>1 DEF IssuedInv, ToSet
    <3>. QED  BY <3>1, <3>2 DEF ToSet
  <2>. QED  BY <2>1, <2>3 DEF IssuedInv
<1>4. CASE \/ TakeSnapshot \/ RemoveFromPool \/ TrimPending \/ RecordDiscarded
           \/ NothingToMine
  <2>1. /\ http' = http /\ blk' = blk /\ pool' \subseteq pool
        /\ snap' \subseteq pool \union snap
        /\ (valid' = valid \/ valid' = <<>>)
    BY <1>4 DEF TakeSnapshot, RemoveFromPool, TrimPending, RecordDiscarded, NothingToMine,
        Remaining, ForgetDrain, handlers, drain
  <2>2. \A e \in pool' \union snap' : Allowed(e.tx)
    BY <2>1 DEF IssuedInv
  <2>3. \A tx \in ToSet(valid') : Allowed(tx)
    BY <2>1 DEF IssuedInv, ToSet
  <2>. QED  BY <2>1, <2>2, <2>3 DEF IssuedInv
<1>5. CASE CreateBlock
  <2>1. http' = http /\ pool' = pool /\ snap' = {} /\ valid' = <<>> /\ blk'.txs = valid
    BY <1>5 DEF CreateBlock, ForgetDrain, handlers
  <2>. QED  BY <2>1 DEF IssuedInv, ToSet
<1>6. CASE \/ GateClosed \/ BackoffOver \/ BlockDone \/ GateOpen \/ SetCurrentBlock
           \/ Publish \/ Timeout
  <2>1. UNCHANGED <<http, pool, snap, valid>> /\ (blk' = blk \/ blk' = NoBlock)
    BY <1>6 DEF GateClosed, BackoffOver, BlockDone, GateOpen, SetCurrentBlock, Publish,
        Timeout, handlers, drain
  <2>. QED  BY <2>1 DEF IssuedInv, ToSet, NoBlock, Genesis
<1>7. CASE UNCHANGED <<http, pool, snap, valid, blk>>
  BY <1>7 DEF IssuedInv
<1>8. CASE ResultLoopStep
  BY <1>7, <1>8 DEF ResultLoopStep, Get, CheckActive, Verify, SaveBlock, BroadcastAbort,
      MarkComplete, Ack, blockLoop, drain, handlers
<1>9. CASE Fault \/ Rebuild \/ StartThreads
  <2>1. ~Crash /\ ~Rebuild /\ ~StartThreads
    BY NeverRestarts DEF BalanceInv
  <2>. QED  BY <1>7, <1>9, <2>1 DEF Fault, SaveFails, AbortFails, AckLost, Lose, blockLoop,
            drain, handlers
<1>10. CASE \/ (\E p \in Pools : PoolStep(p))
            \/ (\E t \in tasks : Solve(t) \/ Retire(t))
            \/ UNCHANGED vars
  BY <1>7, <1>10 DEF PoolStep, OnPoolHeartbeat, OnNoWorkers, PoolTimesOut, RegistryOnly,
      Solve, Retire, vars, blockLoop, drain, handlers
<1>. QED  BY <1>2, <1>3, <1>4, <1>5, <1>6, <1>8, <1>9, <1>10 DEF Next, BlockLoopStep

\* FlattenSeq's recursion.
Flattening(seqs) ==
    LET flatten[i \in 1..Len(seqs)] ==
            IF i = 1 THEN seqs[i] ELSE flatten[i-1] \o seqs[i]
    IN  flatten

\* It does recurse: from one list to the next it appends that list's elements.
LEMMA FlatteningSteps ==
    ASSUME NEW seqs \in Seq(Seq(GoodTxs)), Len(seqs) >= 1
    PROVE  /\ Flattening(seqs) \in [1..Len(seqs) -> Seq(GoodTxs)]
           /\ Flattening(seqs)[1] = seqs[1]
           /\ \A i \in 2..Len(seqs) :
                 Flattening(seqs)[i] = Flattening(seqs)[i - 1] \o seqs[i]
<1>. DEFINE n == Len(seqs)
            V == Seq(GoodTxs)
            step == [i \in 1..n |-> [x \in V |-> x \o seqs[i]]]
            Body(f) == [i \in 1..n |-> IF i = 1 THEN seqs[i] ELSE f[i-1] \o seqs[i]]
            run == Flattening(seqs)
<1>1. n \in Nat /\ n >= 1 /\ <<>> \in V /\ \A i \in 1..n : seqs[i] \in V
  OBVIOUS
<1>2. \A i \in 1..n : \A x \in V : x \o seqs[i] \in V
  BY <1>1
<1>3. step \in [1..n -> [V -> V]]
  <2>. HIDE DEF V, n
  <2>. QED  BY <1>2
<1>4. PICK f \in [0..n -> V] :
         f[0] = <<>> /\ \A i \in 1..n : f[i] = step[i][f[i - 1]]
  <2>1. step \in Steps(n, V)
    BY <1>3 DEF Steps
  <2>. HIDE DEF step, n, V
  <2>2. Solvable(n, V, <<>>, step)
    BY <2>1, <1>1, RecursionExists
  <2>. QED  BY <2>2 DEF Solvable
<1>5. ASSUME NEW i \in 1..n PROVE f[i] = f[i - 1] \o seqs[i]
  <2>1. f[i] = step[i][f[i - 1]]
    BY <1>4
  <2>2. i - 1 \in 0..n
    BY <1>1
  <2>3. f[i - 1] \in V
    BY <2>2
  <2>. HIDE DEF V
  <2>4. step[i] = [x \in V |-> x \o seqs[i]]
    OBVIOUS
  <2>5. step[i][f[i - 1]] = f[i - 1] \o seqs[i]
    BY <2>3, <2>4, Zenon
  <2>. QED  BY <2>1, <2>5
<1>6. f[1] = seqs[1]
  <2>1. 1 \in 1..n /\ 1 - 1 = 0
    BY <1>1
  <2>2. f[1] = f[1 - 1] \o seqs[1]
    BY <1>5, <2>1
  <2>3. f[1] = <<>> \o seqs[1]
    BY <1>4, <2>1, <2>2
  <2>. QED  BY <1>1, <2>1, <2>3
<1>. DEFINE g == [i \in 1..n |-> f[i]]
<1>7. g = Body(g)
  <2>1. ASSUME NEW i \in 1..n PROVE g[i] = Body(g)[i]
    <3>1. CASE i = 1
      BY <1>6, <3>1
    <3>2. CASE i # 1
      <4>1. i - 1 \in 1..n
        BY <1>1, <3>2
      <4>2. g[i] = g[i - 1] \o seqs[i]
        BY <1>5, <4>1
      <4>. QED  BY <3>2, <4>2
    <3>. QED  BY <3>1, <3>2
  <2>. QED  BY <2>1
<1>8. run = CHOOSE h : h = Body(h)
  BY Zenon DEF Flattening
<1>9. run = Body(run)
  <2>. HIDE DEF Body, run, g
  <2>. QED  BY <1>7, <1>8, Zenon
<1>10. run[1] = seqs[1] /\ \A i \in 2..n : run[i] = run[i - 1] \o seqs[i]
  <2>. HIDE DEF run
  <2>1. ASSUME NEW i \in 1..n
        PROVE  run[i] = IF i = 1 THEN seqs[i] ELSE run[i - 1] \o seqs[i]
    BY <1>9, Zenon
  <2>2. 1 \in 1..n /\ \A i \in 2..n : i \in 1..n /\ i # 1
    BY <1>1
  <2>. QED  BY <2>1, <2>2
<1>11. \A i \in 1..n : run[i] \in V
  <2>. HIDE DEF run
  <2>. DEFINE P == {i \in 0..n : i = 0 \/ run[i] \in V}
  <2>1. 0 \in P
    BY <1>1
  <2>2. ASSUME NEW i \in 1..n, i - 1 \in P PROVE i \in P
    <3>1. CASE i = 1
      BY <1>1, <1>10, <3>1
    <3>2. CASE i # 1
      <4>1. i \in 2..n /\ run[i - 1] \in V
        BY <1>1, <2>2, <3>2
      <4>2. run[i] \in V
        <5>. HIDE DEF V, n
        <5>. QED  BY <1>2, <1>10, <4>1
      <4>. QED  BY <1>1, <4>2
    <3>. QED  BY <3>1, <3>2
  <2>3. 0..n \subseteq P
    <3>. HIDE DEF P, n, V
    <3>. QED  BY <2>1, <2>2, <1>1, PositionsInduction
  <2>4. \A i \in 1..n : i \in 0..n /\ i # 0
    BY <1>1
  <2>. HIDE DEF V
  <2>. QED  BY <2>3, <2>4
<1>12. run \in [1..n -> V]
  <2>. HIDE DEF run, V
  <2>. QED  BY <1>9, <1>11
<1>. QED  BY <1>10, <1>12

\* The transactions of a chain, and those of one block more.
LEMMA ChainTxsAppend ==
    ASSUME NEW c \in Seq(BlockRecord), c # <<>>, NEW b \in BlockRecord
    PROVE  /\ ChainTxs(c) \in Seq(GoodTxs)
           /\ ChainTxs(Append(c, b)) = ChainTxs(c) \o b.txs
<1>. DEFINE d == Append(c, b)
            n == Len(c)
            Lists(x) == [i \in DOMAIN x |-> x[i].txs]
            f == Flattening(Lists(c))
            g == Flattening(Lists(d))
            P == {i \in 0..n : i = 0 \/ g[i] = f[i]}
<1>1. /\ d \in Seq(BlockRecord) /\ Len(d) = n + 1 /\ n \in Nat /\ n >= 1
      /\ d[n + 1] = b /\ \A i \in 1..n : d[i] = c[i]
      /\ DOMAIN c = 1..n /\ DOMAIN d = 1..(n + 1)
  OBVIOUS
<1>2. ASSUME NEW x \in Seq(BlockRecord)
      PROVE  Lists(x) \in Seq(Seq(GoodTxs)) /\ Len(Lists(x)) = Len(x)
  <2>1. \A i \in 1..Len(x) : x[i].txs \in Seq(GoodTxs)
    BY BlockTxsType
  <2>2. DOMAIN x = 1..Len(x) /\ Len(x) \in Nat
    OBVIOUS
  <2>. QED  BY <2>1, <2>2
<1>3. ASSUME NEW x \in Seq(BlockRecord), Len(x) >= 1
      PROVE  ChainTxs(x) = Flattening(Lists(x))[Len(x)]
  <2>1. Len(Lists(x)) # 0
    BY <1>2, <1>3
  <2>. QED  BY <1>2, <2>1 DEF ChainTxs, FlattenSeq, Flattening
<1>4. /\ \A i \in 1..n : Lists(d)[i] = Lists(c)[i]
      /\ Lists(d)[n + 1] = b.txs
  BY <1>1
<1>. HIDE DEF d
<1>5. /\ f \in [1..n -> Seq(GoodTxs)] /\ f[1] = Lists(c)[1]
      /\ \A i \in 2..n : f[i] = f[i - 1] \o Lists(c)[i]
  <2>. HIDE DEF Lists
  <2>. QED  BY <1>1, <1>2, FlatteningSteps
<1>6. /\ g[1] = Lists(d)[1]
      /\ \A i \in 2..(n + 1) : g[i] = g[i - 1] \o Lists(d)[i]
  <2>. HIDE DEF Lists
  <2>1. Lists(d) \in Seq(Seq(GoodTxs)) /\ Len(Lists(d)) = n + 1 /\ n + 1 >= 1
    BY <1>1, <1>2
  <2>2. /\ Flattening(Lists(d))[1] = Lists(d)[1]
        /\ \A i \in 2..Len(Lists(d)) :
              Flattening(Lists(d))[i] = Flattening(Lists(d))[i - 1] \o Lists(d)[i]
    BY <2>1, FlatteningSteps
  <2>. QED  BY <2>1, <2>2
<1>. HIDE DEF f, g, Lists
<1>7. 0 \in P
  BY <1>1
<1>8. ASSUME NEW i \in 1..n, i - 1 \in P PROVE i \in P
  <2>1. CASE i = 1
    BY <1>1, <1>4, <1>5, <1>6, <2>1
  <2>2. CASE i # 1
    <3>1. i \in 2..n /\ i \in 2..(n + 1) /\ g[i - 1] = f[i - 1]
      BY <1>1, <1>8, <2>2
    <3>2. g[i] = g[i - 1] \o Lists(d)[i] /\ f[i] = f[i - 1] \o Lists(c)[i]
      BY <1>5, <1>6, <3>1
    <3>3. g[i] = f[i]
      BY <1>4, <3>1, <3>2
    <3>. QED  BY <1>1, <3>3
  <2>. QED  BY <2>1, <2>2
<1>9. 0..n \subseteq P
  <2>. HIDE DEF P, n
  <2>. QED  BY <1>1, <1>7, <1>8, PositionsInduction
<1>10. g[n] = f[n]
  BY <1>1, <1>9
<1>11. g[n + 1] = f[n] \o b.txs
  <2>1. n + 1 \in 2..(n + 1) /\ (n + 1) - 1 = n
    BY <1>1
  <2>. QED  BY <1>4, <1>6, <1>10, <2>1
<1>12. ChainTxs(c) = f[n] /\ ChainTxs(d) = g[n + 1]
  BY <1>1, <1>3 DEF f, g
<1>13. f[n] \in Seq(GoodTxs)
  BY <1>1, <1>5
<1>. QED  BY <1>11, <1>12, <1>13 DEF d

\* The genesis block holds no transaction.
LEMMA GenesisTxs == ChainTxs(<<Genesis>>) = <<>>
<1>. DEFINE lists == [i \in DOMAIN <<Genesis>> |-> <<Genesis>>[i].txs]
<1>1. /\ Len(<<Genesis>>) = 1 /\ DOMAIN <<Genesis>> = 1..1 /\ <<Genesis>>[1] = Genesis
      /\ Genesis.txs = <<>>
  BY DEF Genesis
<1>2. lists \in Seq(Seq(GoodTxs)) /\ Len(lists) = 1 /\ lists[1] = <<>>
  <2>. DEFINE V == Seq(GoodTxs)
              none == Genesis.txs
  <2>1. none \in V /\ none = <<>> /\ 1 \in 1..1
    BY <1>1
  <2>. HIDE DEF none, V
  <2>2. \A i \in 1..1 : i = 1
    OBVIOUS
  <2>3. lists \in [1..1 -> V] /\ lists[1] = none
    <3>. DEFINE one == <<Genesis>>
    <3>1. DOMAIN one = 1..1 /\ \A i \in 1..1 : one[i].txs = none
      BY <1>1, <2>2 DEF none
    <3>. HIDE DEF one
    <3>2. [i \in DOMAIN one |-> one[i].txs] \in [1..1 -> V]
      BY <2>1, <3>1
    <3>3. [i \in DOMAIN one |-> one[i].txs][1] = none
      BY <2>1, <3>1
    <3>. QED  BY <3>2, <3>3 DEF one
  <2>. HIDE DEF lists
  <2>4. lists \in Seq(V)
    BY <2>3, SeqDef
  <2>5. Len(lists) = 1
    BY <2>3, <2>4
  <2>. QED  BY <2>1, <2>3, <2>4, <2>5 DEF V
<1>. HIDE DEF lists
<1>3. Flattening(lists)[1] = lists[1]
  <2>1. Len(lists) >= 1
    BY <1>2
  <2>. QED  BY <1>2, <2>1, FlatteningSteps
<1>4. FlattenSeq(lists) = Flattening(lists)[Len(lists)]
  BY <1>2 DEF FlattenSeq, Flattening
<1>. QED  BY <1>2, <1>3, <1>4 DEF ChainTxs, lists

\* A list that keeps the promise and that the indexes are right for.
Backed(txs, nonces, bal) ==
    /\ \A i \in DOMAIN txs : Allowed(txs[i])
    /\ Covers(NoBalances, txs) /\ bal = BalancesAfter(NoBalances, txs)
    /\ Increasing(txs)
    /\ \A i \in DOMAIN txs : txs[i].nonce < nonces[txs[i].sender]

\* It stays one when transactions are appended that go on from the indexes.
LEMMA BackedLonger ==
    ASSUME NEW nonces \in [Accounts -> Nat], NEW bal, NEW txs \in Seq(GoodTxs),
           NEW more \in Seq(GoodTxs), Backed(txs, nonces, bal),
           Follows(nonces, more), Covers(bal, more),
           \A i \in DOMAIN more : Allowed(more[i])
    PROVE  Backed(txs \o more, NoncesAfter(nonces, more), BalancesAfter(bal, more))
<1>. DEFINE new == txs \o more
            n == Len(txs)
            after == NoncesAfter(nonces, more)
<1>1. /\ DOMAIN txs = 1..n /\ DOMAIN more = 1..Len(more) /\ n \in Nat /\ Len(more) \in Nat
      /\ DOMAIN new = 1..(n + Len(more))
      /\ \A i \in 1..n : new[i] = txs[i]
      /\ \A k \in 1..Len(more) : new[n + k] = more[k]
  OBVIOUS
<1>2. /\ \A i \in DOMAIN txs : txs[i] \in GoodTxs
      /\ \A i \in DOMAIN more : more[i] \in GoodTxs
  BY <1>1
<1>3. \A tx \in GoodTxs : tx.sender \in Accounts /\ tx.nonce \in Nat
  BY GoodTxsType DEF TxRecord
<1>4. Covers(NoBalances, new) /\ BalancesAfter(bal, more) = BalancesAfter(NoBalances, new)
  <2>1. NoBalances \in [Accounts -> Int]
    BY DEF NoBalances
  <2>. QED  BY <2>1, AppliedInTurn DEF Backed
<1>. HIDE DEF new, n, after
<1>5. ASSUME NEW i \in DOMAIN new
      PROVE  i \in DOMAIN txs \/ \E k \in DOMAIN more : i = n + k
  <2>1. i \in 1..n \/ (i - n \in 1..Len(more) /\ i = n + (i - n))
    BY <1>1
  <2>. QED  BY <1>1, <2>1
<1>6. \A i \in DOMAIN new : Allowed(new[i])
  BY <1>1, <1>5 DEF Backed
<1>7. Increasing(new)
  <2>1. ASSUME NEW i \in DOMAIN new, NEW j \in DOMAIN new, i < j,
               new[i].sender = new[j].sender
        PROVE  new[i].nonce < new[j].nonce
    <3>1. CASE i \in DOMAIN txs /\ j \in DOMAIN txs
      BY <1>1, <2>1, <3>1 DEF Backed, Increasing
    <3>2. CASE \E k \in DOMAIN more : i = n + k
      <4>1. PICK k \in DOMAIN more : i = n + k
        BY <3>2
      <4>2. PICK m \in DOMAIN more : j = n + m
        BY <1>1, <1>5, <2>1, <4>1
      <4>3. new[i] = more[k] /\ new[j] = more[m]
        BY <1>1, <4>1, <4>2
      <4>4. k < m
        BY <1>1, <2>1, <4>1, <4>2
      <4>. QED  BY <2>1, <4>3, <4>4 DEF Follows, Increasing
    <3>3. CASE i \in DOMAIN txs /\ \E k \in DOMAIN more : j = n + k
      <4>1. PICK k \in DOMAIN more : j = n + k
        BY <3>3
      <4>2. new[i] = txs[i] /\ new[j] = more[k]
        BY <1>1, <3>3, <4>1
      <4>3. /\ txs[i].nonce < nonces[more[k].sender]
            /\ nonces[more[k].sender] <= more[k].nonce
        BY <2>1, <3>3, <4>2 DEF Backed, Follows
      <4>. QED  BY <1>2, <1>3, <3>3, <4>2, <4>3
    <3>. QED  BY <1>5, <3>1, <3>2, <3>3
  <2>. QED  BY <2>1 DEF Increasing
<1>8. ASSUME NEW a \in Accounts
      PROVE  /\ nonces[a] <= after[a] /\ after[a] \in Nat
             /\ \A k \in DOMAIN more : more[k].sender = a => more[k].nonce < after[a]
  <2>1. CASE SentBy(a, more) = {}
    BY <2>1 DEF after, NoncesAfter, SentBy
  <2>2. CASE SentBy(a, more) # {}
    <3>1. PICK l \in SentBy(a, more) :
             /\ \A i \in SentBy(a, more) : i <= l
             /\ \A s : NoncesAfter(s, more)[a] = more[l].nonce + 1
      BY <2>2, AfterLast
    <3>2. after[a] = more[l].nonce + 1 /\ l \in DOMAIN more /\ more[l].sender = a
      BY <3>1 DEF after, SentBy
    <3>3. more[l].nonce \in Nat /\ nonces[a] <= more[l].nonce
      BY <1>2, <1>3, <3>2 DEF Follows
    <3>4. ASSUME NEW k \in DOMAIN more, more[k].sender = a
          PROVE  more[k].nonce < after[a]
      <4>1. k <= l
        BY <3>1, <3>4 DEF SentBy
      <4>2. k = l \/ k < l
        BY <1>1, <3>2, <4>1
      <4>3. more[k].nonce \in Nat
        BY <1>2, <1>3
      <4>. QED  BY <3>2, <3>3, <3>4, <4>2, <4>3 DEF Follows, Increasing
    <3>. QED  BY <3>2, <3>3, <3>4
  <2>. QED  BY <2>1, <2>2
<1>9. \A i \in DOMAIN new : new[i].nonce < after[new[i].sender]
  <2>1. ASSUME NEW i \in DOMAIN txs
        PROVE  new[i].nonce < after[new[i].sender]
    <3>1. new[i] = txs[i] /\ txs[i].sender \in Accounts /\ txs[i].nonce \in Nat
      BY <1>1, <1>2, <1>3
    <3>2. txs[i].nonce < nonces[txs[i].sender]
      BY DEF Backed
    <3>3. nonces[txs[i].sender] <= after[txs[i].sender] /\ after[txs[i].sender] \in Nat
          /\ nonces[txs[i].sender] \in Nat
      BY <1>8, <3>1
    <3>. QED  BY <3>1, <3>2, <3>3
  <2>2. ASSUME NEW k \in DOMAIN more
        PROVE  new[n + k].nonce < after[new[n + k].sender]
    <3>1. new[n + k] = more[k] /\ more[k].sender \in Accounts
      BY <1>1, <1>2, <1>3
    <3>. QED  BY <1>8, <3>1
  <2>. QED  BY <1>5, <2>1, <2>2
<1>. QED  BY <1>4, <1>6, <1>7, <1>9 DEF Backed, new, after

LedgerInv == Backed(ChainTxs(chain), nonceOf, balance)

\* The ledger starts empty.
LEMMA InitLedger == Init => LedgerInv
<1>. SUFFICES ASSUME Init PROVE LedgerInv
  OBVIOUS
<1>1. ChainTxs(chain) = <<>> /\ balance = NoBalances
  BY GenesisTxs DEF Init
<1>2. NoBalances \in [Accounts -> Int] /\ \A a \in Accounts : NoBalances[a] >= 0
  BY DEF NoBalances
<1>. QED  BY <1>1, <1>2, NothingCovered DEF LedgerInv, Backed, Increasing

\* What saving a block does to the list.
LEMMA SavedTxs ==
    ASSUME TypeOK, Agree, ChainInv, OrderInv, FundsInv, IssuedInv, LedgerInv, SaveBlock
    PROVE  /\ ChainTxs(chain) \in Seq(GoodTxs) /\ blk.txs \in Seq(GoodTxs)
           /\ blk.txs # <<>> /\ ChainTxs(chain)' = ChainTxs(chain) \o blk.txs
           /\ LedgerInv'
<1>1. /\ bpc \in Mining /\ Unsaved(blk) /\ blk \in BlockRecord
      /\ blk.txs \in Seq(GoodTxs) /\ blk.txs # <<>> /\ chain' = Append(chain, blk)
      /\ nonceOf' = NoncesAfter(nonceOf, blk.txs)
      /\ balance' = BalancesAfter(balance, blk.txs)
  BY SavedBlock
<1>2. chain \in Seq(BlockRecord) /\ chain # <<>> /\ nonceOf \in [Accounts -> Nat]
  BY DEF TypeOK, TypeRedis
<1>3. /\ ChainTxs(chain) \in Seq(GoodTxs)
      /\ ChainTxs(chain') = ChainTxs(chain) \o blk.txs
  BY <1>1, <1>2, ChainTxsAppend
<1>4. /\ Follows(nonceOf, blk.txs) /\ Covers(balance, blk.txs)
      /\ \A i \in DOMAIN blk.txs : Allowed(blk.txs[i])
  <2>1. \A i \in DOMAIN blk.txs : blk.txs[i] \in ToSet(blk.txs)
    BY DEF ToSet
  <2>. QED  BY <1>1, <2>1 DEF OrderInv, BlockFollows, FundsInv, BlockFunds, IssuedInv
<1>5. Backed(ChainTxs(chain) \o blk.txs, nonceOf', balance')
  BY <1>1, <1>2, <1>3, <1>4, BackedLonger DEF LedgerInv
<1>. QED  BY <1>1, <1>3, <1>5 DEF LedgerInv

\* TokenLedger's definitions are those of Ledger.
LEMMA SameBalances ==
    ASSUME NEW bal, NEW txs
    PROVE  Promised!BalancesAfter(bal, txs) = BalancesAfter(bal, txs)
<1>1. ASSUME NEW start, NEW a
      PROVE  Promised!RunningBalance(start, txs, a) = RunningBalance(start, txs, a)
  BY Zenon DEF Promised!RunningBalance, RunningBalance, Promised!Delta, Delta
<1>. QED  BY <1>1 DEF Promised!BalancesAfter, BalancesAfter

\* A list that is backed by the indexes is one that TokenLedger allows.
LEMMA BackedIsSound ==
    ASSUME NEW nonces, NEW bal, NEW txs \in Seq(GoodTxs), Backed(txs, nonces, bal)
    PROVE  Promised!Sound(txs)
<1>1. Promised!Issued(txs)
  BY DEF Backed, Allowed, Promised!Issued
<1>2. Promised!FreshNonces(txs)
  BY DEF Backed, Increasing, Promised!FreshNonces
<1>3. ASSUME NEW n \in 0..Len(txs), NEW a \in Accounts
      PROVE  BalancesAfter(NoBalances, SubSeq(txs, 1, n))[a] >= 0
  <2>1. /\ SubSeq(txs, 1, n) \in Seq(GoodTxs) /\ Len(SubSeq(txs, 1, n)) = n
        /\ \A i \in 1..n : SubSeq(txs, 1, n)[i] = txs[i]
        /\ n \in Nat /\ Len(txs) \in Nat /\ n <= Len(txs) /\ n \in 0..n
    OBVIOUS
  <2>2. \A k \in 0..n : RunningBalance(0, txs, a)[k]
                        = RunningBalance(0, SubSeq(txs, 1, n), a)[k]
    <3>. DEFINE s == SubSeq(txs, 1, n)
    <3>1. s \in Seq(GoodTxs) /\ Len(s) = n /\ \A i \in 1..n : txs[i] = s[i]
      BY <2>1
    <3>. HIDE DEF s
    <3>2. \A k \in 0..Len(s) : RunningBalance(0, txs, a)[k] = RunningBalance(0, s, a)[k]
      BY <2>1, <3>1, SamePrefix
    <3>. QED  BY <3>1, <3>2 DEF s
  <2>3. NoBalances[a] = 0 /\ RunningBalance(NoBalances[a], txs, a)[n] >= 0
    BY DEF NoBalances, Backed, Covers
  <2>. QED  BY <2>1, <2>2, <2>3 DEF BalancesAfter
<1>4. Promised!NoOverdraft(txs)
  BY <1>3, SameBalances DEF Promised!NoOverdraft, Promised!NoBalances, NoBalances
<1>. QED  BY <1>1, <1>2, <1>4 DEF Promised!Sound

\* The chain, read as one list of transactions, is a TokenLedger: saving a block
\* extends the ledger by the block's transactions, all at once, every other step
\* leaves it as it is, and what it holds is always a ledger that may be promised.
THEOREM KeepsPromiseCorrect ==
    ASSUME Orderly, NoCrash
    PROVE  Spec => KeepsPromise
<1>. DEFINE Inv == /\ TypeOK /\ Agree /\ ChainInv /\ BalanceInv /\ OrderInv
                   /\ FundsInv /\ IssuedInv /\ LedgerInv
<1>1. Init => Inv
  BY InitType, InitChain, InitBalance, InitOrder, InitFunds, InitIssued, InitLedger
     DEF Init, Agree, Judged
<1>2. Init => Promised!Init
  BY GenesisTxs DEF Init, Promised!Init
<1>3. Inv /\ [Next]_vars => Inv' /\ [Promised!Next]_(ChainTxs(chain))
  <2>. SUFFICES ASSUME Inv, [Next]_vars
                PROVE  Inv' /\ [Promised!Next]_(ChainTxs(chain))
    OBVIOUS
  <2>1. /\ TypeOK' /\ Agree' /\ ChainInv' /\ BalanceInv' /\ OrderInv' /\ FundsInv'
        /\ IssuedInv'
    BY NextType, NextAgree, NextChain, NextBalance, NextOrder, NextFunds, NextIssued
  <2>2. CASE SaveBlock
    <3>1. /\ ChainTxs(chain) \in Seq(GoodTxs) /\ blk.txs \in Seq(GoodTxs)
          /\ blk.txs # <<>> /\ ChainTxs(chain)' = ChainTxs(chain) \o blk.txs
          /\ LedgerInv'
      BY <2>2, SavedTxs
    <3>. DEFINE old == ChainTxs(chain)
                new == ChainTxs(chain)'
    <3>. HIDE DEF old, new
    <3>2. /\ new \in Seq(GoodTxs) /\ Len(new) = Len(old) + Len(blk.txs)
          /\ Len(old) \in Nat /\ Len(blk.txs) \in Nat \ {0}
          /\ \A i \in 1..Len(old) : new[i] = old[i]
      BY <3>1 DEF old, new
    <3>3. SubSeq(old, 1, Len(old)) = SubSeq(new, 1, Len(old))
      BY <3>1, <3>2 DEF old
    <3>4. Promised!IsPrefix(old, new) /\ new # old
      BY <3>2, <3>3 DEF Promised!IsPrefix
    <3>5. Promised!Sound(new)
      BY <3>1, <3>2, BackedIsSound DEF LedgerInv, new
    <3>6. Promised!Next
      BY <3>4, <3>5 DEF Promised!Next, Promised!Extend, old, new
    <3>. QED  BY <2>1, <3>1, <3>6
  <2>3. CASE UNCHANGED <<chain, nonceOf, balance>>
    BY <2>1, <2>3 DEF LedgerInv
  <2>4. ~SaveBlock => UNCHANGED <<chain, nonceOf, balance>>
    <3>1. CASE BlockLoopStep
      BY <3>1 DEF redis, BlockLoopStep, TakeSnapshot, DrainGap, DrainReplay, DrainAccept,
          DrainReject, RemoveFromPool, TrimPending, RecordDiscarded, NothingToMine,
          CreateBlock, GateClosed, BackoffOver, BlockDone, GateOpen, SetCurrentBlock,
          Publish, Timeout
    <3>2. ~Crash /\ ~Rebuild /\ ~StartThreads
      BY NeverRestarts DEF BalanceInv
    <3>3. CASE UNCHANGED vars
      BY <3>3 DEF vars, redis
    <3>. QED  BY <3>1, <3>2, <3>3, OthersKeepDrain DEF Writers
  <2>. QED  BY <2>2, <2>3, <2>4
<1>. QED  BY <1>1, <1>2, <1>3, PTL DEF Spec, KeepsPromise, Promised!Spec
=============================================================================
