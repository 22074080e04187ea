----------------------------- MODULE IndexProofs ------------------------------
(***************************************************************************)
(* The nonce and balance indexes of Redis say what the chain says.         *)
(***************************************************************************)
EXTENDS NCTProofs

(***************************************************************************)
(* Nonces.  A boot leaves in the index what the process before wrote, and  *)
(* goes over the chain again.  What it has gone over is right, and what it *)
(* has not is overwritten when it comes to a later block of the sender.    *)
(***************************************************************************)

\* The last nonce of a in a list of transactions, plus one.
After(txs, a) == NoncesAfter(NoNonces, txs)[a]

\* Blocks of a among the first k of the chain c.
BlocksUpTo(a, c, k) == BlocksOf(a, c) \cap 1..k

\* n is right for every sender whose last block is among the first k.
Indexed(n, c, k) ==
    \A a \in Accounts :
        /\ BlocksOf(a, c) = {} => n[a] = 0
        /\ BlocksUpTo(a, c, k) # {} =>
              n[a] = After(c[Max(BlocksUpTo(a, c, k))].txs, a)

\* The last position of a set is its maximum.
LEMMA LastIsMax ==
    ASSUME NEW n \in Nat, NEW T, T \subseteq 1..n, n \in T
    PROVE  Max(T) = n
<1>1. Max(T) \in T /\ n <= Max(T)
  BY MaxOfPositions
<1>2. \A i \in 1..n : i <= n /\ (n <= i => i = n)
  OBVIOUS
<1>. QED  BY <1>1, <1>2

\* A list that has a transaction of a sets a's nonce whatever it was.
LEMMA NoncesAfterSteps ==
    ASSUME NEW n \in [Accounts -> Nat], NEW txs, NEW a \in Accounts
    PROVE  /\ SentBy(a, txs) = {} => NoncesAfter(n, txs)[a] = n[a]
           /\ SentBy(a, txs) # {} => NoncesAfter(n, txs)[a] = After(txs, a)
BY DEF NoncesAfter, After

\* The transactions of a among the first j of a list.
SentUpTo(a, txs, j) == SentBy(a, txs) \cap 1..j

\* n is right for the first k blocks and the first j transactions of the next.
PartIndexed(n, c, k, j) ==
    LET txs == c[k + 1].txs
    IN  \A a \in Accounts :
            /\ BlocksOf(a, c) = {} => n[a] = 0
            /\ SentUpTo(a, txs, j) # {} =>
                  n[a] = txs[Max(SentUpTo(a, txs, j))].nonce + 1
            /\ SentUpTo(a, txs, j) = {} /\ BlocksUpTo(a, c, k) # {} =>
                  n[a] = After(c[Max(BlocksUpTo(a, c, k))].txs, a)

\* Nothing of the next block is gone over yet.
LEMMA PartStarts ==
    ASSUME NEW n \in [Accounts -> Nat], NEW c \in Seq(BlockRecord), NEW k \in Nat,
           Indexed(n, c, k)
    PROVE  PartIndexed(n, c, k, 0)
<1>1. \A a \in Accounts : SentUpTo(a, c[k + 1].txs, 0) = {}
  BY DEF SentUpTo
<1>. QED  BY <1>1 DEF PartIndexed, Indexed

\* SET of one more transaction.
LEMMA PartNext ==
    ASSUME NEW n \in [Accounts -> Nat], NEW c \in Seq(BlockRecord), NEW k \in Nat,
           k < Len(c), NEW j \in Nat, j < Len(c[k + 1].txs), PartIndexed(n, c, k, j),
           NEW tx, tx = c[k + 1].txs[j + 1]
    PROVE  PartIndexed([n EXCEPT ![tx.sender] = tx.nonce + 1], c, k, j + 1)
<1>. DEFINE txs == c[k + 1].txs
            m == [n EXCEPT ![tx.sender] = tx.nonce + 1]
<1>1. k + 1 \in 1..Len(c) /\ DOMAIN c = 1..Len(c)
  OBVIOUS
<1>2. txs \in Seq(GoodTxs)
  BY <1>1, BlockTxsType
<1>3. j + 1 \in 1..Len(txs) /\ DOMAIN txs = 1..Len(txs) /\ tx \in GoodTxs
  BY <1>2
<1>4. tx.sender \in Accounts
  BY <1>3, GoodTxsType DEF TxRecord
<1>5. tx = txs[j + 1] /\ PartIndexed(n, c, k, j)
  OBVIOUS
<1>6. ASSUME NEW a \in Accounts
      PROVE  /\ BlocksOf(a, c) = {} => m[a] = 0
             /\ SentUpTo(a, txs, j + 1) # {} =>
                   m[a] = txs[Max(SentUpTo(a, txs, j + 1))].nonce + 1
             /\ SentUpTo(a, txs, j + 1) = {} /\ BlocksUpTo(a, c, k) # {} =>
                   m[a] = After(c[Max(BlocksUpTo(a, c, k))].txs, a)
  <2>1. CASE a = tx.sender
    <3>1. m[a] = tx.nonce + 1
      BY <1>4, <2>1
    <3>. HIDE DEF m, txs
    <3>2. j + 1 \in SentUpTo(a, txs, j + 1)
      BY <1>3, <1>5, <2>1 DEF SentUpTo, SentBy
    <3>3. SentUpTo(a, txs, j + 1) \subseteq 1..(j + 1)
      BY DEF SentUpTo
    <3>4. Max(SentUpTo(a, txs, j + 1)) = j + 1
      BY <3>2, <3>3, LastIsMax
    <3>5. k + 1 \in BlocksOf(a, c)
      BY <1>1, <3>2 DEF BlocksOf, SentUpTo, txs
    <3>. QED  BY <1>5, <3>1, <3>2, <3>4, <3>5
  <2>2. CASE a # tx.sender
    <3>1. m[a] = n[a]
      BY <2>2
    <3>. HIDE DEF m
    <3>2. SentUpTo(a, txs, j + 1) = SentUpTo(a, txs, j)
      <4>. HIDE DEF txs
      <4>1. j + 1 \notin SentBy(a, txs)
        BY <1>5, <2>2 DEF SentBy
      <4>. QED  BY <4>1 DEF SentUpTo
    <3>. QED  BY <1>5, <3>1, <3>2 DEF PartIndexed
  <2>. QED  BY <2>1, <2>2
<1>. QED  BY <1>6 DEF PartIndexed

\* After its last transaction the whole block is gone over.
LEMMA PartEnds ==
    ASSUME NEW n \in [Accounts -> Nat], NEW c \in Seq(BlockRecord), NEW k \in Nat,
           k < Len(c), PartIndexed(n, c, k, Len(c[k + 1].txs))
    PROVE  Indexed(n, c, k + 1)
<1>. DEFINE txs == c[k + 1].txs
<1>1. k + 1 \in 1..Len(c) /\ DOMAIN c = 1..Len(c)
  OBVIOUS
<1>2. txs \in Seq(GoodTxs)
  BY <1>1, BlockTxsType
<1>3. ASSUME NEW a \in Accounts
      PROVE  /\ BlocksOf(a, c) = {} => n[a] = 0
             /\ BlocksUpTo(a, c, k + 1) # {} =>
                   n[a] = After(c[Max(BlocksUpTo(a, c, k + 1))].txs, a)
  <2>1. SentUpTo(a, txs, Len(txs)) = SentBy(a, txs)
    BY <1>2 DEF SentUpTo, SentBy
  <2>2. k + 1 \in BlocksOf(a, c) <=> SentBy(a, txs) # {}
    BY <1>1 DEF BlocksOf
  <2>3. CASE SentBy(a, txs) = {}
    <3>1. BlocksUpTo(a, c, k + 1) = BlocksUpTo(a, c, k)
      BY <2>2, <2>3 DEF BlocksUpTo
    <3>. QED  BY <2>1, <2>3, <3>1 DEF PartIndexed
  <2>4. CASE SentBy(a, txs) # {}
    <3>1. n[a] = After(txs, a)
      BY <2>1, <2>4 DEF PartIndexed, After, NoncesAfter
    <3>2. k + 1 \in BlocksUpTo(a, c, k + 1) /\ BlocksUpTo(a, c, k + 1) \subseteq 1..(k + 1)
      BY <2>2, <2>4 DEF BlocksUpTo
    <3>3. Max(BlocksUpTo(a, c, k + 1)) = k + 1
      BY <3>2, LastIsMax
    <3>. QED  BY <2>2, <2>4, <3>1, <3>3
  <2>. QED  BY <2>3, <2>4
<1>. QED  BY <1>3 DEF Indexed

\* SET of all of one more block.
LEMMA IndexNextBlock ==
    ASSUME NEW n \in [Accounts -> Nat], NEW c \in Seq(BlockRecord),
           NEW k \in Nat, k < Len(c), Indexed(n, c, k)
    PROVE  Indexed(NoncesAfter(n, c[k + 1].txs), c, k + 1)
<1>. DEFINE m == NoncesAfter(n, c[k + 1].txs)
<1>0. Len(c) \in Nat /\ k + 1 \in 1..Len(c) /\ DOMAIN c = 1..Len(c)
  OBVIOUS
<1>1. SUFFICES ASSUME NEW a \in Accounts
               PROVE  /\ BlocksOf(a, c) = {} => m[a] = 0
                      /\ BlocksUpTo(a, c, k + 1) # {} =>
                            m[a] = After(c[Max(BlocksUpTo(a, c, k + 1))].txs, a)
  BY DEF Indexed
<1>2. k + 1 \in BlocksOf(a, c) <=> SentBy(a, c[k + 1].txs) # {}
  BY <1>0 DEF BlocksOf
<1>3. CASE SentBy(a, c[k + 1].txs) = {}
  <2>1. m[a] = n[a]
    BY <1>3, NoncesAfterSteps
  <2>2. BlocksUpTo(a, c, k + 1) = BlocksUpTo(a, c, k)
    BY <1>2, <1>3 DEF BlocksUpTo
  <2>. QED  BY <2>1, <2>2 DEF Indexed
<1>4. CASE SentBy(a, c[k + 1].txs) # {}
  <2>1. m[a] = After(c[k + 1].txs, a)
    BY <1>4, NoncesAfterSteps
  <2>2. k + 1 \in BlocksUpTo(a, c, k + 1)
    BY <1>2, <1>4 DEF BlocksUpTo
  <2>3. BlocksUpTo(a, c, k + 1) \subseteq 1..(k + 1)
    BY DEF BlocksUpTo
  <2>4. Max(BlocksUpTo(a, c, k + 1)) = k + 1
    BY <2>2, <2>3, LastIsMax
  <2>. QED  BY <1>2, <1>4, <2>1, <2>4
<1>. QED  BY <1>3, <1>4

\* A block that is appended is not yet gone over.
LEMMA IndexAppend ==
    ASSUME NEW n \in [Accounts -> Nat], NEW c \in Seq(BlockRecord),
           NEW b \in BlockRecord, NEW k \in Nat, k <= Len(c), Indexed(n, c, k)
    PROVE  Indexed(n, Append(c, b), k)
<1>. DEFINE d == Append(c, b)
<1>1. /\ d \in Seq(BlockRecord) /\ Len(d) = Len(c) + 1
      /\ DOMAIN c = 1..Len(c) /\ DOMAIN d = 1..Len(d) /\ Len(c) \in Nat
      /\ \A i \in 1..Len(c) : d[i] = c[i]
  OBVIOUS
<1>. HIDE DEF d
<1>2. ASSUME NEW a \in Accounts
      PROVE  /\ BlocksOf(a, c) \subseteq BlocksOf(a, d)
             /\ BlocksUpTo(a, d, k) = BlocksUpTo(a, c, k)
  <2>1. \A i \in 1..Len(c) : i \in 1..Len(d) /\ d[i].txs = c[i].txs
    BY <1>1
  <2>2. BlocksOf(a, c) \subseteq BlocksOf(a, d)
    BY <1>1, <2>1 DEF BlocksOf
  <2>3. BlocksOf(a, d) \cap 1..Len(c) = BlocksOf(a, c)
    BY <1>1, <2>1 DEF BlocksOf
  <2>4. 1..k = 1..Len(c) \cap 1..k
    BY <1>1
  <2>. QED  BY <2>2, <2>3, <2>4 DEF BlocksUpTo
<1>3. ASSUME NEW a \in Accounts, BlocksUpTo(a, c, k) # {}
      PROVE  d[Max(BlocksUpTo(a, c, k))] = c[Max(BlocksUpTo(a, c, k))]
  <2>1. BlocksUpTo(a, c, k) \subseteq 1..Len(c)
    BY <1>1 DEF BlocksOf, BlocksUpTo
  <2>2. Max(BlocksUpTo(a, c, k)) \in 1..Len(c)
    BY <1>1, <1>3, <2>1, MaxOfPositions
  <2>. QED  BY <1>1, <2>2
<1>4. Indexed(n, d, k)
  BY <1>2, <1>3 DEF Indexed
<1>. QED  BY <1>4 DEF d

\* An index that is right for the whole chain is the rebuilt one.
LEMMA IndexedIsRebuilt ==
    ASSUME NEW n \in [Accounts -> Nat], NEW c \in Seq(BlockRecord),
           Indexed(n, c, Len(c))
    PROVE  n = RebuiltNonces(c)
<1>1. \A a \in Accounts : BlocksUpTo(a, c, Len(c)) = BlocksOf(a, c)
  BY DEF BlocksUpTo, BlocksOf
<1>2. ASSUME NEW a \in Accounts PROVE n[a] = RebuiltNonces(c)[a]
  BY <1>1 DEF Indexed, RebuiltNonces, After
<1>. QED  BY <1>2 DEF RebuiltNonces

\* How far the index is right: all of the chain once the threads run.
Covered == IF proc = "up" THEN Len(chain) ELSE walked

NonceInv ==
    /\ Covered <= Len(chain)
    /\ Booting => /\ applied <= Len(chain[walked + 1].txs)
                  /\ PartIndexed(nonceOf, chain, walked, applied)
    /\ ~Booting => Indexed(nonceOf, chain, Covered)

\* The genesis block leaves every nonce at 0.
LEMMA InitNonce == Init => NonceInv
<1>. SUFFICES ASSUME Init PROVE NonceInv
  OBVIOUS
<1>1. /\ chain = <<Genesis>> /\ nonceOf = NoNonces /\ proc = "up"
      /\ Len(chain) = 1 /\ chain[1] = Genesis /\ DOMAIN chain = {1}
  BY DEF Init
<1>2. \A a \in Accounts : BlocksOf(a, chain) = {}
  BY <1>1 DEF BlocksOf, SentBy, Genesis
<1>. QED  BY <1>1, <1>2 DEF NonceInv, Booting, Covered, Indexed, BlocksUpTo, NoNonces

\* A step that touches none of what the invariant speaks of.
LEMMA NonceUntouched ==
    ASSUME NonceInv, UNCHANGED <<chain, nonceOf, proc, walked, applied>>
    PROVE  NonceInv'
<1>1. Covered' = Covered /\ (Booting' <=> Booting)
  BY DEF Covered, Booting
<1>2. chain' = chain /\ nonceOf' = nonceOf /\ walked' = walked /\ applied' = applied
  OBVIOUS
<1>3. /\ Covered' <= Len(chain')
      /\ Booting' => /\ applied' <= Len(chain'[walked' + 1].txs)
                     /\ PartIndexed(nonceOf', chain', walked', applied')
      /\ ~Booting' => Indexed(nonceOf', chain', Covered')
  BY <1>1, <1>2 DEF NonceInv
<1>. QED  BY <1>3 DEF NonceInv

\* The steps that write the chain, the nonce index or the state of the process.
Writers == SaveBlock \/ Crash \/ Rebuild \/ StartThreads

\* Whatever does not write the indexes leaves them, the chain and the boot alone.
LEMMA OthersRead ==
    ASSUME Next, ~Writers
    PROVE  UNCHANGED <<chain, balance, nonceOf, proc, walked, applied>>
<1>. USE DEF redis, process, env
<1>1. ASSUME NEW h \in Handlers, HttpStep(h)
      PROVE  UNCHANGED <<chain, balance, nonceOf, proc, walked, applied>>
  BY <1>1 DEF HttpStep, PostCheck, PostAdd, PostSave
<1>2. CASE BlockLoopStep
  BY <1>2 DEF BlockLoopStep, TakeSnapshot, DrainGap, DrainReplay, DrainAccept,
      DrainReject, RemoveFromPool, TrimPending, RecordDiscarded, NothingToMine,
      CreateBlock, GateClosed, BackoffOver, BlockDone, GateOpen, SetCurrentBlock,
      Publish, Timeout
<1>3. CASE ResultLoopStep
  BY <1>3 DEF ResultLoopStep, Get, CheckActive, Verify, BroadcastAbort, MarkComplete,
      Ack, Writers
<1>4. CASE Fault
  BY <1>4 DEF Fault, SaveFails, AbortFails, AckLost, Lose, Writers
<1>5. CASE \/ \E p \in Pools : PoolStep(p)
           \/ \E t \in tasks : Solve(t) \/ Retire(t)
  BY <1>5 DEF PoolStep, OnPoolHeartbeat, OnNoWorkers, PoolTimesOut, RegistryOnly,
      Solve, Retire
<1>. QED  BY <1>1, <1>2, <1>3, <1>4, <1>5 DEF Next, Writers

\* A block is saved only while the threads run.
LEMMA SavesWhileUp ==
    ASSUME TypeOK, Agree, SaveBlock
    PROVE  proc = "up" /\ UNCHANGED <<proc, walked>> /\ job \in BlockRecord
BY DEF SaveBlock, Agree, Judged, Mining, process, TypeOK, TypeState

\* A saved block or a walked one extends what the index is right for.
LEMMA NextNonce == TypeOK /\ Agree /\ NonceInv /\ [Next]_vars => NonceInv'
<1>. SUFFICES ASSUME TypeOK, Agree, NonceInv, [Next]_vars PROVE NonceInv'
  OBVIOUS
<1>1. /\ chain \in Seq(BlockRecord) /\ Len(chain) \in Nat /\ 0 < Len(chain)
      /\ nonceOf \in [Accounts -> Nat] /\ walked \in Nat /\ proc \in {"up", "down"}
      /\ applied \in Nat
  BY EmptySeq DEF TypeOK, TypeRedis, TypeState
<1>2. ASSUME NEW k \in Nat, Covered' = k, k <= Len(chain'), ~Booting',
             Indexed(nonceOf', chain', k)
      PROVE  NonceInv'
  BY <1>2 DEF NonceInv
<1>3. CASE SaveBlock
  <2>1. /\ proc = "up" /\ proc' = "up" /\ job \in BlockRecord
        /\ chain' = Append(chain, job) /\ nonceOf' = NoncesAfter(nonceOf, job.txs)
    BY <1>3, SavesWhileUp DEF SaveBlock, Persist
  <2>2. Indexed(nonceOf, chain, Len(chain))
    BY <2>1 DEF NonceInv, Booting, Covered
  <2>3. Indexed(nonceOf, chain', Len(chain))
    BY <1>1, <2>1, <2>2, IndexAppend
  <2>4. /\ chain' \in Seq(BlockRecord) /\ Len(chain') = Len(chain) + 1
        /\ chain'[Len(chain) + 1] = job
    BY <1>1, <2>1
  <2>5. Indexed(NoncesAfter(nonceOf, chain'[Len(chain) + 1].txs), chain', Len(chain) + 1)
    <3>1. Len(chain) < Len(chain')
      BY <1>1, <2>4
    <3>. QED  BY <1>1, <2>3, <2>4, <3>1, IndexNextBlock
  <2>6. Covered' = Len(chain) + 1
    BY <2>1, <2>4 DEF Covered
  <2>7. ~Booting'
    BY <2>1 DEF Booting
  <2>. QED  BY <1>1, <1>2, <2>1, <2>4, <2>5, <2>6, <2>7
<1>4. CASE RebuildNonce
  <2>1. /\ Booting /\ proc = "down" /\ walked < Len(chain)
        /\ applied < Len(chain[walked + 1].txs)
        /\ nonceOf' = [nonceOf EXCEPT ![chain[walked + 1].txs[applied + 1].sender] =
                           chain[walked + 1].txs[applied + 1].nonce + 1]
        /\ applied' = applied + 1 /\ UNCHANGED <<chain, proc, walked>>
    BY <1>4 DEF RebuildNonce, Booting, Walking, Walk
  <2>2. PartIndexed(nonceOf, chain, walked, applied) /\ Covered <= Len(chain)
    BY <2>1 DEF NonceInv
  <2>3. PartIndexed(nonceOf', chain, walked, applied + 1)
    BY <1>1, <2>1, <2>2, PartNext
  <2>4. Booting' /\ Covered' = Covered
    BY <2>1 DEF Booting, Covered
  <2>5. chain[walked + 1].txs \in Seq(GoodTxs)
    BY <1>1, <2>1, BlockTxsType
  <2>6. applied' <= Len(chain'[walked' + 1].txs)
    BY <1>1, <2>1, <2>5
  <2>7. PartIndexed(nonceOf', chain', walked', applied')
    BY <2>1, <2>3
  <2>8. Covered' <= Len(chain')
    BY <2>1, <2>2, <2>4
  <2>. QED  BY <2>4, <2>6, <2>7, <2>8 DEF NonceInv
<1>5. CASE RebuildBlock
  <2>1. /\ Booting /\ proc = "down" /\ walked < Len(chain)
        /\ applied = Len(chain[walked + 1].txs)
        /\ walked' = walked + 1 /\ applied' = 0
        /\ UNCHANGED <<chain, nonceOf, proc>>
    BY <1>5 DEF RebuildBlock, Booting, Walking, Walk, redis
  <2>2. PartIndexed(nonceOf, chain, walked, Len(chain[walked + 1].txs))
    BY <2>1 DEF NonceInv
  <2>3. Indexed(nonceOf, chain, walked + 1)
    BY <1>1, <2>1, <2>2, PartEnds
  <2>4. Covered' = walked + 1 /\ walked + 1 <= Len(chain) /\ walked + 1 \in Nat
    BY <1>1, <2>1 DEF Covered
  <2>5. CASE walked + 1 < Len(chain)
    <3>1. PartIndexed(nonceOf, chain, walked + 1, 0)
      BY <1>1, <2>3, <2>4, PartStarts
    <3>2. chain[(walked + 1) + 1].txs \in Seq(GoodTxs)
      <4>1. (walked + 1) + 1 \in 1..Len(chain)
        BY <1>1, <2>5
      <4>. QED  BY <1>1, <4>1, BlockTxsType
    <3>3. /\ PartIndexed(nonceOf', chain', walked', applied')
          /\ applied' <= Len(chain'[walked' + 1].txs)
      BY <2>1, <3>1, <3>2
    <3>4. Booting' /\ Covered' <= Len(chain')
      BY <2>1, <2>4, <2>5 DEF Booting
    <3>. QED  BY <3>3, <3>4 DEF NonceInv
  <2>6. CASE ~(walked + 1 < Len(chain))
    <3>1. ~Booting' /\ Indexed(nonceOf', chain', walked + 1)
      BY <2>1, <2>3, <2>6 DEF Booting
    <3>. QED  BY <1>2, <2>1, <2>4, <3>1
  <2>. QED  BY <2>5, <2>6
<1>6. CASE StartThreads
  <2>1. /\ proc = "down" /\ walked = Len(chain) /\ proc' = "up"
        /\ chain' = chain /\ nonceOf' = nonceOf
    BY <1>6 DEF StartThreads, redis
  <2>2. Covered = Len(chain) /\ Covered' = Len(chain) /\ ~Booting /\ ~Booting'
    BY <1>1, <2>1 DEF Covered, Booting
  <2>3. Indexed(nonceOf', chain', Len(chain))
    BY <2>1, <2>2 DEF NonceInv
  <2>. QED  BY <1>1, <1>2, <2>1, <2>2, <2>3
<1>7. CASE Crash
  <2>1. /\ chain' = chain /\ nonceOf' = nonceOf
        /\ proc' = "down" /\ walked' = 0 /\ applied' = 0
    BY <1>7 DEF Crash, redis
  <2>2. \A a \in Accounts : BlocksUpTo(a, chain, 0) = {} /\ SentUpTo(a, chain[0 + 1].txs, 0) = {}
    BY DEF BlocksUpTo, SentUpTo
  <2>3. \A a \in Accounts : BlocksOf(a, chain) = {} => nonceOf[a] = 0
    BY DEF NonceInv, Indexed, PartIndexed
  <2>4. PartIndexed(nonceOf, chain, 0, 0)
    BY <2>2, <2>3 DEF PartIndexed
  <2>5. Covered' = 0 /\ Booting'
    BY <1>1, <2>1 DEF Covered, Booting
  <2>6. chain[0 + 1].txs \in Seq(GoodTxs)
    <3>1. 0 + 1 \in 1..Len(chain)
      BY <1>1
    <3>. QED  BY <1>1, <3>1, BlockTxsType
  <2>7. /\ PartIndexed(nonceOf', chain', walked', applied')
        /\ applied' <= Len(chain'[walked' + 1].txs)
        /\ Covered' <= Len(chain')
    BY <1>1, <2>1, <2>4, <2>5, <2>6
  <2>. QED  BY <2>5, <2>7 DEF NonceInv
<1>8. CASE UNCHANGED <<chain, nonceOf, proc, walked, applied>>
  BY <1>8, NonceUntouched
<1>9. CASE RebuildBalance \/ UNCHANGED vars
  BY <1>8, <1>9 DEF RebuildBalance, vars, redis, process
<1>. QED  BY <1>3, <1>4, <1>5, <1>6, <1>7, <1>8, <1>9, OthersRead DEF Writers, Rebuild

\* Whenever the threads run the nonce index is the one the chain gives, for any
\* number of restarts, also ones that interrupt a rebuild, and any failures.
THEOREM NonceIndexCorrect == Spec => []NonceIndexExact
<1>1. Init => TypeOK /\ Agree /\ NonceInv
  BY InitType, InitNonce DEF Init, Agree, Judged
<1>2. TypeOK /\ Agree /\ NonceInv /\ [Next]_vars => TypeOK' /\ Agree' /\ NonceInv'
  BY NextType, NextAgree, NextNonce
<1>3. TypeOK /\ NonceInv => NonceIndexExact
  BY IndexedIsRebuilt DEF NonceInv, Booting, Covered, NonceIndexExact, TypeOK, TypeRedis
<1>. QED  BY <1>1, <1>2, <1>3, PTL DEF Spec

(***************************************************************************)
(* Balances.  INCRBY adds to whatever is there, so the index is exact only *)
(* as long as no boot goes over the chain a second time.                   *)
(***************************************************************************)

\* What RebuiltBalances computes on its way along the chain c.
Rebuilding(c) ==
    LET run[i \in 0..Len(c)] ==
            IF i = 0 THEN NoBalances ELSE BalancesAfter(run[i - 1], c[i].txs)
    IN  run

\* It starts from no balances and applies one block after the other.
LEMMA RebuildingSteps ==
    ASSUME NEW c \in Seq(BlockRecord)
    PROVE  /\ Rebuilding(c) \in [0..Len(c) -> [Accounts -> Int]]
           /\ Rebuilding(c)[0] = NoBalances
           /\ \A i \in 1..Len(c) :
                 Rebuilding(c)[i] = BalancesAfter(Rebuilding(c)[i - 1], c[i].txs)
<1>. DEFINE n == Len(c)
            V == [Accounts -> Int]
            step == [i \in 1..n |-> [x \in V |-> BalancesAfter(x, c[i].txs)]]
            Body(f) == [i \in 0..n |-> IF i = 0 THEN NoBalances
                                      ELSE BalancesAfter(f[i - 1], c[i].txs)]
            run == Rebuilding(c)
<1>1. n \in Nat /\ NoBalances \in V
  BY ConstantsType
<1>2. step \in [1..n -> [V -> V]]
  BY BlockTxsType, BalancesAfterType
<1>3. PICK f \in [0..n -> V] :
         f[0] = NoBalances /\ \A i \in 1..n : f[i] = step[i][f[i - 1]]
  <2>1. step \in Steps(n, V)
    BY <1>2 DEF Steps
  <2>. HIDE DEF step, n, V
  <2>2. Solvable(n, V, NoBalances, step)
    BY <2>1, <1>1, RecursionExists
  <2>. QED  BY <2>2 DEF Solvable
<1>4. ASSUME NEW i \in 1..n PROVE f[i] = BalancesAfter(f[i - 1], c[i].txs)
  <2>1. f[i] = step[i][f[i - 1]]
    BY <1>3
  <2>2. i - 1 \in 0..n
    BY <1>1
  <2>3. f[i - 1] \in V
    BY <2>2
  <2>. HIDE DEF V
  <2>4. step[i][f[i - 1]] = BalancesAfter(f[i - 1], c[i].txs)
    BY <2>3
  <2>. QED  BY <2>1, <2>4
<1>5. f = Body(f)
  <2>1. \A i \in 0..n : f[i] = Body(f)[i]
    BY <1>1, <1>3, <1>4
  <2>. QED  BY <2>1, <1>3
<1>6. run = CHOOSE g : g = Body(g)
  BY Zenon DEF Rebuilding
<1>7. run = Body(run)
  <2>. HIDE DEF Body, run
  <2>. QED  BY <1>5, <1>6, Zenon
<1>8. run[0] = NoBalances /\ \A i \in 1..n : run[i] = BalancesAfter(run[i - 1], c[i].txs)
  <2>. HIDE DEF run
  <2>. QED  BY <1>7, <1>1
<1>9. \A i \in 0..n : run[i] \in V
  <2>. HIDE DEF run
  <2>. DEFINE P == {i \in 0..n : run[i] \in V}
  <2>1. 0 \in P
    BY <1>8, <1>1
  <2>2. ASSUME NEW i \in 1..n, i - 1 \in P PROVE i \in P
    <3>1. run[i - 1] \in V /\ c[i].txs \in Seq(GoodTxs)
      BY <2>2, BlockTxsType
    <3>2. BalancesAfter(run[i - 1], c[i].txs) \in V
      BY <3>1, BalancesAfterType
    <3>. QED  BY <3>2, <1>8, <1>1
  <2>3. 0..n \subseteq P
    <3>. HIDE DEF P, n, V
    <3>. QED  BY <2>1, <2>2, <1>1, PositionsInduction
  <2>. QED  BY <2>3
<1>10. run \in [0..n -> V]
  <2>. HIDE DEF run, V
  <2>. QED  BY <1>7, <1>9
<1>. QED  BY <1>8, <1>10

\* A block without transactions changes no balance.
LEMMA NothingApplied ==
    ASSUME NEW bal \in [Accounts -> Int], NEW txs \in Seq(GoodTxs), Len(txs) = 0
    PROVE  BalancesAfter(bal, txs) = bal
<1>1. ASSUME NEW a \in Accounts PROVE BalancesAfter(bal, txs)[a] = bal[a]
  <2>1. bal[a] \in Int /\ Len(txs) = 0
    OBVIOUS
  <2>2. RunningBalance(bal[a], txs, a)[0] = bal[a]
    BY <2>1, RunningBalanceSteps
  <2>. QED  BY <2>1, <2>2 DEF BalancesAfter
<1>2. BalancesAfter(bal, txs) \in [Accounts -> Int]
  BY BalancesAfterType
<1>. QED  BY <1>1, <1>2

\* One more block is applied to what the blocks before it gave.
LEMMA RebuiltAppend ==
    ASSUME NEW c \in Seq(BlockRecord), NEW b \in BlockRecord
    PROVE  RebuiltBalances(Append(c, b)) = BalancesAfter(RebuiltBalances(c), b.txs)
<1>. DEFINE d == Append(c, b)
            n == Len(c)
            P == {i \in 0..n : Rebuilding(d)[i] = Rebuilding(c)[i]}
<1>1. /\ d \in Seq(BlockRecord) /\ Len(d) = n + 1 /\ n \in Nat
      /\ d[n + 1] = b /\ \A i \in 1..n : d[i] = c[i]
  OBVIOUS
<1>. HIDE DEF d
<1>2. /\ Rebuilding(d)[0] = NoBalances /\ Rebuilding(c)[0] = NoBalances
      /\ \A i \in 1..(n + 1) :
            Rebuilding(d)[i] = BalancesAfter(Rebuilding(d)[i - 1], d[i].txs)
      /\ \A i \in 1..n :
            Rebuilding(c)[i] = BalancesAfter(Rebuilding(c)[i - 1], c[i].txs)
  BY <1>1, RebuildingSteps
<1>3. 0 \in P
  BY <1>1, <1>2
<1>4. ASSUME NEW i \in 1..n, i - 1 \in P PROVE i \in P
  <2>1. i \in 1..(n + 1) /\ i \in 0..n
    BY <1>1
  <2>. QED  BY <1>1, <1>2, <1>4, <2>1
<1>5. 0..n \subseteq P
  <2>. HIDE DEF P, n
  <2>. QED  BY <1>1, <1>3, <1>4, PositionsInduction
<1>6. Rebuilding(d)[n] = Rebuilding(c)[n]
  BY <1>1, <1>5
<1>7. Rebuilding(d)[n + 1] = BalancesAfter(Rebuilding(d)[n], b.txs)
  BY <1>1, <1>2
<1>8. RebuiltBalances(d) = Rebuilding(d)[Len(d)] /\ RebuiltBalances(c) = Rebuilding(c)[n]
  BY DEF RebuiltBalances, Rebuilding
<1>9. RebuiltBalances(d) = BalancesAfter(RebuiltBalances(c), b.txs)
  BY <1>1, <1>6, <1>7, <1>8
<1>. QED  BY <1>9 DEF d

\* Without a crash the process never goes down.
NoCrash == MaxCrashes = 0

BalanceInv == proc = "up" /\ balance = RebuiltBalances(chain)

\* The genesis block leaves every balance at 0.
LEMMA InitBalance == Init => BalanceInv
<1>. SUFFICES ASSUME Init PROVE BalanceInv
  OBVIOUS
<1>1. chain = <<Genesis>> /\ balance = NoBalances /\ proc = "up"
  BY DEF Init
<1>2. chain \in Seq(BlockRecord) /\ Len(chain) = 1 /\ chain[1].txs = <<>>
  BY <1>1, ConstantsType DEF Genesis
<1>3. RebuiltBalances(chain) = BalancesAfter(NoBalances, chain[1].txs)
  <2>1. Rebuilding(chain)[1] = BalancesAfter(Rebuilding(chain)[0], chain[1].txs)
    BY <1>2, RebuildingSteps
  <2>2. Rebuilding(chain)[0] = NoBalances
    BY <1>2, RebuildingSteps
  <2>3. RebuiltBalances(chain) = Rebuilding(chain)[1]
    BY <1>2 DEF RebuiltBalances, Rebuilding
  <2>. QED  BY <1>2, <2>1, <2>2, <2>3
<1>4. chain[1].txs \in Seq(GoodTxs) /\ NoBalances \in [Accounts -> Int]
  BY <1>2, BlockTxsType, ConstantsType
<1>5. BalancesAfter(NoBalances, chain[1].txs) = NoBalances
  BY <1>2, <1>4, NothingApplied
<1>. QED  BY <1>1, <1>3, <1>5 DEF BalanceInv

\* Without a crash no boot adds a block's amounts a second time.
LEMMA NextBalance == NoCrash /\ TypeOK /\ Agree /\ BalanceInv /\ [Next]_vars => BalanceInv'
<1>. SUFFICES ASSUME NoCrash, TypeOK, Agree, BalanceInv, [Next]_vars PROVE BalanceInv'
  OBVIOUS
<1>1. CASE SaveBlock
  <2>1. /\ job \in BlockRecord /\ proc' = "up" /\ chain \in Seq(BlockRecord)
        /\ chain' = Append(chain, job) /\ balance' = BalancesAfter(balance, job.txs)
    BY <1>1, SavesWhileUp DEF SaveBlock, Persist, TypeOK, TypeRedis
  <2>2. balance' = RebuiltBalances(chain')
    BY <2>1, RebuiltAppend DEF BalanceInv
  <2>. QED  BY <2>1, <2>2 DEF BalanceInv
<1>2. ~Crash /\ ~Rebuild /\ ~StartThreads
  <2>1. used["crashes"] \in Nat
    BY DEF TypeOK, TypeEnv, Counted
  <2>. QED  BY <2>1 DEF Crash, May, NoCrash, Rebuild, RebuildBalance, RebuildNonce,
       RebuildBlock, Booting, StartThreads, BalanceInv
<1>3. CASE UNCHANGED <<chain, balance, proc>>
  <2>1. proc' = "up" /\ balance' = RebuiltBalances(chain')
    BY <1>3 DEF BalanceInv
  <2>. QED  BY <2>1 DEF BalanceInv
<1>4. CASE UNCHANGED vars
  BY <1>3, <1>4 DEF vars, redis, process
<1>. QED  BY <1>1, <1>2, <1>3, <1>4, OthersRead DEF Writers

\* Until the process is started a second time the balance index is the one the
\* chain gives, whatever blocks are saved and whatever calls fail.
THEOREM BalanceIndexCorrect ==
    ASSUME NoCrash
    PROVE  Spec => []BalanceIndexExact
<1>1. Init => TypeOK /\ Agree /\ BalanceInv
  BY InitType, InitBalance DEF Init, Agree, Judged
<1>2. TypeOK /\ Agree /\ BalanceInv /\ [Next]_vars => TypeOK' /\ Agree' /\ BalanceInv'
  BY NextType, NextAgree, NextBalance
<1>3. BalanceInv => BalanceIndexExact
  BY DEF BalanceInv, BalanceIndexExact
<1>. QED  BY <1>1, <1>2, <1>3, PTL DEF Spec
=============================================================================
