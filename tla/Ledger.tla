------------------------------- MODULE Ledger -------------------------------
(***************************************************************************)
(* Transactions, blocks and the indexes derived from the chain: the pure   *)
(* part of pilar2/shared/block.py, pilar2/storage/chain_store.py and       *)
(* nct.drain_pool_validated.                                               *)
(*                                                                         *)
(* A transaction is a record of the fields its tx_id is computed from, so  *)
(* two posts of the same content are the same value (the signature and the *)
(* arrival time are outside the tx_id).  A hash is collision free, and     *)
(* `prev' names the place in the chain of the block whose hash it holds.   *)
(* `stamp' stands for the creation time, the field that makes the          *)
(* fingerprint of two blocks of the same height and contents differ.       *)
(***************************************************************************)
EXTENDS Integers, Sequences, FiniteSets, SequencesExt

CONSTANTS Accounts,   \* public keys
          Authority,  \* the only key that may issue EARN
          Txs         \* the transactions clients may post

Types == {"EARN", "SPEND"}

TxRecord == [sender : Accounts, receiver : Accounts, type : Types,
             amount : Int, nonce : Int]


MaxAmount == 1000000000

\* Transaction.validate, without the formats of keys and signatures.
WellFormed(tx) ==
    /\ tx.sender # tx.receiver
    /\ tx.amount \in 1..MaxAmount
    /\ tx.type \in Types
    /\ tx.nonce >= 0

GoodTxs == {tx \in Txs : WellFormed(tx)}

ASSUME LedgerAssumption ==
    /\ Authority \in Accounts
    /\ Txs \subseteq TxRecord
    /\ GoodTxs # {}

Genesis == [index |-> 0, prev |-> 0, txs |-> <<>>, stamp |-> 0]

BlockRecord == [index : Nat, prev : Nat, txs : Seq(GoodTxs), stamp : Nat]

----------------------------------------------------------------------------
(* The balance and nonce indexes of chain_store. *)

\* An EARN credits its receiver, a SPEND debits its sender; the receiver of
\* a SPEND is not credited.
Delta(tx, a) ==
    IF tx.type = "EARN" /\ tx.receiver = a THEN tx.amount
    ELSE IF tx.type = "SPEND" /\ tx.sender = a THEN -tx.amount
    ELSE 0

\* INCRBY for every transaction of txs, in order.
RunningBalance(start, txs, a) ==
    LET run[i \in 0..Len(txs)] ==
            IF i = 0 THEN start ELSE run[i - 1] + Delta(txs[i], a)
    IN  run

BalancesAfter(bal, txs) ==
    [a \in Accounts |-> RunningBalance(bal[a], txs, a)[Len(txs)]]

\* Positions of a's transactions in txs.
SentBy(a, txs) == {i \in DOMAIN txs : txs[i].sender = a}

\* SET nonce for every transaction of txs, in order: the last writer wins.
NoncesAfter(nonces, txs) ==
    [a \in Accounts |->
        IF SentBy(a, txs) = {} THEN nonces[a]
        ELSE txs[Max(SentBy(a, txs))].nonce + 1]

NoBalances == [a \in Accounts |-> 0]
NoNonces   == [a \in Accounts |-> 0]

\* Every transaction on the chain, in chain order.
ChainTxs(chain) == FlattenSeq([i \in DOMAIN chain |-> chain[i].txs])

\* The blocks that hold a transaction of a.
BlocksOf(a, chain) == {b \in DOMAIN chain : SentBy(a, chain[b].txs) # {}}

\* What the indexes should say: computed from the chain, from scratch.
RebuiltBalances(chain) ==
    LET run[i \in 0..Len(chain)] ==
            IF i = 0 THEN NoBalances ELSE BalancesAfter(run[i - 1], chain[i].txs)
    IN  run[Len(chain)]

RebuiltNonces(chain) ==
    [a \in Accounts |->
        IF BlocksOf(a, chain) = {} THEN 0
        ELSE NoncesAfter(NoNonces, chain[Max(BlocksOf(a, chain))].txs)[a]]

\* Block.validate of chain[i] against its predecessor (validate_chain walks
\* all of them); the proof of work was checked before the block was saved.
BlockValid(chain, i) ==
    /\ i > 1 => /\ chain[i].index = chain[i - 1].index + 1
                /\ chain[i].prev = i - 1
    /\ chain[i].index = 0 => chain[i].prev = 0
    /\ chain[i].index > 0 => chain[i].txs # <<>>
    /\ \A k \in DOMAIN chain[i].txs : WellFormed(chain[i].txs[k])

----------------------------------------------------------------------------
(* The pool: a list, kept as a set of transactions and their places in it. *)

PoolEntry == [at : Nat, tx : GoodTxs]

TxsOf(entries) == {e.tx : e \in entries}

\* nct.drain_pool_validated, phase 2: group the snapshot by sender in order of
\* first appearance, then sort each group by nonce; Python's sort is stable.
FirstSeen(snap, s) == Min({e.at : e \in {f \in snap : f.tx.sender = s}})

Before(snap, e, f) ==
    LET first(x) == FirstSeen(snap, x.tx.sender)
    IN  \/ first(e) < first(f)
        \/ /\ first(e) = first(f)
           /\ \/ e.tx.nonce < f.tx.nonce
              \/ e.tx.nonce = f.tx.nonce /\ e.at < f.at

----------------------------------------------------------------------------
\* GET /account: confirmed nonce, advanced over the contiguous nonces of the
\* sender's transactions in the pool.
PendingNonce(pool, nonces, a) ==
    LET have == {e.tx.nonce : e \in {f \in pool : f.tx.sender = a}}
    IN  CHOOSE n \in nonces[a]..(nonces[a] + Cardinality(pool)) :
            /\ n \notin have
            /\ nonces[a]..(n - 1) \subseteq have
=============================================================================
