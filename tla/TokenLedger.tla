----------------------------- MODULE TokenLedger -----------------------------
(***************************************************************************)
(* What the system promises to its users, with nothing said of blocks,     *)
(* mining, queues or Redis: one growing list of transactions in which only *)
(* the authority issues tokens, nobody spends what they have not earned,   *)
(* and no sender's nonce is used twice.                                    *)
(***************************************************************************)
EXTENDS Ledger

VARIABLE ledger

Issued(txs) == \A i \in DOMAIN txs : txs[i].type = "EARN" => txs[i].sender = Authority

NoOverdraft(txs) ==
    \A n \in 0..Len(txs) : \A a \in Accounts :
        BalancesAfter(NoBalances, SubSeq(txs, 1, n))[a] >= 0

FreshNonces(txs) ==
    \A i, j \in DOMAIN txs :
        i < j /\ txs[i].sender = txs[j].sender => txs[i].nonce < txs[j].nonce

Sound(txs) == Issued(txs) /\ NoOverdraft(txs) /\ FreshNonces(txs)

Init == ledger = <<>>

\* Some transactions are appended, all at once, and none is ever taken back.
Extend ==
    /\ ledger' # ledger
    /\ IsPrefix(ledger, ledger')
    /\ Sound(ledger')

Next == Extend

Spec == Init /\ [][Next]_ledger
=============================================================================
