-------------------------------- MODULE MCNCT --------------------------------
(***************************************************************************)
(* NCT on small instances: one authority, one student, one vendor.         *)
(***************************************************************************)
EXTENDS NCT

CONSTANTS A, S, V      \* model values: authority, student, vendor

\* Handlers are interchangeable.
HandlerSymmetry == Permutations(Handlers)

MCAccounts == {A, S, V}

Earn(n, amount)  == [sender |-> A, receiver |-> S, type |-> "EARN",
                     amount |-> amount, nonce |-> n]
Spend(n, amount) == [sender |-> S, receiver |-> V, type |-> "SPEND",
                     amount |-> amount, nonce |-> n]

\* One EARN, a SPEND it covers, a second SPEND with the next nonce that the
\* balance covers only if it is applied twice.
SmallTxs == {Earn(0, 2), Spend(0, 2), Spend(1, 1)}

\* Requests the handler refuses: tokens issued by the student, a payment of
\* nothing, a payment to oneself, a nonce beyond the window.
BadTxs == {[Earn(0, 2) EXCEPT !.sender = S, !.receiver = V], Spend(0, 0),
           [Spend(0, 1) EXCEPT !.receiver = S], Spend(9, 1)}

\* Two EARN of one sender and a SPEND, for short runs.
PairTxs == {Earn(0, 2), Earn(1, 1), Spend(0, 2)}

\* Two EARN of one sender with one nonce: only one of them can be mined.
RivalTxs == {Earn(0, 2), Earn(0, 1), Spend(0, 2)}

CoreTxs == SmallTxs \union BadTxs
=============================================================================
