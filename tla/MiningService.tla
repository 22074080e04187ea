---------------------------- MODULE MiningService ----------------------------
(***************************************************************************)
(* What a pool promises the NCT, with nothing said of workers, rounds,     *)
(* monitors or queues.  A task that was asked for is open until the pool   *)
(* is done with it, and is never opened again.  Only the oldest open task  *)
(* is answered, with a nonce that solves its very block, and once; each    *)
(* mishap (a lost connection, a restart) allows one answer more.           *)
(*                                                                         *)
(* A task may be closed without an answer: that every task is answered is  *)
(* not promised.                                                           *)
(***************************************************************************)
EXTENDS Naturals, Sequences, FiniteSets

CONSTANT Solutions    \* the nonces that solve a block

VARIABLES
    asked,            \* the last task the NCT asked for
    open,             \* the tasks that may be answered
    answers,          \* each with its task, the block it is of, and the nonce
    mishaps           \* how many there were

vars == <<asked, open, answers, mishaps>>

Task == [id : Nat, index : Nat, stamp : Nat]

Init ==
    /\ asked = [id |-> 0, index |-> 0, stamp |-> 0]
    /\ open = {} /\ answers = <<>> /\ mishaps = 0

\* Tasks are numbered in the order they are asked for.
Ask ==
    /\ asked' \in Task /\ asked'.id = asked.id + 1
    /\ open' = open \union {asked'}
    /\ UNCHANGED <<answers, mishaps>>

To(task) == {i \in DOMAIN answers : answers[i].for = task}

Answer == \E task \in open, nonce \in Solutions :
    /\ \A other \in open : task.id <= other.id
    /\ Cardinality(To(task)) <= mishaps
    /\ answers' = Append(answers, [for |-> task, stamp |-> task.stamp,
                                   nonce |-> nonce])
    /\ UNCHANGED <<asked, open, mishaps>>

Close ==
    /\ open' \subseteq open /\ open' # open
    /\ UNCHANGED <<asked, answers, mishaps>>

Mishap ==
    /\ mishaps' = mishaps + 1 /\ open' \subseteq open
    /\ UNCHANGED <<asked, answers>>

Next == Ask \/ Answer \/ Close \/ Mishap

Spec == Init /\ [][Next]_vars
=============================================================================
