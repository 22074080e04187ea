------------------------------- MODULE Worker --------------------------------
(***************************************************************************)
(* The workers of one pool (worker/worker.py and miner/miner.py): they     *)
(* share the pool's durable queue of sub-tasks, mine one at a time and     *)
(* publish what they find to the pool's queue of results.  Each has an     *)
(* exclusive queue of abort messages that dies with its connection.        *)
(*                                                                         *)
(* A sub-task stays unacknowledged while it is mined: RabbitMQ puts it     *)
(* back at the head of its queue when the worker dies or loses its         *)
(* connection.                                                             *)
(***************************************************************************)
EXTENDS Naturals, Sequences

CONSTANTS
    Workers,          \* the workers of the pool
    Solutions,        \* the nonces that solve a block
    MayHappen,        \* the kinds of fault to consider
    MaxFaults         \* bound: faults of all kinds together

VARIABLES
    tasksQ,           \* pool.<id>.tasks: sub-tasks nobody has taken
    resultsQ,         \* pool.<id>.results
    control,          \* abort messages not yet read, by worker
    worker,           \* what each worker does
    registrations,    \* pool.<id>.registrations: who has announced itself
    abandoned,        \* history: blocks whose solution a miner gave up
    faults            \* how many of each kind have happened

workerVars == <<tasksQ, resultsQ, control, worker, registrations, abandoned>>

NoTask == [id |-> 0, index |-> 0, stamp |-> 0]
NoSubTask == [id |-> <<0, 0>>, of |-> NoTask, nonces |-> {}]
Idle == [pc |-> "idle", task |-> NoSubTask, aborted |-> FALSE]
Down == [Idle EXCEPT !.pc = "down"]
Mining(task) == [pc |-> "mining", task |-> task, aborted |-> FALSE]

\* The nonces of a sub-task that solve its block, and those its miner may find: a
\* GPU takes a share of no nonces for all of them (see Miner).
Hits(task) == task.nonces \intersect Solutions
Finds(task) == IF task.nonces = {} THEN Solutions ELSE Hits(task)

Set(w, state) == worker' = [worker EXCEPT ![w] = state]

\* A worker or its connection dies, a miner gives up, a heartbeat is late, the
\* coordinator loses its connection or starts again.
FaultKinds == {"death", "giveUp", "late", "interruption", "restart"}

Fault(kind) ==
    /\ kind \in MayHappen
    /\ faults["death"] + faults["giveUp"] + faults["late"]
         + faults["interruption"] + faults["restart"] < MaxFaults
    /\ faults' = [faults EXCEPT ![kind] = @ + 1]

Requeue(task) == tasksQ' = <<task>> \o tasksQ

\* "known": workers whose registration has been read.
WorkerInit(known) ==
    /\ tasksQ = <<>> /\ resultsQ = <<>>
    /\ control = [w \in Workers |-> {}]
    /\ worker = [w \in Workers |-> Idle]
    /\ registrations = Workers \ known
    /\ abandoned = {}
    /\ faults = [kind \in FaultKinds |-> 0]

----------------------------------------------------------------------------
(* One worker: a consumer with a prefetch of one, and the miner it runs.   *)

\* _do_task starts: the sub-task becomes the current one, _aborted is cleared.
Take(w) ==
    /\ worker[w].pc = "idle" /\ tasksQ # <<>>
    /\ Set(w, Mining(Head(tasksQ)))
    /\ tasksQ' = Tail(tasksQ)
    /\ UNCHANGED <<resultsQ, control, registrations, abandoned, faults>>

\* _on_control, between two polls of the miner or between two sub-tasks: only
\* an abort of the very task that is being mined counts.
OnControl(w) == \E id \in control[w] :
    /\ worker[w].pc \in {"idle", "mining"}
    /\ control' = [control EXCEPT ![w] = @ \ {id}]
    /\ worker' = [worker EXCEPT ![w].aborted =
                    @ \/ (worker[w].pc = "mining" /\ worker[w].task.id = id)]
    /\ UNCHANGED <<tasksQ, resultsQ, registrations, abandoned, faults>>

\* The miner is killed, or its result discarded: the sub-task is acknowledged.
MineAborted(w) ==
    /\ worker[w].pc = "mining" /\ worker[w].aborted
    /\ Set(w, Idle)
    /\ UNCHANGED <<tasksQ, resultsQ, control, registrations, abandoned, faults>>

\* The miner found a nonce: the result is published, then the sub-task is
\* acknowledged.
PublishResult(w) ==
    /\ worker[w].pc = "mining" /\ ~worker[w].aborted
    /\ \E nonce \in Finds(worker[w].task) :
        resultsQ' = Append(resultsQ, [id |-> worker[w].task.id,
                                      of |-> worker[w].task.of, nonce |-> nonce])
    /\ Set(w, [worker[w] EXCEPT !.pc = "ack"])
    /\ UNCHANGED <<tasksQ, control, registrations, abandoned, faults>>

AckTask(w) ==
    /\ worker[w].pc = "ack"
    /\ Set(w, Idle)
    /\ UNCHANGED <<tasksQ, resultsQ, control, registrations, abandoned, faults>>

\* The whole range was searched in vain: acknowledged without a result.
FoundNothing(w) ==
    /\ worker[w].pc = "mining" /\ ~worker[w].aborted
    /\ Hits(worker[w].task) = {}
    /\ Set(w, Idle)
    /\ UNCHANGED <<tasksQ, resultsQ, control, registrations, abandoned, faults>>

\* The miner fails or runs out of time (MinerError: no requeue), or the CPU
\* miner reports "No solution found" at its own time limit: the range has not
\* been searched, and the sub-task is gone.
GiveUp(w) ==
    /\ worker[w].pc = "mining" /\ ~worker[w].aborted
    /\ Set(w, Idle)
    /\ abandoned' = IF Hits(worker[w].task) = {} THEN abandoned
                    ELSE abandoned \union {worker[w].task.of.stamp}
    /\ Fault("giveUp")
    /\ UNCHANGED <<tasksQ, resultsQ, control, registrations>>

\* Variant: sub-tasks consumed with auto_ack.
RedeliverNothing(w) == UNCHANGED tasksQ

\* What happens to an unacknowledged sub-task whose consumer is gone.
Redeliver(w) ==
    IF worker[w].pc \in {"mining", "ack"} THEN Requeue(worker[w].task)
    ELSE UNCHANGED tasksQ

\* The process dies.
Die(w) ==
    /\ worker[w].pc # "down"
    /\ Redeliver(w)
    /\ Set(w, Down)
    /\ control' = [control EXCEPT ![w] = {}]
    /\ Fault("death")
    /\ UNCHANGED <<resultsQ, registrations, abandoned>>

\* The connection is lost; run() reconnects with a new control queue and does
\* not register again.
Reconnect(w) ==
    /\ worker[w].pc \in {"mining", "ack"}
    /\ Redeliver(w)
    /\ Set(w, Idle)
    /\ control' = [control EXCEPT ![w] = {}]
    /\ Fault("death")
    /\ UNCHANGED <<resultsQ, registrations, abandoned>>

\* run(): the consumer is set up, then the worker registers.
Restart(w) ==
    /\ worker[w].pc = "down"
    /\ Set(w, Idle)
    /\ registrations' = registrations \union {w}
    /\ UNCHANGED <<tasksQ, resultsQ, control, abandoned, faults>>

\* The steps a running worker takes on its own.
WorkerStep(w) ==
    \/ Take(w) \/ OnControl(w) \/ MineAborted(w)
    \/ PublishResult(w) \/ AckTask(w) \/ FoundNothing(w)

WorkerFault(w) == GiveUp(w) \/ Die(w) \/ Reconnect(w)
=============================================================================
