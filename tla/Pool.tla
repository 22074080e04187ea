-------------------------------- MODULE Pool ---------------------------------
(***************************************************************************)
(* One pool coordinator (pool/pool.py) and its workers.  The coordinator's *)
(* main thread consumes the tasks of the NCT, the results, heartbeats and  *)
(* registrations of its workers; each task starts one more monitor thread, *)
(* which publishes the task again when it counts fewer workers.            *)
(*                                                                         *)
(* The main thread acknowledges a message after it has handled it, so the  *)
(* message stays at the head of its queue until then.  The NCT is an       *)
(* environment: it publishes blocks, publishes one again after a timeout   *)
(* or, restarted, another block of the same height, and aborts the         *)
(* sub-task it was answered with.                                          *)
(***************************************************************************)
EXTENDS Worker, Partition, FiniteSets, SequencesExt

CONSTANTS
    Space,            \* the size of the nonce range of a task
    Starts,           \* the workers known, one set for each start to consider
    Fallbacks,        \* values of POOL_WORKER_COUNT to consider
    MaxTasks,         \* bound: tasks the NCT publishes while nothing is lost
    MaxRetries,       \* bound: further retries after what may lose a solution
    MaxRounds         \* bound: rounds after which no monitor takes a turn

ASSUME PoolAssumption ==
    /\ Space \in Nat \ {0} /\ Solutions \subseteq Nat
    /\ Fallbacks \subseteq Nat /\ Starts \subseteq SUBSET Workers
    /\ IsFiniteSet(Workers) /\ MayHappen \subseteq FaultKinds
    /\ {MaxFaults, MaxTasks, MaxRetries, MaxRounds} \subseteq Nat

VARIABLES
    latest,           \* the NCT's last task
    inbox,            \* pool.<id>.inbox: tasks not yet acknowledged
    out,              \* the results forwarded to the NCT
    answered,         \* how many of them the NCT has read
    reports,          \* pool_no_workers messages
    fallback,         \* _worker_count_fallback
    current,          \* the mining context: _current_block_index, ...
    ppc, count,       \* main thread, and the worker count it has read
    original,         \* _original_worker_count
    armed,            \* _monitor_active
    monitors,         \* monitor threads; _monitor_generation is their number
    seen,             \* _worker_heartbeats that are recent, and _ready_workers
    registered,       \* _registered_workers
    round             \* history: times publish_tasks was called

nct      == <<latest, inbox, out, answered, reports>>
main     == <<current, ppc, count>>
watch    == <<original, armed, monitors>>
registry == <<seen, registered>>
vars     == <<workerVars, nct, fallback, main, watch, registry, round, faults>>

Done   == [pc |-> "done", task |-> NoTask, active |-> 0]

Init ==
    /\ \E known \in Starts :
        WorkerInit(known) /\ seen = known /\ registered = known
    /\ latest = NoTask /\ inbox = <<>> /\ out = <<>> /\ answered = 0
    /\ reports = 0 /\ fallback \in Fallbacks
    /\ current = NoTask /\ ppc = "idle" /\ count = 0
    /\ original = 0 /\ armed = FALSE /\ monitors = <<>>
    /\ round = 0

----------------------------------------------------------------------------
(* The registry of workers.                                                *)

\* _get_active_worker_count: once anybody has registered, only workers that
\* have count.
Active == IF registered = {} THEN seen ELSE seen \intersect registered
ActiveCount == Cardinality(Active)

\* The number of sub-tasks for a number of active workers.
Shares(active) == IF active > 0 THEN active ELSE fallback

OnRegistration(w) ==
    /\ ppc = "idle" /\ w \in registrations
    /\ registrations' = registrations \ {w}
    /\ registered' = registered \union {w}
    /\ UNCHANGED <<tasksQ, resultsQ, control, worker, abandoned, nct, fallback,
                   main, watch, seen, round, faults>>

\* A heartbeat is read, also one that its worker left in the queue when it died.
OnHeartbeat(w) ==
    /\ ppc = "idle" /\ w \notin seen
    /\ seen' = seen \union {w}
    /\ UNCHANGED <<workerVars, nct, fallback, main, watch, registered, round,
                   faults>>

\* The last heartbeat of a worker is older than heartbeat_timeout: the worker
\* is down, or its heartbeats are late.
Expire(w) ==
    /\ w \in seen
    /\ IF worker[w].pc = "down" THEN UNCHANGED faults ELSE Fault("late")
    /\ seen' = seen \ {w}
    /\ UNCHANGED <<workerVars, nct, fallback, main, watch, registered, round>>

----------------------------------------------------------------------------
(* publish_tasks: sub-tasks with identifiers of their own.  "of" is the    *)
(* task they were cut from; a worker reads its block and fingerprint only. *)

NctId(task) == <<0, task.id>>

SubTasks(task, n) ==
    [i \in 1 .. n |-> [id |-> <<round + 1, i>>, of |-> task,
                       nonces |-> SubRange(Space, n, i - 1)]]

PublishTasks(task, n) ==
    /\ tasksQ' = tasksQ \o SubTasks(task, n)
    /\ round' = round + 1

\* An abort message reaches the control queue of every running worker.
Broadcast(id) ==
    control' = [w \in Workers |->
                  IF worker[w].pc = "down" THEN {} ELSE control[w] \union {id}]

----------------------------------------------------------------------------
(* Main thread: _on_mining_task.                                           *)

\* The workers are counted and the mining context is replaced.
OnTask ==
    /\ ppc = "idle" /\ inbox # <<>> /\ Shares(ActiveCount) > 0
    /\ count' = Shares(ActiveCount)
    /\ current' = Head(inbox)
    /\ ppc' = "publish"
    /\ UNCHANGED <<workerVars, nct, fallback, watch, registry, round, faults>>

\* Nobody to mine: the NCT is told and the task is dropped.
SkipTask ==
    /\ ppc = "idle" /\ inbox # <<>> /\ Shares(ActiveCount) = 0
    /\ reports' = reports + 1
    /\ inbox' = Tail(inbox)
    /\ UNCHANGED <<workerVars, latest, out, answered, fallback, main, watch,
                   registry, round, faults>>

PublishSubTasks ==
    /\ ppc = "publish"
    /\ PublishTasks(current, count)
    /\ ppc' = "original"
    /\ UNCHANGED <<resultsQ, control, worker, registrations, abandoned, nct,
                   fallback, current, count, watch, registry, faults>>

SetOriginal ==
    /\ ppc = "original"
    /\ original' = count
    /\ ppc' = "arm"
    /\ UNCHANGED <<workerVars, nct, fallback, current, count, armed, monitors,
                   registry, round, faults>>

\* Variant: the event is not set for the new monitor.
StartUnarmed ==
    /\ UNCHANGED armed
    /\ monitors' = Append(monitors, [Done EXCEPT !.pc = "check"])
    /\ ppc' = "idle" /\ count' = 0

\* A new generation, its thread, and the ack.
StartMonitor ==
    /\ armed' = TRUE
    /\ monitors' = Append(monitors, [Done EXCEPT !.pc = "check"])
    /\ ppc' = "idle" /\ count' = 0

Arm ==
    /\ ppc = "arm"
    /\ StartMonitor
    /\ inbox' = Tail(inbox)
    /\ UNCHANGED <<workerVars, latest, out, answered, reports, fallback, current,
                   original, registry, round, faults>>

\* The connection is lost while the sub-tasks are being published, or at the
\* ack: the task will be delivered again.
PublishFails == \E sent \in 0 .. count - 1 :
    /\ ppc = "publish"
    /\ tasksQ' = tasksQ \o SubSeq(SubTasks(current, count), 1, sent)
    /\ round' = round + 1
    /\ ppc' = "idle" /\ count' = 0
    /\ Fault("interruption")
    /\ UNCHANGED <<resultsQ, control, worker, registrations, abandoned, nct,
                   fallback, current, watch, registry>>

\* Variant: what is not acknowledged comes back behind the other tasks.
TaskComesBackLast ==
    /\ ppc = "arm"
    /\ StartMonitor
    /\ inbox' = Append(Tail(inbox), current)
    /\ Fault("interruption")
    /\ UNCHANGED <<workerVars, latest, out, answered, reports, fallback, current,
                   original, registry, round>>

TaskAckLost ==
    /\ ppc = "arm"
    /\ StartMonitor
    /\ Fault("interruption")
    /\ UNCHANGED <<workerVars, nct, fallback, current, original, registry,
                   round>>

----------------------------------------------------------------------------
(* Main thread: _on_worker_result.                                         *)

\* Variants: the sub-task's identifier is compared, the hash is not verified.
StaleById(result) == current = NoTask \/ result.id # NctId(current)
SolvesAny(result) == result.nonce \in Solutions

Stale(result) == current = NoTask \/ result.of.index # current.index

\* Block.verify_result: a nonce solves the fingerprint it was searched for.
Solves(result) == result.of.stamp = current.stamp /\ result.nonce \in Solutions

\* A result of another block is acknowledged, one that does not solve the
\* current fingerprint is rejected: both are gone.
DropResult ==
    /\ ppc = "idle" /\ resultsQ # <<>>
    /\ Stale(Head(resultsQ)) \/ ~Solves(Head(resultsQ))
    /\ resultsQ' = Tail(resultsQ)
    /\ UNCHANGED <<tasksQ, control, worker, registrations, abandoned, nct,
                   fallback, main, watch, registry, round, faults>>

Forward ==
    /\ ppc = "idle" /\ resultsQ # <<>>
    /\ ~Stale(Head(resultsQ)) /\ Solves(Head(resultsQ))
    /\ out' = Append(out, [result |-> Head(resultsQ), for |-> current])
    /\ ppc' = "clear"
    /\ UNCHANGED <<workerVars, latest, inbox, answered, reports, fallback,
                   current, count, watch, registry, round, faults>>

\* Variant: the context stays.
AckOnly ==
    /\ ppc = "clear"
    /\ resultsQ' = Tail(resultsQ)
    /\ ppc' = "idle"
    /\ UNCHANGED <<tasksQ, control, worker, registrations, abandoned, nct,
                   fallback, current, count, watch, registry, round, faults>>

\* Acknowledged; the mining context is cleared under the lock.
ClearContext ==
    /\ ppc = "clear"
    /\ resultsQ' = Tail(resultsQ)
    /\ armed' = FALSE
    /\ current' = NoTask
    /\ ppc' = "idle"
    /\ UNCHANGED <<tasksQ, control, worker, registrations, abandoned, nct,
                   fallback, count, original, monitors, registry, round, faults>>

\* The forward or the ack raises: the result stays unacknowledged and the
\* context current.
ForwardFails ==
    /\ ppc = "idle" /\ resultsQ # <<>>
    /\ ~Stale(Head(resultsQ)) /\ Solves(Head(resultsQ))
    /\ Fault("interruption")
    /\ UNCHANGED <<workerVars, nct, fallback, main, watch, registry, round>>

ResultAckLost ==
    /\ ppc = "clear"
    /\ ppc' = "idle"
    /\ Fault("interruption")
    /\ UNCHANGED <<workerVars, nct, fallback, current, count, watch, registry,
                   round>>

----------------------------------------------------------------------------
(* Monitor threads: _monitor_loop(generation).                             *)

Generation == Len(monitors)
SetMonitor(g, state) == monitors' = [monitors EXCEPT ![g] = state]

\* The loop's conditions hold: another turn.  The wait on the event returns at
\* once while the event is set.
MonitorTurns(g) ==
    /\ monitors[g].pc = "check" /\ armed /\ g = Generation
    /\ round < MaxRounds
    /\ SetMonitor(g, [Done EXCEPT !.pc = "snapshot"])
    /\ UNCHANGED <<workerVars, nct, fallback, main, original, armed, registry,
                   round, faults>>

\* An answer was forwarded, or a newer monitor has started: the thread ends.
MonitorEnds(g) ==
    /\ monitors[g].pc = "check" /\ ~(armed /\ g = Generation)
    /\ SetMonitor(g, Done)
    /\ UNCHANGED <<workerVars, nct, fallback, main, original, armed, registry,
                   round, faults>>

\* The mining context, under the lock; without one the thread ends.
MonitorSnapshot(g) ==
    /\ monitors[g].pc = "snapshot"
    /\ SetMonitor(g, IF current = NoTask THEN Done
                     ELSE [Done EXCEPT !.pc = "count", !.task = current])
    /\ UNCHANGED <<workerVars, nct, fallback, main, original, armed, registry,
                   round, faults>>

\* The workers are counted; the number the task was published for is read
\* afterwards, and the main thread may have changed it meanwhile.
MonitorCounts(g) ==
    /\ monitors[g].pc = "count"
    /\ SetMonitor(g, [monitors[g] EXCEPT !.pc = "compare",
                                         !.active = ActiveCount])
    /\ UNCHANGED <<workerVars, nct, fallback, main, original, armed, registry,
                   round, faults>>

\* As many workers as the task was published for: another turn.
MonitorWaits(g) ==
    /\ monitors[g].pc = "compare" /\ monitors[g].active >= original
    /\ SetMonitor(g, [Done EXCEPT !.pc = "check"])
    /\ UNCHANGED <<workerVars, nct, fallback, main, original, armed, registry,
                   round, faults>>

\* Fewer: the survivors are sent an abort of the NCT's task.
MonitorAborts(g) ==
    /\ monitors[g].pc = "compare" /\ monitors[g].active < original
    /\ SetMonitor(g, [monitors[g] EXCEPT !.pc = "publish"])
    /\ IF monitors[g].active > 0 THEN Broadcast(NctId(monitors[g].task))
       ELSE UNCHANGED control
    /\ UNCHANGED <<tasksQ, resultsQ, worker, registrations, abandoned, nct,
                   fallback, main, original, armed, registry, round, faults>>

\* The whole range is published again.
MonitorPublishes(g) ==
    /\ monitors[g].pc = "publish" /\ Shares(monitors[g].active) > 0
    /\ PublishTasks(monitors[g].task, Shares(monitors[g].active))
    /\ SetMonitor(g, [monitors[g] EXCEPT !.pc = "original"])
    /\ UNCHANGED <<resultsQ, control, worker, registrations, abandoned, nct,
                   fallback, main, original, armed, registry, faults>>

\* Variant: the thread ends once it has published.
MonitorSetsAndEnds(g) ==
    /\ monitors[g].pc = "original"
    /\ original' = Shares(monitors[g].active)
    /\ SetMonitor(g, Done)
    /\ UNCHANGED <<workerVars, nct, fallback, main, armed, registry, round,
                   faults>>

MonitorSetsOriginal(g) ==
    /\ monitors[g].pc = "original"
    /\ original' = Shares(monitors[g].active)
    /\ SetMonitor(g, [Done EXCEPT !.pc = "check"])
    /\ UNCHANGED <<workerVars, nct, fallback, main, armed, registry, round,
                   faults>>

\* Nobody left and no fallback: the NCT is told, and the thread ends.
MonitorReports(g) ==
    /\ monitors[g].pc = "publish" /\ Shares(monitors[g].active) = 0
    /\ reports' = reports + 1
    /\ SetMonitor(g, Done)
    /\ UNCHANGED <<workerVars, latest, inbox, out, answered, fallback, main,
                   original, armed, registry, round, faults>>

----------------------------------------------------------------------------
(* The coordinator's process, and the NCT.                                 *)

\* The coordinator dies and starts again: it has forgotten the block it was
\* mining and every worker, its queues have not.
Crash ==
    /\ Fault("restart")
    /\ current' = NoTask /\ ppc' = "idle" /\ count' = 0
    /\ original' = 0 /\ armed' = FALSE /\ monitors' = <<>>
    /\ seen' = {} /\ registered' = {}
    /\ UNCHANGED <<workerVars, nct, fallback, round>>

NctPublishes(index, stamp) ==
    LET task == [id |-> latest.id + 1, index |-> index, stamp |-> stamp] IN
    /\ latest' = task
    /\ inbox' = Append(inbox, task)
    /\ UNCHANGED <<workerVars, out, answered, reports, fallback, main, watch,
                   registry, round, faults>>

NctNextBlock ==
    /\ latest.id < MaxTasks
    /\ NctPublishes(latest.index + 1, latest.stamp + 1)

\* Another block of the same height.
NctRestarts ==
    /\ latest # NoTask /\ latest.id < MaxTasks
    /\ NctPublishes(latest.index, latest.stamp + 1)

AnsweredWith(stamp) == \E i \in DOMAIN out : out[i].result.of.stamp = stamp

\* The pool did not answer, and nothing is left in a queue or a worker's hands.
Quiet ==
    /\ ~AnsweredWith(latest.stamp) /\ inbox = <<>> /\ ppc = "idle"
    /\ tasksQ = <<>> /\ resultsQ = <<>>
    /\ \A w \in Workers : worker[w].pc \in {"idle", "down"}

\* The same block once more: no answer came before the NCT's timeout.  The tasks
\* beyond MaxTasks are for a pool that has forgotten the block or lost its
\* solution, and come when it is quiet.
Spare == Min({MaxRetries, faults["restart"] + faults["giveUp"]})

NctRetries ==
    /\ latest # NoTask
    /\ latest.id < MaxTasks \/ (Quiet /\ latest.id < MaxTasks + Spare)
    /\ NctPublishes(latest.index, latest.stamp)

\* handle_result: the abort names the sub-task the answer came from.
NctAborts ==
    /\ answered < Len(out)
    /\ answered' = answered + 1
    /\ Broadcast(out[answered + 1].result.id)
    /\ UNCHANGED <<tasksQ, resultsQ, worker, registrations, abandoned, latest,
                   inbox, out, reports, fallback, main, watch, registry, round,
                   faults>>

----------------------------------------------------------------------------

TaskStep == OnTask \/ SkipTask \/ PublishSubTasks \/ SetOriginal \/ Arm
ResultStep == DropResult \/ Forward \/ ClearContext
MainFault ==
    PublishFails \/ TaskAckLost \/ ForwardFails \/ ResultAckLost \/ Crash

MonitorStep(g) ==
    \/ MonitorTurns(g) \/ MonitorEnds(g) \/ MonitorSnapshot(g) \/ MonitorCounts(g)
    \/ MonitorWaits(g) \/ MonitorAborts(g) \/ MonitorPublishes(g)
    \/ MonitorSetsOriginal(g) \/ MonitorReports(g)

\* What the workers do touches nothing of the coordinator but its queues.
WorkersNext == \E w \in Workers :
    /\ WorkerStep(w) \/ WorkerFault(w) \/ Restart(w)
    /\ UNCHANGED <<nct, fallback, main, watch, registry, round>>

NctNext == NctNextBlock \/ NctRetries \/ NctRestarts \/ NctAborts

RegistryNext ==
    \E w \in Workers : OnRegistration(w) \/ OnHeartbeat(w) \/ Expire(w)

Next ==
    \/ WorkersNext \/ NctNext \/ RegistryNext
    \/ TaskStep \/ ResultStep \/ MainFault
    \/ \E g \in 1 .. Generation : MonitorStep(g)

Spec == Init /\ [][Next]_vars

\* The threads and the broker go on, dead workers are started again, and of
\* what a thread finds ready it handles everything in the end.  The NCT does not
\* wait for ever: it publishes its block again after a timeout.
Fairness ==
    /\ WF_vars(TaskStep \/ ResultStep)
    /\ WF_vars(NctRetries)
    /\ \A w \in Workers :
        WF_vars((WorkerStep(w) \/ Restart(w))
                /\ UNCHANGED <<nct, fallback, main, watch, registry, round>>)

FairSpec == Spec /\ Fairness

----------------------------------------------------------------------------
(* Properties. *)

NctTask == [id : Nat, index : Nat, stamp : Nat]
SubTask == [id : Nat \X Nat, of : NctTask, nonces : SUBSET (0 .. Space - 1)]
Result  == [id : Nat \X Nat, of : NctTask, nonce : Nat]
Answer  == [result : Result, for : NctTask]
WorkerRecord ==
    [pc : {"idle", "mining", "ack", "down"}, task : SubTask, aborted : BOOLEAN]
MonitorRecord ==
    [pc : {"check", "snapshot", "count", "compare", "publish", "original",
           "done"},
     task : NctTask, active : Nat]

TypeWorker ==
    /\ tasksQ \in Seq(SubTask) /\ resultsQ \in Seq(Result)
    /\ control \in [Workers -> SUBSET (Nat \X Nat)]
    /\ worker \in [Workers -> WorkerRecord]
    /\ registrations \subseteq Workers /\ abandoned \subseteq Nat

TypePool ==
    /\ latest \in NctTask /\ inbox \in Seq(NctTask)
    /\ out \in Seq(Answer) /\ answered \in Nat /\ reports \in Nat
    /\ fallback \in Fallbacks
    /\ current \in NctTask /\ count \in Nat /\ original \in Nat
    /\ ppc \in {"idle", "publish", "original", "arm", "clear"}
    /\ armed \in BOOLEAN /\ monitors \in Seq(MonitorRecord)
    /\ seen \subseteq Workers /\ registered \subseteq Workers
    /\ round \in Nat /\ faults \in [FaultKinds -> Nat]

\* Every variable keeps its type.
TypeOK == TypeWorker /\ TypePool

\* Each of these may repeat an answer.
Mishaps == faults["interruption"] + faults["restart"]

\* The NCT gets one answer for each task it published: a second result of the
\* same block, from another worker or from a round of the monitor, is
\* recognised as stale.  Only a lost ack or a restart may repeat an answer.
ForwardedOnce ==
    \A i \in DOMAIN out :
        Cardinality({j \in DOMAIN out : out[j].for = out[i].for})
            <= 1 + Mishaps

\* The NCT gets the answers in the order in which it published the tasks: none to
\* an older one after one to a newer, though tasks are delivered again and the
\* results of several rounds share a queue.
AnswersInOrder ==
    \A i, j \in DOMAIN out : i < j => out[i].for.id <= out[j].for.id

\* The pool is a MiningService: the tasks in its inbox and the one it mines are
\* open, and what it forwarded are the answers.  So what was answered, replaced or
\* forgotten in a restart, and has left the inbox, is not answered any more.
Open == (ToSet(inbox) \union {current}) \ {NoTask}
Given(answer) == [for |-> answer.for, stamp |-> answer.result.of.stamp,
                  nonce |-> answer.result.nonce]
Service == INSTANCE MiningService
    WITH asked <- latest, open <- Open, mishaps <- Mishaps,
         answers <- [i \in DOMAIN out |-> Given(out[i])]
KeepsService == Service!Spec

Redone == inbox # <<>> /\ Head(inbox) = current

\* Where the solution of the current block can still come from.
Carries(task) == task.of.stamp = current.stamp /\ Hits(task) # {}
Carried ==
    \/ \E i \in DOMAIN tasksQ : Carries(tasksQ[i])
    \/ \E i \in DOMAIN resultsQ : resultsQ[i].of.stamp = current.stamp
    \/ \E w \in Workers : /\ worker[w].pc = "mining" /\ ~worker[w].aborted
                          /\ Carries(worker[w].task)

\* Whatever dies, is aborted, published again or delivered twice, the nonces
\* that solve the current block stay in the queue, in a worker's hands or among
\* the results, unless a miner gave them up or nobody was there to mine.
SolutionKept ==
    current # NoTask /\ ppc # "publish"
        => Carried \/ Redone \/ current.stamp \in abandoned \/ reports > 0

\* While a block is current a monitor of the newest generation watches over it,
\* though monitors end when they find no block and a task may come meanwhile.
Watched ==
    current # NoTask /\ ppc = "idle" /\ ~Redone /\ reports = 0
        => armed /\ monitors[Generation].pc # "done"

\* The NCT gets an answer to the block it waits for, unless it goes on to another
\* one or is told that nobody is there: also when a worker dies or gives the
\* solution up, and when the coordinator starts again and has forgotten the block.
Answered ==
    \A s \in 1 .. MaxTasks :
        (latest.stamp = s) ~> (AnsweredWith(s) \/ latest.stamp # s \/ reports > 0)

\* "Abort surviving workers before republishing so they discard their old
\* (now-overlapping) sub-ranges cleanly": two workers that have read every
\* abort never search for the same nonces of one task.
Searching(w) == /\ worker[w].pc = "mining" /\ ~worker[w].aborted
                /\ control[w] = {}
NoOverlap ==
    \A w, v \in Workers :
        /\ w # v /\ Searching(w) /\ Searching(v)
        /\ worker[w].task.of = worker[v].task.of
        => worker[w].task.nonces \intersect worker[v].task.nonces = {}
=============================================================================
