----------------------------- MODULE PoolProofs ------------------------------
(***************************************************************************)
(* Theorems about a pool and its workers, for every finite set of workers, *)
(* every nonce range and all bounds: how the range is cut, what the queues *)
(* hold, and that the solution is kept, watched over and answered once.    *)
(***************************************************************************)
EXTENDS Pool, TLAPS, FiniteSetTheorems, SequenceTheorems

----------------------------------------------------------------------------
(* publish_tasks gives every nonce to exactly one worker, whatever the     *)
(* number of workers and the size of the range.                            *)

\* What the integer quotient promises.
LEMMA Division ==
    ASSUME NEW a \in Nat, NEW b \in Nat \ {0}
    PROVE  /\ a \div b \in Nat
           /\ b * (a \div b) =< a
           /\ a < b * (a \div b) + b
  BY SMT

\* A later share starts no earlier.
LEMMA ProductMonotone ==
    ASSUME NEW i \in Nat, NEW j \in Nat, NEW c \in Nat, i =< j
    PROVE  i * c =< j * c
  <1>1. PICK d \in Nat : j = i + d
    BY SMT
  <1>2. j * c = i * c + d * c /\ d * c >= 0
    BY <1>1, SMT
  <1> QED
    BY <1>2, SMT

\* What the bounds of a sub-range are, in terms of the chunk alone.
LEMMA Bounds ==
    ASSUME NEW size \in Nat, NEW n \in Nat \ {0}, NEW i \in 0 .. n - 1
    PROVE  /\ Chunk(size, n) \in Nat
           /\ FirstNonce(size, n, i) \in Nat
           /\ i < n - 1 => /\ LastNonce(size, n, i)
                                = FirstNonce(size, n, i + 1) - 1
                           /\ FirstNonce(size, n, i + 1) =< size
           /\ i = n - 1 => LastNonce(size, n, i) = size - 1
  <1> DEFINE c == Chunk(size, n)
  <1>1. c \in Nat /\ n * c =< size
    BY Division DEF Chunk
  <1>2. i * c \in Nat
    BY <1>1, SMT
  <1>3. ASSUME i < n - 1 PROVE (i + 1) * c =< size
    <2>1. (i + 1) * c =< n * c
      BY <1>1, <1>3, ProductMonotone, i + 1 \in Nat, n \in Nat, i + 1 =< n
    <2> QED
      BY <1>1, <2>1, i + 1 \in Nat, n \in Nat, SMT
  <1> QED
    BY <1>1, <1>2, <1>3 DEF FirstNonce, LastNonce

\* No sub-range leaves the range.
LEMMA BoundsInRange ==
    ASSUME NEW size \in Nat, NEW n \in Nat \ {0}, NEW i \in 0 .. n - 1
    PROVE  /\ FirstNonce(size, n, i) \in Nat
           /\ LastNonce(size, n, i) \in Int
           /\ LastNonce(size, n, i) =< size - 1
  <1>1. CASE i < n - 1
    <2>1. FirstNonce(size, n, i + 1) \in Nat
      BY <1>1, Bounds, i + 1 \in 0 .. n - 1
    <2>2. /\ LastNonce(size, n, i) = FirstNonce(size, n, i + 1) - 1
          /\ FirstNonce(size, n, i + 1) =< size
      BY <1>1, Bounds
    <2>3. FirstNonce(size, n, i) \in Nat
      BY Bounds
    <2> QED
      BY <2>1, <2>2, <2>3
  <1>2. CASE i = n - 1
    BY <1>2, Bounds
  <1> QED
    BY <1>1, <1>2

\* No nonce is searched by two workers.
THEOREM PartitionDisjoint ==
    ASSUME NEW size \in Nat, NEW n \in Nat \ {0},
           NEW i \in 0 .. n - 1, NEW j \in 0 .. n - 1, i < j
    PROVE  SubRange(size, n, i) \intersect SubRange(size, n, j) = {}
  <1> DEFINE c == Chunk(size, n)
  <1>1. c \in Nat /\ LastNonce(size, n, i) = (i + 1) * c - 1
    BY Bounds DEF LastNonce
  <1>2. (i + 1) * c =< j * c
    BY <1>1, ProductMonotone, i + 1 \in Nat, j \in Nat, i + 1 =< j
  <1>3. LastNonce(size, n, i) < FirstNonce(size, n, j)
    <2>1. (i + 1) * c \in Nat /\ j * c \in Nat
      BY <1>1, i + 1 \in Nat, j \in Nat, SMT
    <2> QED
      BY <1>1, <1>2, <2>1 DEF FirstNonce
  <1>4. /\ FirstNonce(size, n, i) \in Int /\ LastNonce(size, n, i) \in Int
        /\ FirstNonce(size, n, j) \in Int /\ LastNonce(size, n, j) \in Int
    <2>1. FirstNonce(size, n, i) \in Nat /\ LastNonce(size, n, i) \in Int
      BY BoundsInRange
    <2>2. FirstNonce(size, n, j) \in Nat /\ LastNonce(size, n, j) \in Int
      BY BoundsInRange
    <2> QED
      BY <2>1, <2>2
  <1> QED
    BY <1>3, <1>4 DEF SubRange

\* Every nonce of the range is searched by some worker, and no other nonce is.
THEOREM PartitionCovers ==
    ASSUME NEW size \in Nat, NEW n \in Nat \ {0}
    PROVE  UNION {SubRange(size, n, i) : i \in 0 .. n - 1} = 0 .. size - 1
  <1> DEFINE c == Chunk(size, n)
  <1>1. c \in Nat /\ n * c =< size
    BY Division DEF Chunk
  <1>2. ASSUME NEW i \in 0 .. n - 1
        PROVE  SubRange(size, n, i) \subseteq 0 .. size - 1
    <2>1. /\ FirstNonce(size, n, i) \in Nat
          /\ LastNonce(size, n, i) \in Int
          /\ LastNonce(size, n, i) =< size - 1
      BY BoundsInRange
    <2> QED
      BY <2>1 DEF SubRange
  <1>3. ASSUME NEW k \in 0 .. size - 1
        PROVE  \E i \in 0 .. n - 1 : k \in SubRange(size, n, i)
    <2>1. CASE k >= (n - 1) * c
      <3>1. (n - 1) * c = FirstNonce(size, n, n - 1)
        BY DEF FirstNonce
      <3>2. LastNonce(size, n, n - 1) = size - 1
        BY Bounds, n - 1 \in 0 .. n - 1
      <3>3. (n - 1) * c \in Nat
        BY <1>1, n - 1 \in Nat, SMT
      <3>4. k \in SubRange(size, n, n - 1)
        BY <2>1, <3>1, <3>2, <3>3 DEF SubRange
      <3> QED
        BY <3>4, n - 1 \in 0 .. n - 1
    <2>2. CASE k < (n - 1) * c
      <3> DEFINE i == k \div c
      <3>1. c \in Nat \ {0}
        BY <1>1, <2>2, SMT
      <3>2. i \in Nat /\ c * i =< k /\ k < c * i + c
        BY <3>1, Division, k \in Nat
      <3>3. i < n - 1
        <4>1. SUFFICES ASSUME n - 1 =< i PROVE FALSE
          BY <3>2
        <4>2. (n - 1) * c =< i * c
          BY <1>1, <3>2, <4>1, ProductMonotone, n - 1 \in Nat
        <4> HIDE DEF i
        <4> QED
          BY <1>1, <2>2, <3>2, <4>2, SMT
      <3>4. LastNonce(size, n, i) = (i + 1) * c - 1 /\ FirstNonce(size, n, i) = i * c
        BY <3>3 DEF LastNonce, FirstNonce
      <3>5. k \in SubRange(size, n, i)
        <4> HIDE DEF i
        <4>1. i * c =< k /\ k =< (i + 1) * c - 1
          BY <1>1, <3>2, SMT
        <4>2. i * c \in Nat /\ (i + 1) * c - 1 \in Int
          BY <1>1, <3>2, SMT
        <4> QED
          BY <3>4, <4>1, <4>2 DEF SubRange
      <3> QED
        BY <3>2, <3>3, <3>5
    <2>3. (n - 1) * c \in Int
      BY <1>1, SMT
    <2> QED
      BY <2>1, <2>2, <2>3
  <1> QED
    BY <1>2, <1>3

----------------------------------------------------------------------------
(* The elements of a queue. *)

\* The elements of a queue when its head is taken or one is added.
LEMMA Elements ==
    ASSUME NEW S, NEW s \in Seq(S)
    PROVE  /\ ToSet(s) \subseteq S
           /\ \A i \in DOMAIN s : s[i] \in ToSet(s)
           /\ \A x \in S : ToSet(Append(s, x)) = ToSet(s) \union {x}
           /\ s # <<>> => /\ Head(s) = s[1] /\ Head(s) \in ToSet(s)
                          /\ 1 \in DOMAIN s
                          /\ ToSet(Tail(s)) \subseteq ToSet(s)
                          /\ ToSet(s) = {Head(s)} \union ToSet(Tail(s))
<1>1. /\ DOMAIN s = 1 .. Len(s) /\ Len(s) \in Nat /\ \A i \in 1 .. Len(s) : s[i] \in S
  OBVIOUS
<1>2. ToSet(s) \subseteq S /\ \A i \in DOMAIN s : s[i] \in ToSet(s)
  BY <1>1 DEF ToSet
<1>3. ASSUME NEW x \in S PROVE ToSet(Append(s, x)) = ToSet(s) \union {x}
  <2>. DEFINE t == Append(s, x)
  <2>1. /\ DOMAIN t = 1 .. (Len(s) + 1) /\ t[Len(s) + 1] = x
        /\ \A i \in 1 .. Len(s) : t[i] = s[i]
    BY <1>1
  <2>. HIDE DEF t
  <2>2. ToSet(t) \subseteq ToSet(s) \union {x}
    <3>1. ASSUME NEW i \in 1 .. (Len(s) + 1) PROVE t[i] \in ToSet(s) \union {x}
      <4>1. i \in 1 .. Len(s) \/ i = Len(s) + 1
        BY <1>1
      <4>. QED  BY <1>1, <1>2, <2>1, <4>1
    <3>. QED  BY <2>1, <3>1 DEF ToSet
  <2>3. ToSet(s) \union {x} \subseteq ToSet(t)
    <3>1. Len(s) + 1 \in DOMAIN t /\ \A i \in 1 .. Len(s) : i \in DOMAIN t
      BY <1>1, <2>1
    <3>. QED  BY <1>1, <2>1, <3>1 DEF ToSet
  <2>. QED  BY <2>2, <2>3 DEF t
<1>4. ASSUME s # <<>>
      PROVE  /\ Head(s) = s[1] /\ Head(s) \in ToSet(s) /\ 1 \in DOMAIN s
             /\ ToSet(Tail(s)) \subseteq ToSet(s)
             /\ ToSet(s) = {Head(s)} \union ToSet(Tail(s))
  <2>. DEFINE t == Tail(s)
  <2>1. /\ Head(s) = s[1] /\ 1 \in DOMAIN s /\ DOMAIN t = 1 .. (Len(s) - 1)
        /\ \A i \in 1 .. (Len(s) - 1) : t[i] = s[i + 1]
    BY <1>1, <1>4
  <2>. HIDE DEF t
  <2>2. ToSet(t) \subseteq ToSet(s)
    <3>1. \A i \in 1 .. (Len(s) - 1) : i + 1 \in DOMAIN s
      BY <1>1
    <3>. QED  BY <2>1, <3>1 DEF ToSet
  <2>3. ASSUME NEW i \in DOMAIN s PROVE s[i] \in {Head(s)} \union ToSet(t)
    <3>1. i = 1 \/ (i - 1 \in DOMAIN t /\ t[i - 1] = s[i])
      BY <1>1, <2>1
    <3>. QED  BY <2>1, <3>1 DEF ToSet
  <2>4. Head(s) \in ToSet(s) /\ ToSet(s) \subseteq {Head(s)} \union ToSet(t)
    BY <1>2, <2>1, <2>3 DEF ToSet
  <2>. QED  BY <2>1, <2>2, <2>4 DEF t
<1>. QED  BY <1>2, <1>3, <1>4

\* The elements of a queue that several messages are added to.
LEMMA ElementsOfBoth ==
    ASSUME NEW S, NEW s \in Seq(S), NEW t \in Seq(S)
    PROVE  ToSet(s \o t) = ToSet(s) \union ToSet(t)
<1>. DEFINE u == s \o t
<1>1. /\ DOMAIN s = 1 .. Len(s) /\ DOMAIN t = 1 .. Len(t)
      /\ DOMAIN u = 1 .. (Len(s) + Len(t)) /\ Len(s) \in Nat /\ Len(t) \in Nat
      /\ \A i \in 1 .. Len(s) : u[i] = s[i]
      /\ \A i \in 1 .. Len(t) : u[Len(s) + i] = t[i]
  OBVIOUS
<1>. HIDE DEF u
<1>2. ASSUME NEW i \in DOMAIN u PROVE u[i] \in ToSet(s) \union ToSet(t)
  <2>1. i \in 1 .. Len(s) \/ (i - Len(s) \in 1 .. Len(t) /\ i = Len(s) + (i - Len(s)))
    BY <1>1
  <2>. QED  BY <1>1, <2>1 DEF ToSet
<1>3. ToSet(s) \subseteq ToSet(u)
  <2>1. \A i \in 1 .. Len(s) : i \in DOMAIN u
    BY <1>1
  <2>. QED  BY <1>1, <2>1 DEF ToSet
<1>4. ToSet(t) \subseteq ToSet(u)
  <2>1. \A i \in 1 .. Len(t) : Len(s) + i \in DOMAIN u
    BY <1>1
  <2>. QED  BY <1>1, <2>1 DEF ToSet
<1>5. ToSet(u) \subseteq ToSet(s) \union ToSet(t)
  BY <1>2 DEF ToSet
<1>. QED  BY <1>3, <1>4, <1>5 DEF u

----------------------------------------------------------------------------
(* Types. *)

\* The values that stand for nothing have their types.
LEMMA NothingType ==
    /\ NoTask \in NctTask /\ NoSubTask \in SubTask /\ NoSubTask.of = NoTask
    /\ NoSubTask.nonces = {}
BY DEF NoTask, NctTask, NoSubTask, SubTask

\* The workers that count are finitely many.
LEMMA ActiveType == seen \subseteq Workers => ActiveCount \in Nat
<1>1. seen \subseteq Workers => Active \subseteq Workers
  BY DEF Active
<1>2. IsFiniteSet(Workers)
  BY PoolAssumption
<1>. QED  BY <1>1, <1>2, FS_Subset, FS_CardinalityType DEF ActiveCount

\* One sub-task for each of n workers, with identifiers of this round, and
\* together they hold the whole range.
LEMMA SubTasksType ==
    ASSUME round \in Nat, NEW task \in NctTask, NEW n \in Nat
    PROVE  /\ SubTasks(task, n) \in Seq(SubTask) /\ Len(SubTasks(task, n)) = n
           /\ \A t \in ToSet(SubTasks(task, n)) :
                 t.of = task /\ \E i \in Nat : t.id = <<round + 1, i>>
           /\ n > 0 => \A k \in 0 .. Space - 1 :
                 \E t \in ToSet(SubTasks(task, n)) : k \in t.nonces
<1>. DEFINE s == SubTasks(task, n)
            part(i) == [id |-> <<round + 1, i>>, of |-> task,
                        nonces |-> SubRange(Space, n, i - 1)]
<1>0. Space \in Nat
  BY PoolAssumption
<1>1. ASSUME NEW i \in 1 .. n
      PROVE  SubRange(Space, n, i - 1) \in SUBSET (0 .. Space - 1)
  <2>1. i - 1 \in 0 .. n - 1 /\ n \in Nat \ {0}
    OBVIOUS
  <2>2. UNION {SubRange(Space, n, j) : j \in 0 .. n - 1} = 0 .. Space - 1
    BY <1>0, <2>1, PartitionCovers
  <2>. QED  BY <2>1, <2>2
<1>2. \A i \in 1 .. n : part(i) \in SubTask
  BY <1>1 DEF SubTask
<1>3. s = [i \in 1 .. n |-> part(i)]
  BY DEF SubTasks
<1>4. s \in Seq(SubTask) /\ Len(s) = n /\ DOMAIN s = 1 .. n
  <2>. HIDE DEF part
  <2>1. s \in [1 .. n -> SubTask]
    BY <1>2, <1>3
  <2>. HIDE DEF s
  <2>. QED  BY <2>1, SeqDef
<1>5. ASSUME NEW t \in ToSet(s)
      PROVE  t.of = task /\ \E i \in Nat : t.id = <<round + 1, i>>
  <2>1. PICK i \in 1 .. n : t = part(i)
    <3>. HIDE DEF part
    <3>1. PICK i \in 1 .. n : t = s[i]
      <4>. HIDE DEF s
      <4>. QED  BY <1>4, <1>5 DEF ToSet
    <3>. HIDE DEF s
    <3>. QED  BY <1>3, <3>1
  <2>. QED  BY <2>1
<1>6. ASSUME n > 0, NEW k \in 0 .. Space - 1
      PROVE  \E t \in ToSet(s) : k \in t.nonces
  <2>1. UNION {SubRange(Space, n, j) : j \in 0 .. n - 1} = 0 .. Space - 1
    BY <1>0, <1>6, PartitionCovers
  <2>2. PICK j \in 0 .. n - 1 : k \in SubRange(Space, n, j)
    BY <2>1
  <2>3. j + 1 \in 1 .. n /\ (j + 1) - 1 = j
    OBVIOUS
  <2>4. k \in part(j + 1).nonces
    BY <2>2, <2>3
  <2>5. part(j + 1) \in ToSet(s)
    <3>. HIDE DEF part
    <3>1. s[j + 1] = part(j + 1)
      BY <1>3, <2>3
    <3>. HIDE DEF s
    <3>. QED  BY <1>4, <2>3, <3>1 DEF ToSet
  <2>. QED  BY <2>4, <2>5
<1>. QED  BY <1>4, <1>5, <1>6

\* The start of a pool, whichever workers are known.
LEMMA InitType == Init => TypeOK
<1>. SUFFICES ASSUME Init PROVE TypeOK
  OBVIOUS
<1>1. Idle \in WorkerRecord
  BY NothingType DEF Idle, WorkerRecord
<1>2. TypeWorker
  BY <1>1 DEF Init, WorkerInit, TypeWorker
<1>3. PICK known \in Starts :
         WorkerInit(known) /\ seen = known /\ registered = known
  BY DEF Init
<1>4. known \subseteq Workers /\ faults \in [FaultKinds -> Nat]
  BY <1>3, PoolAssumption DEF WorkerInit
<1>5. TypePool
  <2>1. /\ latest = NoTask /\ inbox = <<>> /\ out = <<>> /\ answered = 0
        /\ reports = 0 /\ fallback \in Fallbacks
        /\ current = NoTask /\ ppc = "idle" /\ count = 0
        /\ original = 0 /\ armed = FALSE /\ monitors = <<>> /\ round = 0
    BY DEF Init
  <2>2. seen \subseteq Workers /\ registered \subseteq Workers
    BY <1>3, <1>4
  <2>3. /\ inbox \in Seq(NctTask) /\ out \in Seq(Answer)
        /\ monitors \in Seq(MonitorRecord)
    BY <2>1
  <2>4. answered \in Nat /\ reports \in Nat /\ count \in Nat /\ original \in Nat
        /\ round \in Nat
    BY <2>1
  <2>5. armed \in BOOLEAN /\ ppc \in {"idle", "publish", "original", "arm", "clear"}
    BY <2>1
  <2>. QED  BY <1>4, <2>1, <2>2, <2>3, <2>4, <2>5, NothingType, Zenon DEF TypePool
<1>. QED  BY <1>2, <1>5 DEF TypeOK

\* A fault is counted under its kind.
LEMMA FaultType ==
    ASSUME faults \in [FaultKinds -> Nat], NEW kind \in FaultKinds, Fault(kind)
    PROVE  /\ faults' \in [FaultKinds -> Nat] /\ kind \in MayHappen
           /\ Mishaps \in Nat
           /\ Mishaps' = IF kind \in {"interruption", "restart"} THEN Mishaps + 1
                         ELSE Mishaps
BY DEF Fault, FaultKinds, Mishaps

\* A worker's record is replaced by a record.
LEMMA SetType ==
    ASSUME TypeWorker, NEW w \in Workers, NEW state \in WorkerRecord, Set(w, state)
    PROVE  worker' \in [Workers -> WorkerRecord]
BY DEF Set, TypeWorker

\* What is put back is a sub-task.
LEMMA RedeliverType ==
    ASSUME TypeWorker, NEW w \in Workers, Redeliver(w)
    PROVE  tasksQ' \in Seq(SubTask)
<1>1. worker[w].task \in SubTask /\ tasksQ \in Seq(SubTask)
  BY DEF TypeWorker, WorkerRecord
<1>. QED  BY <1>1 DEF Redeliver, Requeue

\* The steps of the workers.
LEMMA WorkersType ==
    ASSUME TypeOK, WorkersNext
    PROVE  TypeOK'
<1>. PICK w \in Workers :
        /\ WorkerStep(w) \/ WorkerFault(w) \/ Restart(w)
        /\ UNCHANGED <<nct, fallback, main, watch, registry, round>>
  BY DEF WorkersNext
<1>1. /\ TypeWorker /\ TypePool /\ faults \in [FaultKinds -> Nat]
      /\ worker[w] \in WorkerRecord /\ NoSubTask \in SubTask
      /\ tasksQ \in Seq(SubTask) /\ resultsQ \in Seq(Result)
      /\ control \in [Workers -> SUBSET (Nat \X Nat)] /\ abandoned \subseteq Nat
      /\ registrations \subseteq Workers
  BY NothingType DEF TypeOK, TypeWorker, TypePool
<1>2. Idle \in WorkerRecord /\ Down \in WorkerRecord
  BY <1>1 DEF Idle, Down, WorkerRecord
<1>3. ASSUME faults' \in [FaultKinds -> Nat] PROVE TypePool'
  BY <1>1, <1>3 DEF TypePool, nct, main, watch, registry
<1>4. CASE Take(w)
  <2>1. Mining(Head(tasksQ)) \in WorkerRecord /\ tasksQ' \in Seq(SubTask)
    BY <1>1, <1>4 DEF Take, Mining, WorkerRecord
  <2>2. worker' \in [Workers -> WorkerRecord]
    BY <1>1, <1>4, <2>1, SetType DEF Take
  <2>. QED  BY <1>1, <1>3, <1>4, <2>1, <2>2 DEF Take, TypeOK, TypeWorker
<1>5. CASE OnControl(w)
  <2>1. PICK id \in control[w] :
           /\ control' = [control EXCEPT ![w] = @ \ {id}]
           /\ worker' = [worker EXCEPT ![w].aborted =
                @ \/ (worker[w].pc = "mining" /\ worker[w].task.id = id)]
           /\ UNCHANGED <<tasksQ, resultsQ, registrations, abandoned, faults>>
    BY <1>5 DEF OnControl
  <2>2. control' \in [Workers -> SUBSET (Nat \X Nat)]
    BY <1>1, <2>1
  <2>3. worker' \in [Workers -> WorkerRecord]
    BY <1>1, <2>1 DEF TypeWorker, WorkerRecord
  <2>. QED  BY <1>1, <1>3, <2>1, <2>2, <2>3 DEF TypeOK, TypeWorker
<1>6. CASE MineAborted(w) \/ AckTask(w) \/ FoundNothing(w)
  <2>1. /\ Set(w, Idle)
        /\ UNCHANGED <<tasksQ, resultsQ, control, registrations, abandoned, faults>>
    BY <1>6 DEF MineAborted, AckTask, FoundNothing
  <2>2. worker' \in [Workers -> WorkerRecord]
    BY <1>1, <1>2, <2>1, SetType
  <2>. QED  BY <1>1, <1>3, <2>1, <2>2 DEF TypeOK, TypeWorker
<1>7. CASE PublishResult(w)
  <2>1. PICK nonce \in Finds(worker[w].task) :
           resultsQ' = Append(resultsQ, [id |-> worker[w].task.id,
                                         of |-> worker[w].task.of, nonce |-> nonce])
    BY <1>7 DEF PublishResult
  <2>2. [id |-> worker[w].task.id, of |-> worker[w].task.of, nonce |-> nonce] \in Result
    BY <1>1, PoolAssumption DEF WorkerRecord, SubTask, Result, Finds, Hits
  <2>3. resultsQ' \in Seq(Result)
    BY <1>1, <2>1, <2>2
  <2>4. [worker[w] EXCEPT !.pc = "ack"] \in WorkerRecord
    BY <1>1 DEF WorkerRecord
  <2>5. worker' \in [Workers -> WorkerRecord]
    BY <1>1, <1>7, <2>4, SetType DEF PublishResult
  <2>. QED  BY <1>1, <1>3, <1>7, <2>3, <2>5
            DEF PublishResult, TypeOK, TypeWorker
<1>8. CASE GiveUp(w)
  <2>1. worker' \in [Workers -> WorkerRecord]
    BY <1>1, <1>2, <1>8, SetType DEF GiveUp
  <2>2. abandoned' \subseteq Nat
    BY <1>1, <1>8 DEF GiveUp, WorkerRecord, SubTask, NctTask
  <2>3. faults' \in [FaultKinds -> Nat]
    BY <1>1, <1>8, FaultType DEF GiveUp, FaultKinds
  <2>. QED  BY <1>1, <1>3, <1>8, <2>1, <2>2, <2>3
            DEF GiveUp, TypeOK, TypeWorker
<1>9. CASE Die(w) \/ Reconnect(w)
  <2>1. /\ Redeliver(w) /\ (Set(w, Down) \/ Set(w, Idle)) /\ Fault("death")
        /\ control' = [control EXCEPT ![w] = {}]
        /\ UNCHANGED <<resultsQ, registrations, abandoned>>
    <3>1. CASE Die(w)
      BY <3>1 DEF Die
    <3>2. CASE Reconnect(w)
      BY <3>2 DEF Reconnect
    <3>. QED  BY <1>9, <3>1, <3>2
  <2>2. worker' \in [Workers -> WorkerRecord] /\ tasksQ' \in Seq(SubTask)
    BY <1>1, <1>2, <2>1, SetType, RedeliverType
  <2>3. faults' \in [FaultKinds -> Nat]
    BY <1>1, <2>1, FaultType DEF FaultKinds
  <2>4. control' \in [Workers -> SUBSET (Nat \X Nat)]
    BY <1>1, <2>1
  <2>. QED  BY <1>1, <1>3, <2>1, <2>2, <2>3, <2>4 DEF TypeOK, TypeWorker
<1>10. CASE Restart(w)
  <2>1. worker' \in [Workers -> WorkerRecord]
    BY <1>1, <1>2, <1>10, SetType DEF Restart
  <2>. QED  BY <1>1, <1>3, <1>10, <2>1 DEF Restart, TypeOK, TypeWorker
<1>. QED  BY <1>4, <1>5, <1>6, <1>7, <1>8, <1>9, <1>10 DEF WorkerStep, WorkerFault

\* The identifier of an NCT task is one a sub-task could have.
LEMMA NctIdType == \A task \in NctTask : NctId(task) \in Nat \X Nat
BY DEF NctId, NctTask

\* An abort adds one identifier to the control queues.
LEMMA BroadcastType ==
    ASSUME TypeWorker, NEW id \in Nat \X Nat, Broadcast(id)
    PROVE  control' \in [Workers -> SUBSET (Nat \X Nat)]
BY DEF Broadcast, TypeWorker

\* The NCT, and what is known of the workers.
LEMMA OutsideType ==
    ASSUME TypeOK, NctNext \/ RegistryNext
    PROVE  TypeOK'
<1>. USE DEF TypeOK
<1>1. CASE NctNextBlock \/ NctRetries \/ NctRestarts
  <2>1. PICK index \in Nat, stamp \in Nat : NctPublishes(index, stamp)
    BY <1>1 DEF NctNextBlock, NctRetries, NctRestarts, TypePool, NctTask
  <2>2. [id |-> latest.id + 1, index |-> index, stamp |-> stamp] \in NctTask
    BY DEF TypePool, NctTask
  <2>3. latest' \in NctTask /\ inbox' \in Seq(NctTask)
    BY <2>1, <2>2 DEF NctPublishes, TypePool
  <2>4. TypeWorker'
    BY <2>1 DEF NctPublishes, TypeWorker, workerVars
  <2>. QED  BY <2>1, <2>3, <2>4 DEF NctPublishes, TypePool, main, watch, registry
<1>2. CASE NctAborts
  <2>1. answered + 1 \in DOMAIN out /\ answered' \in Nat
    BY <1>2 DEF NctAborts, TypePool
  <2>2. out[answered + 1].result.id \in Nat \X Nat
    <3>1. out[answered + 1] \in Answer
      BY <2>1 DEF TypePool
    <3>. QED  BY <3>1 DEF Answer, Result
  <2>3. control' \in [Workers -> SUBSET (Nat \X Nat)]
    BY <1>2, <2>2, BroadcastType DEF NctAborts
  <2>4. TypeWorker'
    BY <1>2, <2>3 DEF NctAborts, TypeWorker
  <2>. QED  BY <1>2, <2>1, <2>4 DEF NctAborts, TypePool, main, watch, registry
<1>3. ASSUME NEW w \in Workers, OnRegistration(w) \/ OnHeartbeat(w) PROVE TypeOK'
  BY <1>3 DEF OnRegistration, OnHeartbeat, TypeWorker, TypePool, workerVars, nct, main,
      watch
<1>4. ASSUME NEW w \in Workers, Expire(w) PROVE TypeOK'
  <2>1. faults' \in [FaultKinds -> Nat]
    BY <1>4, FaultType DEF Expire, TypePool, FaultKinds
  <2>. QED  BY <1>4, <2>1 DEF Expire, TypeWorker, TypePool, workerVars, nct, main, watch
<1>. QED  BY <1>1, <1>2, <1>3, <1>4 DEF NctNext, RegistryNext

\* Publishing appends the sub-tasks of one round.
LEMMA PublishType ==
    ASSUME TypeOK, NEW task \in NctTask, NEW n \in Nat, PublishTasks(task, n)
    PROVE  /\ tasksQ' \in Seq(SubTask) /\ round' \in Nat
           /\ ToSet(tasksQ') = ToSet(tasksQ) \union ToSet(SubTasks(task, n))
<1>1. round \in Nat /\ tasksQ \in Seq(SubTask)
  BY DEF TypeOK, TypeWorker, TypePool
<1>2. SubTasks(task, n) \in Seq(SubTask)
  BY <1>1, SubTasksType
<1>3. tasksQ' = tasksQ \o SubTasks(task, n) /\ round' = round + 1
  BY DEF PublishTasks
<1>. QED  BY <1>1, <1>2, <1>3, ElementsOfBoth

\* There is a share for each active worker, or as many as the fallback says.
LEMMA SharesType ==
    ASSUME TypePool
    PROVE  ActiveCount \in Nat /\ \A active \in Nat : Shares(active) \in Nat
BY ActiveType, PoolAssumption DEF TypePool, Shares

\* A started monitor is one more generation.
LEMMA StartMonitorType ==
    ASSUME TypePool, StartMonitor
    PROVE  /\ armed' \in BOOLEAN /\ monitors' \in Seq(MonitorRecord)
           /\ ppc' = "idle" /\ count' = 0
<1>1. [Done EXCEPT !.pc = "check"] \in MonitorRecord
  BY NothingType DEF Done, MonitorRecord
<1>. QED  BY <1>1 DEF StartMonitor, TypePool

\* The message the main thread handles is at the head of its queue until it is
\* acknowledged.
Busy == {"publish", "original", "arm"}
InHand ==
    /\ ppc \in Busy => inbox # <<>> /\ current = Head(inbox)
    /\ ppc = "publish" => count > 0
    /\ ppc = "clear" => resultsQ # <<>>

\* The main thread.
LEMMA MainType ==
    ASSUME TypeOK, InHand, TaskStep \/ ResultStep
    PROVE  TypeOK'
<1>. USE DEF TypeOK
<1>1. ActiveCount \in Nat /\ \A active \in Nat : Shares(active) \in Nat
  BY SharesType
<1>2. CASE OnTask
  <2>1. count' \in Nat /\ current' \in NctTask
    BY <1>1, <1>2 DEF OnTask, TypePool
  <2>. QED  BY <1>2, <2>1 DEF OnTask, TypeWorker, TypePool, workerVars, nct, watch, registry
<1>3. CASE SkipTask
  <2>1. inbox' \in Seq(NctTask) /\ reports' \in Nat
    BY <1>3 DEF SkipTask, TypePool
  <2>. QED  BY <1>3, <2>1 DEF SkipTask, TypeWorker, TypePool, workerVars, main, watch,
            registry
<1>4. CASE PublishSubTasks
  <2>1. tasksQ' \in Seq(SubTask) /\ round' \in Nat
    BY <1>4, PublishType DEF PublishSubTasks, TypePool
  <2>. QED  BY <1>4, <2>1 DEF PublishSubTasks, TypeWorker, TypePool, nct, watch, registry
<1>5. CASE SetOriginal
  BY <1>5 DEF SetOriginal, TypeWorker, TypePool, workerVars, nct, registry
<1>6. CASE Arm
  <2>1. inbox' \in Seq(NctTask)
    BY <1>6 DEF Arm, TypePool, InHand, Busy
  <2>2. armed' \in BOOLEAN /\ monitors' \in Seq(MonitorRecord) /\ ppc' = "idle" /\ count' = 0
    BY <1>6, StartMonitorType DEF Arm
  <2>. QED  BY <1>6, <2>1, <2>2 DEF Arm, TypeWorker, TypePool, workerVars, registry
<1>7. CASE DropResult
  <2>1. resultsQ' \in Seq(Result)
    BY <1>7 DEF DropResult, TypeWorker
  <2>. QED  BY <1>7, <2>1 DEF DropResult, TypeWorker, TypePool, nct, main, watch, registry
<1>8. CASE Forward
  <2>1. [result |-> Head(resultsQ), for |-> current] \in Answer
    <3>1. Head(resultsQ) \in Result
      BY <1>8 DEF Forward, TypeWorker
    <3>. QED  BY <3>1 DEF Answer, TypePool
  <2>2. out' \in Seq(Answer)
    BY <1>8, <2>1 DEF Forward, TypePool
  <2>. QED  BY <1>8, <2>2 DEF Forward, TypeWorker, TypePool, workerVars, watch, registry
<1>9. CASE ClearContext
  <2>1. resultsQ' \in Seq(Result)
    BY <1>9 DEF ClearContext, TypeWorker, InHand
  <2>. QED  BY <1>9, <2>1, NothingType DEF ClearContext, TypeWorker, TypePool, nct, registry
<1>. QED  BY <1>2, <1>3, <1>4, <1>5, <1>6, <1>7, <1>8, <1>9 DEF TaskStep, ResultStep

\* What fails in the main thread.
LEMMA PublishFailsType ==
    ASSUME TypeOK, PublishFails
    PROVE  \E more \in Seq(SubTask) : \E sent \in 0 .. count - 1 :
              /\ tasksQ' = tasksQ \o more /\ round' = round + 1
              /\ more = SubSeq(SubTasks(current, count), 1, sent)
              /\ ToSet(more) \subseteq ToSet(SubTasks(current, count))
<1>. DEFINE s == SubTasks(current, count)
<1>1. count \in Nat /\ s \in Seq(SubTask) /\ Len(s) = count
  BY SubTasksType DEF TypeOK, TypePool
<1>2. PICK sent \in 0 .. count - 1 : tasksQ' = tasksQ \o SubSeq(s, 1, sent)
                                     /\ round' = round + 1
  BY DEF PublishFails
<1>. HIDE DEF s
<1>. DEFINE more == SubSeq(s, 1, sent)
<1>3. /\ more \in Seq(SubTask) /\ DOMAIN more = 1 .. sent
      /\ \A i \in 1 .. sent : more[i] = s[i] /\ i \in DOMAIN s
  BY <1>1
<1>4. ToSet(more) \subseteq ToSet(s)
  <2>. HIDE DEF more
  <2>. QED  BY <1>3 DEF ToSet
<1>. QED  BY <1>2, <1>3, <1>4 DEF s

\* The faults of the main thread.
LEMMA MainFaultType ==
    ASSUME TypeOK, MainFault
    PROVE  TypeOK'
<1>. USE DEF TypeOK
<1>1. ASSUME Fault("interruption") \/ Fault("restart")
      PROVE  faults' \in [FaultKinds -> Nat]
  BY <1>1, FaultType DEF TypePool, FaultKinds
<1>2. CASE PublishFails
  <2>1. PICK more \in Seq(SubTask) : tasksQ' = tasksQ \o more /\ round' = round + 1
    BY <1>2, PublishFailsType
  <2>2. tasksQ' \in Seq(SubTask) /\ round' \in Nat
    BY <2>1 DEF TypeWorker, TypePool
  <2>. QED  BY <1>1, <1>2, <2>2 DEF PublishFails, TypeWorker, TypePool, nct, watch, registry
<1>3. CASE TaskAckLost
  <2>1. armed' \in BOOLEAN /\ monitors' \in Seq(MonitorRecord) /\ ppc' = "idle" /\ count' = 0
    BY <1>3, StartMonitorType DEF TaskAckLost
  <2>. QED  BY <1>1, <1>3, <2>1 DEF TaskAckLost, TypeWorker, TypePool, workerVars, nct,
            registry
<1>4. CASE ForwardFails
  BY <1>1, <1>4 DEF ForwardFails, TypeWorker, TypePool, workerVars, nct, main, watch, registry
<1>5. CASE ResultAckLost
  BY <1>1, <1>5 DEF ResultAckLost, TypeWorker, TypePool, workerVars, nct, watch, registry
<1>6. CASE Crash
  <2>1. monitors' \in Seq(MonitorRecord)
    BY <1>6 DEF Crash
  <2>3. armed' \in BOOLEAN
    BY <1>6 DEF Crash
  <2>2. ppc' = "idle" /\ count' \in Nat /\ original' \in Nat /\ current' \in NctTask
        /\ seen' \subseteq Workers /\ registered' \subseteq Workers
    BY <1>6, NothingType DEF Crash
  <2>. QED  BY <1>1, <1>6, <2>1, <2>2, <2>3 DEF Crash, TypeWorker, TypePool, workerVars, nct
<1>. QED  BY <1>2, <1>3, <1>4, <1>5, <1>6 DEF MainFault

\* A monitor.
LEMMA SetMonitorType ==
    ASSUME TypePool, NEW g \in 1 .. Generation, NEW state \in MonitorRecord,
           SetMonitor(g, state)
    PROVE  monitors' \in Seq(MonitorRecord)
BY DEF SetMonitor, TypePool, Generation

\* The steps of a monitor.
LEMMA MonitorType ==
    ASSUME TypeOK, NEW g \in 1 .. Generation, MonitorStep(g)
    PROVE  TypeOK'
<1>. USE DEF TypeOK
<1>0. ActiveCount \in Nat /\ \A active \in Nat : Shares(active) \in Nat
  BY SharesType
<1>1. /\ monitors[g] \in MonitorRecord /\ current \in NctTask
      /\ ActiveCount \in Nat /\ \A active \in Nat : Shares(active) \in Nat
  BY <1>0 DEF TypePool, Generation
<1>2. /\ monitors[g].task \in NctTask /\ monitors[g].active \in Nat
  BY <1>1 DEF MonitorRecord
<1>3. /\ Done \in MonitorRecord /\ [Done EXCEPT !.pc = "snapshot"] \in MonitorRecord
      /\ [Done EXCEPT !.pc = "check"] \in MonitorRecord
      /\ [Done EXCEPT !.pc = "count", !.task = current] \in MonitorRecord
      /\ [monitors[g] EXCEPT !.pc = "compare", !.active = ActiveCount] \in MonitorRecord
      /\ [monitors[g] EXCEPT !.pc = "publish"] \in MonitorRecord
      /\ [monitors[g] EXCEPT !.pc = "original"] \in MonitorRecord
  BY <1>1, NothingType DEF Done, MonitorRecord
<1>4. CASE \/ MonitorTurns(g) \/ MonitorEnds(g) \/ MonitorSnapshot(g)
           \/ MonitorCounts(g) \/ MonitorWaits(g)
  <2>1. /\ \E state \in MonitorRecord : SetMonitor(g, state)
        /\ UNCHANGED <<workerVars, nct, fallback, main, original, armed, registry,
                       round, faults>>
    BY <1>3, <1>4 DEF MonitorTurns, MonitorEnds, MonitorSnapshot, MonitorCounts,
       MonitorWaits
  <2>2. monitors' \in Seq(MonitorRecord)
    BY <2>1, SetMonitorType
  <2>. QED  BY <2>1, <2>2 DEF TypeWorker, TypePool, workerVars, nct, main, registry
<1>5. CASE MonitorAborts(g)
  <2>1. monitors' \in Seq(MonitorRecord)
    BY <1>3, <1>5, SetMonitorType DEF MonitorAborts
  <2>2. control' \in [Workers -> SUBSET (Nat \X Nat)]
    BY <1>2, <1>5, NctIdType, BroadcastType DEF MonitorAborts, TypeWorker
  <2>. QED  BY <1>5, <2>1, <2>2 DEF MonitorAborts, TypeWorker, TypePool, nct, main, registry
<1>6. CASE MonitorPublishes(g)
  <2>1. monitors' \in Seq(MonitorRecord)
    BY <1>3, <1>6, SetMonitorType DEF MonitorPublishes
  <2>2. tasksQ' \in Seq(SubTask) /\ round' \in Nat
    BY <1>1, <1>2, <1>6, PublishType DEF MonitorPublishes
  <2>. QED  BY <1>6, <2>1, <2>2 DEF MonitorPublishes, TypeWorker, TypePool, nct, main,
            registry
<1>7. CASE MonitorSetsOriginal(g)
  <2>1. monitors' \in Seq(MonitorRecord) /\ original' \in Nat
    BY <1>1, <1>2, <1>3, <1>7, SetMonitorType DEF MonitorSetsOriginal
  <2>. QED  BY <1>7, <2>1 DEF MonitorSetsOriginal, TypeWorker, TypePool, workerVars, nct,
            main, registry
<1>8. CASE MonitorReports(g)
  <2>1. monitors' \in Seq(MonitorRecord) /\ reports' \in Nat
    BY <1>3, <1>8, SetMonitorType DEF MonitorReports, TypePool
  <2>. QED  BY <1>8, <2>1 DEF MonitorReports, TypeWorker, TypePool, workerVars, main,
            registry
<1>. QED  BY <1>4, <1>5, <1>6, <1>7, <1>8 DEF MonitorStep

\* Every step keeps the types.
LEMMA NextType == TypeOK /\ InHand /\ [Next]_vars => TypeOK'
<1>. SUFFICES ASSUME TypeOK, InHand, [Next]_vars PROVE TypeOK'
  OBVIOUS
<1>1. CASE UNCHANGED vars
  BY <1>1 DEF TypeOK, TypeWorker, TypePool, vars, workerVars, nct, main, watch, registry
<1>. QED  BY <1>1, WorkersType, OutsideType, MainType, MainFaultType, MonitorType DEF Next

\* Every step keeps what the main thread holds in hand.
LEMMA NextInHand == TypeOK /\ InHand /\ [Next]_vars => InHand'
<1>. SUFFICES ASSUME TypeOK, InHand, [Next]_vars PROVE InHand'
  OBVIOUS
<1>. USE DEF InHand, Busy
<1>0. /\ ActiveCount \in Nat /\ Shares(ActiveCount) \in Nat
      /\ resultsQ \in Seq(Result) /\ inbox \in Seq(NctTask)
  BY SharesType DEF TypeOK, TypeWorker, TypePool
<1>1. CASE WorkersNext
  <2>1. UNCHANGED <<nct, main>> /\ (resultsQ' = resultsQ \/ \E r : resultsQ' = Append(resultsQ, r))
    BY <1>1 DEF WorkersNext, WorkerStep, WorkerFault, Take, OnControl, MineAborted,
         PublishResult, AckTask, FoundNothing, GiveUp, Die, Reconnect, Restart
  <2>2. resultsQ # <<>> => resultsQ' # <<>>
    BY <1>0, <2>1
  <2>. QED  BY <2>1, <2>2 DEF nct, main
<1>2. CASE NctNext
  <2>1. CASE NctAborts
    BY <2>1 DEF NctAborts, main
  <2>2. ASSUME NEW index, NEW stamp, NctPublishes(index, stamp) PROVE InHand'
    <3>1. inbox' # <<>> /\ (inbox # <<>> => Head(inbox') = Head(inbox))
      BY <1>0, <2>2 DEF NctPublishes
    <3>. QED  BY <2>2, <3>1 DEF NctPublishes, main, workerVars
  <2>. QED  BY <1>2, <2>1, <2>2 DEF NctNext, NctNextBlock, NctRetries, NctRestarts
<1>3. CASE RegistryNext
  BY <1>3 DEF RegistryNext, OnRegistration, OnHeartbeat, Expire, workerVars, nct, main
<1>4. CASE TaskStep \/ ResultStep
  BY <1>0, <1>4 DEF TaskStep, OnTask, SkipTask, PublishSubTasks, SetOriginal, Arm,
       StartMonitor, ResultStep, DropResult, Forward, ClearContext, workerVars, nct, main
<1>5. CASE MainFault
  BY <1>5 DEF MainFault, PublishFails, TaskAckLost, StartMonitor, ForwardFails,
       ResultAckLost, Crash, workerVars, nct, main
<1>6. ASSUME NEW g \in 1 .. Generation, MonitorStep(g) PROVE InHand'
  BY <1>6 DEF MonitorStep, MonitorTurns, MonitorEnds, MonitorSnapshot, MonitorCounts, MonitorWaits,
       MonitorAborts, MonitorPublishes, MonitorSetsOriginal, MonitorReports, workerVars,
       nct, main
<1>7. CASE UNCHANGED vars
  BY <1>7 DEF vars, workerVars, nct, main
<1>. QED  BY <1>1, <1>2, <1>3, <1>4, <1>5, <1>6, <1>7 DEF Next

\* What the main thread handles is what its queues hold at their heads.
THEOREM PoolTypes == Spec => [](TypeOK /\ InHand)
<1>1. Init => InHand
  BY DEF Init, InHand, Busy
<1>. QED  BY <1>1, InitType, NextType, NextInHand, PTL DEF Spec

\* Whatever fails, and however many workers, tasks and monitors there are, every
\* sub-task holds nonces of the range only and every variable keeps its type.
THEOREM PoolTypeCorrect == Spec => []TypeOK
BY PoolTypes, PTL

----------------------------------------------------------------------------
(* Who changes what. *)

NctPublished == NctNextBlock \/ NctRetries \/ NctRestarts

\* Who answers the NCT, and who changes the context.
LEMMA WhoChanges ==
    ASSUME [Next]_vars
    PROVE  /\ out' # out => Forward
           /\ latest' # latest => NctPublished
           /\ inbox' # inbox => NctPublished \/ SkipTask \/ Arm
           /\ current' # current => OnTask \/ ClearContext \/ Crash
           /\ monitors' # monitors => \/ Arm \/ TaskAckLost \/ Crash
                                     \/ \E g \in 1 .. Generation : MonitorStep(g)
           /\ control' # control => \/ WorkersNext \/ NctAborts
                                   \/ \E g \in 1 .. Generation : MonitorAborts(g)
           /\ worker' # worker => WorkersNext
           /\ resultsQ' # resultsQ => WorkersNext \/ DropResult \/ ClearContext
           /\ <<tasksQ', round'>> # <<tasksQ, round>>
              => \/ WorkersNext \/ PublishSubTasks \/ PublishFails
                 \/ \E g \in 1 .. Generation : MonitorPublishes(g)
<1>. USE DEF Next, vars, workerVars, nct, main, watch, registry, WorkersNext, NctNext,
     NctPublished, NctAborts, NctNextBlock, NctRetries, NctRestarts, NctPublishes,
     RegistryNext, OnRegistration, OnHeartbeat, Expire, TaskStep, OnTask, SkipTask,
     PublishSubTasks, SetOriginal, Arm, ResultStep, DropResult, Forward, ClearContext,
     MainFault, PublishFails, TaskAckLost, ForwardFails, ResultAckLost, Crash, MonitorStep,
     MonitorTurns, MonitorEnds, MonitorSnapshot, MonitorCounts, MonitorWaits, MonitorAborts,
     MonitorPublishes, MonitorSetsOriginal, MonitorReports
<1>1. out' # out => Forward
  OBVIOUS
<1>2. latest' # latest => NctPublished
  OBVIOUS
<1>3. inbox' # inbox => NctPublished \/ SkipTask \/ Arm
  OBVIOUS
<1>4. current' # current => OnTask \/ ClearContext \/ Crash
  OBVIOUS
<1>5. monitors' # monitors => \/ Arm \/ TaskAckLost \/ Crash
                             \/ \E g \in 1 .. Generation : MonitorStep(g)
  OBVIOUS
<1>6. control' # control => \/ WorkersNext \/ NctAborts
                           \/ \E g \in 1 .. Generation : MonitorAborts(g)
  OBVIOUS
<1>7. worker' # worker => WorkersNext
  OBVIOUS
<1>8. resultsQ' # resultsQ => WorkersNext \/ DropResult \/ ClearContext
  OBVIOUS
<1>9. <<tasksQ', round'>> # <<tasksQ, round>>
         => \/ WorkersNext \/ PublishSubTasks \/ PublishFails
            \/ \E g \in 1 .. Generation : MonitorPublishes(g)
  OBVIOUS
<1>. QED  BY ONLY <1>1, <1>2, <1>3, <1>4, <1>5, <1>6, <1>7, <1>8, <1>9

----------------------------------------------------------------------------
(* A monitor watches over the current block. *)

\* While the task is in the main thread's hands its monitor may not have been
\* started yet; after that only a forwarded answer disarms the monitors.
WatchInv ==
    /\ armed => monitors # <<>>
    /\ (current # NoTask /\ ppc \in {"idle", "clear"} /\ ~Redone /\ reports = 0)
       => armed /\ monitors[Generation].pc # "done"

\* A monitor that was just started watches.
LEMMA StartMonitorWatches ==
    ASSUME TypeOK, StartMonitor
    PROVE  armed' /\ monitors' # <<>> /\ monitors'[Len(monitors')].pc # "done"
<1>. DEFINE new == [Done EXCEPT !.pc = "check"]
<1>1. new.pc = "check"
  BY DEF Done
<1>2. monitors' = Append(monitors, new) /\ armed' = TRUE /\ monitors \in Seq(MonitorRecord)
  BY DEF StartMonitor, TypeOK, TypePool
<1>. HIDE DEF new
<1>3. monitors' # <<>> /\ monitors'[Len(monitors')] = new
  BY <1>2
<1>. QED  BY <1>1, <1>2, <1>3

\* A monitor ends only where nobody has to watch, or a newer one does.
LEMMA MonitorWatches ==
    ASSUME TypeOK, WatchInv, NEW g \in 1 .. Generation, MonitorStep(g)
    PROVE  WatchInv'
<1>1. /\ monitors \in Seq(MonitorRecord) /\ g \in DOMAIN monitors
      /\ Generation \in DOMAIN monitors /\ reports \in Nat
      /\ monitors[g] \in MonitorRecord
  BY DEF TypeOK, TypePool, Generation
<1>2. ASSUME NEW state, SetMonitor(g, state)
      PROVE  /\ monitors' # <<>> /\ Generation' = Generation
             /\ monitors'[Generation] = (IF g = Generation THEN state ELSE monitors[Generation])
  BY <1>1, <1>2 DEF SetMonitor, Generation
<1>. DEFINE Ends == ~(armed /\ g = Generation) \/ current = NoTask \/ reports' # 0
<1>3. /\ \E state : SetMonitor(g, state) /\ (state.pc # "done" \/ Ends)
      /\ UNCHANGED <<armed, current, ppc, inbox>> /\ (reports' = 0 => reports = 0)
  <2>1. [Done EXCEPT !.pc = "check"].pc # "done" /\ [Done EXCEPT !.pc = "snapshot"].pc # "done"
        /\ [Done EXCEPT !.pc = "count", !.task = current].pc # "done"
    BY DEF Done
  <2>2. /\ [monitors[g] EXCEPT !.pc = "compare", !.active = ActiveCount].pc # "done"
        /\ [monitors[g] EXCEPT !.pc = "publish"].pc # "done"
        /\ [monitors[g] EXCEPT !.pc = "original"].pc # "done"
    BY <1>1 DEF MonitorRecord
  <2>3. CASE MonitorTurns(g) \/ MonitorWaits(g) \/ MonitorSetsOriginal(g)
    BY <2>1, <2>3 DEF MonitorTurns, MonitorWaits, MonitorSetsOriginal, nct, main
  <2>4. CASE MonitorEnds(g)
    BY <2>4 DEF MonitorEnds, nct, main
  <2>5. CASE MonitorSnapshot(g)
    BY <2>1, <2>5 DEF MonitorSnapshot, nct, main
  <2>6. CASE MonitorCounts(g) \/ MonitorAborts(g) \/ MonitorPublishes(g)
    BY <2>2, <2>6 DEF MonitorCounts, MonitorAborts, MonitorPublishes, nct, main
  <2>7. CASE MonitorReports(g)
    BY <1>1, <2>7 DEF MonitorReports, main
  <2>. QED  BY <2>3, <2>4, <2>5, <2>6, <2>7 DEF MonitorStep
<1>4. PICK state : SetMonitor(g, state) /\ (state.pc # "done" \/ Ends)
  BY <1>3
<1>5. /\ monitors' # <<>> /\ Generation' = Generation
      /\ monitors'[Generation] = (IF g = Generation THEN state ELSE monitors[Generation])
  BY <1>2, <1>4
<1>. QED  BY <1>3, <1>4, <1>5 DEF WatchInv, Redone

\* Every step keeps the watch.
LEMMA NextWatches == TypeOK /\ InHand /\ WatchInv /\ [Next]_vars => WatchInv'
<1>. SUFFICES ASSUME TypeOK, InHand, WatchInv, [Next]_vars PROVE WatchInv'
  OBVIOUS
<1>0. reports \in Nat /\ inbox \in Seq(NctTask)
  BY DEF TypeOK, TypePool
<1>1. CASE WorkersNext \/ RegistryNext \/ NctAborts \/ UNCHANGED vars
  <2>1. UNCHANGED <<armed, monitors, current, ppc, inbox, reports>>
    BY <1>1 DEF WorkersNext, RegistryNext, OnRegistration, OnHeartbeat, Expire, NctAborts,
         vars, nct, main, watch
  <2>. QED  BY <2>1 DEF WatchInv, Redone, Generation
<1>2. ASSUME NEW index, NEW stamp, NctPublishes(index, stamp) PROVE WatchInv'
  <2>1. inbox # <<>> => inbox' # <<>> /\ Head(inbox') = Head(inbox)
    BY <1>0, <1>2 DEF NctPublishes
  <2>. QED  BY <1>2, <2>1 DEF NctPublishes, WatchInv, Redone, Generation, main, watch
<1>3. CASE OnTask \/ PublishSubTasks \/ SetOriginal
  BY <1>3 DEF OnTask, PublishSubTasks, SetOriginal, WatchInv, Generation, watch
<1>4. CASE SkipTask
  BY <1>0, <1>4 DEF SkipTask, WatchInv, Generation, watch
<1>5. CASE Arm \/ TaskAckLost
  <2>1. StartMonitor
    BY <1>5 DEF Arm, TaskAckLost
  <2>. QED  BY <2>1, StartMonitorWatches DEF WatchInv, Generation
<1>6. CASE DropResult \/ Forward \/ ForwardFails \/ ResultAckLost
  BY <1>6 DEF DropResult, Forward, ForwardFails, ResultAckLost, WatchInv, Redone, Generation,
       nct, main, watch
<1>7. CASE ClearContext
  BY <1>7 DEF ClearContext, WatchInv, Generation
<1>8. CASE PublishFails
  <2>1. Redone'
    BY <1>8 DEF PublishFails, InHand, Busy, Redone, nct
  <2>. QED  BY <1>8, <2>1 DEF PublishFails, WatchInv, watch
<1>9. CASE Crash
  BY <1>9 DEF Crash, WatchInv
<1>. QED  BY <1>1, <1>2, <1>3, <1>4, <1>5, <1>6, <1>7, <1>8, <1>9, MonitorWatches
          DEF Next, NctNext, NctNextBlock, NctRetries, NctRestarts, TaskStep, ResultStep,
              MainFault

\* However the ends of older monitors, lost acks, restarts of the coordinator and
\* new tasks fall, no block is current without a monitor of the newest
\* generation that still runs, so that the loss of a worker is noticed.
THEOREM WatchedCorrect == Spec => []Watched
<1>1. Init => WatchInv
  BY DEF Init, WatchInv
<1>2. WatchInv => Watched
  BY DEF WatchInv, Watched
<1>. QED  BY <1>1, <1>2, NextWatches, PoolTypes, PTL DEF Spec

----------------------------------------------------------------------------
(* What the queues, the workers and the monitors hold. *)

\* The sub-tasks and results that may still reach the pool, and the tasks that
\* anybody knows.
Working == {w \in Workers : worker[w].pc \in {"mining", "ack"}}
Held    == ToSet(tasksQ) \union ToSet(resultsQ) \union {worker[w].task : w \in Working}
Known   == {NoTask, latest, current} \union ToSet(inbox) \union {h.of : h \in Held}
             \union {monitors[g].task : g \in DOMAIN monitors}

\* The steps of a worker as they look from the queues: a sub-task is taken, an
\* abort read, a result published, a sub-task dropped or put back.
Took(w) == \E task \in ToSet(tasksQ) :
    /\ worker[w].pc = "idle" /\ worker'[w] = Mining(task)
    /\ ToSet(tasksQ) = {task} \union ToSet(tasksQ') /\ UNCHANGED <<resultsQ, abandoned>>
Told(w) ==
    /\ UNCHANGED <<tasksQ, resultsQ, abandoned>>
    /\ worker'[w].pc = worker[w].pc /\ worker'[w].task = worker[w].task
    /\ worker'[w].aborted => worker[w].aborted \/ worker[w].task.id \in control[w]
Found(w) == \E result \in Result :
    /\ worker[w].pc = "mining" /\ worker'[w].pc = "ack"
    /\ worker'[w].task = worker[w].task
    /\ result.id = worker[w].task.id /\ result.of = worker[w].task.of
    /\ result.nonce \in Solutions
    /\ ToSet(resultsQ') = ToSet(resultsQ) \union {result}
    /\ UNCHANGED <<tasksQ, abandoned>>
Dropped(w) ==
    /\ UNCHANGED <<tasksQ, resultsQ>> /\ abandoned \subseteq abandoned'
    /\ worker'[w].pc \in {"idle", "down"}
    /\ worker[w].pc = "mining" /\ ~worker[w].aborted /\ Hits(worker[w].task) # {}
       => worker[w].task.of.stamp \in abandoned'
PutBack(w) ==
    /\ worker[w].pc \in {"mining", "ack"} /\ worker'[w].pc \in {"idle", "down"}
    /\ ToSet(tasksQ') = ToSet(tasksQ) \union {worker[w].task}
    /\ UNCHANGED <<resultsQ, abandoned>>

\* Each step of a worker is one of these, and touches no other worker.
LEMMA WorkerMoves ==
    ASSUME TypeOK, NEW w \in Workers, WorkerStep(w) \/ WorkerFault(w) \/ Restart(w)
    PROVE  /\ \A v \in Workers : v # w => worker'[v] = worker[v]
           /\ \A v \in Workers : control'[v] \subseteq control[v]
           /\ Took(w) \/ Told(w) \/ Found(w) \/ Dropped(w) \/ PutBack(w)
<1>1. /\ worker \in [Workers -> WorkerRecord] /\ worker[w] \in WorkerRecord
      /\ worker[w].task \in SubTask /\ tasksQ \in Seq(SubTask) /\ resultsQ \in Seq(Result)
      /\ control \in [Workers -> SUBSET (Nat \X Nat)]
  BY DEF TypeOK, TypeWorker, WorkerRecord
<1>2. ASSUME NEW state, Set(w, state)
      PROVE  worker'[w] = state /\ \A v \in Workers : v # w => worker'[v] = worker[v]
  BY <1>1, <1>2 DEF Set
<1>3. Idle.pc = "idle" /\ Down.pc = "down"
  BY DEF Idle, Down
<1>4. CASE Take(w)
  <2>1. /\ Head(tasksQ) \in ToSet(tasksQ)
        /\ ToSet(tasksQ) = {Head(tasksQ)} \union ToSet(Tail(tasksQ))
    BY <1>1, <1>4, Elements DEF Take
  <2>2. /\ worker'[w] = Mining(Head(tasksQ)) /\ \A v \in Workers : v # w => worker'[v] = worker[v]
    BY <1>2, <1>4 DEF Take
  <2>. QED  BY <1>4, <2>1, <2>2 DEF Take, Took
<1>5. CASE OnControl(w)
  <2>1. PICK id \in control[w] :
           /\ control' = [control EXCEPT ![w] = @ \ {id}]
           /\ worker' = [worker EXCEPT ![w].aborted =
                @ \/ (worker[w].pc = "mining" /\ worker[w].task.id = id)]
           /\ UNCHANGED <<tasksQ, resultsQ, registrations, abandoned, faults>>
    BY <1>5 DEF OnControl
  <2>2. \A v \in Workers : control'[v] \subseteq control[v]
    BY <1>1, <2>1
  <2>3. /\ \A v \in Workers : v # w => worker'[v] = worker[v]
        /\ worker'[w].pc = worker[w].pc /\ worker'[w].task = worker[w].task
    BY <1>1, <2>1 DEF WorkerRecord
  <2>4. worker'[w].aborted
           = (worker[w].aborted \/ (worker[w].pc = "mining" /\ worker[w].task.id = id))
    BY <1>1, <2>1 DEF WorkerRecord
  <2>5. Told(w)
    BY <2>1, <2>3, <2>4 DEF Told
  <2>. QED  BY <2>2, <2>3, <2>5
<1>6. CASE PublishResult(w)
  <2>1. PICK nonce \in Finds(worker[w].task) :
           resultsQ' = Append(resultsQ, [id |-> worker[w].task.id,
                                         of |-> worker[w].task.of, nonce |-> nonce])
    BY <1>6 DEF PublishResult
  <2>. DEFINE r == [id |-> worker[w].task.id, of |-> worker[w].task.of, nonce |-> nonce]
  <2>2. r \in Result /\ nonce \in Solutions
    BY <1>1, <2>1, PoolAssumption DEF SubTask, Result, Finds, Hits
  <2>3. r.id = worker[w].task.id /\ r.of = worker[w].task.of /\ r.nonce = nonce
    OBVIOUS
  <2>4. ToSet(resultsQ') = ToSet(resultsQ) \union {r}
    <3>. HIDE DEF r
    <3>1. resultsQ' = Append(resultsQ, r)
      BY <2>1 DEF r
    <3>. QED  BY <1>1, <2>2, <3>1, Elements
  <2>5. /\ worker'[w] = [worker[w] EXCEPT !.pc = "ack"]
        /\ \A v \in Workers : v # w => worker'[v] = worker[v]
    BY <1>2, <1>6 DEF PublishResult
  <2>6. worker'[w].pc = "ack" /\ worker'[w].task = worker[w].task
    BY <1>1, <2>5 DEF WorkerRecord
  <2>. HIDE DEF r
  <2>7. Found(w)
    BY <1>6, <2>2, <2>3, <2>4, <2>6 DEF PublishResult, Found
  <2>. QED  BY <1>6, <2>5, <2>7 DEF PublishResult
<1>7. CASE MineAborted(w) \/ AckTask(w) \/ FoundNothing(w) \/ GiveUp(w) \/ Restart(w)
  <2>1. Set(w, Idle) /\ UNCHANGED <<tasksQ, resultsQ, control>>
    BY <1>7 DEF MineAborted, AckTask, FoundNothing, GiveUp, Restart
  <2>2. /\ abandoned \subseteq abandoned'
        /\ worker[w].pc = "mining" /\ ~worker[w].aborted /\ Hits(worker[w].task) # {}
           => worker[w].task.of.stamp \in abandoned'
    BY <1>7 DEF MineAborted, AckTask, FoundNothing, GiveUp, Restart
  <2>3. worker'[w] = Idle /\ \A v \in Workers : v # w => worker'[v] = worker[v]
    BY <1>2, <2>1
  <2>. QED  BY <1>3, <2>1, <2>2, <2>3 DEF Dropped
<1>8. CASE Die(w) \/ Reconnect(w)
  <2>1. /\ Redeliver(w) /\ control' = [control EXCEPT ![w] = {}]
        /\ Set(w, Idle) \/ Set(w, Down)
    BY <1>8 DEF Die, Reconnect
  <2>2. /\ worker'[w].pc \in {"idle", "down"} /\ UNCHANGED <<resultsQ, abandoned>>
        /\ \A v \in Workers : v # w => worker'[v] = worker[v]
    BY <1>2, <1>3, <1>8, <2>1 DEF Die, Reconnect
  <2>3. \A v \in Workers : control'[v] \subseteq control[v]
    BY <1>1, <2>1
  <2>4. CASE worker[w].pc \in {"mining", "ack"}
    <3>. DEFINE one == <<worker[w].task>>
    <3>1. tasksQ' = one \o tasksQ
      BY <2>1, <2>4 DEF Redeliver, Requeue
    <3>2. one \in Seq(SubTask) /\ ToSet(one) = {worker[w].task}
      BY <1>1 DEF ToSet
    <3>. HIDE DEF one
    <3>3. ToSet(tasksQ') = ToSet(tasksQ) \union {worker[w].task}
      BY <1>1, <3>1, <3>2, ElementsOfBoth
    <3>. QED  BY <2>2, <2>3, <2>4, <3>3 DEF PutBack
  <2>5. CASE worker[w].pc \notin {"mining", "ack"}
    BY <2>1, <2>2, <2>3, <2>5 DEF Redeliver, Dropped
  <2>. QED  BY <2>4, <2>5
<1>. QED  BY <1>4, <1>5, <1>6, <1>7, <1>8 DEF WorkerStep, WorkerFault

\* A worker makes nothing up: what it hands on carries the identifier and the
\* block it came with.
LEMMA WorkersHeld ==
    ASSUME TypeOK, WorkersNext
    PROVE  /\ \A h \in Held' : \E old \in Held : h.id = old.id /\ h.of = old.of
           /\ \A r \in ToSet(resultsQ') : r \in ToSet(resultsQ) \/ r.nonce \in Solutions
<1>. PICK w \in Workers :
        /\ WorkerStep(w) \/ WorkerFault(w) \/ Restart(w)
        /\ UNCHANGED <<nct, fallback, main, watch, registry, round>>
  BY DEF WorkersNext
<1>1. \A v \in Workers : v # w => worker'[v] = worker[v]
  BY WorkerMoves
<1>2. ASSUME NEW h \in Held'
      PROVE  \/ h \in ToSet(tasksQ') \/ h \in ToSet(resultsQ') \/ h \in Held
             \/ w \in Working' /\ h = worker'[w].task
  <2>1. ASSUME NEW v \in Working', h = worker'[v].task, v # w PROVE h \in Held
    <3>1. v \in Working /\ h = worker[v].task
      BY <1>1, <2>1 DEF Working
    <3>. QED  BY <3>1 DEF Held
  <2>. QED  BY <2>1 DEF Held
<1>3. CASE Took(w)
  <2>1. PICK task \in ToSet(tasksQ) : /\ ToSet(tasksQ) = {task} \union ToSet(tasksQ')
                                      /\ UNCHANGED <<resultsQ, abandoned>>
                                      /\ worker'[w] = Mining(task)
    BY <1>3 DEF Took
  <2>2. worker'[w].task = task
    BY <2>1 DEF Mining
  <2>3. task \in Held /\ ToSet(tasksQ') \subseteq Held /\ ToSet(resultsQ') \subseteq Held
    BY <2>1 DEF Held
  <2>4. Held' \subseteq Held
    BY <1>2, <2>2, <2>3
  <2>. QED  BY <2>1, <2>4
<1>4. CASE Told(w)
  <2>1. /\ ToSet(tasksQ') \subseteq Held /\ ToSet(resultsQ') \subseteq Held
        /\ w \in Working' => worker'[w].task \in Held
    BY <1>4 DEF Told, Held, Working
  <2>2. Held' \subseteq Held
    BY <1>2, <2>1
  <2>. QED  BY <1>4, <2>2 DEF Told
<1>5. CASE Found(w)
  <2>1. PICK result \in Result :
           /\ worker[w].pc = "mining" /\ worker'[w].pc = "ack"
           /\ worker'[w].task = worker[w].task
           /\ result.id = worker[w].task.id /\ result.of = worker[w].task.of
           /\ result.nonce \in Solutions
           /\ ToSet(resultsQ') = ToSet(resultsQ) \union {result}
           /\ UNCHANGED <<tasksQ, abandoned>>
    BY <1>5 DEF Found
  <2>2. w \in Working
    BY <2>1 DEF Working
  <2>3. /\ worker[w].task \in Held /\ ToSet(tasksQ') \subseteq Held
        /\ ToSet(resultsQ') \subseteq Held \union {result}
    BY <2>1, <2>2 DEF Held
  <2>4. Held' \subseteq Held \union {result}
    BY <1>2, <2>1, <2>3
  <2>. QED  BY <2>1, <2>3, <2>4
<1>6. CASE Dropped(w)
  <2>1. /\ ToSet(tasksQ') \subseteq Held /\ ToSet(resultsQ') \subseteq Held
        /\ w \notin Working'
    BY <1>6 DEF Dropped, Held, Working
  <2>2. Held' \subseteq Held
    BY <1>2, <2>1
  <2>. QED  BY <1>6, <2>2 DEF Dropped
<1>7. CASE PutBack(w)
  <2>1. /\ ToSet(tasksQ') \subseteq Held /\ ToSet(resultsQ') \subseteq Held
        /\ w \notin Working'
    BY <1>7 DEF PutBack, Held, Working
  <2>2. Held' \subseteq Held
    BY <1>2, <2>1
  <2>. QED  BY <1>7, <2>2 DEF PutBack
<1>. QED  BY <1>3, <1>4, <1>5, <1>6, <1>7, WorkerMoves

\* What is published anew has an identifier of its own.
LEMMA Published ==
    ASSUME TypeOK, NEW task \in NctTask, NEW n \in Nat, PublishTasks(task, n),
           UNCHANGED <<resultsQ, worker>>
    PROVE  /\ round' = round + 1
           /\ \A h \in Held' : h \in Held \/ (h.of = task /\ \E i \in Nat : h.id = <<round + 1, i>>)
<1>1. ToSet(tasksQ') = ToSet(tasksQ) \union ToSet(SubTasks(task, n)) /\ round' = round + 1
  BY PublishType DEF PublishTasks
<1>2. \A t \in ToSet(SubTasks(task, n)) : t.of = task /\ \E i \in Nat : t.id = <<round + 1, i>>
  BY SubTasksType DEF TypeOK, TypePool
<1>3. Held' \subseteq Held \union ToSet(SubTasks(task, n))
  BY <1>1 DEF Held, Working
<1>. QED  BY <1>1, <1>2, <1>3

Fresh(h) == /\ round' = round + 1 /\ h.of \in Known
            /\ \E i \in Nat : h.id = <<round + 1, i>>

\* What is held is what was held before, or cut from a known task under an
\* identifier of a new round; a new result solves.
LEMMA HeldGrows ==
    ASSUME TypeOK, InHand, [Next]_vars
    PROVE  /\ round' \in {round, round + 1}
           /\ \A h \in Held' : (\E old \in Held : h.id = old.id /\ h.of = old.of) \/ Fresh(h)
           /\ \A r \in ToSet(resultsQ') : r \in ToSet(resultsQ) \/ r.nonce \in Solutions
<1>0. /\ resultsQ \in Seq(Result) /\ tasksQ \in Seq(SubTask) /\ current \in NctTask
      /\ count \in Nat /\ round \in Nat /\ current \in Known
  BY DEF TypeOK, TypeWorker, TypePool, Known
<1>1. CASE WorkersNext
  BY <1>1, WorkersHeld DEF WorkersNext
<1>2. CASE UNCHANGED <<tasksQ, resultsQ, worker, round>>
  BY <1>2 DEF Held, Working
<1>3. CASE DropResult \/ ClearContext
  <2>1. resultsQ # <<>> /\ resultsQ' = Tail(resultsQ) /\ UNCHANGED <<tasksQ, worker, round>>
    BY <1>3 DEF DropResult, ClearContext, InHand
  <2>2. ToSet(resultsQ') \subseteq ToSet(resultsQ)
    BY <1>0, <2>1, Elements
  <2>. QED  BY <2>1, <2>2 DEF Held, Working
<1>4. CASE PublishSubTasks
  <2>1. PublishTasks(current, count) /\ UNCHANGED <<resultsQ, worker>>
    BY <1>4 DEF PublishSubTasks
  <2>. QED  BY <1>0, <2>1, Published DEF Fresh
<1>5. CASE PublishFails
  <2>1. UNCHANGED <<resultsQ, worker>>
    BY <1>5 DEF PublishFails
  <2>2. PICK more \in Seq(SubTask) :
           /\ tasksQ' = tasksQ \o more /\ round' = round + 1
           /\ ToSet(more) \subseteq ToSet(SubTasks(current, count))
    BY <1>5, PublishFailsType
  <2>3. ToSet(tasksQ') = ToSet(tasksQ) \union ToSet(more)
    BY <1>0, <2>2, ElementsOfBoth
  <2>4. \A t \in ToSet(SubTasks(current, count)) :
           t.of = current /\ \E i \in Nat : t.id = <<round + 1, i>>
    BY <1>0, SubTasksType
  <2>5. Held' \subseteq Held \union ToSet(more)
    BY <2>1, <2>3 DEF Held, Working
  <2>. QED  BY <1>0, <2>1, <2>2, <2>4, <2>5 DEF Fresh
<1>6. ASSUME NEW g \in 1 .. Generation, MonitorPublishes(g)
      PROVE  /\ round' \in {round, round + 1}
             /\ \A h \in Held' : (\E old \in Held : h.id = old.id /\ h.of = old.of) \/ Fresh(h)
             /\ \A r \in ToSet(resultsQ') : r \in ToSet(resultsQ)
  <2>0. \A active \in Nat : Shares(active) \in Nat
    BY SharesType DEF TypeOK
  <2>1. monitors[g] \in MonitorRecord /\ g \in DOMAIN monitors
    BY DEF TypeOK, TypePool, Generation
  <2>2. monitors[g].task \in NctTask /\ monitors[g].active \in Nat /\ monitors[g].task \in Known
    BY <2>1 DEF MonitorRecord, Known
  <2>3. PublishTasks(monitors[g].task, Shares(monitors[g].active)) /\ UNCHANGED <<resultsQ, worker>>
    BY <1>6 DEF MonitorPublishes
  <2>4. Shares(monitors[g].active) \in Nat
    BY <2>0, <2>2
  <2>5. /\ round' = round + 1
        /\ \A h \in Held' : h \in Held \/ (h.of = monitors[g].task
                                         /\ \E i \in Nat : h.id = <<round + 1, i>>)
    BY <2>2, <2>3, <2>4, Published
  <2>. QED  BY <2>2, <2>3, <2>5 DEF Fresh
<1>. QED
  <2>1. ASSUME ~WorkersNext, ~DropResult, ~ClearContext, ~PublishSubTasks, ~PublishFails,
               \A g \in 1 .. Generation : ~MonitorPublishes(g)
        PROVE  UNCHANGED <<tasksQ, resultsQ, worker, round>>
    BY <2>1, WhoChanges
  <2>. QED  BY <1>1, <1>2, <1>3, <1>4, <1>5, <1>6, <2>1

\* Nobody comes to know a task that was not published.
LEMMA KnownGrows ==
    ASSUME TypeOK, InHand, [Next]_vars
    PROVE  Known' \subseteq Known \union {latest'}
<1>0. /\ inbox \in Seq(NctTask) /\ monitors \in Seq(MonitorRecord)
      /\ current \in Known /\ NoTask \in Known /\ latest \in Known
      /\ ToSet(inbox) \subseteq Known /\ latest \in NctTask
  BY DEF TypeOK, TypePool, Known
<1>1. \A h \in Held' : h.of \in Known
  <2>1. \A old \in Held : old.of \in Known
    BY DEF Known
  <2>. QED  BY <2>1, HeldGrows DEF Fresh
<1>2. current' \in Known
  <2>1. CASE OnTask
    <3>1. Head(inbox) \in ToSet(inbox)
      BY <1>0, <2>1, Elements DEF OnTask
    <3>. QED  BY <1>0, <2>1, <3>1 DEF OnTask
  <2>2. CASE ~OnTask
    <3>1. current' \in {current, NoTask}
      BY <2>2, WhoChanges DEF ClearContext, Crash
    <3>. QED  BY <1>0, <3>1
  <2>. QED  BY <2>1, <2>2
<1>3. ToSet(inbox') \subseteq ToSet(inbox) \union {latest'}
  <2>1. CASE SkipTask \/ Arm
    <3>1. inbox # <<>> /\ inbox' = Tail(inbox)
      BY <2>1 DEF SkipTask, Arm, InHand, Busy
    <3>. QED  BY <1>0, <3>1, Elements
  <2>2. CASE NctPublished
    <3>1. PICK index \in Nat, stamp \in Nat : NctPublishes(index, stamp)
      BY <1>0, <2>2 DEF NctPublished, NctNextBlock, NctRetries, NctRestarts, NctTask
    <3>2. latest' \in NctTask
      BY <1>0, <3>1 DEF NctPublishes, NctTask
    <3>3. inbox' = Append(inbox, latest')
      BY <3>1 DEF NctPublishes
    <3>. QED  BY <1>0, <3>2, <3>3, Elements
  <2>3. CASE ~(SkipTask \/ Arm \/ NctPublished)
    <3>1. inbox' = inbox
      BY <2>3, WhoChanges
    <3>. QED  BY <3>1
  <2>. QED  BY <2>1, <2>2, <2>3
<1>4. ASSUME NEW i \in DOMAIN monitors' PROVE monitors'[i].task \in Known
  <2>0. \A j \in DOMAIN monitors : monitors[j].task \in Known
    BY DEF Known
  <2>1. CASE Arm \/ TaskAckLost
    <3>. DEFINE new == [Done EXCEPT !.pc = "check"]
    <3>1. new.task = NoTask /\ monitors' = Append(monitors, new)
      BY <2>1 DEF Arm, TaskAckLost, StartMonitor, Done
    <3>. HIDE DEF new
    <3>2. monitors'[i] = new \/ (i \in DOMAIN monitors /\ monitors'[i] = monitors[i])
      BY <1>0, <3>1
    <3>. QED  BY <1>0, <2>0, <3>1, <3>2
  <2>2. ASSUME NEW g \in 1 .. Generation, MonitorStep(g) PROVE monitors'[i].task \in Known
    <3>1. /\ g \in DOMAIN monitors /\ monitors[g] \in MonitorRecord /\ monitors[g].task \in Known
      BY <1>0, <2>0 DEF Generation
    <3>2. Done.task \in Known /\ \A pc : [Done EXCEPT !.pc = pc].task \in Known
      BY <1>0 DEF Done
    <3>3. /\ [Done EXCEPT !.pc = "count", !.task = current].task \in Known
          /\ [monitors[g] EXCEPT !.pc = "compare", !.active = ActiveCount].task \in Known
          /\ [monitors[g] EXCEPT !.pc = "publish"].task \in Known
          /\ [monitors[g] EXCEPT !.pc = "original"].task \in Known
      BY <1>0, <3>1 DEF Done, MonitorRecord
    <3>4. \E state : SetMonitor(g, state) /\ state.task \in Known
      BY <2>2, <3>2, <3>3 DEF MonitorStep, MonitorTurns, MonitorEnds, MonitorSnapshot, MonitorCounts,
         MonitorWaits, MonitorAborts, MonitorPublishes, MonitorSetsOriginal, MonitorReports
    <3>5. PICK state : SetMonitor(g, state) /\ state.task \in Known
      BY <3>4
    <3>6. i \in DOMAIN monitors /\ monitors'[i] = (IF i = g THEN state ELSE monitors[i])
      BY <1>0, <3>1, <3>5 DEF SetMonitor
    <3>. QED  BY <2>0, <3>5, <3>6
  <2>3. CASE Crash
    BY <2>3 DEF Crash
  <2>4. ASSUME ~Arm, ~TaskAckLost, ~Crash, \A g \in 1 .. Generation : ~MonitorStep(g)
        PROVE  UNCHANGED monitors
    BY <2>4, WhoChanges
  <2>. QED  BY <2>0, <2>1, <2>2, <2>3, <2>4
<1>. QED  BY <1>0, <1>1, <1>2, <1>3, <1>4 DEF Known

\* Tasks are numbered in the order they are published, and a stamp (previous hash
\* and fingerprint) belongs to one height.
BlockInv == \A t \in Known :
    /\ t.id <= latest.id /\ t.stamp <= latest.stamp /\ (t # NoTask => t.id > 0)
    /\ \A u \in Known : t.stamp = u.stamp => t.index = u.index

\* What is known of tasks are tasks.
LEMMA KnownType == TypeOK => Known \subseteq NctTask
<1>. SUFFICES ASSUME TypeOK PROVE Known \subseteq NctTask
  OBVIOUS
<1>1. /\ NoTask \in NctTask /\ latest \in NctTask /\ current \in NctTask
      /\ inbox \in Seq(NctTask) /\ monitors \in Seq(MonitorRecord)
      /\ tasksQ \in Seq(SubTask) /\ resultsQ \in Seq(Result)
      /\ worker \in [Workers -> WorkerRecord]
  BY NothingType DEF TypeOK, TypeWorker, TypePool
<1>2. ToSet(inbox) \subseteq NctTask /\ ToSet(tasksQ) \subseteq SubTask
      /\ ToSet(resultsQ) \subseteq Result
  BY <1>1, Elements
<1>3. \A h \in SubTask \union Result : h.of \in NctTask
  BY DEF SubTask, Result
<1>4. \A w \in Working : worker[w].task \in SubTask
  BY <1>1 DEF Working, WorkerRecord
<1>5. \A h \in Held : h.of \in NctTask
  BY <1>2, <1>3, <1>4 DEF Held
<1>6. \A g \in DOMAIN monitors : monitors[g].task \in NctTask
  <2>1. \A g \in DOMAIN monitors : monitors[g] \in MonitorRecord
    BY <1>1
  <2>. QED  BY <2>1 DEF MonitorRecord
<1>. QED  BY <1>1, <1>2, <1>5, <1>6 DEF Known

\* The NCT's new task is the youngest, and its stamp names one height.
LEMMA NextBlock == TypeOK /\ InHand /\ BlockInv /\ [Next]_vars => BlockInv'
<1>. SUFFICES ASSUME TypeOK, InHand, BlockInv, [Next]_vars PROVE BlockInv'
  OBVIOUS
<1>1. /\ Known \subseteq NctTask /\ Known' \subseteq Known \union {latest'}
      /\ latest \in Known /\ latest \in NctTask
  BY KnownGrows, KnownType DEF TypeOK, TypePool, Known
<1>2. CASE latest' = latest
  BY <1>1, <1>2 DEF BlockInv
<1>3. ASSUME latest' # latest
      PROVE  /\ latest'.id = latest.id + 1
             /\ \/ latest'.stamp = latest.stamp + 1
                \/ latest'.stamp = latest.stamp /\ latest'.index = latest.index
  <2>1. PICK index \in Nat, stamp \in Nat :
           /\ NctPublishes(index, stamp)
           /\ stamp = latest.stamp + 1 \/ (stamp = latest.stamp /\ index = latest.index)
    <3>1. NctPublished /\ latest.index \in Nat /\ latest.stamp \in Nat
      BY <1>1, <1>3, WhoChanges DEF NctTask
    <3>. QED  BY <3>1 DEF NctPublished, NctNextBlock, NctRetries, NctRestarts
  <2>. QED  BY <2>1 DEF NctPublishes
<1>4. ASSUME latest' # latest PROVE BlockInv'
  <2>1. \A t \in NctTask : t.id \in Nat /\ t.stamp \in Nat
    BY DEF NctTask
  <2>2. ASSUME NEW t \in Known'
        PROVE  /\ t.id <= latest'.id /\ t.stamp <= latest'.stamp /\ (t # NoTask => t.id > 0)
    BY <1>1, <1>3, <1>4, <2>1 DEF BlockInv
  <2>3. ASSUME NEW t \in Known', NEW u \in Known', t.stamp = u.stamp PROVE t.index = u.index
    <3>1. ASSUME NEW k \in Known, k.stamp = latest'.stamp PROVE k.index = latest'.index
      BY <1>1, <1>3, <1>4, <2>1, <3>1 DEF BlockInv
    <3>2. (t \in Known \/ t = latest') /\ (u \in Known \/ u = latest')
      BY <1>1
    <3>3. CASE t \in Known /\ u \in Known
      BY <2>3, <3>3 DEF BlockInv
    <3>. QED  BY <2>3, <3>1, <3>2, <3>3
  <2>. QED  BY <2>2, <2>3 DEF BlockInv
<1>. QED  BY <1>2, <1>4

----------------------------------------------------------------------------
(* An abort never names a sub-task that can still bring the solution. *)

OutIds == {out[i].result.id : i \in DOMAIN out}

HeldInv ==
    /\ \A h \in Held : h.id[1] \in 1 .. round
    /\ \A id \in OutIds : id[1] \in 1 .. round
    /\ \A r \in ToSet(resultsQ) : r.nonce \in Solutions
    /\ \A w \in Workers : \A id \in control[w] : id[1] = 0 \/ id \in OutIds

\* An answer adds the identifier of its sub-task.
LEMMA ForwardIds ==
    ASSUME TypeOK, Forward
    PROVE  OutIds' = OutIds \union {Head(resultsQ).id}
<1>. DEFINE new == [result |-> Head(resultsQ), for |-> current]
<1>1. out' = Append(out, new) /\ out \in Seq(Answer) /\ new.result.id = Head(resultsQ).id
  BY DEF Forward, TypeOK, TypePool
<1>. HIDE DEF new
<1>2. /\ DOMAIN out = 1 .. Len(out) /\ Len(out) \in Nat /\ DOMAIN out' = 1 .. (Len(out) + 1)
      /\ out'[Len(out) + 1] = new /\ \A i \in DOMAIN out : out'[i] = out[i]
  BY <1>1
<1>3. ASSUME NEW i \in DOMAIN out' PROVE out'[i].result.id \in OutIds \union {new.result.id}
  <2>1. i \in DOMAIN out \/ i = Len(out) + 1
    BY <1>2
  <2>. QED  BY <1>2, <2>1 DEF OutIds
<1>4. OutIds \union {new.result.id} \subseteq OutIds'
  <2>1. Len(out) + 1 \in DOMAIN out' /\ \A i \in DOMAIN out : i \in DOMAIN out'
    BY <1>2
  <2>. QED  BY <1>2, <2>1 DEF OutIds
<1>5. OutIds' \subseteq OutIds \union {new.result.id}
  BY <1>3 DEF OutIds
<1>. QED  BY <1>1, <1>4, <1>5

\* An abort names a task of the NCT or an answered sub-task.
LEMMA ControlGrows ==
    ASSUME TypeOK, [Next]_vars, NEW w \in Workers, NEW id \in control'[w]
    PROVE  id \in control[w] \/ id[1] = 0 \/ id \in OutIds
<1>1. CASE WorkersNext
  <2>1. PICK v \in Workers : WorkerStep(v) \/ WorkerFault(v) \/ Restart(v)
    BY <1>1 DEF WorkersNext
  <2>. QED  BY <2>1, WorkerMoves
<1>2. ASSUME NEW sent, Broadcast(sent) PROVE id \in control[w] \/ id = sent
  BY <1>2 DEF Broadcast
<1>3. CASE NctAborts
  <2>1. answered + 1 \in DOMAIN out
    BY <1>3 DEF NctAborts, TypeOK, TypePool
  <2>2. Broadcast(out[answered + 1].result.id)
    BY <1>3 DEF NctAborts
  <2>. QED  BY <1>2, <2>1, <2>2 DEF OutIds
<1>4. ASSUME NEW g \in 1 .. Generation, MonitorAborts(g) PROVE id \in control[w] \/ id[1] = 0
  <2>1. control' = control \/ Broadcast(NctId(monitors[g].task))
    BY <1>4 DEF MonitorAborts
  <2>2. NctId(monitors[g].task)[1] = 0
    BY DEF NctId
  <2>. QED  BY <1>2, <2>1, <2>2
<1>5. ASSUME ~WorkersNext, ~NctAborts, \A g \in 1 .. Generation : ~MonitorAborts(g)
      PROVE  UNCHANGED control
  BY <1>5, WhoChanges
<1>. QED  BY <1>1, <1>3, <1>4, <1>5

\* Every step keeps the identifiers apart.
LEMMA NextHeld == TypeOK /\ InHand /\ HeldInv /\ [Next]_vars => HeldInv'
<1>. SUFFICES ASSUME TypeOK, InHand, HeldInv, [Next]_vars PROVE HeldInv'
  OBVIOUS
<1>1. round \in Nat /\ round' \in {round, round + 1}
  BY HeldGrows DEF TypeOK, TypePool
<1>2. \A k \in 1 .. round : k \in 1 .. round'
  BY <1>1
<1>3. ASSUME NEW h \in Held' PROVE h.id[1] \in 1 .. round'
  <2>1. CASE \E old \in Held : h.id = old.id /\ h.of = old.of
    BY <1>2, <2>1 DEF HeldInv
  <2>2. CASE Fresh(h)
    BY <1>1, <2>2 DEF Fresh
  <2>. QED  BY <2>1, <2>2, HeldGrows
<1>4. OutIds' \subseteq OutIds \union {h.id : h \in Held} /\ OutIds \subseteq OutIds'
  <2>1. CASE Forward
    <3>1. Head(resultsQ) \in ToSet(resultsQ)
      BY <2>1, Elements DEF Forward, TypeOK, TypeWorker
    <3>. QED  BY <2>1, <3>1, ForwardIds DEF Held
  <2>2. CASE ~Forward
    BY <2>2, WhoChanges DEF OutIds
  <2>. QED  BY <2>1, <2>2
<1>5. \A id \in OutIds' : id[1] \in 1 .. round'
  BY <1>2, <1>4 DEF HeldInv
<1>6. \A r \in ToSet(resultsQ') : r.nonce \in Solutions
  BY HeldGrows DEF HeldInv
<1>7. \A w \in Workers : \A id \in control'[w] : id[1] = 0 \/ id \in OutIds'
  BY <1>4, ControlGrows DEF HeldInv
<1>. QED  BY <1>3, <1>5, <1>6, <1>7 DEF HeldInv

----------------------------------------------------------------------------
(* One answer for each task. *)

InboxInv == \A i, j \in DOMAIN inbox : i < j => inbox[i].id < inbox[j].id
OutInv   == \A i \in DOMAIN out : out[i].for # NoTask /\ out[i].for.id <= latest.id

\* What may still be answered: the task that is being mined, unless it has just
\* been answered, and the tasks nobody has read.
Answers(t) == {j \in DOMAIN out : out[j].for = t}
Mined(t)   == current = t /\ ppc # "clear"
Waiting(t) == \E i \in DOMAIN inbox : inbox[i] = t /\ (i = 1 => ppc \notin Busy)
One(b)     == IF b THEN 1 ELSE 0
OnceFor(t) == Cardinality(Answers(t)) + One(Mined(t)) + One(Waiting(t))
                <= 1 + Mishaps
OnceInv    == \A t \in NctTask : t # NoTask => OnceFor(t)

\* Tasks are read in the order in which they were published.
LEMMA NextInbox ==
    TypeOK /\ InHand /\ BlockInv /\ InboxInv /\ [Next]_vars => InboxInv'
<1>. SUFFICES ASSUME TypeOK, InHand, BlockInv, InboxInv, [Next]_vars PROVE InboxInv'
  OBVIOUS
<1>1. inbox \in Seq(NctTask) /\ latest \in NctTask /\ \A t \in NctTask : t.id \in Nat
  BY DEF TypeOK, TypePool, NctTask
<1>2. CASE SkipTask \/ Arm
  <2>1. inbox # <<>> /\ inbox' = Tail(inbox)
    BY <1>2 DEF SkipTask, Arm, InHand, Busy
  <2>2. \A i \in DOMAIN inbox' : i \in Nat /\ i + 1 \in DOMAIN inbox /\ inbox'[i] = inbox[i + 1]
    BY <1>1, <2>1
  <2>. QED  BY <2>2 DEF InboxInv
<1>3. CASE NctPublished
  <2>1. inbox' = Append(inbox, latest') /\ latest'.id = latest.id + 1
    BY <1>3 DEF NctPublished, NctNextBlock, NctRetries, NctRestarts, NctPublishes
  <2>2. \A i \in DOMAIN inbox : inbox[i].id <= latest.id
    BY <1>1, Elements DEF BlockInv, Known
  <2>3. \A i \in DOMAIN inbox' : \/ i \in DOMAIN inbox /\ inbox'[i] = inbox[i]
                                 \/ i = Len(inbox) + 1 /\ inbox'[i] = latest'
    BY <1>1, <2>1
  <2>4. \A i \in DOMAIN inbox : i \in Nat /\ i <= Len(inbox) /\ inbox[i].id \in Nat
    BY <1>1
  <2>5. ASSUME NEW i \in DOMAIN inbox', NEW j \in DOMAIN inbox', i < j
        PROVE  inbox'[i].id < inbox'[j].id
    <3>1. i \in DOMAIN inbox /\ inbox'[i] = inbox[i]
      BY <1>1, <2>3, <2>4, <2>5
    <3>2. CASE j \in DOMAIN inbox /\ inbox'[j] = inbox[j]
      BY <2>5, <3>1, <3>2 DEF InboxInv
    <3>3. CASE inbox'[j] = latest'
      BY <1>1, <2>1, <2>2, <2>4, <3>1, <3>3
    <3>. QED  BY <2>3, <3>2, <3>3
  <2>. QED  BY <2>5 DEF InboxInv
<1>4. CASE inbox' = inbox
  BY <1>4 DEF InboxInv
<1>. QED  BY <1>2, <1>3, <1>4, WhoChanges

\* Answers are to tasks that were published.
LEMMA NextOut == TypeOK /\ BlockInv /\ OutInv /\ [Next]_vars => OutInv'
<1>. SUFFICES ASSUME TypeOK, BlockInv, OutInv, [Next]_vars PROVE OutInv'
  OBVIOUS
<1>1. /\ latest \in NctTask /\ current \in Known /\ out \in Seq(Answer)
      /\ \A t \in NctTask : t.id \in Nat
  BY DEF TypeOK, TypePool, NctTask, Known
<1>2. \A i \in DOMAIN out : out[i].for \in NctTask
  <2>1. \A i \in DOMAIN out : out[i] \in Answer
    BY <1>1
  <2>. QED  BY <2>1 DEF Answer
<1>3. CASE Forward
  <2>. DEFINE new == [result |-> Head(resultsQ), for |-> current]
  <2>1. out' = Append(out, new) /\ latest' = latest
    BY <1>3 DEF Forward
  <2>2. new.for = current /\ current # NoTask /\ current.id <= latest.id
    BY <1>1, <1>3 DEF Forward, Stale, BlockInv
  <2>. HIDE DEF new
  <2>3. \A i \in DOMAIN out' : out'[i] = new \/ (i \in DOMAIN out /\ out'[i] = out[i])
    BY <1>1, <2>1
  <2>. QED  BY <2>1, <2>2, <2>3 DEF OutInv
<1>4. CASE out' = out
  <2>1. latest' = latest \/ latest'.id = latest.id + 1
    BY WhoChanges DEF NctPublished, NctNextBlock, NctRetries, NctRestarts, NctPublishes
  <2>. QED  BY <1>1, <1>2, <1>4, <2>1 DEF OutInv
<1>. QED  BY <1>3, <1>4, WhoChanges

\* Only what fails in the main thread is a mishap.
LEMMA MishapsCount ==
    ASSUME TypeOK, [Next]_vars
    PROVE  /\ Mishaps \in Nat /\ Mishaps' \in Nat /\ Mishaps <= Mishaps'
           /\ MainFault => Mishaps' = Mishaps + 1
           /\ ~MainFault => Mishaps' = Mishaps
<1>1. faults \in [FaultKinds -> Nat] /\ Mishaps \in Nat
  BY DEF TypeOK, TypePool, FaultKinds, Mishaps
<1>2. CASE MainFault
  <2>1. Fault("interruption") \/ Fault("restart")
    BY <1>2 DEF MainFault, PublishFails, TaskAckLost, ForwardFails, ResultAckLost, Crash
  <2>. QED  BY <1>1, <1>2, <2>1, FaultType DEF FaultKinds
<1>3. CASE ~MainFault
  <2>1. faults' = faults \/ \E kind \in {"death", "giveUp", "late"} : Fault(kind)
    BY <1>3 DEF Next, vars, WorkersNext, WorkerStep, WorkerFault, Take, OnControl,
       MineAborted, PublishResult, AckTask, FoundNothing, GiveUp, Die, Reconnect, Restart,
       NctNext, NctAborts, NctNextBlock, NctRetries, NctRestarts, NctPublishes,
       RegistryNext, OnRegistration, OnHeartbeat, Expire, TaskStep, OnTask, SkipTask,
       PublishSubTasks, SetOriginal, Arm, ResultStep, DropResult, Forward, ClearContext,
       MonitorStep, MonitorTurns, MonitorEnds, MonitorSnapshot, MonitorCounts, MonitorWaits,
       MonitorAborts, MonitorPublishes, MonitorSetsOriginal, MonitorReports
  <2>2. CASE faults' = faults
    BY <1>1, <1>3, <2>2 DEF Mishaps
  <2>. QED  BY <1>1, <1>3, <2>1, <2>2, FaultType DEF FaultKinds
<1>. QED  BY <1>2, <1>3

\* The answers to one task can be counted.
LEMMA AnswersFinite ==
    ASSUME TypeOK, NEW t
    PROVE  IsFiniteSet(Answers(t)) /\ Cardinality(Answers(t)) \in Nat
<1>1. Len(out) \in Nat /\ Answers(t) \subseteq 1 .. Len(out)
  BY DEF Answers, TypeOK, TypePool
<1>2. IsFiniteSet(1 .. Len(out))
  BY <1>1, FS_Interval
<1>. QED  BY <1>1, <1>2, FS_Subset, FS_CardinalityType

\* A step moves a task from waiting to mined, or from mined to answered; only a
\* mishap makes one more answer possible.
LEMMA NextOnce ==
    /\ TypeOK /\ InHand /\ BlockInv /\ InboxInv /\ OutInv /\ OnceInv
    /\ [Next]_vars
    => OnceInv'
<1>. SUFFICES ASSUME TypeOK, InHand, BlockInv, InboxInv, OutInv, OnceInv, [Next]_vars,
                     NEW t \in NctTask, t # NoTask
              PROVE  OnceFor(t)'
  BY DEF OnceInv
<1>0. /\ Mishaps \in Nat /\ Mishaps' \in Nat /\ Mishaps <= Mishaps'
      /\ MainFault => Mishaps' = Mishaps + 1
      /\ Cardinality(Answers(t)) \in Nat /\ OnceFor(t)
  BY MishapsCount, AnswersFinite DEF OnceInv
<1>1. /\ inbox \in Seq(NctTask) /\ out \in Seq(Answer) /\ latest \in NctTask
      /\ current \in Known /\ t.id \in Nat
  BY DEF TypeOK, TypePool, Known, NctTask
<1>2. ASSUME out' = out, Mined(t)' => Mined(t), Waiting(t)' => Waiting(t)
      PROVE  OnceFor(t)'
  BY <1>0, <1>2 DEF OnceFor, Answers, One
<1>3. ASSUME out' = out, MainFault,
             (Mined(t)' => Mined(t)) \/ (Waiting(t)' => Waiting(t)),
             Mined(t)' /\ Waiting(t)' => Mined(t) \/ Waiting(t)
      PROVE  OnceFor(t)'
  BY <1>0, <1>3 DEF OnceFor, Answers, One
<1>4. CASE UNCHANGED <<out, inbox, current, ppc>>
  BY <1>2, <1>4 DEF Mined, Waiting
<1>5. CASE OnTask
  <2>1. /\ inbox # <<>> /\ Head(inbox) = inbox[1] /\ 1 \in DOMAIN inbox
        /\ ppc = "idle" /\ ppc' = "publish" /\ current' = Head(inbox)
        /\ UNCHANGED <<inbox, out>>
    BY <1>1, <1>5, Elements DEF OnTask, nct
  <2>2. Waiting(t)' => Waiting(t)
    BY <2>1 DEF Waiting, Busy
  <2>3. CASE Head(inbox) = t
    <3>1. Waiting(t)
      BY <2>1, <2>3 DEF Waiting, Busy
    <3>2. ASSUME NEW i \in DOMAIN inbox, inbox[i] = t, i # 1 PROVE FALSE
      <4>1. 1 < i
        BY <1>1, <3>2
      <4>2. inbox[1].id < inbox[i].id
        BY <2>1, <4>1 DEF InboxInv
      <4>. QED  BY <1>1, <2>1, <2>3, <3>2, <4>2
    <3>3. ~Waiting(t)'
      BY <2>1, <3>2 DEF Waiting, Busy
    <3>4. Answers(t)' = Answers(t)
      BY <2>1 DEF Answers
    <3>. QED  BY <1>0, <3>1, <3>3, <3>4 DEF OnceFor, One
  <2>4. CASE Head(inbox) # t
    <3>1. ~Mined(t)'
      BY <2>1, <2>4 DEF Mined
    <3>. QED  BY <1>2, <2>1, <2>2, <3>1
  <2>. QED  BY <2>3, <2>4
<1>6. CASE PublishSubTasks \/ SetOriginal
  BY <1>2, <1>6 DEF PublishSubTasks, SetOriginal, Mined, Waiting, Busy, nct
<1>7. CASE SkipTask \/ Arm
  <2>1. /\ inbox # <<>> /\ inbox' = Tail(inbox) /\ UNCHANGED <<out, current>>
        /\ ppc # "clear" /\ ppc' = "idle"
    BY <1>7 DEF SkipTask, Arm, StartMonitor, InHand, Busy, main
  <2>2. \A i \in DOMAIN inbox' : i + 1 \in DOMAIN inbox /\ inbox'[i] = inbox[i + 1] /\ i + 1 # 1
    BY <1>1, <2>1
  <2>3. (Waiting(t)' => Waiting(t)) /\ (Mined(t)' => Mined(t))
    BY <2>1, <2>2 DEF Waiting, Mined
  <2>. QED  BY <1>2, <2>1, <2>3
<1>8. CASE Forward
  <2>. DEFINE new == [result |-> Head(resultsQ), for |-> current]
  <2>1. /\ out' = Append(out, new) /\ new.for = current /\ UNCHANGED <<inbox, current>>
        /\ ppc = "idle" /\ ppc' = "clear"
    BY <1>8 DEF Forward
  <2>. HIDE DEF new
  <2>2. /\ DOMAIN out' = DOMAIN out \union {Len(out) + 1} /\ Len(out) + 1 \notin DOMAIN out
        /\ out'[Len(out) + 1] = new /\ \A i \in DOMAIN out : out'[i] = out[i]
    BY <1>1, <2>1
  <2>3. (Waiting(t)' => Waiting(t)) /\ ~Mined(t)'
    BY <2>1 DEF Waiting, Mined, Busy
  <2>4. CASE current = t
    <3>1. Answers(t)' = Answers(t) \union {Len(out) + 1} /\ Len(out) + 1 \notin Answers(t)
      BY <2>1, <2>2, <2>4 DEF Answers
    <3>2. Cardinality(Answers(t)') = Cardinality(Answers(t)) + 1
      BY <3>1, AnswersFinite, FS_AddElement
    <3>3. Mined(t)
      BY <2>1, <2>4 DEF Mined
    <3>. QED  BY <1>0, <2>3, <3>2, <3>3 DEF OnceFor, One
  <2>5. CASE current # t
    <3>1. Answers(t)' = Answers(t)
      BY <2>1, <2>2, <2>5 DEF Answers
    <3>. QED  BY <1>0, <2>3, <3>1 DEF OnceFor, One
  <2>. QED  BY <2>4, <2>5
<1>9. CASE ClearContext
  <2>1. UNCHANGED <<out, inbox>> /\ current' = NoTask /\ ppc' = "idle" /\ ppc = "clear"
    BY <1>9 DEF ClearContext, nct
  <2>. QED  BY <1>2, <2>1 DEF Mined, Waiting, Busy
<1>10. CASE MainFault
  <2>1. out' = out /\ inbox' = inbox
    BY <1>10, WhoChanges DEF MainFault, PublishFails, TaskAckLost, ForwardFails,
       ResultAckLost, Crash, nct
  <2>2. CASE PublishFails \/ TaskAckLost
    <3>1. Mined(t)' => Mined(t)
      BY <2>2 DEF PublishFails, TaskAckLost, Mined
    <3>. QED  BY <1>3, <1>10, <2>1, <3>1
  <2>3. CASE ForwardFails
    BY <1>4, <2>3 DEF ForwardFails, nct, main
  <2>4. CASE ResultAckLost
    <3>1. (Waiting(t)' => Waiting(t))
      BY <2>1, <2>4 DEF ResultAckLost, Waiting, Busy
    <3>. QED  BY <1>3, <1>10, <2>1, <3>1
  <2>5. CASE Crash
    <3>1. ~Mined(t)'
      BY <2>5 DEF Crash, Mined
    <3>. QED  BY <1>3, <1>10, <2>1, <3>1
  <2>. QED  BY <1>10, <2>2, <2>3, <2>4, <2>5 DEF MainFault
<1>11. CASE NctPublished
  <2>1. /\ inbox' = Append(inbox, latest') /\ latest'.id = latest.id + 1
        /\ UNCHANGED <<out, current, ppc>>
    BY <1>11 DEF NctPublished, NctNextBlock, NctRetries, NctRestarts, NctPublishes, main
  <2>2. Mined(t)' => Mined(t)
    BY <2>1 DEF Mined
  <2>3. CASE t = latest'
    <3>1. t.id > latest.id /\ latest.id \in Nat
      BY <1>1, <2>1, <2>3 DEF NctTask
    <3>2. \A i \in DOMAIN out : out[i].for # t
      BY <1>1, <3>1 DEF OutInv
    <3>3. Answers(t)' = {}
      BY <2>1, <3>2 DEF Answers
    <3>4. ~Mined(t)'
      BY <1>1, <2>1, <3>1 DEF Mined, BlockInv
    <3>. QED  BY <1>0, <3>3, <3>4, FS_EmptySet DEF OnceFor, One
  <2>4. CASE t # latest'
    <3>1. \A i \in DOMAIN inbox' : inbox'[i] = latest' \/ (i \in DOMAIN inbox /\ inbox'[i] = inbox[i])
      BY <1>1, <2>1
    <3>2. Waiting(t)' => Waiting(t)
      BY <2>1, <2>4, <3>1 DEF Waiting
    <3>. QED  BY <1>2, <2>1, <2>2, <3>2
  <2>. QED  BY <2>3, <2>4
<1>. QED
  <2>1. ASSUME ~TaskStep, ~Forward, ~ClearContext, ~MainFault, ~NctPublished
        PROVE  UNCHANGED <<out, inbox, current, ppc>>
    BY <2>1 DEF Next, vars, nct, main, WorkersNext, NctNext, NctPublished, NctAborts,
       RegistryNext, OnRegistration, OnHeartbeat, Expire, ResultStep, DropResult,
       MonitorStep, MonitorTurns, MonitorEnds, MonitorSnapshot, MonitorCounts, MonitorWaits,
       MonitorAborts, MonitorPublishes, MonitorSetsOriginal, MonitorReports
  <2>. QED  BY <1>4, <1>5, <1>6, <1>7, <1>8, <1>9, <1>10, <1>11, <2>1 DEF TaskStep

\* What is known of the tasks, and what the main thread may still answer.
TaskInv == BlockInv /\ HeldInv /\ InboxInv /\ OutInv /\ OnceInv

\* Nothing has been published.
LEMMA InitTasks == Init => TaskInv
<1>. SUFFICES ASSUME Init PROVE TaskInv
  OBVIOUS
<1>1. /\ tasksQ = <<>> /\ resultsQ = <<>> /\ inbox = <<>> /\ out = <<>> /\ monitors = <<>>
      /\ latest = NoTask /\ current = NoTask /\ worker = [w \in Workers |-> Idle]
      /\ control = [w \in Workers |-> {}] /\ Mishaps = 0
  BY DEF Init, WorkerInit, FaultKinds, Mishaps
<1>2. Held = {} /\ Known = {NoTask}
  <2>1. Working = {}
    BY <1>1 DEF Working, Idle
  <2>2. ToSet(<<>>) = {}
    BY DEF ToSet
  <2>3. Held = {}
    BY <1>1, <2>1, <2>2 DEF Held
  <2>4. {monitors[g].task : g \in DOMAIN monitors} = {}
    BY <1>1
  <2>. QED  BY <1>1, <2>2, <2>3, <2>4 DEF Known
<1>3. BlockInv
  BY <1>1, <1>2 DEF BlockInv, NoTask
<1>4. HeldInv
  BY <1>1, <1>2 DEF HeldInv, OutIds, ToSet
<1>5. OnceInv
  <2>1. ASSUME NEW t \in NctTask, t # NoTask
        PROVE  Answers(t) = {} /\ ~Mined(t) /\ ~Waiting(t)
    BY <1>1, <2>1 DEF Answers, Mined, Waiting
  <2>2. Cardinality({}) = 0
    BY FS_EmptySet
  <2>3. 0 + 0 + 0 <= 1 + Mishaps
    BY <1>1
  <2>. QED  BY <2>1, <2>2, <2>3 DEF OnceInv, OnceFor, One
<1>. QED  BY <1>1, <1>3, <1>4, <1>5 DEF TaskInv, InboxInv, OutInv

\* What the queues hold is in order: the blocks, the identifiers, the inbox, the
\* answers, and how often each task can still be answered.
THEOREM PoolTasks == Spec => []TaskInv
<1>1. TypeOK /\ InHand /\ TaskInv /\ [Next]_vars => TaskInv'
  BY NextBlock, NextHeld, NextInbox, NextOut, NextOnce DEF TaskInv
<1>. QED  BY <1>1, InitTasks, PoolTypes, PTL DEF Spec

\* Neither a second result of the block, of another worker or of another round of
\* a monitor, nor a task that is published twice makes the pool answer one task
\* twice: each repetition is paid for by a lost ack or a restart.
THEOREM ForwardedOnceCorrect == Spec => []ForwardedOnce
<1>1. TypeOK /\ TaskInv => ForwardedOnce
  <2>. SUFFICES ASSUME TypeOK, TaskInv, NEW i \in DOMAIN out
                PROVE  Cardinality(Answers(out[i].for)) <= 1 + Mishaps
    BY DEF ForwardedOnce, Answers
  <2>1. out[i].for \in NctTask /\ out[i].for # NoTask
    <3>1. out[i] \in Answer
      BY DEF TypeOK, TypePool
    <3>. QED  BY <3>1 DEF Answer, TaskInv, OutInv
  <2>2. Cardinality(Answers(out[i].for)) \in Nat /\ Mishaps \in Nat
    BY AnswersFinite DEF TypeOK, TypePool, FaultKinds, Mishaps
  <2>. QED  BY <2>1, <2>2 DEF TaskInv, OnceInv, OnceFor, One
<1>. QED  BY <1>1, PoolTasks, PoolTypes, PTL

----------------------------------------------------------------------------
(* The refinement: the pool is a MiningService. *)

\* The task that is mined is none younger than those in the inbox.
OrderInv == current # NoTask => \A i \in DOMAIN inbox : current.id <= inbox[i].id

\* The head of the inbox becomes the context, and new tasks are younger.
LEMMA NextOrder ==
    TypeOK /\ InHand /\ BlockInv /\ InboxInv /\ OrderInv /\ [Next]_vars => OrderInv'
<1>. SUFFICES ASSUME TypeOK, InHand, BlockInv, InboxInv, OrderInv, [Next]_vars
              PROVE  OrderInv'
  OBVIOUS
<1>1. /\ inbox \in Seq(NctTask) /\ latest \in NctTask /\ current \in Known
      /\ current \in NctTask /\ \A t \in NctTask : t.id \in Nat
  BY DEF TypeOK, TypePool, NctTask, Known
<1>2. CASE OnTask
  <2>1. /\ inbox # <<>> /\ current' = inbox[1] /\ inbox' = inbox /\ 1 \in DOMAIN inbox
    BY <1>1, <1>2, Elements DEF OnTask, nct
  <2>2. ASSUME NEW i \in DOMAIN inbox PROVE inbox[1].id <= inbox[i].id
    <3>1. i = 1 \/ 1 < i
      BY <1>1
    <3>2. inbox[1].id \in Nat /\ inbox[i].id \in Nat
      BY <1>1, <2>1
    <3>. QED  BY <2>1, <3>1, <3>2 DEF InboxInv
  <2>. QED  BY <2>1, <2>2 DEF OrderInv
<1>3. CASE ClearContext \/ Crash
  BY <1>3 DEF ClearContext, Crash, OrderInv
<1>4. CASE current' = current /\ (SkipTask \/ Arm)
  <2>1. inbox # <<>> /\ inbox' = Tail(inbox)
    BY <1>4 DEF SkipTask, Arm, InHand, Busy
  <2>2. \A i \in DOMAIN inbox' : i + 1 \in DOMAIN inbox /\ inbox'[i] = inbox[i + 1]
    BY <1>1, <2>1
  <2>. QED  BY <1>4, <2>2 DEF OrderInv
<1>5. CASE current' = current /\ NctPublished
  <2>1. inbox' = Append(inbox, latest') /\ latest'.id = latest.id + 1
    BY <1>5 DEF NctPublished, NctNextBlock, NctRetries, NctRestarts, NctPublishes
  <2>2. \A i \in DOMAIN inbox' : inbox'[i] = latest' \/ (i \in DOMAIN inbox /\ inbox'[i] = inbox[i])
    BY <1>1, <2>1
  <2>3. current.id <= latest.id /\ current.id \in Nat /\ latest.id \in Nat
    BY <1>1 DEF BlockInv
  <2>. QED  BY <1>5, <2>1, <2>2, <2>3 DEF OrderInv
<1>6. CASE current' = current /\ inbox' = inbox
  BY <1>6 DEF OrderInv
<1>. QED  BY <1>2, <1>3, <1>4, <1>5, <1>6, WhoChanges

\* What was answered is none younger than what may still be answered.
OutOrder == \A i \in DOMAIN out :
    /\ current # NoTask => out[i].for.id <= current.id
    /\ \A k \in DOMAIN inbox : out[i].for.id <= inbox[k].id
    /\ \A j \in DOMAIN out : i < j => out[i].for.id <= out[j].for.id

\* The context is answered, and the inbox holds younger tasks only.
LEMMA NextOutOrder ==
    /\ TypeOK /\ InHand /\ BlockInv /\ OutInv /\ OrderInv /\ OutOrder
    /\ [Next]_vars
    => OutOrder'
<1>. SUFFICES ASSUME TypeOK, InHand, BlockInv, OutInv, OrderInv, OutOrder, [Next]_vars
              PROVE  OutOrder'
  OBVIOUS
<1>1. /\ inbox \in Seq(NctTask) /\ latest \in NctTask /\ current \in NctTask
      /\ out \in Seq(Answer) /\ \A t \in NctTask : t.id \in Nat
  BY DEF TypeOK, TypePool, NctTask
<1>2. \A i \in DOMAIN out : out[i].for.id \in Nat
  <2>1. \A i \in DOMAIN out : out[i] \in Answer
    BY <1>1
  <2>. QED  BY <1>1, <2>1 DEF Answer
<1>3. CASE OnTask
  <2>1. /\ inbox # <<>> /\ current' = inbox[1] /\ 1 \in DOMAIN inbox
        /\ UNCHANGED <<inbox, out>>
    BY <1>1, <1>3, Elements DEF OnTask, nct
  <2>. QED  BY <2>1 DEF OutOrder
<1>4. CASE ClearContext \/ Crash
  BY <1>4 DEF ClearContext, Crash, nct, OutOrder
<1>5. CASE SkipTask \/ Arm
  <2>1. inbox # <<>> /\ inbox' = Tail(inbox) /\ UNCHANGED <<out, current>>
    BY <1>5 DEF SkipTask, Arm, InHand, Busy, main
  <2>2. \A i \in DOMAIN inbox' : i + 1 \in DOMAIN inbox /\ inbox'[i] = inbox[i + 1]
    BY <1>1, <2>1
  <2>. QED  BY <2>1, <2>2 DEF OutOrder
<1>6. CASE NctPublished
  <2>1. /\ inbox' = Append(inbox, latest') /\ latest'.id = latest.id + 1
        /\ UNCHANGED <<out, current>>
    BY <1>6 DEF NctPublished, NctNextBlock, NctRetries, NctRestarts, NctPublishes, main
  <2>2. \A k \in DOMAIN inbox' : inbox'[k] = latest' \/ (k \in DOMAIN inbox /\ inbox'[k] = inbox[k])
    BY <1>1, <2>1
  <2>3. \A i \in DOMAIN out : out[i].for.id <= latest'.id
    <3>1. latest.id \in Nat
      BY <1>1
    <3>. QED  BY <1>2, <2>1, <3>1 DEF OutInv
  <2>. QED  BY <2>1, <2>2, <2>3 DEF OutOrder
<1>7. CASE Forward
  <2>. DEFINE new == [result |-> Head(resultsQ), for |-> current]
  <2>1. /\ out' = Append(out, new) /\ current # NoTask /\ new.for = current
        /\ UNCHANGED <<inbox, current>>
    BY <1>7 DEF Forward, Stale
  <2>. HIDE DEF new
  <2>2. \A i \in DOMAIN out' : /\ i \in Nat /\ i <= Len(out) + 1
                               /\ \/ i = Len(out) + 1 /\ out'[i] = new
                                  \/ i \in DOMAIN out /\ out'[i] = out[i]
    BY <1>1, <2>1
  <2>3. Len(out) \in Nat /\ \A i \in DOMAIN out : i \in Nat /\ i <= Len(out)
    BY <1>1
  <2>4. ASSUME NEW i \in DOMAIN out' PROVE out'[i].for.id <= current.id
    BY <1>1, <2>1, <2>2, <2>4 DEF OutOrder
  <2>5. ASSUME NEW i \in DOMAIN out', NEW k \in DOMAIN inbox
        PROVE  out'[i].for.id <= inbox[k].id
    BY <2>1, <2>2, <2>5 DEF OutOrder, OrderInv
  <2>6. ASSUME NEW i \in DOMAIN out', NEW j \in DOMAIN out', i < j
        PROVE  out'[i].for.id <= out'[j].for.id
    <3>1. i \in DOMAIN out /\ out'[i] = out[i]
      BY <2>2, <2>3, <2>6
    <3>2. CASE out'[j] = new
      BY <2>1, <2>4, <3>2
    <3>3. CASE j \in DOMAIN out /\ out'[j] = out[j]
      BY <2>6, <3>1, <3>3 DEF OutOrder
    <3>. QED  BY <2>2, <3>2, <3>3
  <2>. QED  BY <2>1, <2>4, <2>5, <2>6 DEF OutOrder
<1>8. CASE UNCHANGED <<out, inbox, current>>
  BY <1>8 DEF OutOrder
<1>. QED  BY <1>3, <1>4, <1>5, <1>6, <1>7, <1>8, WhoChanges

\* What may be answered is in order.
LEMMA PoolOrder == Spec => [](OrderInv /\ OutOrder)
<1>1. Init => OrderInv /\ OutOrder
  <2>1. Init => inbox = <<>> /\ out = <<>>
    BY DEF Init
  <2>. QED  BY <2>1 DEF OrderInv, OutOrder
<1>2. /\ TypeOK /\ InHand /\ TaskInv /\ OrderInv /\ OutOrder /\ [Next]_vars
      => (OrderInv /\ OutOrder)'
  BY NextOrder, NextOutOrder DEF TaskInv
<1>. QED  BY <1>1, <1>2, PoolTypes, PoolTasks, PTL DEF Spec

\* However tasks, retries, restarts and results overlap, the NCT gets no answer to
\* an older task after one to a newer.
THEOREM AnswersInOrderCorrect == Spec => []AnswersInOrder
<1>1. OutOrder => AnswersInOrder
  BY DEF OutOrder, AnswersInOrder
<1>. QED  BY <1>1, PoolOrder, PTL

\* The NCT opens a task.
LEMMA OpenGrows ==
    ASSUME TypeOK, NctPublished
    PROVE  latest' \in NctTask /\ Open' = Open \union {latest'}
<1>1. inbox \in Seq(NctTask) /\ latest \in NctTask
  BY DEF TypeOK, TypePool
<1>2. /\ inbox' = Append(inbox, latest') /\ latest'.id = latest.id + 1
      /\ latest' \in NctTask /\ current' = current
  BY <1>1 DEF NctPublished, NctNextBlock, NctRetries, NctRestarts, NctPublishes,
     NctTask, main
<1>3. latest' # NoTask
  BY <1>1, <1>2 DEF NctTask, NoTask
<1>4. ToSet(inbox') = ToSet(inbox) \union {latest'}
  BY <1>1, <1>2, Elements
<1>. QED  BY <1>2, <1>3, <1>4 DEF Open

\* Nobody else does.
LEMMA OpenShrinks ==
    ASSUME TypeOK, InHand, [Next]_vars, ~NctPublished
    PROVE  Open' \subseteq Open
<1>1. inbox \in Seq(NctTask)
  BY DEF TypeOK, TypePool
<1>2. ToSet(inbox') \subseteq ToSet(inbox)
  <2>1. CASE inbox' = inbox
    BY <2>1
  <2>2. CASE SkipTask
    BY <1>1, <2>2, Elements DEF SkipTask
  <2>3. CASE Arm
    BY <1>1, <2>3, Elements DEF Arm, InHand, Busy
  <2>. QED  BY <2>1, <2>2, <2>3, WhoChanges
<1>3. current' \in {current, NoTask} \union ToSet(inbox)
  BY <1>1, WhoChanges, Elements DEF OnTask, ClearContext, Crash
<1>. QED  BY <1>2, <1>3 DEF Open

\* MiningService counts as Pool does.
LEMMA SameCardinality == \A S : Service!Cardinality(S) = Cardinality(S)
BY DEF Service!Cardinality, Cardinality

GivenAnswers == [i \in DOMAIN out |-> Given(out[i])]

\* What is forwarded is the answer to the context, the oldest open task.
LEMMA ForwardAnswers ==
    ASSUME TypeOK, InHand, TaskInv, OrderInv, [Next]_vars, Forward
    PROVE  Service!Answer
<1>. DEFINE result == Head(resultsQ)
<1>1. /\ out \in Seq(Answer) /\ resultsQ \in Seq(Result) /\ inbox \in Seq(NctTask)
      /\ current \in NctTask /\ resultsQ # <<>> /\ current # NoTask
      /\ ppc = "idle" /\ result.of.stamp = current.stamp /\ result.nonce \in Solutions
      /\ out' = Append(out, [result |-> result, for |-> current])
      /\ UNCHANGED <<latest, inbox, current, Mishaps>>
  BY DEF TypeOK, TypeWorker, TypePool, Forward, Stale, Solves, Mishaps
<1>. HIDE DEF result
<1>2. current \in Open /\ Open' = Open
  BY <1>1 DEF Open
<1>3. ASSUME NEW other \in Open PROVE current.id <= other.id
  <2>1. CASE other = current
    BY <1>1, <2>1 DEF NctTask
  <2>2. CASE other \in ToSet(inbox)
    <3>1. PICK i \in DOMAIN inbox : inbox[i] = other
      BY <2>2 DEF ToSet
    <3>. QED  BY <1>1, <3>1 DEF OrderInv
  <2>. QED  BY <2>1, <2>2 DEF Open
<1>4. Cardinality(Answers(current)) <= Mishaps
  <2>1. /\ Cardinality(Answers(current)) \in Nat /\ Mishaps \in Nat
        /\ One(Mined(current)) = 1 /\ One(Waiting(current)) \in {0, 1}
    BY <1>1, AnswersFinite, MishapsCount DEF Mined, One
  <2>2. OnceFor(current)
    BY <1>1 DEF TaskInv, OnceInv
  <2>. QED  BY <2>1, <2>2 DEF OnceFor
<1>5. Service!To(current) = Answers(current)
  BY DEF Service!To, Answers, Given
<1>6. GivenAnswers' = Append(GivenAnswers, [for |-> current, stamp |-> current.stamp,
                                            nonce |-> result.nonce])
  <2>. DEFINE new == [result |-> result, for |-> current]
              answer == [for |-> current, stamp |-> current.stamp,
                         nonce |-> result.nonce]
  <2>1. Given(new) = answer
    BY <1>1 DEF Given
  <2>. HIDE DEF new, answer
  <2>2. /\ DOMAIN out = 1 .. Len(out) /\ Len(out) \in Nat
        /\ DOMAIN out' = 1 .. (Len(out) + 1) /\ out'[Len(out) + 1] = new
        /\ \A i \in 1 .. Len(out) : out'[i] = out[i]
    BY <1>1 DEF new
  <2>3. GivenAnswers = [i \in 1 .. Len(out) |-> Given(out[i])]
    BY <2>2 DEF GivenAnswers
  <2>4. Len(GivenAnswers) = Len(out)
    BY <2>2, <2>3
  <2>5. GivenAnswers' = [i \in 1 .. (Len(out) + 1) |-> Given(out'[i])]
    BY <2>2 DEF GivenAnswers, Given
  <2>6. Append(GivenAnswers, answer)
          = [i \in 1 .. (Len(out) + 1) |-> IF i <= Len(out) THEN GivenAnswers[i] ELSE answer]
    BY <2>2, <2>3, <2>4
  <2>7. \A i \in 1 .. (Len(out) + 1) :
           Given(out'[i]) = IF i <= Len(out) THEN GivenAnswers[i] ELSE answer
    BY <2>1, <2>2, <2>3
  <2>. QED  BY <2>5, <2>6, <2>7 DEF answer
<1>. QED  BY <1>1, <1>2, <1>3, <1>4, <1>5, <1>6, SameCardinality DEF Service!Answer, GivenAnswers

\* Every step of the pool is one of the service, or none.
LEMMA NextServes ==
    ASSUME TypeOK, InHand, TaskInv, OrderInv, [Next]_vars
    PROVE  [Service!Next]_(Service!vars)
<1>1. CASE Forward
  BY <1>1, ForwardAnswers DEF Service!Next
<1>2. CASE NctPublished
  <2>1. latest'.id = latest.id + 1 /\ UNCHANGED <<out, Mishaps>>
    BY <1>2 DEF NctPublished, NctNextBlock, NctRetries, NctRestarts, NctPublishes, Mishaps
  <2>2. latest' \in Service!Task /\ Open' = Open \union {latest'}
    BY <1>2, OpenGrows DEF NctTask, Service!Task
  <2>3. Service!Ask
    BY <2>1, <2>2 DEF Service!Ask, Given
  <2>. QED  BY <2>3 DEF Service!Next
<1>3. CASE ~Forward /\ ~NctPublished
  <2>1. UNCHANGED <<out, latest>> /\ Open' \subseteq Open
    BY <1>3, WhoChanges, OpenShrinks
  <2>2. CASE MainFault
    <3>1. Service!Mishap
      BY <2>1, <2>2, MishapsCount DEF Service!Mishap, Given
    <3>. QED  BY <3>1 DEF Service!Next
  <2>3. CASE ~MainFault
    <3>1. Service!Close \/ UNCHANGED Service!vars
      BY <2>1, <2>3, MishapsCount DEF Service!Close, Service!vars, Given
    <3>. QED  BY <3>1 DEF Service!Next
  <2>. QED  BY <2>2, <2>3
<1>. QED  BY <1>1, <1>2, <1>3

\* Whatever workers, monitors and faults do, what the NCT sees of a pool is a
\* MiningService: answers to open tasks only, to the oldest first, each of them a
\* solution of its task's block, and one answer more for each mishap.
THEOREM KeepsServiceCorrect == Spec => KeepsService
<1>1. Init => Service!Init
  <2>. SUFFICES ASSUME Init PROVE Service!Init
    OBVIOUS
  <2>1. /\ inbox = <<>> /\ out = <<>> /\ latest = NoTask /\ current = NoTask
        /\ Mishaps = 0
    BY DEF Init, WorkerInit, FaultKinds, Mishaps
  <2>2. Open = {}
    BY <2>1 DEF Open, ToSet
  <2>3. [i \in DOMAIN out |-> Given(out[i])] = <<>>
    BY <2>1
  <2>. QED  BY <2>1, <2>2, <2>3 DEF Service!Init, NoTask
<1>2. TypeOK /\ InHand /\ TaskInv /\ OrderInv /\ [Next]_vars => [Service!Next]_(Service!vars)
  BY NextServes
<1>. QED  BY <1>1, <1>2, PoolTypes, PoolTasks, PoolOrder, PTL DEF Spec, KeepsService, Service!Spec

----------------------------------------------------------------------------
(* The solution of the current block is kept. *)

\* A sub-task whose identifier was forwarded may be aborted: it cannot be counted
\* on.  While the main thread holds a task, Redone says nothing of its queues.
Safe(task) == Carries(task) /\ task.id \notin OutIds
Safely ==
    \/ \E t \in ToSet(tasksQ) : Safe(t)
    \/ \E r \in ToSet(resultsQ) : r.of.stamp = current.stamp
    \/ \E w \in Workers : /\ worker[w].pc = "mining" /\ ~worker[w].aborted
                          /\ Safe(worker[w].task)
KeptInv ==
    current # NoTask /\ ppc # "publish"
        => \/ Safely \/ current.stamp \in abandoned \/ reports > 0
           \/ ppc \in {"idle", "clear"} /\ Redone

\* A safe sub-task is never aborted: a worker mines it, finds, gives up or puts it
\* back.
LEMMA WorkersKeep ==
    ASSUME TypeOK, HeldInv, Safely, WorkersNext
    PROVE  Safely' \/ current.stamp \in abandoned'
<1>. PICK w \in Workers :
        /\ WorkerStep(w) \/ WorkerFault(w) \/ Restart(w)
        /\ UNCHANGED <<nct, fallback, main, watch, registry, round>>
  BY DEF WorkersNext
<1>1. /\ UNCHANGED <<current, out>> /\ OutIds' = OutIds
      /\ \A t : Safe(t)' <=> Safe(t)
  BY DEF nct, main, OutIds, Safe, Carries
<1>2. \A v \in Workers : v # w => worker'[v] = worker[v]
  BY WorkerMoves
<1>3. CASE /\ worker[w].pc = "mining" /\ ~worker[w].aborted /\ Safe(worker[w].task)
  <2>1. worker[w].task.of.stamp = current.stamp /\ Hits(worker[w].task) # {}
        /\ worker[w].task.id \notin OutIds
    BY <1>3 DEF Safe, Carries
  <2>2. CASE Took(w)
    BY <1>3, <2>2 DEF Took
  <2>3. CASE Told(w)
    <3>1. worker[w].task \in Held
      BY <1>3 DEF Held, Working
    <3>2. worker[w].task.id \notin control[w]
      <4>1. worker[w].task.id[1] # 0
        BY <3>1 DEF HeldInv, TypeOK, TypePool
      <4>. QED  BY <2>1, <4>1 DEF HeldInv
    <3>3. worker'[w].pc = "mining" /\ ~worker'[w].aborted /\ worker'[w].task = worker[w].task
      BY <1>3, <2>3, <3>2 DEF Told
    <3>. QED  BY <1>1, <1>3, <3>3 DEF Safely
  <2>4. CASE Found(w)
    BY <1>1, <2>1, <2>4 DEF Found, Safely
  <2>5. CASE Dropped(w)
    BY <1>3, <2>1, <2>5 DEF Dropped
  <2>6. CASE PutBack(w)
    BY <1>1, <1>3, <2>6 DEF PutBack, Safely
  <2>. QED  BY <2>2, <2>3, <2>4, <2>5, <2>6, WorkerMoves
<1>4. CASE \E v \in Workers : /\ v # w /\ worker[v].pc = "mining" /\ ~worker[v].aborted
                              /\ Safe(worker[v].task)
  BY <1>1, <1>2, <1>4 DEF Safely
<1>5. CASE \E r \in ToSet(resultsQ) : r.of.stamp = current.stamp
  <2>1. ToSet(resultsQ) \subseteq ToSet(resultsQ')
    BY WorkerMoves DEF Took, Told, Found, Dropped, PutBack
  <2>. QED  BY <1>1, <1>5, <2>1 DEF Safely
<1>6. CASE \E t \in ToSet(tasksQ) : Safe(t)
  <2>1. PICK t \in ToSet(tasksQ) : Safe(t)
    BY <1>6
  <2>2. CASE t \in ToSet(tasksQ')
    BY <1>1, <2>1, <2>2 DEF Safely
  <2>3. CASE t \notin ToSet(tasksQ')
    <3>1. worker'[w] = Mining(t)
      BY <2>1, <2>3, WorkerMoves DEF Took, Told, Found, Dropped, PutBack
    <3>2. worker'[w].pc = "mining" /\ ~worker'[w].aborted /\ worker'[w].task = t
      BY <3>1 DEF Mining
    <3>. QED  BY <1>1, <2>1, <3>2 DEF Safely
  <2>. QED  BY <2>2, <2>3
<1>. QED  BY <1>3, <1>4, <1>5, <1>6 DEF Safely

\* The range is published whole, under identifiers that nobody can abort yet.
LEMMA PublishKeeps ==
    ASSUME TypeOK, InHand, HeldInv, Solutions \intersect (0 .. Space - 1) # {},
           PublishSubTasks
    PROVE  Safely'
<1>1. /\ current \in NctTask /\ count \in Nat /\ count > 0 /\ round \in Nat
      /\ PublishTasks(current, count) /\ UNCHANGED <<current, out>>
  BY DEF PublishSubTasks, TypeOK, TypePool, InHand, nct
<1>2. PICK k \in Solutions \intersect (0 .. Space - 1) : TRUE
  OBVIOUS
<1>3. PICK t \in ToSet(SubTasks(current, count)) : k \in t.nonces
  BY <1>1, <1>2, SubTasksType
<1>4. t.of = current /\ \E i \in Nat : t.id = <<round + 1, i>>
  <2>1. \A u \in ToSet(SubTasks(current, count)) :
           u.of = current /\ \E i \in Nat : u.id = <<round + 1, i>>
    BY <1>1, SubTasksType
  <2>. QED  BY <2>1, Zenon
<1>5. t \in ToSet(tasksQ')
  BY <1>1, <1>3, PublishType
<1>6. Hits(t) # {}
  BY <1>2, <1>3 DEF Hits
<1>7. t.id \notin OutIds'
  <2>1. t.id[1] = round + 1 /\ OutIds' = OutIds
    BY <1>1, <1>4 DEF OutIds
  <2>. QED  BY <1>1, <2>1 DEF HeldInv
<1>8. Safe(t)'
  BY <1>1, <1>4, <1>6, <1>7 DEF Safe, Carries
<1>. QED  BY <1>5, <1>8 DEF Safely

\* A result that is dropped is not the current block's.
LEMMA DropKeeps ==
    ASSUME TypeOK, BlockInv, HeldInv, Safely, current # NoTask, DropResult
    PROVE  Safely'
<1>1. /\ resultsQ \in Seq(Result) /\ resultsQ # <<>> /\ resultsQ' = Tail(resultsQ)
      /\ UNCHANGED <<tasksQ, worker, current, out>> /\ current \in Known
  BY DEF DropResult, TypeOK, TypeWorker, Known, nct, main
<1>2. /\ Head(resultsQ) \in ToSet(resultsQ)
      /\ ToSet(resultsQ) = {Head(resultsQ)} \union ToSet(resultsQ')
  BY <1>1, Elements
<1>3. Head(resultsQ).of \in Known
  BY <1>2 DEF Known, Held
<1>4. Head(resultsQ).of.stamp # current.stamp
  <2>1. Head(resultsQ).nonce \in Solutions
    BY <1>2 DEF HeldInv
  <2>2. Head(resultsQ).of.stamp = current.stamp => Head(resultsQ).of.index = current.index
    BY <1>1, <1>3 DEF BlockInv
  <2>. QED  BY <2>1, <2>2 DEF DropResult, Stale, Solves
<1>5. \A t : Safe(t)' <=> Safe(t)
  BY <1>1 DEF Safe, Carries, OutIds
<1>. QED  BY <1>1, <1>2, <1>4, <1>5 DEF Safely

\* Every step keeps the solution where it can still come from.
LEMMA NextKept ==
    ASSUME TypeOK, InHand, BlockInv, HeldInv, KeptInv,
           Solutions \intersect (0 .. Space - 1) # {}, [Next]_vars
    PROVE  KeptInv'
<1>0. reports \in Nat /\ inbox \in Seq(NctTask)
  BY DEF TypeOK, TypePool
<1>1. ASSUME UNCHANGED <<resultsQ, worker, current, out>>, ToSet(tasksQ) \subseteq ToSet(tasksQ')
      PROVE  Safely => Safely'
  <2>1. \A t : Safe(t)' <=> Safe(t)
    BY <1>1 DEF Safe, Carries, OutIds
  <2>. QED  BY <1>1, <2>1 DEF Safely
<1>2. CASE WorkersNext
  <2>1. abandoned \subseteq abandoned' /\ UNCHANGED <<current, ppc, inbox, reports>>
    BY <1>2, WorkerMoves DEF WorkersNext, Took, Told, Found, Dropped, PutBack, nct, main
  <2>. QED  BY <1>2, <2>1, WorkersKeep DEF KeptInv, Redone
<1>3. CASE NctAborts \/ RegistryNext \/ SetOriginal \/ Arm \/ TaskAckLost \/ ForwardFails
           \/ ResultAckLost \/ UNCHANGED vars
  <2>1. /\ UNCHANGED <<tasksQ, resultsQ, worker, current, out, abandoned, reports>>
        /\ ppc \in Busy \/ UNCHANGED <<ppc, inbox>>
           \/ (ppc = "clear" /\ ppc' = "idle" /\ UNCHANGED inbox)
        /\ ppc # "publish" \/ ppc' = ppc
    BY <1>3 DEF NctAborts, RegistryNext, OnRegistration, OnHeartbeat, Expire, SetOriginal,
       Arm, TaskAckLost, StartMonitor, ForwardFails, ResultAckLost, vars, workerVars, nct,
       main, Busy
  <2>. QED  BY <1>1, <2>1 DEF KeptInv, Redone, Busy
<1>4. CASE NctPublished
  <2>1. /\ UNCHANGED <<tasksQ, resultsQ, worker, current, out, abandoned, reports, ppc>>
        /\ \E t : inbox' = Append(inbox, t)
    BY <1>4 DEF NctPublished, NctNextBlock, NctRetries, NctRestarts, NctPublishes,
       workerVars, main
  <2>2. Redone => Redone'
    BY <1>0, <2>1 DEF Redone
  <2>. QED  BY <1>1, <2>1, <2>2 DEF KeptInv
<1>5. CASE OnTask
  BY <1>5 DEF OnTask, KeptInv
<1>6. CASE SkipTask
  BY <1>0, <1>6 DEF SkipTask, KeptInv
<1>7. CASE PublishSubTasks
  BY <1>7, PublishKeeps DEF KeptInv
<1>8. CASE DropResult
  <2>1. UNCHANGED <<current, ppc, inbox, reports, abandoned>> /\ ppc = "idle"
    BY <1>8 DEF DropResult, nct, main
  <2>. QED  BY <1>8, <2>1, DropKeeps DEF KeptInv, Redone
<1>9. CASE Forward
  <2>1. /\ Head(resultsQ) \in ToSet(resultsQ) /\ Head(resultsQ).of.stamp = current.stamp
        /\ UNCHANGED <<resultsQ, current>>
    BY <1>9, Elements DEF Forward, Solves, TypeOK, TypeWorker, workerVars
  <2>. QED  BY <2>1 DEF KeptInv, Safely
<1>10. CASE ClearContext \/ Crash
  BY <1>10 DEF ClearContext, Crash, KeptInv
<1>11. CASE PublishFails
  BY <1>11 DEF PublishFails, InHand, Busy, Redone, KeptInv, nct
<1>12. ASSUME NEW g \in 1 .. Generation, MonitorStep(g) PROVE KeptInv'
  <2>1. CASE MonitorReports(g)
    BY <1>0, <2>1 DEF MonitorReports, KeptInv
  <2>2. CASE MonitorPublishes(g)
    <3>1. tasksQ \in Seq(SubTask) /\ tasksQ' \in Seq(SubTask)
      BY <1>12, MonitorType DEF TypeOK, TypeWorker
    <3>2. ToSet(tasksQ) \subseteq ToSet(tasksQ')
      <4>1. /\ monitors[g] \in MonitorRecord /\ round \in Nat
        BY DEF Generation, TypeOK, TypePool
      <4>2. monitors[g].task \in NctTask /\ monitors[g].active \in Nat
        BY <4>1 DEF MonitorRecord
      <4>3. Shares(monitors[g].active) \in Nat
        BY <4>2, SharesType DEF TypeOK
      <4>. QED  BY <2>2, <4>2, <4>3, PublishType DEF MonitorPublishes
    <3>. QED  BY <1>1, <2>2, <3>2 DEF MonitorPublishes, KeptInv, Redone, nct, main
  <2>3. CASE ~MonitorReports(g) /\ ~MonitorPublishes(g)
    <3>1. UNCHANGED <<tasksQ, resultsQ, worker, abandoned, nct, main>>
      BY <1>12, <2>3 DEF MonitorStep, MonitorTurns, MonitorEnds, MonitorSnapshot, MonitorCounts,
         MonitorWaits, MonitorAborts, MonitorSetsOriginal, workerVars
    <3>. QED  BY <1>1, <3>1 DEF KeptInv, Redone, nct, main
  <2>. QED  BY <2>1, <2>2, <2>3
<1>. QED  BY <1>2, <1>3, <1>4, <1>5, <1>6, <1>7, <1>8, <1>9, <1>10, <1>11, <1>12
          DEF Next, NctNext, NctPublished, TaskStep, ResultStep, MainFault

\* Whatever dies, is aborted, published again or delivered twice, the solution of
\* the current block is not lost on its way, if a nonce of the range solves it,
\* though a worker may be given a share of no nonces: it stays with
\* a sub-task that no abort still on its way can hit, or among the results.
THEOREM SolutionKeptCorrect ==
    ASSUME Solutions \intersect (0 .. Space - 1) # {}
    PROVE  Spec => []SolutionKept
<1>1. Init => KeptInv
  BY DEF Init, KeptInv
<1>2. TypeOK /\ InHand /\ TaskInv /\ KeptInv /\ [Next]_vars => KeptInv'
  BY NextKept DEF TaskInv
<1>3. TypeOK /\ KeptInv => SolutionKept
  <2>. SUFFICES ASSUME TypeOK, Safely PROVE Carried
    BY DEF KeptInv, SolutionKept
  <2>1. \A t \in ToSet(tasksQ) : \E i \in DOMAIN tasksQ : tasksQ[i] = t
    BY DEF ToSet
  <2>2. \A r \in ToSet(resultsQ) : \E i \in DOMAIN resultsQ : resultsQ[i] = r
    BY DEF ToSet
  <2>. QED  BY <2>1, <2>2 DEF Safely, Safe, Carried
<1>. QED  BY <1>1, <1>2, <1>3, PoolTasks, PoolTypes, PTL DEF Spec
=============================================================================
