-------------------------------- MODULE Miner ---------------------------------
(***************************************************************************)
(* One search for a nonce: MinerService.mine_cancellable of miner/miner.py *)
(* and the process it starts, which is md5_range (pilar1/md5_range_4060)   *)
(* with its grid of GPU threads, or cpu_miner.py.                          *)
(*                                                                         *)
(* The threads share the device memory: a flag, which one atomic exchange  *)
(* claims, and the nonce and the digest, which the thread that claimed it  *)
(* writes afterwards.  The digest of a nonce is named by the nonce.        *)
(***************************************************************************)
EXTENDS Integers

CONSTANTS
    Threads,          \* threads of the grid: gridDim * blockDim
    Word,             \* the number of values of a uint64_t
    Ranges,           \* the ranges to search, both ends inclusive
    SolutionSets,     \* the sets of solving nonces to consider
    Engines           \* the miners to consider

Thread == 0 .. Threads - 1

\* A share of no nonces, which publish_tasks sends as [0, -1] when it has more
\* workers than nonces.
NoShare == [min |-> 0, max |-> -1]

\* max_nonce_space is 2^63 - 1, half of what a uint64_t holds, and a grid has
\* fewer than 2^63 threads.
ASSUME MinerAssumption ==
    /\ Threads \in Nat \ {0} /\ Word \in Nat /\ 2 * Threads <= Word
    /\ Ranges \subseteq [min : Nat, max : Nat] \union {NoShare}
    /\ \A r \in Ranges : r # NoShare => r.min <= r.max /\ 2 * r.max < Word
    /\ SolutionSets \subseteq SUBSET (0 .. Word - 1)
    /\ Engines \subseteq {"cuda", "cpu"}

VARIABLES
    engine, range,    \* the program and its arguments
    solutions,        \* the nonces whose digest starts with the target
    host,             \* main()
    thread,           \* threads of the grid; the CPU miner has thread 0 only
    flag, foundNonce, foundHash,    \* device memory
    printed,          \* what the process wrote to its output
    abort,            \* the worker's abort_event
    answer            \* what mine_cancellable returned or raised

search == <<engine, range, solutions>>
device == <<flag, foundNonce, foundHash>>
vars   == <<search, host, thread, device, printed, abort, answer>>

Garbage == -1         \* memory that nobody has written
Nothing == [kind |-> "nothing", nonce |-> Garbage, hash |-> Garbage]
Running == answer = "waiting" /\ host # "exited"

Init ==
    /\ engine \in Engines /\ range \in Ranges
    /\ solutions \in SolutionSets
    /\ host = "arguments"
    /\ thread = [t \in Thread |-> [pc |-> "off", nonce |-> 0]]
    /\ flag = 0 /\ foundNonce = Garbage /\ foundHash = Garbage
    /\ printed = Nothing /\ abort = FALSE /\ answer = "waiting"

Exit(output) ==
    /\ host' = "exited" /\ printed' = output
    /\ UNCHANGED <<search, thread, device, abort, answer>>

----------------------------------------------------------------------------
(* md5_range: the host.                                                    *)

\* strtoull: "-1" is a number too, the largest one.
Uint64(n) == n % Word

\* The flag is cleared and the kernel launched: thread t starts at min + t.  The
\* program refuses min > max, but compares the numbers it has read: [0, -1] is
\* every nonce there is, and no range that is sent is refused.
Launch ==
    /\ Running /\ engine = "cuda" /\ host = "arguments"
    /\ Uint64(range.min) <= Uint64(range.max)
    /\ flag' = 0
    /\ thread' = [t \in Thread |-> [pc |-> "loop",
                                    nonce |-> Uint64(range.min + t)]]
    /\ host' = "synchronize"
    /\ UNCHANGED <<search, foundNonce, foundHash, printed, abort, answer>>

\* Variant: the calls are not checked, as in md5_bf_range/md5_range.cu; the
\* flag is still clear.
FailureOutput == [Nothing EXCEPT !.kind = "none"]

\* CUDA_CHECK: a call before or after the launch fails, the kernel included.
ErrorOutput == [Nothing EXCEPT !.kind = "error"]

CudaFails ==
    /\ Running /\ engine = "cuda" /\ host \in {"arguments", "synchronize"}
    /\ Exit(ErrorOutput)

\* cudaDeviceSynchronize: every thread has returned.
KernelDone == \A t \in Thread : thread[t].pc = "done"

Report ==
    /\ Running /\ engine = "cuda" /\ host = "synchronize" /\ KernelDone
    /\ Exit(IF flag = 1
            THEN [kind |-> "found", nonce |-> foundNonce, hash |-> foundHash]
            ELSE [Nothing EXCEPT !.kind = "none"])

----------------------------------------------------------------------------
(* md5_range: one thread of bruteForceRange.                               *)

At(t, pc) == Running /\ engine = "cuda" /\ thread[t].pc = pc
Goto(t, pc) == thread' = [thread EXCEPT ![t].pc = pc]

\* range_max as the kernel gets it.
Last == Uint64(range.max)

\* Its share of the range is searched, or another thread has claimed the flag.
Return(t) ==
    /\ At(t, "loop") /\ (thread[t].nonce > Last \/ flag = 1)
    /\ Goto(t, "done")
    /\ UNCHANGED <<search, host, device, printed, abort, answer>>

Hash(t) ==
    /\ At(t, "loop") /\ thread[t].nonce <= Last /\ flag = 0
    /\ Goto(t, "hash")
    /\ UNCHANGED <<search, host, device, printed, abort, answer>>

\* Variants: no step, and a sum of more than 64 bits.
SameNonce(nonce) == nonce
WideStride(nonce) == nonce + Threads

\* nonce += stride, in 64 bits: a search of [0, -1] wraps round for ever.
Stride(nonce) == Uint64(nonce + Threads)

Miss(t) ==
    /\ At(t, "hash") /\ thread[t].nonce \notin solutions
    /\ thread' = [thread EXCEPT ![t] = [pc |-> "loop",
                                        nonce |-> Stride(thread[t].nonce)]]
    /\ UNCHANGED <<search, host, device, printed, abort, answer>>

\* Variant: the flag is stored and not exchanged.
Store(t) == flag' = 1 /\ Goto(t, "nonce")

\* atomicExch: the first one writes its result, any other one returns.
Exchange(t) == flag' = 1 /\ Goto(t, IF flag = 0 THEN "nonce" ELSE "done")

Claim(t) ==
    /\ At(t, "hash") /\ thread[t].nonce \in solutions
    /\ Exchange(t)
    /\ UNCHANGED <<search, host, foundNonce, foundHash, printed, abort, answer>>

WriteNonce(t) ==
    /\ At(t, "nonce")
    /\ foundNonce' = thread[t].nonce
    /\ Goto(t, "digest")
    /\ UNCHANGED <<search, host, flag, foundHash, printed, abort, answer>>

WriteHash(t) ==
    /\ At(t, "digest")
    /\ foundHash' = thread[t].nonce
    /\ Goto(t, "done")
    /\ UNCHANGED <<search, host, flag, foundNonce, printed, abort, answer>>

----------------------------------------------------------------------------
(* cpu_miner.py: one nonce after the other, with a time limit of its own.  *)

CpuAt(pc) == Running /\ engine = "cpu" /\ host = pc
CpuNonce  == thread[0].nonce

CpuStart ==
    /\ CpuAt("arguments")
    /\ thread' = [thread EXCEPT ![0].nonce = range.min]
    /\ host' = "for"
    /\ UNCHANGED <<search, device, printed, abort, answer>>

CpuMiss ==
    /\ CpuAt("for") /\ CpuNonce <= range.max /\ CpuNonce \notin solutions
    /\ thread' = [thread EXCEPT ![0].nonce = @ + 1]
    /\ UNCHANGED <<search, host, device, printed, abort, answer>>

CpuFound ==
    /\ CpuAt("for") /\ CpuNonce <= range.max /\ CpuNonce \in solutions
    /\ Exit([kind |-> "found", nonce |-> CpuNonce, hash |-> CpuNonce])

CpuExhausted ==
    /\ CpuAt("for") /\ CpuNonce > range.max
    /\ Exit([Nothing EXCEPT !.kind = "none"])

\* Out of time: the output is that of an exhausted range.
CpuTimeLimit ==
    /\ CpuAt("for") /\ CpuNonce <= range.max
    /\ thread' = [thread EXCEPT ![0].pc = "expired"]
    /\ host' = "exited" /\ printed' = [Nothing EXCEPT !.kind = "none"]
    /\ UNCHANGED <<search, device, abort, answer>>

----------------------------------------------------------------------------
(* MinerService.mine_cancellable: a loop of polls.                         *)

\* _parse_miner_stdout: an output that says neither raises MinerError.  The exit
\* code does not tell: it is 1 for an exhausted range and for an error.
Parse(output) ==
    CASE output.kind = "none"  -> "none"
      [] output.kind = "found" -> "result"
      [] OTHER                 -> "error"

Answer(a) ==
    /\ answer' = a
    /\ UNCHANGED <<search, host, thread, device, printed, abort>>

\* poll() sees that the process has exited.
Collect == answer = "waiting" /\ host = "exited" /\ Answer(Parse(printed))

\* It does not, and the worker has set the event, or the time is up: the
\* process is killed, which may have exited since the poll.
Kill         == answer = "waiting" /\ abort /\ Answer("none")
MinerTimeout == answer = "waiting" /\ Answer("error")

\* process_events: the worker reads an abort message between two polls.
Abort ==
    /\ answer = "waiting" /\ ~abort
    /\ abort' = TRUE
    /\ UNCHANGED <<search, host, thread, device, printed, answer>>

----------------------------------------------------------------------------

HostStep == Launch \/ Report
ThreadStep(t) ==
    Return(t) \/ Hash(t) \/ Miss(t) \/ Claim(t) \/ WriteNonce(t) \/ WriteHash(t)
CpuStep == CpuStart \/ CpuMiss \/ CpuFound \/ CpuExhausted
Finished == answer # "waiting" /\ UNCHANGED vars

Next ==
    \/ HostStep \/ CudaFails
    \/ \E t \in Thread : ThreadStep(t)
    \/ CpuStep \/ CpuTimeLimit
    \/ Collect \/ Kill \/ MinerTimeout \/ Abort
    \/ Finished

Spec == Init /\ [][Next]_vars

\* The process runs, threads of the GPU too, and the service polls.
Fairness ==
    /\ WF_vars(HostStep) /\ WF_vars(CpuStep) /\ WF_vars(Collect)
    /\ \A t \in Thread : WF_vars(ThreadStep(t))

FairSpec == Spec /\ Fairness

----------------------------------------------------------------------------
(* Properties. *)

Nonces == 0 .. Word - 1

Output == [kind : {"nothing", "error", "none", "found"},
           nonce : Nonces \union {Garbage}, hash : Nonces \union {Garbage}]

\* The thread writes the result.
Writing(t) == thread[t].pc \in {"nonce", "digest"}

\* Every variable keeps its type: a nonce of a thread or a result is a value of a
\* uint64_t, although a search of [0, -1] adds strides without end, and at most
\* one thread ever writes the result, after it has claimed the flag.
TypeOK ==
    /\ engine \in Engines /\ range \in Ranges /\ solutions \subseteq Nonces
    /\ host \in {"arguments", "synchronize", "for", "exited"}
    /\ thread \in [Thread -> [pc : {"off", "loop", "hash", "nonce", "digest",
                                    "done", "expired"},
                              nonce : Nonces]]
    /\ flag \in {0, 1}
    /\ {foundNonce, foundHash} \subseteq Nonces \union {Garbage}
    /\ printed \in Output /\ abort \in BOOLEAN
    /\ answer \in {"waiting", "result", "none", "error"}
    /\ \A t \in Thread : Writing(t) =>
          flag = 1 /\ \A u \in Thread : Writing(u) => t = u

InRange(nonce) == range.min <= nonce /\ nonce <= range.max

\* The GPU searches every nonce there is for a share of none.
SearchesAll == engine = "cuda" /\ range = NoShare

Sought(nonce) == InRange(nonce) \/ SearchesAll

\* However many threads find a solution at once, the nonce that is reported solves
\* the range, and the digest reported with it is its own; it lies in the range,
\* except that the GPU miner may report any solution for the share [0, -1].
ResultSolves ==
    answer = "result" =>
        /\ Sought(printed.nonce) /\ printed.nonce \in solutions
        /\ printed.hash = printed.nonce

\* mine_cancellable returns None only "if the subprocess was aborted or no valid
\* nonce exists in the range"; the CPU miner's time limit is the exception.
NoneMeansNone ==
    answer = "none" =>
        \/ abort \/ thread[0].pc = "expired"
        \/ \A nonce \in solutions : ~Sought(nonce)

\* The search ends by itself: no thread runs past the end of the range for ever,
\* or waits for another one.  A search of all nonces ends because it has a
\* solution; without one only the service's time limit would end it.
Ends == (SearchesAll => solutions # {}) => <>(answer # "waiting")
=============================================================================
