----------------------------- MODULE MinerProofs ------------------------------
(***************************************************************************)
(* What one search promises, for every grid of threads, every range and    *)
(* every set of solutions.                                                 *)
(***************************************************************************)
EXTENDS Miner, TLAPS

(***************************************************************************)
(* Types.                                                                  *)
(***************************************************************************)

\* A natural below 2^64 is read as it is, and -1 as the largest of them.
LEMMA Reading ==
    /\ \A n \in Nonces : Uint64(n) = n
    /\ Uint64(-1) = Word - 1
    /\ \A n \in Nat : Uint64(n) \in Nonces
  <1>1. Word \in Nat /\ Word > 0
    BY MinerAssumption
  <1>2. \A n \in Nonces : n % Word = n
    BY <1>1, SMT DEF Nonces
  <1>3. (-1) % Word = Word - 1
    BY <1>1, SMT
  <1>4. \A n \in Nat : n % Word \in Nonces
    BY <1>1, SMT DEF Nonces
  <1> QED
    BY <1>2, <1>3, <1>4 DEF Uint64

\* A range is a share of nonces or none; the kernel gets it, or all nonces.
LEMMA Bounds ==
    ASSUME NEW r \in Ranges
    PROVE  /\ r.min \in Nonces /\ r.max \in Int /\ r.max + 1 \in Nonces
           /\ Uint64(r.min) = r.min /\ r.min <= r.max + 1
           /\ Uint64(r.max) \in Nonces
           /\ r # NoShare => /\ r.max \in Nonces /\ r.min <= r.max
                            /\ Uint64(r.max) = r.max
                            /\ r.min + Threads \in Nonces \union {Word}
                            /\ r.max + Threads \in Nonces
           /\ r = NoShare => r.min = 0 /\ r.max = -1 /\ Uint64(r.max) = Word - 1
  <1>1. Word \in Nat /\ Threads \in Nat /\ Threads > 0 /\ 2 * Threads <= Word
    BY MinerAssumption
  <1>2. CASE r = NoShare
    <2>1. r.min = 0 /\ r.max = -1
      BY <1>2 DEF NoShare
    <2>2. 0 \in Nonces /\ Word - 1 \in Nonces
      BY <1>1 DEF Nonces
    <2> QED
      BY <1>2, <2>1, <2>2, Reading
  <1>3. CASE r # NoShare
    <2>1. r.min \in Nat /\ r.max \in Nat /\ r.min <= r.max /\ 2 * r.max < Word
      BY <1>3, MinerAssumption
    <2>2. /\ r.min \in Nonces /\ r.max \in Nonces /\ r.max + 1 \in Nonces
          /\ r.max + Threads \in Nonces /\ r.min + Threads \in Nonces \union {Word}
      BY <1>1, <2>1 DEF Nonces
    <2> QED
      BY <1>3, <2>1, <2>2, Reading
  <1> QED
    BY <1>2, <1>3

\* The threads of the grid start at different nonces, without wrapping round.
LEMMA StartNonce ==
    ASSUME NEW r \in Ranges, NEW t \in Thread
    PROVE  /\ Uint64(r.min + t) = r.min + t /\ r.min + t \in Nonces
           /\ r.min \in Nat
  <1>1. Threads \in Nat /\ Word \in Nat /\ 2 * Threads <= Word
    BY MinerAssumption
  <1>2. r.min \in Nonces /\ (r # NoShare => r.min + Threads <= Word) /\ (r = NoShare => r.min = 0)
    BY <1>1, Bounds DEF Nonces
  <1>3. r.min + t \in Nonces /\ r.min \in Nat
    BY <1>1, <1>2 DEF Thread, Nonces
  <1> QED
    BY <1>3, Reading

\* A stride stays in 64 bits; it wraps round only in a search of all nonces.
LEMMA StrideAdds ==
    ASSUME NEW r \in Ranges, NEW nonce \in Nonces
    PROVE  /\ Stride(nonce) \in Nonces
           /\ r # NoShare /\ nonce <= r.max => Stride(nonce) = nonce + Threads
  <1>1. Threads \in Nat /\ nonce + Threads \in Nat
    BY MinerAssumption DEF Nonces
  <1>2. ASSUME r # NoShare, nonce <= r.max PROVE nonce + Threads \in Nonces
    <2>1. r.max \in Nonces /\ r.max + Threads \in Nonces
      BY <1>2, Bounds
    <2> QED
      BY <1>1, <1>2, <2>1, MinerAssumption DEF Nonces
  <1> QED
    BY <1>1, <1>2, Reading DEF Stride

\* Inductive form of TypeOK: a thread hashes only nonces up to the end of the
\* range.
Hashing == \A t \in Thread :
    thread[t].pc = "hash" =>
        engine = "cuda" /\ (range # NoShare => thread[t].nonce <= range.max)

\* The CPU miner stops one nonce after the range at the latest.
CpuCounts == engine = "cpu" => thread[0].nonce <= range.max + 1

\* TypeOK without its last conjunct, which is one of Claims below.
VarTypes ==
    /\ engine \in Engines /\ range \in Ranges /\ solutions \subseteq Nonces
    /\ host \in {"arguments", "synchronize", "for", "exited"}
    /\ thread \in [Thread -> [pc : {"off", "loop", "hash", "nonce", "digest",
                                    "done", "expired"},
                              nonce : Nonces]]
    /\ flag \in {0, 1}
    /\ {foundNonce, foundHash} \subseteq Nonces \union {Garbage}
    /\ printed \in Output /\ abort \in BOOLEAN
    /\ answer \in {"waiting", "result", "none", "error"}

Types == VarTypes /\ Hashing /\ CpuCounts

\* The host has launched nothing.
LEMMA InitTypes == Init => Types
  <1> SUFFICES ASSUME Init PROVE Types
    OBVIOUS
  <1>1. solutions \subseteq Nonces
    BY MinerAssumption DEF Init, Nonces
  <1>2. printed \in Output
    BY DEF Init, Output, Nothing
  <1>3. 0 \in Nonces /\ 0 \in Thread
    BY MinerAssumption DEF Nonces, Thread
  <1>4. /\ thread \in [Thread -> [pc : {"off"}, nonce : Nonces]]
        /\ \A t \in Thread : thread[t].pc = "off"
        /\ thread[0].nonce = 0
    BY <1>3 DEF Init
  <1>5. /\ engine \in Engines /\ range \in Ranges /\ host = "arguments"
        /\ flag = 0 /\ foundNonce = Garbage /\ foundHash = Garbage
        /\ answer = "waiting" /\ abort \in BOOLEAN
    BY DEF Init
  <1>6. 0 <= range.max + 1
    BY <1>5, Bounds DEF Nonces
  <1> QED
    BY <1>1, <1>2, <1>4, <1>5, <1>6 DEF Types, VarTypes, Hashing, CpuCounts

\* The steps of the host process.
LEMMA HostTypes ==
    ASSUME Types, HostStep \/ CudaFails
    PROVE  Types'
  <1> USE DEF Types, VarTypes, Hashing, search, device
  <1>1. UNCHANGED <<engine, range>> /\ engine = "cuda"
    BY DEF HostStep, Launch, Report, CudaFails, Exit
  <1>2. CpuCounts'
    BY <1>1 DEF CpuCounts
  <1>3. CASE CudaFails
    BY <1>2, <1>3 DEF CudaFails, Exit, ErrorOutput, Output, Nothing
  <1>4. CASE Report
    BY <1>2, <1>4 DEF Report, Exit, Output, Nothing
  <1>5. CASE Launch
    <2>1. \A t \in Thread : Uint64(range.min + t) \in Nonces
      BY StartNonce
    <2>2. /\ thread' \in [Thread -> [pc : {"loop"}, nonce : Nonces]]
          /\ \A t \in Thread : thread'[t].pc = "loop"
      BY <1>5, <2>1 DEF Launch
    <2> QED
      BY <1>2, <1>5, <2>2 DEF Launch
  <1> QED
    BY <1>3, <1>4, <1>5 DEF HostStep

\* The steps of a GPU thread.
LEMMA ThreadTypes ==
    ASSUME Types, NEW t \in Thread, ThreadStep(t)
    PROVE  Types'
  <1> USE DEF Types, VarTypes, Hashing, search, device, At, Goto
  <1>0. UNCHANGED <<engine, range>> /\ engine = "cuda"
    BY DEF ThreadStep, Return, Hash, Miss, Claim, WriteNonce, WriteHash
  <1>1. CpuCounts'
    BY <1>0 DEF CpuCounts
  <1>2. CASE Return(t)
    BY <1>1, <1>2 DEF Return
  <1>3. CASE Hash(t)
    <2>1. range # NoShare => Last = range.max
      BY Bounds DEF Last
    <2> QED
      BY <1>1, <1>3, <2>1 DEF Hash
  <1>4. CASE Miss(t)
    <2>1. Stride(thread[t].nonce) \in Nonces
      BY <1>4, StrideAdds DEF Miss
    <2> QED
      BY <1>1, <1>4, <2>1 DEF Miss
  <1>5. CASE Claim(t)
    BY <1>1, <1>5 DEF Claim, Exchange
  <1>6. CASE WriteNonce(t)
    BY <1>1, <1>6 DEF WriteNonce
  <1>7. CASE WriteHash(t)
    BY <1>1, <1>7 DEF WriteHash
  <1> QED
    BY <1>2, <1>3, <1>4, <1>5, <1>6, <1>7 DEF ThreadStep

\* The CPU program, and what the worker does meanwhile.
LEMMA OtherTypes ==
    ASSUME Types,
           \/ CpuStep \/ CpuTimeLimit \/ Collect \/ Kill \/ MinerTimeout \/ Abort
           \/ UNCHANGED vars
    PROVE  Types'
  <1> USE DEF Types, VarTypes, Hashing, search, device
  <1>0. /\ 0 \in Thread /\ range.min \in Nonces /\ range.max \in Int
        /\ range.max + 1 \in Nonces /\ range.min <= range.max + 1
        /\ thread[0].nonce \in Nonces
    BY MinerAssumption, Bounds DEF Thread
  <1>1. CASE CpuStart \/ CpuMiss \/ CpuTimeLimit
    <2>1. CpuMiss => /\ thread[0].nonce + 1 \in Nonces
                     /\ thread[0].nonce + 1 <= range.max + 1
      <3>1. ASSUME CpuMiss PROVE thread[0].nonce <= range.max
        BY <3>1 DEF CpuMiss, CpuNonce
      <3> QED
        BY <1>0, <3>1, MinerAssumption DEF Nonces
    <2>2. /\ thread' \in [Thread -> [pc : {"off", "loop", "hash", "nonce", "digest",
                                          "done", "expired"},
                                    nonce : Nonces]]
          /\ thread'[0].nonce \in {range.min, thread[0].nonce, thread[0].nonce + 1}
          /\ thread'[0].nonce = thread[0].nonce + 1 => CpuMiss \/ thread'[0].nonce = range.min
      BY <1>0, <1>1, <2>1 DEF CpuStart, CpuMiss, CpuTimeLimit, Nonces
    <2>3. printed' \in Output
      BY <1>1 DEF CpuStart, CpuMiss, CpuTimeLimit, Output, Nothing
    <2>4. \A t \in Thread : thread'[t].pc = "hash" => thread[t].pc = "hash"
      BY <1>0, <1>1 DEF CpuStart, CpuMiss, CpuTimeLimit
    <2>5. engine = "cpu" /\ UNCHANGED <<engine, range>>
      BY <1>1 DEF CpuStart, CpuMiss, CpuTimeLimit, CpuAt
    <2>6. Hashing' /\ CpuCounts'
      BY <1>0, <2>1, <2>2, <2>4, <2>5 DEF CpuCounts, Nonces
    <2> QED
      BY <1>1, <2>2, <2>3, <2>6 DEF CpuStart, CpuMiss, CpuTimeLimit
  <1>2. CASE CpuFound \/ CpuExhausted
    BY <1>0, <1>2 DEF CpuFound, CpuExhausted, CpuNonce, CpuCounts, Exit, Output, Nothing
  <1>3. CASE Collect \/ Kill \/ MinerTimeout \/ Abort
    BY <1>3 DEF Collect, Kill, MinerTimeout, Abort, Answer, Parse, CpuCounts
  <1>4. CASE UNCHANGED vars
    BY <1>4 DEF vars, CpuCounts
  <1> QED
    BY <1>1, <1>2, <1>3, <1>4 DEF CpuStep

\* Every step keeps the types.
LEMMA NextTypes == Types /\ [Next]_vars => Types'
  BY HostTypes, ThreadTypes, OtherTypes DEF Next, Finished

(***************************************************************************)
(* What is reported.                                                       *)
(***************************************************************************)

\* At most one thread has claimed the flag; the nonce and the digest are those
\* of one solution once it has written both.
Hit(nonce) == nonce \in solutions /\ Sought(nonce)
Written    == Hit(foundNonce) /\ foundHash = foundNonce

Claims ==
    /\ flag = 0 => \A t \in Thread : ~Writing(t)
    /\ flag = 1 => Written \/ \E t \in Thread : Writing(t)
    /\ \A t, u \in Thread : Writing(t) /\ Writing(u) => t = u

Positions == \A t \in Thread :
    /\ thread[t].pc = "hash" => Sought(thread[t].nonce)
    /\ thread[t].pc = "loop" => range.min <= thread[t].nonce
    /\ Writing(t) => Hit(thread[t].nonce)
    /\ thread[t].pc = "digest" => foundNonce = thread[t].nonce

\* The nonces a thread that stands at one comes to.
Ahead(nonce) == {nonce + k * Threads : k \in Nat}

Searched(t) == thread[t].pc \in {"loop", "hash"}

\* A solution nobody has found yet is ahead of some thread; a search of all nonces
\* goes on until one is found.
Covered ==
    \/ host # "synchronize" \/ flag = 1
    \/ IF SearchesAll
       THEN \A t \in Thread : Searched(t)
       ELSE \A n \in solutions : InRange(n) =>
              \E t \in Thread : Searched(t) /\ n \in Ahead(thread[t].nonce)

\* The CPU miner has no flag and passes over no solution.
Cpu ==
    /\ engine = "cuda" => host # "for"
    /\ engine = "cpu" => flag = 0 /\ \A t \in Thread :
                                       thread[t].pc \in {"off", "expired"}
    /\ host = "arguments" => \A t \in Thread : thread[t].pc = "off"
    /\ host = "for" => /\ range.min <= CpuNonce
                       /\ \A n \in solutions : InRange(n) => CpuNonce <= n

NoHit == \A n \in solutions : ~Sought(n)

Reported ==
    /\ printed.kind = "found" => Hit(printed.nonce) /\ printed.hash = printed.nonce
    /\ printed.kind = "none" => thread[0].pc = "expired" \/ NoHit
    /\ host = "exited" \/ printed.kind = "nothing"
    /\ answer = "result" => printed.kind = "found" /\ host = "exited"
    /\ answer = "none" => abort \/ (printed.kind = "none" /\ host = "exited")

MinerInv == Types /\ Claims /\ Positions /\ Covered /\ Cpu /\ Reported

\* No thread runs and nothing is claimed.
LEMMA InitInv == Init => MinerInv
  <1> SUFFICES ASSUME Init PROVE MinerInv
    OBVIOUS
  <1>1. Types
    BY InitTypes
  <1>2. \A t \in Thread : thread[t].pc = "off"
    BY DEF Init
  <1>3. Claims /\ Positions
    BY <1>2 DEF Init, Claims, Positions, Writing
  <1>4. Covered /\ Cpu
    BY <1>2 DEF Init, Covered, Cpu
  <1>5. Reported
    BY DEF Init, Reported, Nothing
  <1> QED
    BY <1>1, <1>3, <1>4, <1>5 DEF MinerInv

\* Every number is a thread's number and some strides.
LEMMA Strides ==
    ASSUME NEW d \in Nat
    PROVE  \E t \in Thread, k \in Nat : d = t + k * Threads
  <1> DEFINE k == d \div Threads
  <1>1. Threads \in Nat \ {0}
    BY MinerAssumption
  <1>2. k \in Nat /\ Threads * k <= d /\ d < Threads * k + Threads
    BY <1>1, SMT
  <1> HIDE DEF k
  <1>3. k * Threads = Threads * k /\ Threads * k \in Nat
    BY <1>1, <1>2, SMT
  <1>4. d - k * Threads \in Thread
    BY <1>1, <1>2, <1>3 DEF Thread
  <1>5. d = (d - k * Threads) + k * Threads
    BY <1>3
  <1> QED
    BY <1>2, <1>4, <1>5

\* What is ahead of a nonce and is not the nonce is ahead of the next one.
LEMMA AheadOfNext ==
    ASSUME NEW nonce \in Nat, NEW n \in Ahead(nonce), n # nonce
    PROVE  n \in Ahead(nonce + Threads)
  <1>1. Threads \in Nat \ {0}
    BY MinerAssumption
  <1>2. PICK k \in Nat : n = nonce + k * Threads
    BY DEF Ahead
  <1>3. k # 0
    <2>1. 0 * Threads = 0
      BY <1>1, SMT
    <2> QED
      BY <1>2, <2>1
  <1>4. k - 1 \in Nat /\ k * Threads = Threads + (k - 1) * Threads
    BY <1>1, <1>3, SMT
  <1>5. (k - 1) * Threads \in Nat
    BY <1>1, <1>4, SMT
  <1>6. n = (nonce + Threads) + (k - 1) * Threads
    BY <1>1, <1>2, <1>4, <1>5
  <1> QED
    BY <1>4, <1>6 DEF Ahead

\* The nonces ahead of a thread are none below the one it is at.
LEMMA AheadIsLater ==
    ASSUME NEW nonce \in Nat, NEW n \in Ahead(nonce)
    PROVE  nonce <= n
  <1>1. PICK k \in Nat : n = nonce + k * Threads
    BY DEF Ahead
  <1>2. Threads \in Nat
    BY MinerAssumption
  <1>3. k * Threads \in Nat
    BY <1>2, SMT
  <1> QED
    BY <1>1, <1>3

\* The launch: every nonce of the range is ahead of a thread.
LEMMA LaunchInv ==
    ASSUME MinerInv, Launch
    PROVE  MinerInv'
  <1> USE DEF search
  <1>1. Types'
    BY HostTypes DEF MinerInv, HostStep
  <1>2. /\ range \in Ranges /\ solutions \subseteq Nonces /\ range.min \in Nat
        /\ \A t \in Thread : /\ thread'[t].pc = "loop"
                             /\ thread'[t].nonce = range.min + t
        /\ UNCHANGED <<engine, range, solutions>>
    <2>1. range \in Ranges /\ solutions \subseteq Nonces
      BY DEF MinerInv, Types, VarTypes
    <2>2. \A t \in Thread : Uint64(range.min + t) = range.min + t
      BY <2>1, StartNonce
    <2>3. range.min \in Nat
      BY <2>1, Bounds DEF Nonces
    <2>4. \A t \in Thread : /\ thread'[t].pc = "loop"
                            /\ thread'[t].nonce = Uint64(range.min + t)
      BY DEF Launch
    <2> QED
      BY <2>1, <2>2, <2>3, <2>4 DEF Launch
  <1>3. Claims' /\ Positions'
    <2>1. \A t \in Thread : thread'[t].pc = "loop" /\ range.min <= thread'[t].nonce
      <3>1. ASSUME NEW t \in Thread PROVE range.min <= range.min + t
        BY <1>2 DEF Thread
      <3> QED
        BY <1>2, <3>1
    <2>2. flag' = 0 /\ range' = range
      BY DEF Launch
    <2>3. Claims'
      BY <2>1, <2>2 DEF Claims, Writing
    <2>4. Positions'
      BY <2>1, <2>2 DEF Positions, Writing
    <2> QED
      BY <2>3, <2>4
  <1>4. Covered'
    <2>1. CASE SearchesAll
      <3>1. \A t \in Thread : Searched(t)'
        BY <1>2 DEF Searched
      <3>2. SearchesAll'
        BY <1>2, <2>1 DEF SearchesAll
      <3> QED
        BY <3>1, <3>2 DEF Covered
    <2>2. ASSUME NEW n \in solutions, InRange(n)
          PROVE  \E t \in Thread : Searched(t)' /\ n \in Ahead(thread'[t].nonce)
      <3>1. n \in Nat /\ n - range.min \in Nat
        BY <1>2, <2>2 DEF InRange, Nonces
      <3>2. PICK t \in Thread, k \in Nat : n - range.min = t + k * Threads
        BY <3>1, Strides
      <3>3. k * Threads \in Nat /\ t \in Nat
        <4>1. Threads \in Nat
          BY MinerAssumption
        <4> QED
          BY <4>1, SMT DEF Thread
      <3>4. n = (range.min + t) + k * Threads
        BY <1>2, <3>1, <3>2, <3>3
      <3>5. n \in Ahead(range.min + t)
        BY <3>4 DEF Ahead
      <3>6. thread'[t].pc = "loop" /\ thread'[t].nonce = range.min + t
        BY <1>2
      <3> QED
        BY <3>5, <3>6 DEF Searched
    <2>3. CASE ~SearchesAll
      BY <1>2, <2>2, <2>3 DEF Covered, SearchesAll, InRange
    <2> QED
      BY <2>1, <2>3
  <1>5. 0 \in Thread
    BY MinerAssumption DEF Thread
  <1>6. Cpu'
    BY <1>2 DEF Launch, MinerInv, Cpu
  <1>7. Reported'
    BY <1>5 DEF Launch, MinerInv, Reported, Running, Hit, Sought, InRange, Nothing
  <1> QED
    BY <1>1, <1>3, <1>4, <1>6, <1>7 DEF MinerInv

\* The other steps of the host: what it prints follows from what the threads
\* have left behind.
LEMMA HostInv ==
    ASSUME MinerInv, CudaFails \/ Report
    PROVE  MinerInv'
  <1> USE DEF search, device
  <1>1. Types'
    BY HostTypes DEF MinerInv, HostStep
  <1>2. /\ UNCHANGED <<engine, range, solutions, thread, flag, foundNonce,
                       foundHash, abort, answer>>
        /\ host' = "exited" /\ engine = "cuda"
        /\ answer = "waiting"
    BY DEF CudaFails, Report, Exit, Running
  <1>3. Claims' /\ Positions'
    BY <1>2 DEF MinerInv, Claims, Positions, Writing, Written, Hit, Sought, SearchesAll, InRange
  <1>4. Covered' /\ Cpu'
    BY <1>2 DEF MinerInv, Covered, Cpu
  <1>5. Reported'
    <2>1. CASE CudaFails
      <3>1. printed' = [kind |-> "error", nonce |-> Garbage, hash |-> Garbage]
        BY <2>1 DEF CudaFails, Exit, ErrorOutput, Nothing
      <3> QED
        BY <1>2, <3>1 DEF Reported
    <2>2. CASE Report /\ flag = 1
      <3>1. Written
        BY <2>2 DEF Report, KernelDone, MinerInv, Claims, Writing
      <3>2. printed' = [kind |-> "found", nonce |-> foundNonce, hash |-> foundHash]
        BY <2>2 DEF Report, Exit
      <3> QED
        BY <1>2, <3>1, <3>2 DEF Reported, Written, Hit, Sought, SearchesAll, InRange
    <2>3. CASE Report /\ flag # 1
      <3>1. NoHit
        <4>1. 0 \in Thread
          BY MinerAssumption DEF Thread
        <4>2. ~SearchesAll
          BY <2>3, <4>1 DEF Report, KernelDone, MinerInv, Covered, Searched
        <4> QED
          BY <2>3, <4>2 DEF Report, KernelDone, MinerInv, Covered, Searched, NoHit, Sought
      <3>2. printed' = [kind |-> "none", nonce |-> Garbage, hash |-> Garbage]
        BY <2>3 DEF Report, Exit, Nothing
      <3> QED
        BY <1>2, <3>1, <3>2 DEF Reported, NoHit, Sought, SearchesAll, InRange
    <2> QED
      BY <2>1, <2>2, <2>3
  <1> QED
    BY <1>1, <1>3, <1>4, <1>5 DEF MinerInv

\* What every step of a thread of the grid leaves alone.
LEMMA ThreadFrame ==
    ASSUME MinerInv, NEW t \in Thread, ThreadStep(t)
    PROVE  /\ UNCHANGED <<engine, range, solutions, host, printed, abort, answer>>
           /\ engine = "cuda" /\ host = "synchronize"
           /\ \A u \in Thread : u # t => thread'[u] = thread[u]
           /\ thread[t] = [pc |-> thread[t].pc, nonce |-> thread[t].nonce]
           /\ range \in Ranges /\ range.max \in Int /\ range.min \in Nat
           /\ \A u \in Thread : thread[u].nonce \in Nonces /\ thread[u].nonce \in Nat
           /\ SearchesAll => range.min = 0 /\ Last = Word - 1
           /\ ~SearchesAll => range # NoShare /\ Last = range.max
           /\ Types' /\ Cpu' /\ Reported'
  <1> USE DEF search, device
  <1>1. /\ UNCHANGED <<engine, range, solutions, host, printed, abort, answer>>
        /\ engine = "cuda" /\ Running /\ thread[t].pc # "off"
    BY DEF ThreadStep, Return, Hash, Miss, Claim, WriteNonce, WriteHash, At
  <1>2. host = "synchronize"
    BY <1>1 DEF MinerInv, Types, VarTypes, Cpu, Running
  <1>3. \A u \in Thread : u # t => thread'[u] = thread[u]
    BY DEF MinerInv, Types, VarTypes, ThreadStep, Return, Hash, Miss, Claim, Exchange,
        WriteNonce, WriteHash, Goto
  <1>4. /\ thread[t] = [pc |-> thread[t].pc, nonce |-> thread[t].nonce]
        /\ \A u \in Thread : thread[u].nonce \in Nonces /\ thread[u].nonce \in Nat
    BY DEF MinerInv, Types, VarTypes, Nonces
  <1>5. range \in Ranges /\ range.max \in Int /\ range.min \in Nat
    <2>1. range \in Ranges
      BY DEF MinerInv, Types, VarTypes
    <2> QED
      BY <2>1, Bounds DEF Nonces
  <1>6. Types'
    BY ThreadTypes DEF MinerInv
  <1>7. Cpu'
    BY <1>1, <1>2 DEF MinerInv, Cpu
  <1>8. 0 \in Thread
    BY MinerAssumption DEF Thread
  <1>9. Reported'
    BY <1>1, <1>2, <1>8 DEF MinerInv, Reported, Running, Hit, Sought, SearchesAll, InRange, NoHit
  <1>10. /\ SearchesAll => range.min = 0 /\ Last = Word - 1
         /\ ~SearchesAll => range # NoShare /\ Last = range.max
    BY <1>1, <1>5, Bounds DEF SearchesAll, Last
  <1> QED
    BY <1>1, <1>2, <1>3, <1>4, <1>5, <1>6, <1>7, <1>9, <1>10

\* A thread that returns, tests a nonce or takes the next one.
LEMMA LoopInv ==
    ASSUME MinerInv, NEW t \in Thread, Return(t) \/ Hash(t) \/ Miss(t)
    PROVE  MinerInv'
  <1> USE DEF search, device, At, Goto
  <1>1. ThreadStep(t)
    BY DEF ThreadStep
  <1>2. UNCHANGED <<flag, foundNonce, foundHash>>
    BY DEF Return, Hash, Miss
  <1>3. ~Writing(t) /\ ~Writing(t)'
    BY DEF Return, Hash, Miss, Writing, MinerInv, Types, VarTypes
  <1>4. \A u \in Thread : Writing(u)' <=> Writing(u)
    BY <1>1, <1>3, ThreadFrame DEF Writing
  <1>5. Claims'
    BY <1>1, <1>2, <1>4, ThreadFrame DEF MinerInv, Claims, Written, Hit, Sought, SearchesAll, InRange
  <1>6. /\ thread'[t].pc = "hash" => Sought(thread'[t].nonce)
        /\ thread'[t].pc = "loop" => range.min <= thread'[t].nonce
    <2>1. CASE Return(t)
      BY <2>1 DEF Return, MinerInv, Types, VarTypes
    <2>2. CASE Hash(t)
      <3>1. /\ thread'[t].pc = "hash" /\ thread'[t].nonce = thread[t].nonce
            /\ thread[t].nonce <= Last /\ range.min <= thread[t].nonce
        BY <2>2 DEF Hash, MinerInv, Types, VarTypes, Positions
      <3> QED
        BY <1>1, <3>1, ThreadFrame DEF Sought, InRange
    <2>3. CASE Miss(t)
      <3>1. thread'[t].pc = "loop" /\ thread'[t].nonce = Stride(thread[t].nonce)
        BY <2>3 DEF Miss, MinerInv, Types, VarTypes
      <3>2. CASE SearchesAll
        <4>1. range \in Ranges /\ thread[t].nonce \in Nonces /\ range.min = 0
          BY <1>1, <3>2, ThreadFrame
        <4>2. Stride(thread[t].nonce) \in Nonces
          BY <4>1, StrideAdds
        <4>3. range.min <= Stride(thread[t].nonce)
          BY <4>1, <4>2, MinerAssumption DEF Nonces
        <4> QED
          BY <3>1, <4>3
      <3>3. CASE ~SearchesAll
        <4>1. range.min <= thread[t].nonce
          BY <2>3, <3>3 DEF Miss, MinerInv, Positions, Sought, InRange
        <4>2. thread'[t].nonce = thread[t].nonce + Threads
          BY <1>1, <2>3, <3>1, <3>3, StrideAdds, ThreadFrame
             DEF Miss, MinerInv, Types, Hashing
        <4>3. Threads \in Nat /\ range.min \in Nat /\ thread[t].nonce \in Nat
          BY <1>1, ThreadFrame, MinerAssumption
        <4>4. range.min <= thread[t].nonce + Threads
          BY <4>1, <4>3
        <4> QED
          BY <3>1, <4>2, <4>4
      <3> QED
        BY <3>2, <3>3
    <2> QED
      BY <2>1, <2>2, <2>3
  <1>7. Positions'
    BY <1>1, <1>2, <1>3, <1>4, <1>6, ThreadFrame
       DEF MinerInv, Positions, Hit, Sought, SearchesAll, InRange, Writing
  <1>8. Covered'
    <2>0. UNCHANGED <<engine, solutions, range, flag>>
      BY <1>1, <1>2, ThreadFrame
    <2>a. ASSUME SearchesAll, flag # 1
          PROVE  \A u \in Thread : Searched(u)'
      <3>1. ~Return(t)
        <4>1. thread[t].nonce \in 0 .. Word - 1 /\ Last = Word - 1 /\ Word \in Nat
          BY <1>1, <2>a, ThreadFrame, MinerAssumption DEF Nonces
        <4>2. ~(thread[t].nonce > Last)
          BY <4>1
        <4> QED
          BY <2>a, <4>2 DEF Return
      <3>2. Searched(t)'
        BY <3>1 DEF Hash, Miss, Searched, MinerInv, Types, VarTypes
      <3>3. \A u \in Thread : u # t => Searched(u)'
        BY <1>1, <2>a, ThreadFrame DEF MinerInv, Covered, Searched
      <3> QED
        BY <3>2, <3>3
    <2>1. SUFFICES ASSUME ~SearchesAll, flag # 1, NEW n \in solutions, InRange(n)
                   PROVE  \E u \in Thread : Searched(u)' /\ n \in Ahead(thread'[u].nonce)
      BY <2>0, <2>a DEF Covered, SearchesAll, InRange
    <2>2. PICK u \in Thread : Searched(u) /\ n \in Ahead(thread[u].nonce)
      BY <1>1, <2>1, ThreadFrame DEF MinerInv, Covered
    <2>3. CASE u # t
      BY <1>1, <2>2, <2>3, ThreadFrame DEF Searched
    <2>4. CASE u = t /\ Return(t)
      <3>1. thread[t].nonce <= n /\ n <= range.max /\ n \in Nat
        BY <1>1, <2>1, <2>2, <2>4, AheadIsLater, ThreadFrame
           DEF InRange, MinerInv, Types, VarTypes, Nonces
      <3>2. thread[t].nonce > range.max
        BY <1>1, <2>1, <2>4, ThreadFrame DEF Return
      <3>3. thread[t].nonce \in Nat /\ range.max \in Int
        BY <1>1, ThreadFrame
      <3> QED
        BY <3>1, <3>2, <3>3
    <2>5. CASE u = t /\ Hash(t)
      <3>1. thread'[t].pc = "hash" /\ thread'[t].nonce = thread[t].nonce
        BY <2>5 DEF Hash, MinerInv, Types, VarTypes
      <3> QED
        BY <2>2, <2>5, <3>1 DEF Searched
    <2>6. CASE u = t /\ Miss(t)
      <3>1. thread'[t] = [pc |-> "loop", nonce |-> thread[t].nonce + Threads]
        <4>1. thread'[t] = [pc |-> "loop", nonce |-> Stride(thread[t].nonce)]
          BY <2>6 DEF Miss, MinerInv, Types, VarTypes
        <4>2. Stride(thread[t].nonce) = thread[t].nonce + Threads
          BY <1>1, <2>1, <2>6, StrideAdds, ThreadFrame DEF Miss, MinerInv, Types, Hashing
        <4> QED
          BY <4>1, <4>2
      <3>2. n # thread[t].nonce
        BY <2>1, <2>6 DEF Miss
      <3>3. n \in Ahead(thread[t].nonce + Threads)
        BY <1>1, <2>2, <2>6, <3>2, AheadOfNext, ThreadFrame
      <3> QED
        BY <3>1, <3>3 DEF Searched
    <2> QED
      BY <2>2, <2>3, <2>4, <2>5, <2>6
  <1> QED
    BY <1>1, <1>5, <1>7, <1>8, ThreadFrame DEF MinerInv

\* The thread that finds a solution, and the one that writes it.
LEMMA ClaimInv ==
    ASSUME MinerInv, NEW t \in Thread, Claim(t) \/ WriteNonce(t) \/ WriteHash(t)
    PROVE  MinerInv'
  <1> USE DEF search, device, At, Goto
  <1>1. ThreadStep(t)
    BY DEF ThreadStep
  <1>2. UNCHANGED <<engine, range, solutions>> /\ flag \in {0, 1}
    BY <1>1, ThreadFrame DEF MinerInv, Types, VarTypes
  <1>3. flag' = 1
    BY DEF Claim, Exchange, WriteNonce, WriteHash, MinerInv, Claims, Writing, Types, VarTypes
  <1>4. thread'[t].nonce = thread[t].nonce /\ Hit(thread[t].nonce)
    <2>1. thread'[t].nonce = thread[t].nonce
      BY DEF Claim, Exchange, WriteNonce, WriteHash, MinerInv, Types, VarTypes
    <2>2. Hit(thread[t].nonce)
      BY DEF Claim, WriteNonce, WriteHash, MinerInv, Positions, Hit, Writing
    <2> QED
      BY <2>1, <2>2
  <1>5. CASE Claim(t)
    <2>1. thread'[t].pc = IF flag = 0 THEN "nonce" ELSE "done"
      BY <1>5 DEF Claim, Exchange, MinerInv, Types, VarTypes
    <2>2. UNCHANGED <<foundNonce, foundHash>> /\ ~Writing(t)
      BY <1>5 DEF Claim, Writing
    <2>3. CASE flag = 0
      <3>1. \A u \in Thread : Writing(u)' <=> u = t
        BY <1>1, <2>1, <2>3, ThreadFrame DEF MinerInv, Claims, Writing
      <3>2. Claims'
        BY <1>3, <3>1 DEF Claims
      <3>3. Positions'
        BY <1>1, <1>2, <1>4, <2>1, <2>2, <2>3, ThreadFrame
           DEF MinerInv, Positions, Hit, Sought, SearchesAll, InRange, Writing
      <3> QED
        BY <1>1, <1>3, <3>2, <3>3, ThreadFrame DEF MinerInv, Covered
    <2>4. CASE flag = 1
      <3>1. \A u \in Thread : Writing(u)' <=> Writing(u)
        <4>1. thread'[t].pc = "done" /\ thread[t].pc = "hash"
          BY <1>5, <2>1, <2>4 DEF Claim
        <4>2. \A u \in Thread : u # t => thread'[u].pc = thread[u].pc
          BY <1>1, ThreadFrame
        <4> QED
          BY <4>1, <4>2 DEF Writing
      <3>2. Claims'
        BY <1>2, <1>3, <2>2, <2>4, <3>1 DEF MinerInv, Claims, Written, Hit, Sought, SearchesAll, InRange
      <3>3. Positions'
        BY <1>1, <1>2, <1>4, <2>1, <2>2, <2>4, ThreadFrame
           DEF MinerInv, Positions, Hit, Sought, SearchesAll, InRange, Writing
      <3> QED
        BY <1>1, <1>3, <3>2, <3>3, ThreadFrame DEF MinerInv, Covered
    <2> QED
      BY <1>2, <2>3, <2>4
  <1>6. CASE WriteNonce(t)
    <2>1. /\ thread'[t].pc = "digest" /\ foundNonce' = thread[t].nonce
          /\ Writing(t)
      BY <1>6 DEF WriteNonce, MinerInv, Types, VarTypes, Writing
    <2>2. \A u \in Thread : Writing(u)' <=> u = t
      BY <1>1, <2>1, ThreadFrame DEF MinerInv, Claims, Writing
    <2>3. Claims'
      BY <1>3, <2>2 DEF Claims
    <2>4. Positions'
      BY <1>1, <1>2, <1>4, <2>1, <2>2, ThreadFrame
         DEF MinerInv, Positions, Hit, Sought, SearchesAll, InRange, Writing
    <2> QED
      BY <1>1, <1>3, <2>3, <2>4, ThreadFrame DEF MinerInv, Covered
  <1>7. CASE WriteHash(t)
    <2>1. /\ thread'[t].pc = "done" /\ foundNonce' = thread[t].nonce
          /\ foundHash' = thread[t].nonce /\ foundNonce' = foundNonce
          /\ Writing(t)
      BY <1>7 DEF WriteHash, MinerInv, Types, VarTypes, Writing, Positions
    <2>2. \A u \in Thread : ~Writing(u)'
      BY <1>1, <2>1, ThreadFrame DEF MinerInv, Claims, Writing
    <2>3. Written'
      BY <1>2, <1>4, <2>1 DEF Written, Hit, Sought, SearchesAll, InRange
    <2>4. Claims'
      BY <1>3, <2>2, <2>3 DEF Claims
    <2>5. Positions'
      BY <1>1, <1>2, <1>4, <2>1, <2>2, ThreadFrame
         DEF MinerInv, Positions, Hit, Sought, SearchesAll, InRange, Writing
    <2> QED
      BY <1>1, <1>3, <2>4, <2>5, ThreadFrame DEF MinerInv, Covered
  <1> QED
    BY <1>5, <1>6, <1>7

\* The CPU miner, which passes over no solution.
LEMMA CpuInv ==
    ASSUME MinerInv, CpuStep \/ CpuTimeLimit
    PROVE  MinerInv'
  <1> USE DEF search, device, CpuAt
  <1>1. /\ UNCHANGED <<engine, range, solutions, flag, foundNonce, foundHash,
                       abort, answer>>
        /\ engine = "cpu" /\ answer = "waiting" /\ flag = 0
    BY DEF CpuStep, CpuStart, CpuMiss, CpuFound, CpuExhausted, CpuTimeLimit, Exit,
        Running, MinerInv, Cpu
  <1>2. Types'
    BY OtherTypes DEF MinerInv
  <1>3. /\ 0 \in Thread /\ range.min \in Nat /\ range.max \in Int
        /\ thread[0].nonce \in Nat /\ solutions \subseteq Nat
        /\ thread \in [Thread -> [pc : {"off", "loop", "hash", "nonce", "digest",
                                      "done", "expired"},
                                 nonce : Nat]]
    <2>1. range \in Ranges /\ 0 \in Thread
      BY MinerAssumption DEF Thread, MinerInv, Types, VarTypes
    <2>2. Nonces \subseteq Nat
      BY MinerAssumption DEF Nonces
    <2>3. range.min \in Nat /\ range.max \in Int
      BY <2>1, <2>2, Bounds
    <2> QED
      BY <2>1, <2>2, <2>3 DEF MinerInv, Types, VarTypes
  <1>4. /\ \A t \in Thread : thread'[t].pc \in {"off", "expired"}
        /\ thread[0].pc = "expired" => thread'[0].pc = "expired"
    BY <1>1, <1>3 DEF CpuStep, CpuStart, CpuMiss, CpuFound, CpuExhausted, CpuTimeLimit,
        Exit, MinerInv, Cpu
  <1>5. Claims' /\ Positions'
    BY <1>1, <1>4 DEF Claims, Positions, Writing
  <1>6. host' # "synchronize" /\ host' # "arguments"
    BY DEF CpuStep, CpuStart, CpuMiss, CpuFound, CpuExhausted, CpuTimeLimit, Exit
  <1>7. host' = "for" => /\ range.min <= thread'[0].nonce
                         /\ \A n \in solutions : InRange(n) => thread'[0].nonce <= n
    <2>1. CASE CpuStart
      <3>1. thread'[0].nonce = range.min
        BY <1>3, <2>1 DEF CpuStart
      <3> QED
        BY <1>3, <3>1 DEF InRange
    <2>2. CASE CpuMiss
      <3>1. thread'[0].nonce = thread[0].nonce + 1
        BY <1>3, <2>2 DEF CpuMiss
      <3>2. /\ range.min <= thread[0].nonce
            /\ \A n \in solutions : InRange(n) => thread[0].nonce <= n /\ n # thread[0].nonce
        BY <2>2 DEF CpuMiss, CpuNonce, MinerInv, Cpu
      <3> QED
        BY <1>3, <3>1, <3>2
    <2> QED
      BY <2>1, <2>2 DEF CpuStep, CpuFound, CpuExhausted, CpuTimeLimit, Exit
  <1>8. Cpu' /\ Covered'
    BY <1>1, <1>4, <1>6, <1>7 DEF Cpu, Covered, CpuNonce, InRange
  <1>9. Reported'
    <2>1. CASE CpuStart \/ CpuMiss
      BY <1>1, <1>4, <2>1
         DEF CpuStart, CpuMiss, MinerInv, Reported, Running, Hit, Sought, SearchesAll, InRange, NoHit
    <2>2. CASE CpuFound
      <3>1. Hit(CpuNonce)
        BY <2>2 DEF CpuFound, Hit, Sought, SearchesAll, InRange, MinerInv, Cpu
      <3>2. /\ printed' = [kind |-> "found", nonce |-> CpuNonce, hash |-> CpuNonce]
            /\ host' = "exited"
        BY <2>2 DEF CpuFound, Exit
      <3> QED
        BY <1>1, <3>1, <3>2 DEF Reported, Hit, Sought, SearchesAll, InRange
    <2>3. CASE CpuExhausted
      <3>1. NoHit
        BY <1>1, <1>3, <2>3 DEF CpuExhausted, CpuNonce, NoHit, MinerInv, Cpu, Sought,
            SearchesAll, InRange
      <3>2. /\ printed' = [kind |-> "none", nonce |-> Garbage, hash |-> Garbage]
            /\ host' = "exited"
        BY <2>3 DEF CpuExhausted, Exit, Nothing
      <3> QED
        BY <1>1, <3>1, <3>2 DEF Reported, NoHit, Sought, SearchesAll, InRange
    <2>4. CASE CpuTimeLimit
      <3>1. /\ printed' = [kind |-> "none", nonce |-> Garbage, hash |-> Garbage]
            /\ host' = "exited" /\ thread'[0].pc = "expired"
        BY <1>3, <2>4 DEF CpuTimeLimit, Nothing
      <3> QED
        BY <1>1, <3>1 DEF Reported
    <2> QED
      BY <2>1, <2>2, <2>3, <2>4 DEF CpuStep
  <1> QED
    BY <1>2, <1>5, <1>8, <1>9 DEF MinerInv

\* The service that waits for the process.
LEMMA ServiceInv ==
    ASSUME MinerInv, Collect \/ Kill \/ MinerTimeout \/ Abort \/ UNCHANGED vars
    PROVE  MinerInv'
  <1> USE DEF search, device, vars
  <1>1. /\ UNCHANGED <<engine, range, solutions, host, thread, flag, foundNonce,
                       foundHash, printed>>
        /\ abort => abort'
    BY DEF Collect, Kill, MinerTimeout, Abort, Answer
  <1>2. Types'
    BY OtherTypes DEF MinerInv
  <1>3. Claims' /\ Positions' /\ Covered' /\ Cpu'
    BY <1>1 DEF MinerInv, Claims, Positions, Covered, Cpu, Writing, Written, Hit, Sought,
        SearchesAll, InRange, Searched, CpuNonce
  <1>4. Reported'
    <2>1. /\ answer' = "result" => printed.kind = "found" /\ host = "exited"
          /\ answer' = "none" => abort \/ (printed.kind = "none" /\ host = "exited")
      <3>1. CASE Collect
        <4>1. host = "exited" /\ answer' = Parse(printed)
          BY <3>1 DEF Collect, Answer
        <4>2. CASE printed.kind = "none"
          BY <4>1, <4>2 DEF Parse
        <4>3. CASE printed.kind = "found"
          BY <4>1, <4>3 DEF Parse
        <4>4. CASE printed.kind \notin {"none", "found"}
          BY <4>1, <4>4 DEF Parse
        <4> QED
          BY <4>2, <4>3, <4>4
      <3>2. CASE Kill \/ MinerTimeout
        BY <3>2 DEF Kill, MinerTimeout, Answer
      <3>3. CASE Abort \/ UNCHANGED vars
        BY <3>3 DEF Abort, MinerInv, Reported
      <3> QED
        BY <3>1, <3>2, <3>3
    <2>2. UNCHANGED <<thread, printed, solutions, range, host>>
      BY <1>1
    <2> QED
      BY <1>1, <2>1, <2>2 DEF MinerInv, Reported, Hit, Sought, SearchesAll, InRange, NoHit
  <1> QED
    BY <1>2, <1>3, <1>4 DEF MinerInv

\* Every step keeps the claims, the positions and the cover.
LEMMA NextInv == MinerInv /\ [Next]_vars => MinerInv'
  BY LaunchInv, HostInv, LoopInv, ClaimInv, CpuInv, ServiceInv
     DEF Next, HostStep, ThreadStep, Finished

\* At every moment the flag has one owner who holds a solution, and until it is up
\* every solution of the range lies ahead of a thread.
THEOREM MinerInductive == Spec => []MinerInv
  BY InitInv, NextInv, PTL DEF Spec

\* Every variable keeps its type: every nonce stays a value of a uint64_t, though
\* a search of [0, -1] wraps round without end, and the flag has one owner.
THEOREM MinerTypeCorrect == Spec => []TypeOK
  <1>1. MinerInv => TypeOK
    BY DEF MinerInv, Types, VarTypes, Claims, TypeOK
  <1> QED
    BY <1>1, MinerInductive, PTL

\* However many threads search, in whatever order they claim and write, the
\* result is a solution with its own digest, and lies in the range unless that was
\* the share [0, -1] of a GPU.
THEOREM MinerResultSolves == Spec => []ResultSolves
  <1>1. MinerInv => ResultSolves
    BY DEF MinerInv, Reported, ResultSolves, Hit
  <1> QED
    BY <1>1, MinerInductive, PTL

\* "No solution" is true of all that was searched, unless the CPU miner ran out of
\* time or the search was aborted.
THEOREM MinerNoneMeansNone == Spec => []NoneMeansNone
  <1>1. MinerInv => NoneMeansNone
    BY DEF MinerInv, Reported, NoneMeansNone, NoHit
  <1> QED
    BY <1>1, MinerInductive, PTL
=============================================================================
