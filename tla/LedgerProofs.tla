----------------------------- MODULE LedgerProofs -----------------------------
(***************************************************************************)
(* What the pure operators of Ledger return, for every value of the        *)
(* constants and every argument.                                           *)
(***************************************************************************)
EXTENDS Ledger, TLAPS, WellFoundedInduction, FiniteSetTheorems

(***************************************************************************)
(* Induction over positions, in the form used here: a set of naturals with *)
(* an element has a least one, a set of positions a greatest one.          *)
(***************************************************************************)

\* A non-empty set of naturals below a bound has a least element.
LEMMA LeastBelow ==
    ASSUME NEW n \in Nat, NEW T, T \subseteq 0..n, T # {}
    PROVE  \E m \in T : \A k \in T : m <= k
<1>. DEFINE upto(i) == {j \in 0..n : j < i}
            F == {upto(i) : i \in T}
<1>1. SUBSET (0..n) = FiniteSubsetsOf(0..n)
  <2>1. IsFiniteSet(0..n)
    BY FS_Interval
  <2>. QED  BY <2>1, FS_FiniteSubsetsOfFinite
<1>2. F \subseteq FiniteSubsetsOf(0..n) /\ F # {}
  BY <1>1
<1>3. PICK x \in F : \A y \in F : <<y, x>> \notin StrictSubsetOrdering(0..n)
  BY <1>2, FS_StrictSubsetOrderingWellFounded, WFMin
<1>4. PICK m \in T : x = upto(m)
  OBVIOUS
<1>5. ASSUME NEW k \in T, k < m PROVE FALSE
  <2>1. upto(k) \subseteq upto(m) /\ k \in upto(m) /\ k \notin upto(k)
    BY <1>5
  <2>2. <<upto(k), upto(m)>> \in StrictSubsetOrdering(0..n)
    BY <2>1 DEF StrictSubsetOrdering
  <2>. QED  BY <2>2, <1>3, <1>4
<1>. QED  BY <1>5

\* A non-empty set of naturals has a least element.
LEMMA LeastNatural ==
    ASSUME NEW T, T \subseteq Nat, T # {}
    PROVE  \E m \in T : \A k \in T : m <= k
<1>1. PICK n \in T : TRUE
  OBVIOUS
<1>2. PICK m \in T \cap (0..n) : \A k \in T \cap (0..n) : m <= k
  <2>1. T \cap (0..n) \subseteq 0..n /\ T \cap (0..n) # {} /\ n \in Nat
    BY <1>1
  <2>. QED  BY <2>1, LeastBelow
<1>. QED  BY <1>1, <1>2

\* A set of positions that holds the first, and with each the next, holds all.
LEMMA PositionsInduction ==
    ASSUME NEW n \in Nat, NEW P, 0 \in P,
           \A i \in 1..n : i - 1 \in P => i \in P
    PROVE  0..n \subseteq P
<1>. DEFINE Bad == {i \in 0..n : i \notin P}
<1>1. SUFFICES ASSUME Bad # {} PROVE FALSE
  OBVIOUS
<1>2. PICK m \in Bad : \A k \in Bad : m <= k
  <2>1. Bad \subseteq 0..n
    OBVIOUS
  <2>. HIDE DEF Bad
  <2>. QED  BY <1>1, <2>1, LeastBelow
<1>3. m \in 1..n /\ m - 1 \in 0..n
  BY <1>2
<1>4. m - 1 \notin Bad
  <2>. HIDE DEF Bad
  <2>. QED  BY <1>2, <1>3
<1>. QED  BY <1>2, <1>3, <1>4

\* A non-empty set of positions has a greatest element, and Max returns it.
LEMMA MaxOfPositions ==
    ASSUME NEW n \in Nat, NEW T, T \subseteq 1..n, T # {}
    PROVE  Max(T) \in T /\ \A i \in T : i <= Max(T)
<1>. DEFINE U == {n - i : i \in T}
<1>1. U \subseteq Nat /\ U # {}
  <2>1. \A i \in T : n - i \in Nat
    OBVIOUS
  <2>2. \E i \in T : n - i \in U
    OBVIOUS
  <2>. QED  BY <2>1, <2>2
<1>2. PICK m \in U : \A k \in U : m <= k
  BY <1>1, LeastNatural
<1>3. PICK t \in T : m = n - t
  OBVIOUS
<1>4. ASSUME NEW i \in T PROVE t >= i
  <2>1. n - i \in U
    OBVIOUS
  <2>. QED  BY <1>2, <1>3, <2>1
<1>5. \E x \in T : \A y \in T : x >= y
  BY <1>4
<1>6. Max(T) \in T /\ \A y \in T : Max(T) >= y
  BY <1>5, Zenon DEF Max
<1>7. ASSUME NEW i \in T PROVE i <= Max(T)
  BY <1>6
<1>. QED  BY <1>6, <1>7

(***************************************************************************)
(* A recursion over positions: step[i] tells what the i-th step makes of a *)
(* value, and a step leads from values to values.                          *)
(***************************************************************************)

Steps(n, V) == [1..n -> [V -> V]]

Solvable(n, V, start, step) ==
    \E f \in [0..n -> V] :
        f[0] = start /\ \A i \in 1..n : f[i] = step[i][f[i - 1]]

\* The recursion has a solution, whose values are values.
LEMMA RecursionExists ==
    ASSUME NEW n \in Nat, NEW V, NEW start \in V, NEW step \in Steps(n, V)
    PROVE  Solvable(n, V, start, step)
<1>. DEFINE Solves(f, k) == f[0] = start /\ \A i \in 1..k : f[i] = step[i][f[i - 1]]
            Bad == {k \in 0..n : ~ \E f \in [0..k -> V] : Solves(f, k)}
<1>1. SUFFICES ASSUME n \in Bad PROVE FALSE
  BY DEF Solvable
<1>2. PICK m \in Bad : \A k \in Bad : m <= k
  <2>1. Bad \subseteq 0..n
    OBVIOUS
  <2>. HIDE DEF Bad
  <2>. QED  BY <1>1, <2>1, LeastBelow
<1>3. CASE m = 0
  <2>. DEFINE g == [i \in 0..0 |-> start]
  <2>1. g \in [0..0 -> V] /\ Solves(g, 0)
    OBVIOUS
  <2>. QED  BY <1>3, <2>1, <1>2
<1>4. CASE m # 0
  <2>1. m - 1 \in 0..n /\ m \in 1..n
    BY <1>2, <1>4
  <2>2. m - 1 \notin Bad
    <3>. HIDE DEF Bad
    <3>. QED  BY <1>2, <2>1
  <2>3. PICK f \in [0..(m - 1) -> V] : Solves(f, m - 1)
    BY <2>1, <2>2
  <2>. DEFINE g == [i \in 0..m |-> IF i = m THEN step[m][f[m - 1]] ELSE f[i]]
  <2>4. g \in [0..m -> V]
    BY <2>1 DEF Steps
  <2>5. g[0] = start
    BY <2>1, <2>3
  <2>6. ASSUME NEW i \in 1..m PROVE g[i] = step[i][g[i - 1]]
    <3>1. CASE i = m
      BY <3>1, <2>1
    <3>2. CASE i # m
      <4>1. i \in 1..(m - 1) /\ i - 1 \in 0..(m - 1)
        BY <3>2, <2>1
      <4>2. g[i] = f[i] /\ g[i - 1] = f[i - 1]
        BY <4>1, <2>1, <3>2
      <4>. QED  BY <4>1, <4>2, <2>3
    <3>. QED  BY <3>1, <3>2
  <2>. QED  BY <2>1, <2>4, <2>5, <2>6, <1>2
<1>. QED  BY <1>3, <1>4

(***************************************************************************)
(* The indexes.                                                            *)
(***************************************************************************)

\* The fields of the transactions that get past the handlers.
LEMMA GoodTxsType ==
    ASSUME NEW tx \in GoodTxs
    PROVE  /\ tx \in TxRecord /\ tx.amount \in Int /\ tx.nonce \in Nat
           /\ WellFormed(tx)
<1>1. tx \in TxRecord /\ WellFormed(tx)
  BY LedgerAssumption DEF GoodTxs
<1>2. tx.amount \in Int /\ tx.nonce \in Int
  BY <1>1 DEF TxRecord
<1>. QED  BY <1>1, <1>2 DEF WellFormed

\* The blocks of a chain hold such transactions.
LEMMA BlockTxsType ==
    ASSUME NEW chain \in Seq(BlockRecord)
    PROVE  /\ Len(chain) \in Nat
           /\ \A i \in 1..Len(chain) : chain[i].txs \in Seq(GoodTxs)
<1>1. ASSUME NEW i \in 1..Len(chain) PROVE chain[i].txs \in Seq(GoodTxs)
  <2>1. chain[i] \in BlockRecord
    OBVIOUS
  <2>. QED  BY <2>1 DEF BlockRecord
<1>. QED  BY <1>1

\* What a transaction does to a balance is a whole number.
LEMMA DeltaType ==
    ASSUME NEW tx \in GoodTxs, NEW a
    PROVE  Delta(tx, a) \in Int
BY GoodTxsType DEF Delta

\* RunningBalance starts from the balance given, adds what each transaction
\* does, in order, and is a whole number throughout.
LEMMA RunningBalanceSteps ==
    ASSUME NEW start \in Int, NEW txs \in Seq(GoodTxs), NEW a
    PROVE  LET run == RunningBalance(start, txs, a)
           IN  /\ run \in [0..Len(txs) -> Int]
               /\ run[0] = start
               /\ \A i \in 1..Len(txs) : run[i] = run[i - 1] + Delta(txs[i], a)
<1>. DEFINE n == Len(txs)
            d == [i \in 1..n |-> Delta(txs[i], a)]
            step == [i \in 1..n |-> [x \in Int |-> x + d[i]]]
            Body(f) == [i \in 0..n |-> IF i = 0 THEN start
                                      ELSE f[i - 1] + Delta(txs[i], a)]
            run == RunningBalance(start, txs, a)
<1>1. n \in Nat /\ d \in [1..n -> Int]
  BY DeltaType
<1>2. step \in [1..n -> [Int -> Int]]
  BY <1>1
<1>3. PICK f \in [0..n -> Int] :
         f[0] = start /\ \A i \in 1..n : f[i] = step[i][f[i - 1]]
  <2>1. step \in Steps(n, Int)
    BY <1>2 DEF Steps
  <2>. HIDE DEF step, n
  <2>2. Solvable(n, Int, start, step)
    BY <2>1, <1>1, RecursionExists
  <2>. QED  BY <2>2 DEF Solvable
<1>4. \A i \in 0..n : f[i] = Body(f)[i]
  <2>1. ASSUME NEW i \in 1..n PROVE f[i] = f[i - 1] + Delta(txs[i], a)
    <3>1. f[i] = step[i][f[i - 1]]
      BY <1>3
    <3>3. i - 1 \in 0..n
      BY <1>1
    <3>4. f[i - 1] \in Int
      BY <3>3
    <3>2. step[i][f[i - 1]] = f[i - 1] + d[i]
      BY <3>4
    <3>. QED  BY <3>1, <3>2
  <2>. QED  BY <1>1, <1>3, <2>1
<1>5. f = Body(f)
  BY <1>4, <1>3
<1>6. run = CHOOSE g : g = Body(g)
  BY Zenon DEF RunningBalance
<1>7. run = Body(run)
  <2>. HIDE DEF Body, run
  <2>. QED  BY <1>5, <1>6, Zenon
<1>8. run[0] = start /\ \A i \in 1..n : run[i] = run[i - 1] + Delta(txs[i], a)
  <2>. HIDE DEF run
  <2>. QED  BY <1>7, <1>1
<1>9. \A i \in 0..n : run[i] \in Int
  <2>. HIDE DEF run
  <2>. DEFINE P == {i \in 0..n : run[i] \in Int}
  <2>1. 0 \in P
    BY <1>8, <1>1
  <2>2. ASSUME NEW i \in 1..n, i - 1 \in P PROVE i \in P
    <3>1. Delta(txs[i], a) \in Int
      BY DeltaType
    <3>. QED  BY <2>2, <3>1, <1>8, <1>1
  <2>3. 0..n \subseteq P
    <3>. HIDE DEF P, n
    <3>. QED  BY <2>1, <2>2, <1>1, PositionsInduction
  <2>. QED  BY <2>3
<1>10. run \in [0..n -> Int]
  <2>. HIDE DEF run
  <2>. QED  BY <1>7, <1>9
<1>. QED  BY <1>8, <1>10

\* A balance index stays one when transactions are applied to it.
LEMMA BalancesAfterType ==
    ASSUME NEW bal \in [Accounts -> Int], NEW txs \in Seq(GoodTxs)
    PROVE  BalancesAfter(bal, txs) \in [Accounts -> Int]
<1>1. ASSUME NEW a \in Accounts
      PROVE  RunningBalance(bal[a], txs, a)[Len(txs)] \in Int
  <2>1. RunningBalance(bal[a], txs, a) \in [0..Len(txs) -> Int]
    BY RunningBalanceSteps
  <2>. QED  BY <2>1
<1>. QED  BY <1>1 DEF BalancesAfter

\* A nonce index stays one when transactions are applied to it.
LEMMA NoncesAfterType ==
    ASSUME NEW nonces \in [Accounts -> Nat], NEW txs \in Seq(GoodTxs)
    PROVE  NoncesAfter(nonces, txs) \in [Accounts -> Nat]
<1>1. ASSUME NEW a \in Accounts, SentBy(a, txs) # {}
      PROVE  txs[Max(SentBy(a, txs))].nonce + 1 \in Nat
  <2>1. SentBy(a, txs) \subseteq 1..Len(txs) /\ Len(txs) \in Nat
    BY DEF SentBy
  <2>2. Max(SentBy(a, txs)) \in 1..Len(txs)
    BY <2>1, <1>1, MaxOfPositions
  <2>3. txs[Max(SentBy(a, txs))] \in GoodTxs
    BY <2>2
  <2>4. txs[Max(SentBy(a, txs))].nonce \in Nat
    BY <2>3, GoodTxsType
  <2>. QED  BY <2>4
<1>. QED  BY <1>1 DEF NoncesAfter
(***************************************************************************)
(* The pending nonce of GET /account.                                      *)
(***************************************************************************)

\* No transaction of a in the pool has the nonce n, and from `from' on every
\* smaller nonce is one of theirs.
FirstFree(pool, from, a, n) ==
    /\ n \in Nat /\ from <= n
    /\ \A e \in pool : e.tx.sender = a => e.tx.nonce # n
    /\ \A m \in from..(n - 1) : \E e \in pool : e.tx.sender = a /\ e.tx.nonce = m

\* A pool of finitely many transactions leaves a nonce free, and the pending nonce
\* is the first such from the confirmed one on.
THEOREM PendingNonceIsFirstFree ==
    ASSUME NEW pool \in SUBSET PoolEntry, IsFiniteSet(pool),
           NEW nonces \in [Accounts -> Nat], NEW a \in Accounts
    PROVE  FirstFree(pool, nonces[a], a, PendingNonce(pool, nonces, a))
<1>. DEFINE have == {e.tx.nonce : e \in {f \in pool : f.tx.sender = a}}
            from == nonces[a]
            size == Cardinality(pool)
            window == from..(from + size)
            First(n) == n \notin have /\ from..(n - 1) \subseteq have
<1>1. from \in Nat /\ size \in Nat
  BY FS_CardinalityType
<1>2. \A e \in pool : e.tx.nonce \in Nat
  <2>1. \A e \in pool : e.tx \in GoodTxs
    BY DEF PoolEntry
  <2>. QED  BY <2>1, GoodTxsType
<1>. HIDE DEF size
<1>3. \E n \in window : n \notin have
  <2>1. SUFFICES ASSUME window \subseteq have PROVE FALSE
    OBVIOUS
  <2>. DEFINE holder == [n \in window |-> CHOOSE e \in pool : e.tx.nonce = n]
  <2>2. \A n \in window : holder[n] \in pool /\ holder[n].tx.nonce = n
    <3>1. ASSUME NEW n \in window PROVE \E e \in pool : e.tx.nonce = n
      BY <2>1
    <3>. QED  BY <3>1
  <2>3. holder \in [window -> pool]
    <3>. HIDE DEF window
    <3>. QED  BY <2>2
  <2>. HIDE DEF holder
  <2>4. IsFiniteSet(window) /\ size < Cardinality(window)
    <3>1. from \in Int /\ from + size \in Int /\ from <= from + size
      BY <1>1
    <3>2. IsFiniteSet(window) /\ Cardinality(window) = (from + size) - from + 1
      BY <3>1, FS_Interval
    <3>. QED  BY <1>1, <3>2
  <2>5. PICK x \in window, y \in window : x # y /\ holder[x] = holder[y]
    <3>. HIDE DEF window
    <3>. QED  BY <2>3, <2>4, FS_PigeonHole DEF size
  <2>. QED  BY <2>2, <2>5
<1>4. \E n \in window : First(n)
  <2>. DEFINE free == {n \in window : n \notin have}
  <2>1. free \subseteq Nat /\ free # {}
    BY <1>1, <1>3
  <2>. HIDE DEF free
  <2>2. PICK n \in free : \A m \in free : n <= m
    BY <2>1, LeastNatural
  <2>3. \A m \in from..(n - 1) : m \in have
    <3>1. n \in window /\ \A m \in window : m \notin have => n <= m
      BY <2>2 DEF free
    <3>2. ASSUME NEW m \in from..(n - 1) PROVE m \in window /\ ~(n <= m)
      BY <1>1, <3>1
    <3>. QED  BY <3>1, <3>2
  <2>. QED  BY <2>2, <2>3 DEF free
<1>5. PendingNonce(pool, nonces, a) = CHOOSE n \in window : First(n)
  BY DEF PendingNonce, size
<1>. HIDE DEF First
<1>6. PendingNonce(pool, nonces, a) \in window /\ First(PendingNonce(pool, nonces, a))
  BY <1>4, <1>5
<1>. QED  BY <1>1, <1>2, <1>6 DEF First, FirstFree
(***************************************************************************)
(* The order in which the drain takes the pool's entries.                  *)
(***************************************************************************)

\* The entries of a pool are the positions of a list.
Places(entries) == \A e, f \in entries : e.at = f.at => e = f

\* The place of a sender's first entry.
LEMMA FirstSeenType ==
    ASSUME NEW S \in SUBSET PoolEntry, NEW e \in S
    PROVE  FirstSeen(S, e.tx.sender) \in Nat
<1>. DEFINE T == {x.at : x \in {f \in S : f.tx.sender = e.tx.sender}}
<1>1. T \subseteq Nat /\ T # {}
  <2>1. \A x \in S : x.at \in Nat
    BY DEF PoolEntry
  <2>2. e.at \in T
    OBVIOUS
  <2>. QED  BY <2>1, <2>2
<1>. HIDE DEF T
<1>2. \E m \in T : \A k \in T : m <= k
  BY <1>1, LeastNatural
<1>3. Min(T) \in T
  BY <1>2, Zenon DEF Min
<1>. QED  BY <1>1, <1>3 DEF FirstSeen, T

\* The order of the turns is one, and a sender's turns go by nonce.
LEMMA TurnOrder ==
    ASSUME NEW S \in SUBSET PoolEntry, NEW e \in S, NEW f \in S, Before(S, e, f)
    PROVE  /\ ~Before(S, f, e)
           /\ e.tx.sender = f.tx.sender => e.tx.nonce <= f.tx.nonce
<1>1. FirstSeen(S, e.tx.sender) \in Nat /\ FirstSeen(S, f.tx.sender) \in Nat
  BY FirstSeenType
<1>2. e.at \in Nat /\ f.at \in Nat /\ e.tx \in GoodTxs /\ f.tx \in GoodTxs
  BY DEF PoolEntry
<1>3. e.tx.nonce \in Nat /\ f.tx.nonce \in Nat
  BY <1>2, GoodTxsType
<1>. QED  BY <1>1, <1>2, <1>3 DEF Before

\* Of entries that have places some one comes first.
LEMMA SomeTurn ==
    ASSUME NEW S \in SUBSET PoolEntry, Places(S), NEW T \in SUBSET S, T # {}
    PROVE  \E e \in T : \A f \in T \ {e} : Before(S, e, f)
<1>. DEFINE first(x) == FirstSeen(S, x.tx.sender)
            firsts == {first(e) : e \in T}
<1>1. \A e \in S : first(e) \in Nat /\ e.tx.nonce \in Nat /\ e.at \in Nat
  <2>1. \A e \in S : e.tx \in GoodTxs /\ e.at \in Nat
    BY DEF PoolEntry
  <2>. QED  BY <2>1, FirstSeenType, GoodTxsType
<1>. HIDE DEF first
<1>2. PICK i \in T : \A f \in T : first(i) <= first(f)
  <2>1. firsts \subseteq Nat /\ firsts # {}
    BY <1>1
  <2>. HIDE DEF firsts
  <2>2. PICK m \in firsts : \A k \in firsts : m <= k
    BY <2>1, LeastNatural
  <2>. QED  BY <2>2 DEF firsts
<1>. DEFINE group == {e \in T : first(e) = first(i)}
            nonces == {e.tx.nonce : e \in group}
<1>3. PICK j \in group : \A f \in group : j.tx.nonce <= f.tx.nonce
  <2>1. nonces \subseteq Nat /\ nonces # {}
    BY <1>1, <1>2
  <2>. HIDE DEF nonces
  <2>2. PICK m \in nonces : \A k \in nonces : m <= k
    BY <2>1, LeastNatural
  <2>. QED  BY <2>2 DEF nonces
<1>. DEFINE copies == {e \in group : e.tx.nonce = j.tx.nonce}
            places == {e.at : e \in copies}
<1>4. PICK e \in copies : \A f \in copies : e.at <= f.at
  <2>1. places \subseteq Nat /\ places # {}
    BY <1>1, <1>3
  <2>. HIDE DEF places
  <2>2. PICK m \in places : \A k \in places : m <= k
    BY <2>1, LeastNatural
  <2>. QED  BY <2>2 DEF places
<1>5. ASSUME NEW f \in T \ {e} PROVE Before(S, e, f)
  <2>1. /\ first(e) = first(i) /\ e.tx.nonce = j.tx.nonce /\ e \in T /\ e \in S /\ f \in S
        /\ first(e) \in Nat /\ first(f) \in Nat /\ e.tx.nonce \in Nat /\ f.tx.nonce \in Nat
        /\ e.at \in Nat /\ f.at \in Nat /\ e.at # f.at
    BY <1>1, <1>4 DEF Places
  <2>2. first(e) < first(f) \/ first(e) = first(f)
    BY <1>2, <2>1
  <2>3. first(e) = first(f)
        => e.tx.nonce < f.tx.nonce \/ (e.tx.nonce = f.tx.nonce /\ e.at < f.at)
    BY <1>3, <1>4, <2>1
  <2>. QED  BY <2>2, <2>3 DEF Before, first
<1>. QED  BY <1>4, <1>5
=============================================================================
