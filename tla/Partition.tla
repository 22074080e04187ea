------------------------------ MODULE Partition ------------------------------
(***************************************************************************)
(* How publish_tasks of broker/broker.py cuts the nonces 0 .. size-1 into  *)
(* one sub-range per worker.                                               *)
(***************************************************************************)
EXTENDS Integers

Chunk(size, n) == size \div n

FirstNonce(size, n, i) == i * Chunk(size, n)

\* Variants that lose the remainder, or take the range for inclusive.
LastWithoutRest(size, n, i) == (i + 1) * Chunk(size, n) - 1
LastInclusive(size, n, i) ==
    IF i = n - 1 THEN size ELSE (i + 1) * Chunk(size, n) - 1

\* The last worker takes the remainder of the division.
LastNonce(size, n, i) ==
    IF i = n - 1 THEN size - 1 ELSE (i + 1) * Chunk(size, n) - 1

SubRange(size, n, i) == FirstNonce(size, n, i) .. LastNonce(size, n, i)
=============================================================================
