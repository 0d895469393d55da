------------------------------ MODULE ByteWords ------------------------------
(***************************************************************************)
(* Arithmetic of words of any size, on real values: a word is the sequence *)
(* of its bytes, the lowest first, and what leaves it is lost.             *)
(***************************************************************************)
EXTENDS Integers, Sequences

\* Carries go up, the last one is lost; a sum may be negative.
Carried(sums) ==
  LET carry[i \in 0 .. Len(sums)] ==
        IF i = 0 THEN 0 ELSE (sums[i] + carry[i - 1]) \div 256
  IN  [i \in 1 .. Len(sums) |-> (sums[i] + carry[i - 1]) % 256]

\* The sums that are the bytes of a product, before they are carried.
Products(x, y, length) ==
  LET sum[k \in 1 .. length, i \in 0 .. Len(x)] ==
        IF i = 0 THEN 0
        ELSE sum[k, i - 1] + (IF k + 1 - i \in 1 .. Len(y) THEN x[i] * y[k + 1 - i] ELSE 0)
  IN  [k \in 1 .. length |-> sum[k, Len(x)]]

\* Of words of one size.
Plus(x, y) == Carried([i \in DOMAIN x |-> x[i] + y[i]])
Times(x, y) == Carried(Products(x, y, Len(x)))

\* The first bytes of a sequence, or all of them and zeros.
Widened(x, width) == [i \in 1 .. width |-> IF i <= Len(x) THEN x[i] ELSE 0]
=============================================================================
