---------------------------- MODULE MCRequestFormat ---------------------------
(* Requests of eight to thirteen tokens, and of fifteen and sixteen, with  *)
(* up to four blanks in each of two places.                                *)
EXTENDS RequestFormat

Blanks(n) == [i \in 1 .. n |-> Blank]
Upto(k, n) == [i \in 1 .. n - k |-> k + i]

(* a blanks after token i, and b blanks after token j, of n tokens.        *)
Spaced(n, i, a, j, b) ==
  Upto(0, i) \o Blanks(a) \o Upto(i, j) \o Blanks(b) \o Upto(j, n)

MCText ==
  UNION {{Spaced(n, i, a, j, b) : i \in 0 .. j, a \in 0 .. 4, b \in 0 .. 4} :
           <<n, j>> \in {<<m, k>> \in ((8 .. 13) \union {15, 16}) \X (0 .. 16) :
                           k <= m}}

MCLearned == [k \in {7, 10} |-> k + 100]
=============================================================================
