----------------------------- MODULE MCKernelNat -----------------------------
(* A small proxy: two users, two calls between them, one of which is set   *)
(* up a second time with another source port.                              *)
EXTENDS KernelOverlap, TLC

At(ip, port) == [ip |-> ip, port |-> port]

Proxy == 0
Alice == 2
Bob == 4

MCIp == {Proxy, Alice, Bob}
MCPort == {1, 2, 3, 5, 6, 7, 8}

Call(src, snat, dst, dnat) ==
  [src |-> src, snat |-> snat, dst |-> dst, dnat |-> dnat]

First  == Call(At(Alice, 1), At(Proxy, 5), At(Proxy, 6), At(Bob, 2))
Again  == Call(At(Alice, 3), At(Proxy, 5), At(Proxy, 6), At(Bob, 2))
Second == Call(At(Bob, 1), At(Proxy, 7), At(Proxy, 8), At(Alice, 3))

MCSession == {First, Again, Second}

(* A bucket for each key.                                                  *)
OwnBuckets == MCIp \X MCPort
Scattered == [k \in OwnBuckets |-> k]

(* A few buckets: the two calls share one.                                 *)
FewBuckets == 0 .. 3
Folded == [k \in OwnBuckets |-> (k[1] + k[2]) % 4]

Interchangeable == Permutations(Handler)
=============================================================================
