--------------------------- MODULE KernelNatProofs ---------------------------
(***************************************************************************)
(* What is proved of the kernel module, for every set of sessions, every   *)
(* number of callbacks and every hash function.                            *)
(***************************************************************************)
EXTENDS KernelNat, TLAPS, FiniteSetTheorems

(* A session's keys are keys, its entries are entries.                     *)
LEMMA SessionTypes ==
  ASSUME NEW s \in Session
  PROVE  /\ key_s1(s) \in Key /\ key_s2(s) \in Key
         /\ BucketOf[key_s1(s)] \in Bucket
         /\ BucketOf[key_s2(s)] \in Bucket
         /\ netlink_message_s1(s) \in Entry
         /\ netlink_message_s2(s) \in Entry
         /\ s # NoSession
  <1>1. s \in Entry
    BY KernelAssumption
  <1>2. key_s1(s) \in Key /\ key_s2(s) \in Key
    BY <1>1 DEF Entry, Endpoint, Key, key_s1, key_s2
  <1>3. BucketOf[key_s1(s)] \in Bucket /\ BucketOf[key_s2(s)] \in Bucket
    BY <1>2, KernelAssumption
  <1>4. netlink_message_s1(s) \in Entry /\ netlink_message_s2(s) \in Entry
    BY <1>1 DEF Entry, netlink_message_s1, netlink_message_s2
  <1> QED
    BY <1>1, <1>2, <1>3, <1>4, KernelAssumption

(* Both kinds of entry sit under the key they are inserted with: the key   *)
(* of the receiver's side, taken from tokens 2 and 8, is the first key of  *)
(* the swapped entry.                                                      *)
LEMMA OwnKeys ==
  ASSUME NEW s \in Session
  PROVE  /\ key_s1(netlink_message_s1(s)) = key_s1(s)
         /\ key_s1(netlink_message_s2(s)) = key_s2(s)
  BY DEF key_s1, key_s2, netlink_message_s1, netlink_message_s2

(* Putting an entry at the head of a chain moves the others back by one.   *)
LEMMA Prepended ==
  ASSUME NEW S, NEW c \in Seq(S), NEW e \in S
  PROVE  /\ <<e>> \o c \in Seq(S)
         /\ Len(<<e>> \o c) = Len(c) + 1
         /\ (<<e>> \o c)[1] = e
         /\ \A i \in 2 .. Len(c) + 1 : (<<e>> \o c)[i] = c[i - 1]
  OBVIOUS

-----------------------------------------------------------------------------
(* The inductive invariant.                                                *)
IInv == TypeOK /\ OwnBucket

LEMMA Initially == Init => IInv
  <1> SUFFICES ASSUME Init PROVE IInv
    OBVIOUS
  <1>1. TypeOK
    BY KernelAssumption DEF Init, TypeOK
  <1>2. OwnBucket
    BY DEF Init, OwnBucket
  <1> QED
    BY <1>1, <1>2 DEF IInv

-----------------------------------------------------------------------------
(* What the two list operations do to the table.                           *)

LEMMA AddEffect ==
  ASSUME TypeOK, OwnBucket, NEW k \in Key, NEW e \in Entry,
         key_s1(e) = k, hash_add_rcu(k, e)
  PROVE  /\ chain' \in [Bucket -> Seq(Entry)]
         /\ OwnBucket'
         /\ chain'[BucketOf[k]] = <<e>> \o chain[BucketOf[k]]
         /\ \A b \in Bucket : b # BucketOf[k] => chain'[b] = chain[b]
  <1> DEFINE c == BucketOf[k]
  <1>1. c \in Bucket /\ chain \in [Bucket -> Seq(Entry)]
    BY KernelAssumption DEF TypeOK
  <1>2. <<e>> \o chain[c] \in Seq(Entry)
    BY <1>1, Prepended
  <1>3. /\ chain' = [chain EXCEPT ![c] = <<e>> \o chain[c]]
        /\ chain' \in [Bucket -> Seq(Entry)]
        /\ chain'[c] = <<e>> \o chain[c]
        /\ \A b \in Bucket : b # c => chain'[b] = chain[b]
    BY <1>1, <1>2 DEF hash_add_rcu
  <1>4. ASSUME NEW b \in Bucket, NEW i \in 1 .. Len(chain'[b])
        PROVE  BucketOf[key_s1(chain'[b][i])] = b
    <2>1. CASE b # c
      BY <2>1, <1>3 DEF OwnBucket
    <2>2. CASE b = c /\ i = 1
      BY <2>2, <1>1, <1>3, Prepended
    <2>3. CASE b = c /\ i # 1
      <3>1. /\ i \in 2 .. Len(chain[c]) + 1
            /\ i - 1 \in 1 .. Len(chain[c])
            /\ chain'[c][i] = chain[c][i - 1]
        BY <2>3, <1>1, <1>3, Prepended
      <3> QED
        BY <3>1, <2>3, <1>1 DEF OwnBucket
    <2> QED
      BY <2>1, <2>2, <2>3
  <1>5. OwnBucket'
    BY <1>4 DEF OwnBucket
  <1> QED
    BY <1>3, <1>5

LEMMA DeleteEffect ==
  ASSUME TypeOK, OwnBucket, NEW k \in Key, DeleteBucket(k)
  PROVE  /\ chain' \in [Bucket -> Seq(Entry)]
         /\ blocks' \in Int
         /\ OwnBucket'
         /\ chain'[BucketOf[k]] = <<>>
         /\ \A b \in Bucket : b # BucketOf[k] => chain'[b] = chain[b]
  <1> DEFINE c == BucketOf[k]
  <1>1. c \in Bucket /\ chain \in [Bucket -> Seq(Entry)] /\ blocks \in Int
    BY KernelAssumption DEF TypeOK
  <1>2. /\ chain' \in [Bucket -> Seq(Entry)]
        /\ chain'[c] = <<>>
        /\ \A b \in Bucket : b # c => chain'[b] = chain[b]
    BY <1>1 DEF DeleteBucket
  <1>3. blocks' \in Int
    <2>1. Len(chain[c]) \in Nat
      BY <1>1
    <2> QED
      BY <1>1, <2>1 DEF DeleteBucket
  <1>4. OwnBucket'
    BY <1>2 DEF OwnBucket
  <1> QED
    BY <1>2, <1>3, <1>4

-----------------------------------------------------------------------------
(* Each step keeps the invariant.                                          *)

LEMMA Arrival ==
  ASSUME IInv, NEW h \in Handler, NEW s \in Session,
         ReceiveSetup(h, s) \/ ReceiveTeardown(h, s)
  PROVE  IInv'
  <1>1. /\ TypeOK /\ OwnBucket
        /\ chain' = chain /\ blocks' = blocks /\ leaked' = leaked
        /\ sess' = [sess EXCEPT ![h] = s]
        /\ adds' \in 0 .. MaxAdds
        /\ \/ pc' = [pc EXCEPT ![h] = "alloc"]
           \/ pc' = [pc EXCEPT ![h] = "del1"]
    BY KernelAssumption DEF IInv, TypeOK, ReceiveSetup, ReceiveTeardown
  <1>2. TypeOK'
    BY <1>1 DEF TypeOK
  <1>3. OwnBucket'
    BY <1>1 DEF OwnBucket
  <1> QED
    BY <1>2, <1>3 DEF IInv

(* A handler that goes on with its session, or returns, leaves the others  *)
(* where they are.                                                         *)
LEMMA GoesOn ==
  ASSUME IInv, NEW h \in Handler, pc[h] # "idle",
         \/ \E q \in {"add1", "add2", "del2"} :
              pc' = [pc EXCEPT ![h] = q] /\ sess' = sess
         \/ Return(h)
  PROVE  /\ pc' \in [Handler -> {"idle", "alloc", "add1", "add2",
                                 "del1", "del2"}]
         /\ sess' \in [Handler -> Session \union {NoSession}]
         /\ \A g \in Handler : pc'[g] # "idle" => sess'[g] \in Session
         /\ \A g \in Handler : g # h => pc'[g] = pc[g] /\ sess'[g] = sess[g]
  <1>1. /\ TypeOK
        /\ pc' \in [Handler -> {"idle", "alloc", "add1", "add2",
                                "del1", "del2"}]
        /\ sess' \in [Handler -> Session \union {NoSession}]
        /\ \A g \in Handler : g # h => pc'[g] = pc[g] /\ sess'[g] = sess[g]
        /\ pc'[h] # "idle" => sess'[h] = sess[h]
    BY DEF IInv, TypeOK, Return
  <1>2. \A g \in Handler : pc'[g] # "idle" =>
          pc[g] # "idle" /\ sess'[g] = sess[g]
    BY <1>1
  <1>3. \A g \in Handler : pc'[g] # "idle" => sess'[g] \in Session
    BY <1>1, <1>2 DEF TypeOK
  <1> QED
    BY <1>1, <1>3

LEMMA Allocation ==
  ASSUME IInv, NEW h \in Handler, Allocate(h) \/ AllocateFails(h)
  PROVE  IInv'
  <1>1. /\ pc[h] = "alloc" /\ chain' = chain /\ adds' = adds
        /\ blocks' \in Int /\ leaked' \in Nat
        /\ \/ pc' = [pc EXCEPT ![h] = "add1"] /\ sess' = sess
           \/ Return(h)
    BY DEF IInv, TypeOK, Allocate, AllocateFails, Return
  <1>2. /\ pc' \in [Handler -> {"idle", "alloc", "add1", "add2",
                                "del1", "del2"}]
        /\ sess' \in [Handler -> Session \union {NoSession}]
        /\ \A g \in Handler : pc'[g] # "idle" => sess'[g] \in Session
    BY <1>1, GoesOn
  <1>3. TypeOK'
    BY <1>1, <1>2 DEF IInv, TypeOK
  <1>4. OwnBucket'
    BY <1>1 DEF IInv, OwnBucket
  <1> QED
    BY <1>3, <1>4 DEF IInv

LEMMA Insertion ==
  ASSUME IInv, NEW h \in Handler, Add1(h) \/ Add2(h)
  PROVE  IInv'
  <1>1. /\ pc[h] \in {"add1", "add2"} /\ sess[h] \in Session
        /\ adds' = adds /\ blocks' = blocks /\ leaked' = leaked
        /\ \/ pc' = [pc EXCEPT ![h] = "add2"] /\ sess' = sess
           \/ Return(h)
    BY DEF IInv, TypeOK, Add1, Add2, Return
  <1>2. PICK k \in {key_s1(sess[h]), key_s2(sess[h])}, e \in Entry :
          key_s1(e) = k /\ hash_add_rcu(k, e)
    BY <1>1, SessionTypes, OwnKeys DEF Add1, Add2
  <1>3. k \in Key
    BY <1>1, SessionTypes
  <1>4. chain' \in [Bucket -> Seq(Entry)] /\ OwnBucket'
    BY <1>2, <1>3, AddEffect DEF IInv
  <1>5. /\ pc' \in [Handler -> {"idle", "alloc", "add1", "add2",
                                "del1", "del2"}]
        /\ sess' \in [Handler -> Session \union {NoSession}]
        /\ \A g \in Handler : pc'[g] # "idle" => sess'[g] \in Session
    BY <1>1, GoesOn
  <1>6. TypeOK'
    BY <1>1, <1>4, <1>5 DEF IInv, TypeOK
  <1> QED
    BY <1>4, <1>6 DEF IInv

LEMMA Deletion ==
  ASSUME IInv, NEW h \in Handler, Delete1(h) \/ Delete2(h)
  PROVE  IInv'
  <1>1. /\ pc[h] \in {"del1", "del2"} /\ sess[h] \in Session
        /\ adds' = adds /\ leaked' = leaked
        /\ \/ pc' = [pc EXCEPT ![h] = "del2"] /\ sess' = sess
           \/ Return(h)
    BY DEF IInv, TypeOK, Delete1, Delete2, Return
  <1>2. PICK k \in {key_s1(sess[h]), key_s2(sess[h])} : DeleteBucket(k)
    BY DEF Delete1, Delete2
  <1>3. k \in Key
    BY <1>1, SessionTypes
  <1>4. /\ chain' \in [Bucket -> Seq(Entry)]
        /\ blocks' \in Int
        /\ OwnBucket'
    BY <1>2, <1>3, DeleteEffect DEF IInv
  <1>5. /\ pc' \in [Handler -> {"idle", "alloc", "add1", "add2",
                                "del1", "del2"}]
        /\ sess' \in [Handler -> Session \union {NoSession}]
        /\ \A g \in Handler : pc'[g] # "idle" => sess'[g] \in Session
    BY <1>1, GoesOn
  <1>6. TypeOK'
    BY <1>1, <1>4, <1>5 DEF IInv, TypeOK
  <1> QED
    BY <1>4, <1>6 DEF IInv

-----------------------------------------------------------------------------
(* Theorems.                                                               *)

LEMMA Step == IInv /\ [Next]_vars => IInv'
  <1> SUFFICES ASSUME IInv, [Next]_vars PROVE IInv'
    OBVIOUS
  <1>1. CASE Next
    BY <1>1, Arrival, Allocation, Insertion, Deletion DEF Next, HandlerStep,
      CallbackStep
  <1>2. CASE UNCHANGED vars
    BY <1>2 DEF vars, IInv, TypeOK, OwnBucket
  <1> QED
    BY <1>1, <1>2

(* Every step of the callbacks keeps the invariant.                        *)
THEOREM Invariant == Spec => []IInv
  BY Initially, Step, PTL DEF Spec

(* Every variable holds a value of its kind, for every set of sessions and *)
(* every interleaving of the callbacks, overlapping or not.                *)
THEOREM TypeCorrect == Spec => []TypeOK
  <1>1. IInv => TypeOK
    BY DEF IInv
  <1> QED
    BY <1>1, Invariant, PTL

(* Whatever the hash function, collisions included, an entry is where the  *)
(* hook looks for the packets of its sender.                               *)
THEOREM InOwnBucket == Spec => []OwnBucket
  <1>1. IInv => OwnBucket
    BY DEF IInv
  <1> QED
    BY <1>1, Invariant, PTL

-----------------------------------------------------------------------------
(* Memory.  The blocks in the table, and those in hand, are finite sets    *)
(* that change by the blocks a step adds, moves or frees.                  *)

Accounted ==
  IsFiniteSet(InTable) /\ IsFiniteSet(InHand) /\ BlocksAccounted

LEMMA PlacesCount ==
  ASSUME NEW x, NEW n \in Nat
  PROVE  IsFiniteSet({x} \X (1 .. n)) /\ Cardinality({x} \X (1 .. n)) = n
  <1> DEFINE S == {x}
             T == 1 .. n
  <1>1. IsFiniteSet(S) /\ Cardinality(S) = 1
    BY FS_Singleton
  <1>2. IsFiniteSet(T) /\ Cardinality(T) = n
    BY FS_Interval
  <1> HIDE DEF S, T
  <1>3. IsFiniteSet(S \X T) /\ Cardinality(S \X T) = 1 * n
    BY <1>1, <1>2, FS_Product
  <1> QED
    BY <1>3 DEF S, T

LEMMA TableGrows ==
  ASSUME NEW b \in Bucket, chain \in [Bucket -> Seq(Entry)],
         chain' \in [Bucket -> Seq(Entry)],
         Len(chain'[b]) = Len(chain[b]) + 1,
         \A c \in Bucket \ {b} : chain'[c] = chain[c],
         IsFiniteSet(InTable)
  PROVE  /\ IsFiniteSet(InTable')
         /\ Cardinality(InTable') = Cardinality(InTable) + 1
  <1> DEFINE p == <<b, Len(chain[b]) + 1>>
  <1>1. Len(chain[b]) \in Nat
    OBVIOUS
  <1>2. p \notin InTable
    BY <1>1 DEF InTable
  <1>3. 1 .. Len(chain'[b]) = (1 .. Len(chain[b])) \union {Len(chain[b]) + 1}
    BY <1>1
  <1>4. {b} \X (1 .. Len(chain'[b])) = ({b} \X (1 .. Len(chain[b]))) \union {p}
    BY <1>3
  <1>5. InTable' = InTable \union {p}
    <2>1. ASSUME NEW q \in InTable' PROVE q \in InTable \union {p}
      <3>1. PICK c \in Bucket : q \in {c} \X (1 .. Len(chain'[c]))
        BY DEF InTable
      <3> QED
        BY <1>4, <3>1 DEF InTable
    <2>2. ASSUME NEW q \in InTable PROVE q \in InTable'
      <3>1. PICK c \in Bucket : q \in {c} \X (1 .. Len(chain[c]))
        BY DEF InTable
      <3>2. q \in {c} \X (1 .. Len(chain'[c]))
        BY <1>4, <3>1
      <3> QED
        BY <3>2 DEF InTable
    <2>3. p \in InTable'
      BY <1>4 DEF InTable
    <2> QED
      BY <2>1, <2>2, <2>3
  <1> QED
    BY <1>2, <1>5, FS_AddElement

LEMMA TableShrinks ==
  ASSUME NEW b \in Bucket, chain \in [Bucket -> Seq(Entry)],
         chain' \in [Bucket -> Seq(Entry)], chain'[b] = <<>>,
         \A c \in Bucket \ {b} : chain'[c] = chain[c],
         IsFiniteSet(InTable)
  PROVE  /\ IsFiniteSet(InTable')
         /\ Cardinality(InTable') = Cardinality(InTable) - Len(chain[b])
  <1> DEFINE R == {b} \X (1 .. Len(chain[b]))
  <1>1. Len(chain[b]) \in Nat /\ Len(chain'[b]) = 0
    OBVIOUS
  <1>4. Cardinality(R) = Len(chain[b])
    BY <1>1, PlacesCount
  <1>5. R \subseteq InTable
    BY DEF InTable
  <1>6. InTable' = InTable \ R
    <2>1. ASSUME NEW q \in InTable' PROVE q \in InTable \ R
      <3>1. PICK c \in Bucket : q \in {c} \X (1 .. Len(chain'[c]))
        BY DEF InTable
      <3>2. c # b
        BY <1>1, <3>1
      <3>3. q \in {c} \X (1 .. Len(chain[c])) /\ q \notin R
        BY <3>1, <3>2
      <3> QED
        BY <3>3 DEF InTable
    <2>2. ASSUME NEW q \in InTable, q \notin R PROVE q \in InTable'
      <3>1. PICK c \in Bucket : q \in {c} \X (1 .. Len(chain[c]))
        BY DEF InTable
      <3>2. c # b
        BY <2>2, <3>1
      <3>3. q \in {c} \X (1 .. Len(chain'[c]))
        BY <3>1, <3>2
      <3> QED
        BY <3>3 DEF InTable
    <2> QED
      BY <2>1, <2>2
  <1>7. InTable \intersect R = R
    BY <1>5
  <1> HIDE DEF R
  <1>8. /\ IsFiniteSet(InTable \ R)
        /\ Cardinality(InTable \ R)
             = Cardinality(InTable) - Cardinality(InTable \intersect R)
    BY FS_Difference
  <1> QED
    BY <1>4, <1>6, <1>7, <1>8

(* The blocks in hand follow the handler that moves.                       *)
LEMMA HandChanges ==
  ASSUME NEW h \in Handler, Held(h) \in 0 .. 2, Held(h)' \in 0 .. 2,
         \A g \in Handler \ {h} : Held(g)' = Held(g),
         IsFiniteSet(InHand)
  PROVE  /\ IsFiniteSet(InHand')
         /\ Cardinality(InHand') = Cardinality(InHand) - Held(h) + Held(h)'
  <1> DEFINE R == {h} \X (1 .. Held(h))
             N == {h} \X (1 .. Held(h)')
             rest == InHand \ R
  <1>2. \A n \in 0 .. 2 : /\ IsFiniteSet({h} \X (1 .. n))
                          /\ Cardinality({h} \X (1 .. n)) = n
    <2> SUFFICES ASSUME NEW n \in 0 .. 2
                 PROVE  /\ IsFiniteSet({h} \X (1 .. n))
                        /\ Cardinality({h} \X (1 .. n)) = n
      OBVIOUS
    <2>1. n \in Nat
      OBVIOUS
    <2> QED
      BY <2>1, PlacesCount
  <1>3. R \subseteq InHand /\ N \intersect rest = {}
    <2>1. R \subseteq InHand
      BY DEF InHand
    <2>2. ASSUME NEW q \in N, q \in rest PROVE FALSE
      <3>1. PICK g \in Handler : q \in {g} \X (1 .. Held(g))
        BY <2>2 DEF InHand
      <3>2. g = h
        BY <2>2, <3>1
      <3> QED
        BY <2>2, <3>1, <3>2
    <2> QED
      BY <2>1, <2>2
  <1>4. InHand' = rest \union N
    <2>1. ASSUME NEW q \in InHand' PROVE q \in rest \union N
      <3>1. PICK g \in Handler : q \in {g} \X (1 .. Held(g)')
        BY DEF InHand
      <3>2. CASE g = h
        BY <3>1, <3>2
      <3>3. CASE g # h
        <4>1. q \in {g} \X (1 .. Held(g)) /\ q \notin R
          BY <3>1, <3>3
        <4> QED
          BY <4>1 DEF InHand
      <3> QED
        BY <3>2, <3>3
    <2>2. ASSUME NEW q \in rest PROVE q \in InHand'
      <3>1. PICK g \in Handler : q \in {g} \X (1 .. Held(g))
        BY DEF InHand
      <3>2. g # h
        BY <3>1
      <3>3. q \in {g} \X (1 .. Held(g)')
        BY <3>1, <3>2
      <3> QED
        BY <3>3 DEF InHand
    <2>3. N \subseteq InHand'
      BY DEF InHand
    <2> QED
      BY <2>1, <2>2, <2>3
  <1>5. InHand \intersect R = R /\ rest \intersect N = {}
    BY <1>3
  <1>6. IsFiniteSet(R) /\ Cardinality(R) = Held(h)
    BY <1>2
  <1>7. IsFiniteSet(N) /\ Cardinality(N) = Held(h)'
    BY <1>2
  <1>8. /\ IsFiniteSet(rest)
        /\ Cardinality(rest) = Cardinality(InHand) - Cardinality(R)
    <2> HIDE DEF R
    <2> QED
      BY <1>5, FS_Difference
  <1>9. /\ IsFiniteSet(rest \union N)
        /\ Cardinality(rest \union N)
             = Cardinality(rest) + Cardinality(N) - Cardinality({})
    <2> HIDE DEF rest, N
    <2> QED
      BY <1>5, <1>7, <1>8, FS_Union
  <1>10. /\ Cardinality(InHand) \in Nat /\ Cardinality({}) = 0
    BY FS_CardinalityType, FS_EmptySet
  <1> HIDE DEF R, N, rest
  <1> QED
    BY <1>4, <1>6, <1>7, <1>8, <1>9, <1>10

LEMMA AccountedStep ==
  ASSUME IInv, Accounted, NEW h \in Handler, HandlerStep(h)
  PROVE  Accounted'
  <1>0. /\ chain \in [Bucket -> Seq(Entry)] /\ chain' \in [Bucket -> Seq(Entry)]
        /\ pc \in [Handler -> {"idle", "alloc", "add1", "add2", "del1", "del2"}]
        /\ blocks \in Int /\ leaked \in Nat
        /\ pc[h] # "idle" => sess[h] \in Session
    <2>1. IInv'
      BY Step DEF Next
    <2> QED
      BY <2>1 DEF IInv, TypeOK
  <1>1. /\ IsFiniteSet(InTable) /\ IsFiniteSet(InHand)
        /\ blocks = Cardinality(InTable) + Cardinality(InHand) + leaked
        /\ Cardinality(InTable) \in Nat /\ Cardinality(InHand) \in Nat
    BY FS_CardinalityType DEF Accounted, BlocksAccounted
  <1>2. \A g \in Handler \ {h} : pc'[g] = pc[g]
    BY <1>0 DEF HandlerStep, CallbackStep, ReceiveSetup, ReceiveTeardown,
      Allocate, AllocateFails, Add1, Add2, Delete1, Delete2, Return
  <1>3. /\ \A g \in Handler \ {h} : Held(g)' = Held(g)
        /\ Held(h) \in 0 .. 2 /\ Held(h)' \in 0 .. 2
    BY <1>2 DEF Held
  <1>4. /\ IsFiniteSet(InHand')
        /\ Cardinality(InHand') = Cardinality(InHand) - Held(h) + Held(h)'
    BY <1>1, <1>3, HandChanges
  <1>5. CASE Add1(h) \/ Add2(h)
    <2>1. sess[h] \in Session
      BY <1>0, <1>5 DEF Add1, Add2
    <2>2. PICK k \in {key_s1(sess[h]), key_s2(sess[h])}, e \in Entry :
            hash_add_rcu(k, e)
      BY <1>5, <2>1, SessionTypes DEF Add1, Add2
    <2>3. BucketOf[k] \in Bucket
      BY <2>1, SessionTypes
    <2>4. chain'[BucketOf[k]] = <<e>> \o chain[BucketOf[k]]
      BY <1>0, <2>2, <2>3 DEF hash_add_rcu
    <2>5. Len(chain'[BucketOf[k]]) = Len(chain[BucketOf[k]]) + 1
      BY <1>0, <2>3, <2>4, Prepended
    <2>6. \A c \in Bucket \ {BucketOf[k]} : chain'[c] = chain[c]
      BY <1>0, <2>2 DEF hash_add_rcu
    <2>7. /\ IsFiniteSet(InTable')
          /\ Cardinality(InTable') = Cardinality(InTable) + 1
      BY <1>0, <1>1, <2>3, <2>5, <2>6, TableGrows
    <2>8. Held(h)' = Held(h) - 1 /\ blocks' = blocks /\ leaked' = leaked
      BY <1>0, <1>5 DEF Add1, Add2, Return, Held
    <2> QED
      BY <1>0, <1>1, <1>3, <1>4, <2>7, <2>8 DEF Accounted, BlocksAccounted
  <1>6. CASE Delete1(h) \/ Delete2(h)
    <2>1. sess[h] \in Session
      BY <1>0, <1>6 DEF Delete1, Delete2
    <2>2. PICK k \in {key_s1(sess[h]), key_s2(sess[h])} : DeleteBucket(k)
      BY <1>6 DEF Delete1, Delete2
    <2>3. BucketOf[k] \in Bucket
      BY <2>1, <2>2, SessionTypes
    <2>4. /\ chain'[BucketOf[k]] = <<>>
          /\ \A c \in Bucket \ {BucketOf[k]} : chain'[c] = chain[c]
          /\ blocks' = blocks - Len(chain[BucketOf[k]])
      BY <1>0, <2>2, <2>3 DEF DeleteBucket
    <2>5. /\ IsFiniteSet(InTable')
          /\ Cardinality(InTable')
               = Cardinality(InTable) - Len(chain[BucketOf[k]])
      BY <1>0, <1>1, <2>3, <2>4, TableShrinks
    <2>6. Held(h) = 0 /\ Held(h)' = 0 /\ leaked' = leaked
      BY <1>0, <1>6 DEF Delete1, Delete2, Return, Held
    <2>7. Len(chain[BucketOf[k]]) \in Nat
      BY <1>0, <2>3
    <2> QED
      BY <1>0, <1>1, <1>4, <2>4, <2>5, <2>6, <2>7 DEF Accounted, BlocksAccounted
  <1>7. CASE \/ Allocate(h) \/ AllocateFails(h)
             \/ \E s \in Session : ReceiveSetup(h, s) \/ ReceiveTeardown(h, s)
    <2>1. chain' = chain
      BY <1>7 DEF Allocate, AllocateFails, ReceiveSetup, ReceiveTeardown
    <2>2. InTable' = InTable
      BY <2>1 DEF InTable
    <2>3. /\ blocks' - leaked' = blocks - leaked + Held(h)' - Held(h)
          /\ blocks' \in Int /\ leaked' \in Nat
      <3>1. CASE Allocate(h)
        BY <1>0, <3>1 DEF Allocate, Held
      <3>2. CASE AllocateFails(h)
        BY <1>0, <3>2 DEF AllocateFails, Return, Held
      <3>3. CASE \E s \in Session : ReceiveSetup(h, s) \/ ReceiveTeardown(h, s)
        BY <1>0, <3>3 DEF ReceiveSetup, ReceiveTeardown, Held
      <3> QED
        BY <1>7, <3>1, <3>2, <3>3
    <2>4. /\ IsFiniteSet(InTable') /\ IsFiniteSet(InHand')
          /\ Cardinality(InTable') = Cardinality(InTable)
      BY <1>1, <1>4, <2>2
    <2>5. blocks' = Cardinality(InTable') + Cardinality(InHand') + leaked'
      <3>1. /\ blocks \in Int /\ blocks' \in Int
            /\ leaked \in Int /\ leaked' \in Int
            /\ Held(h) \in Int /\ Held(h)' \in Int
            /\ Cardinality(InTable) \in Int /\ Cardinality(InHand) \in Int
        <4>1. blocks \in Int /\ leaked \in Int
          BY <1>0
        <4>2. blocks' \in Int /\ leaked' \in Int
          BY <2>3
        <4>3. Held(h) \in Int /\ Held(h)' \in Int
          BY <1>3
        <4>4. Cardinality(InTable) \in Int /\ Cardinality(InHand) \in Int
          BY <1>1
        <4> QED
          BY <4>1, <4>2, <4>3, <4>4
      <3>2. /\ blocks = Cardinality(InTable) + Cardinality(InHand) + leaked
            /\ Cardinality(InHand') = Cardinality(InHand) - Held(h) + Held(h)'
        BY <1>1, <1>4
      <3> QED
        BY <2>3, <2>4, <3>1, <3>2
    <2> QED
      BY <2>4, <2>5 DEF Accounted, BlocksAccounted
  <1> QED
    BY <1>5, <1>6, <1>7 DEF HandlerStep, CallbackStep

(* Every block of memory is accounted for, however many callbacks run at   *)
(* once, whether or not they overlap in a bucket, and wherever kmalloc     *)
(* fails: the deletion loops free what they unlink, and only a second      *)
(* kmalloc that fails loses a block.                                       *)
THEOREM MemoryIsAccounted == Spec => []BlocksAccounted
  <1>1. Init => Accounted
    <2> SUFFICES ASSUME Init PROVE Accounted
      OBVIOUS
    <2>1. InTable = {}
      BY DEF Init, InTable
    <2>2. InHand = {}
      BY DEF Init, InHand, Held
    <2> QED
      BY <2>1, <2>2, FS_EmptySet DEF Init, Accounted, BlocksAccounted
  <1>2. IInv /\ Accounted /\ [Next]_vars => Accounted'
    <2> SUFFICES ASSUME IInv, Accounted, [Next]_vars PROVE Accounted'
      OBVIOUS
    <2>1. CASE Next
      BY <2>1, AccountedStep DEF Next
    <2>2. CASE UNCHANGED vars
      BY <2>2 DEF vars, Accounted, BlocksAccounted, InTable, InHand, Held
    <2> QED
      BY <2>1, <2>2
  <1>3. Accounted => BlocksAccounted
    BY DEF Accounted
  <1> QED
    BY <1>1, <1>2, <1>3, Invariant, PTL DEF Spec

-----------------------------------------------------------------------------
(* The table implements NatRules.                                          *)

Injective == \A k, l \in Key : BucketOf[k] = BucketOf[l] => k = l

(* What a step does to the rule in force for one key, when no other key    *)
(* shares its bucket.                                                      *)
LEMMA AddMaps ==
  ASSUME Injective, TypeOK, OwnBucket, NEW e \in SessionEntries, e \in Entry,
         NEW k \in Key, key_s1(e) = k, hash_add_rcu(k, e)
  PROVE  Rules!Next \/ InForce' = InForce
  <1> DEFINE c == chain[BucketOf[k]]
  <1>1. /\ c \in Seq(Entry)
        /\ chain'[BucketOf[k]] = <<e>> \o c
        /\ \A l \in Key : l # k => chain'[BucketOf[l]] = chain[BucketOf[l]]
    <2>1. \A l \in Key : BucketOf[l] \in Bucket
      BY KernelAssumption
    <2> QED
      BY <2>1, AddEffect DEF Injective, TypeOK
  <1>2. \A l \in Key : l # k => InForce'[l] = InForce[l]
    BY <1>1 DEF InForce, Oldest
  <1>3. CASE c = <<>>
    <2>1. InForce[k] = NoSession /\ InForce'[k] = e
      <3>1. /\ <<e>> \o c # <<>>
            /\ (<<e>> \o c)[Len(<<e>> \o c)] = e
        BY <1>1, <1>3, Prepended
      <3> QED
        BY <1>1, <1>3, <3>1 DEF InForce, Oldest
    <2>2. InForce' = [InForce EXCEPT ![k] = e]
      BY <1>2, <2>1 DEF InForce
    <2>3. EntryKey[e] = k
      BY DEF EntryKey
    <2> QED
      BY <2>1, <2>2, <2>3 DEF Rules!Next, Rules!Install
  <1>4. CASE c # <<>>
    <2>1. /\ <<e>> \o c # <<>>
          /\ (<<e>> \o c)[Len(<<e>> \o c)] = c[Len(c)]
      BY <1>1, <1>4, Prepended
    <2>2. InForce'[k] = InForce[k]
      BY <1>1, <1>4, <2>1 DEF InForce, Oldest
    <2> QED
      BY <1>2, <2>2 DEF InForce
  <1> QED
    BY <1>3, <1>4

LEMMA DeleteMaps ==
  ASSUME Injective, TypeOK, OwnBucket, NEW k \in Key, DeleteBucket(k)
  PROVE  Rules!Next \/ InForce' = InForce
  <1>1. /\ chain'[BucketOf[k]] = <<>>
        /\ \A l \in Key : l # k => chain'[BucketOf[l]] = chain[BucketOf[l]]
    <2>1. \A l \in Key : BucketOf[l] \in Bucket
      BY KernelAssumption
    <2> QED
      BY <2>1, DeleteEffect DEF Injective, TypeOK
  <1>2. InForce' = [InForce EXCEPT ![k] = NoSession]
    BY <1>1 DEF InForce, Oldest
  <1>3. CASE InForce[k] = NoSession
    BY <1>2, <1>3 DEF InForce
  <1>4. CASE InForce[k] # NoSession
    BY <1>2, <1>4 DEF Rules!Next, Rules!Remove
  <1> QED
    BY <1>3, <1>4

(* When no two keys share a bucket, the table behaves as NatRules: at most *)
(* one rule per key is in force, and it changes only by being installed    *)
(* where there is none or by being removed.                                *)
THEOREM Implementation ==
  ASSUME Injective
  PROVE  Spec => ImplementsRules
  <1>1. Init => Rules!Init
    <2> SUFFICES ASSUME Init PROVE InForce = [k \in Key |-> NoSession]
      BY DEF Rules!Init
    <2> QED
      BY KernelAssumption DEF Init, InForce
  <1>2. ASSUME IInv, Next PROVE Rules!Next \/ InForce' = InForce
    <2>1. TypeOK /\ OwnBucket
      BY <1>2 DEF IInv
    <2>2. PICK h \in Handler : HandlerStep(h)
      BY <1>2 DEF Next
    <2>3. CASE chain' = chain
      BY <2>3 DEF InForce
    <2>4. CASE Add1(h) \/ Add2(h)
      <3>1. PICK s \in Session : s = sess[h]
        BY <2>1, <2>4 DEF TypeOK, Add1, Add2
      <3>2. /\ netlink_message_s1(s) \in SessionEntries
            /\ netlink_message_s2(s) \in SessionEntries
        BY DEF SessionEntries
      <3>3. \/ hash_add_rcu(key_s1(s), netlink_message_s1(s))
            \/ hash_add_rcu(key_s2(s), netlink_message_s2(s))
        BY <2>4, <3>1 DEF Add1, Add2
      <3> QED
        BY <2>1, <3>2, <3>3, SessionTypes, OwnKeys, AddMaps
    <2>5. CASE Delete1(h) \/ Delete2(h)
      <3>1. sess[h] \in Session
        BY <2>1, <2>5 DEF TypeOK, Delete1, Delete2
      <3>2. DeleteBucket(key_s1(sess[h])) \/ DeleteBucket(key_s2(sess[h]))
        BY <2>5 DEF Delete1, Delete2
      <3> QED
        BY <2>1, <3>1, <3>2, SessionTypes, DeleteMaps
    <2> QED
      BY <2>2, <2>3, <2>4, <2>5 DEF HandlerStep, CallbackStep, ReceiveSetup,
        ReceiveTeardown, Allocate, AllocateFails
  <1>3. IInv /\ [Next]_vars => [Rules!Next]_InForce
    <2>1. UNCHANGED vars => InForce' = InForce
      BY DEF vars, InForce
    <2> QED
      BY <1>2, <2>1
  <1> QED
    BY <1>1, <1>3, Invariant, PTL DEF Spec, ImplementsRules, Rules!Spec

-----------------------------------------------------------------------------
(* What the hooks do to the packets of an entry.                           *)

(* The two buckets of a session.                                           *)
B1(s) == BucketOf[key_s1(s)]
B2(s) == BucketOf[key_s2(s)]

LEMMA FlipTwice ==
  ASSUME NEW ip \in Nat
  PROVE  Flip(ip) \in Nat /\ Flip(Flip(ip)) = ip
  BY DEF Flip

(* A packet whose bucket has e for its oldest entry leaves with the        *)
(* addresses of e.                                                         *)
LEMMA Translated ==
  ASSUME NEW p \in Packet, NEW e \in Entry,
         Found(p) # <<>>, Oldest(Found(p)) = e
  PROVE  Path(p) = [src |-> e.snat, dst |-> e.src]
  <1> DEFINE q == [src |-> [ip |-> Flip(e.snat.ip), port |-> e.snat.port],
                   dst |-> e.src]
  <1>1. e.snat \in Endpoint /\ e.src \in Endpoint /\ e.snat.ip \in Nat
    BY KernelAssumption DEF Entry, Endpoint
  <1>2. main_hook_pre(p) = q
    BY DEF main_hook_pre
  <1>3. WithFlippedSource(q)
          = [src |-> [ip |-> Flip(Flip(e.snat.ip)), port |-> e.snat.port],
             dst |-> e.src]
    BY DEF WithFlippedSource
  <1>4. Flip(Flip(e.snat.ip)) = e.snat.ip
    BY <1>1, FlipTwice
  <1>5. [ip |-> e.snat.ip, port |-> e.snat.port] = e.snat
    BY <1>1 DEF Endpoint
  <1> QED
    BY <1>2, <1>3, <1>4, <1>5 DEF Path, main_hook_post

(* When both buckets of a session have its entries for their oldest, the   *)
(* answer to a packet comes back, in both directions.                      *)
LEMMA BothWays ==
  ASSUME NEW s \in Session,
         chain[B1(s)] # <<>>, Oldest(chain[B1(s)]) = s,
         chain[B2(s)] # <<>>, Oldest(chain[B2(s)]) = netlink_message_s2(s)
  PROVE  LET p == [src |-> s.dnat, dst |-> s.dst]
             q == [src |-> s.src, dst |-> s.snat]
         IN  /\ Path(Reply(Path(p))) = Reply(p)
             /\ Path(Reply(Path(q))) = Reply(q)
  <1> DEFINE p == [src |-> s.dnat, dst |-> s.dst]
             q == [src |-> s.src, dst |-> s.snat]
             r == netlink_message_s2(s)
  <1>1. s \in Entry /\ r \in Entry
    BY SessionTypes, KernelAssumption
  <1>2. p \in Packet /\ q \in Packet
    BY <1>1 DEF Entry, Packet
  <1>3. Found(p) = chain[B1(s)] /\ Found(q) = chain[B2(s)]
    BY DEF Found, B1, B2, key_s1, key_s2
  <1>4. Path(p) = [src |-> s.snat, dst |-> s.src]
    BY <1>1, <1>2, <1>3, Translated
  <1>5. Path(q) = [src |-> s.dst, dst |-> s.dnat]
    <2>1. Path(q) = [src |-> r.snat, dst |-> r.src]
      BY <1>1, <1>2, <1>3, Translated
    <2> QED
      BY <2>1 DEF netlink_message_s2
  <1>6. Reply(Path(p)) = q /\ Reply(Path(q)) = p
    BY <1>4, <1>5 DEF Reply
  <1> QED
    BY <1>4, <1>5, <1>6 DEF Reply
=============================================================================
