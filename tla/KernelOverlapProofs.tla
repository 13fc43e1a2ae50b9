-------------------------- MODULE KernelOverlapProofs --------------------------
(***************************************************************************)
(* What is proved of calls whose callbacks may overlap at any step: for    *)
(* every set of sessions, every number of callbacks, repeated setups with  *)
(* other ports, and refused memory.                                        *)
(***************************************************************************)
EXTENDS KernelOverlap, KernelNatProofs

(* The history variables add nothing to the behaviour.                     *)
LEMMA OverlapIsNext == [OverlapNext]_ovars => [Next]_vars
  BY DEF OverlapNext, Next, ovars, vars

-----------------------------------------------------------------------------
(* A teardown that has passed its first bucket finds there, until it       *)
(* returns, at most what was inserted since its message arrived.           *)

OlderGone ==
  /\ newer \in [Handler -> Nat]
  /\ \A h \in Handler : pc[h] = "del2" => Len(chain[FirstBucket(h)]) <= newer[h]

(* What a step does to the length of a bucket, and which handler it moves. *)
LEMMA OneMoves ==
  ASSUME IInv, NEW h \in Handler, HandlerStep(h)
  PROVE  /\ \A g \in Handler : g # h => pc'[g] = pc[g] /\ sess'[g] = sess[g]
         /\ pc[h] # "idle" /\ pc'[h] # "idle" => sess'[h] = sess[h]
         /\ pc'[h] = "del2" => Delete1(h)
         /\ pc[h] = "del2" => Delete2(h)
  BY DEF IInv, TypeOK, HandlerStep, CallbackStep, ReceiveSetup, ReceiveTeardown,
    Allocate, AllocateFails, Add1, Add2, Delete1, Delete2, Return

LEMMA Lengths ==
  ASSUME IInv, NEW h \in Handler, HandlerStep(h), NEW b \in Bucket
  PROVE  /\ Len(chain[b]) \in Nat /\ Len(chain'[b]) \in Nat
         /\ Len(chain'[b]) <= Len(chain[b]) + 1
  <1>1. TypeOK /\ OwnBucket /\ chain \in [Bucket -> Seq(Entry)]
    BY DEF IInv, TypeOK
  <1>2. Len(chain[b]) \in Nat
    BY <1>1
  <1>3. CASE Add1(h) \/ Add2(h)
    <2>1. sess[h] \in Session
      BY <1>1, <1>3 DEF TypeOK, Add1, Add2
    <2>2. PICK k \in {key_s1(sess[h]), key_s2(sess[h])}, e \in Entry :
            key_s1(e) = k /\ hash_add_rcu(k, e)
      BY <1>3, <2>1, SessionTypes, OwnKeys DEF Add1, Add2
    <2>3. k \in Key /\ BucketOf[k] \in Bucket
      BY <2>1, SessionTypes
    <2>4. /\ chain'[BucketOf[k]] = <<e>> \o chain[BucketOf[k]]
          /\ b # BucketOf[k] => chain'[b] = chain[b]
      BY <1>1, <2>2, <2>3, AddEffect
    <2>5. Len(<<e>> \o chain[BucketOf[k]]) = Len(chain[BucketOf[k]]) + 1
      BY <1>1, <2>3, Prepended
    <2> QED
      BY <1>2, <2>4, <2>5
  <1>4. CASE Delete1(h) \/ Delete2(h)
    <2>1. sess[h] \in Session
      BY <1>1, <1>4 DEF TypeOK, Delete1, Delete2
    <2>2. PICK k \in {key_s1(sess[h]), key_s2(sess[h])} : DeleteBucket(k)
      BY <1>4 DEF Delete1, Delete2
    <2>3. /\ chain'[BucketOf[k]] = <<>>
          /\ b # BucketOf[k] => chain'[b] = chain[b]
      BY <1>1, <2>1, <2>2, SessionTypes, DeleteEffect
    <2> QED
      BY <1>2, <2>3
  <1>5. CASE \/ Allocate(h) \/ AllocateFails(h)
             \/ \E s \in Session : ReceiveSetup(h, s) \/ ReceiveTeardown(h, s)
    <2>1. chain' = chain
      BY <1>5 DEF Allocate, AllocateFails, ReceiveSetup, ReceiveTeardown
    <2> QED
      BY <1>2, <2>1
  <1> QED
    BY <1>3, <1>4, <1>5 DEF HandlerStep, CallbackStep

LEMMA OlderStaysGone ==
  ASSUME IInv, OlderGone, NEW h \in Handler, HandlerStep(h), CountNewer
  PROVE  OlderGone'
  <1>1. newer' \in [Handler -> Nat]
    BY DEF OlderGone, CountNewer
  <1>2. ASSUME NEW g \in Handler, pc'[g] = "del2"
        PROVE  Len(chain'[BucketOf[key_s1(sess'[g])]]) <= newer'[g]
    <2>1. CASE pc[g] = "del2"
      <3>1. g # h /\ sess'[g] = sess[g]
        BY <1>2, <2>1, OneMoves DEF Delete1, Delete2
      <3>2. FirstBucket(g) \in Bucket
        BY <2>1, SessionTypes DEF IInv, TypeOK, FirstBucket
      <3>3. newer'[g] = IF Grows(g) THEN newer[g] + 1 ELSE newer[g]
        BY <1>2, <2>1 DEF CountNewer, TearingDown
      <3>4. /\ Len(chain[FirstBucket(g)]) \in Nat
            /\ Len(chain'[FirstBucket(g)]) \in Nat
            /\ Len(chain'[FirstBucket(g)]) <= Len(chain[FirstBucket(g)]) + 1
        BY <3>2, Lengths
      <3>5. newer[g] \in Nat /\ Len(chain[FirstBucket(g)]) <= newer[g]
        BY <2>1 DEF OlderGone
      <3>6. Len(chain'[FirstBucket(g)]) <= newer'[g]
        BY <3>3, <3>4, <3>5 DEF Grows
      <3> QED
        BY <3>1, <3>6 DEF FirstBucket
    <2>2. CASE pc[g] # "del2"
      <3>1. g = h /\ Delete1(h)
        BY <1>2, <2>2, OneMoves
      <3>2. sess[h] \in Session /\ sess' = sess
        BY <3>1 DEF IInv, TypeOK, Delete1
      <3>3. chain'[BucketOf[key_s1(sess[h])]] = <<>>
        BY <3>1, <3>2, SessionTypes, DeleteEffect DEF IInv, Delete1
      <3>4. newer'[g] \in Nat
        BY <1>1
      <3> QED
        BY <3>1, <3>2, <3>3, <3>4
    <2> QED
      BY <2>1, <2>2
  <1> QED
    BY <1>1, <1>2 DEF OlderGone, FirstBucket, key_s1

(* Whatever callbacks run at once, whatever the hash function and however  *)
(* often the call was set up, a teardown leaves nothing of what was in its *)
(* buckets when its message arrived.                                       *)
THEOREM TeardownIsComplete == OverlapSpec => TeardownRemovesOlder
  <1> DEFINE Complete ==
        \A h \in Handler : pc[h] = "del2" /\ pc'[h] = "idle" =>
          /\ chain'[BucketOf[key_s2(sess[h])]] = <<>>
          /\ Len(chain'[FirstBucket(h)]) <= newer[h]
  <1>1. OverlapInit => IInv /\ OlderGone
    <2> SUFFICES ASSUME OverlapInit PROVE IInv /\ OlderGone
      OBVIOUS
    <2> QED
      BY Initially DEF OverlapInit, Init, OlderGone
  <1>2. IInv /\ OlderGone /\ [OverlapNext]_ovars => (IInv /\ OlderGone)'
    <2> SUFFICES ASSUME IInv, OlderGone, [OverlapNext]_ovars
                 PROVE  IInv' /\ OlderGone'
      OBVIOUS
    <2>1. IInv'
      BY OverlapIsNext, Step
    <2>2. CASE OverlapNext
      BY <2>1, <2>2, OlderStaysGone DEF OverlapNext
    <2>3. CASE UNCHANGED ovars
      BY <2>1, <2>3 DEF ovars, vars, OlderGone, FirstBucket
    <2> QED
      BY <2>1, <2>2, <2>3
  <1>3. IInv /\ OlderGone /\ [OverlapNext]_ovars => [Complete]_ovars
    <2> SUFFICES ASSUME IInv, OlderGone, OverlapNext, NEW h \in Handler,
                        pc[h] = "del2", pc'[h] = "idle"
                 PROVE  /\ chain'[BucketOf[key_s2(sess[h])]] = <<>>
                        /\ Len(chain'[FirstBucket(h)]) <= newer[h]
      OBVIOUS
    <2>1. PICK g \in Handler : HandlerStep(g)
      BY DEF OverlapNext
    <2>2. g = h /\ Delete2(h)
      BY <2>1, OneMoves
    <2>3. sess[h] \in Session
      BY DEF IInv, TypeOK
    <2>4. /\ key_s2(sess[h]) \in Key
          /\ FirstBucket(h) \in Bucket
      BY <2>3, SessionTypes DEF FirstBucket
    <2>5. /\ chain'[BucketOf[key_s2(sess[h])]] = <<>>
          /\ \A b \in Bucket : b # BucketOf[key_s2(sess[h])] =>
               chain'[b] = chain[b]
      BY <2>2, <2>4, DeleteEffect DEF IInv, Delete2
    <2>6. newer[h] \in Nat /\ Len(chain[FirstBucket(h)]) <= newer[h]
      BY DEF OlderGone
    <2>7. CASE FirstBucket(h) = BucketOf[key_s2(sess[h])]
      BY <2>5, <2>6, <2>7
    <2>8. CASE FirstBucket(h) # BucketOf[key_s2(sess[h])]
      BY <2>4, <2>5, <2>6, <2>8
    <2> QED
      BY <2>7, <2>8
  <1> QED
    BY <1>1, <1>2, <1>3, PTL DEF OverlapSpec, TeardownRemovesOlder

-----------------------------------------------------------------------------
(* Round trips.                                                            *)

(* Sessions of one call have both buckets in common, sessions of different *)
(* calls none, and the two directions of a call are in different buckets.  *)
CallsKeepApart ==
  /\ \A s \in Session : B1(s) # B2(s)
  /\ \A s, t \in Session : BucketsOf(s) \intersect BucketsOf(t) # {} =>
       B1(s) = B1(t) /\ B2(s) = B2(t)

-----------------------------------------------------------------------------
(* The inductive invariant: besides that of KernelNatProofs, the oldest    *)
(* entries of a call's two buckets belong together, except while a         *)
(* callback is between them, and unless callbacks of the call have met.    *)

FromSessions ==
  \A b \in Bucket : chain[b] # <<>> => Oldest(chain[b]) \in SessionEntries

Paired(c1, c2) ==
  /\ c1 = <<>> <=> c2 = <<>>
  /\ c1 # <<>> => /\ Oldest(c1) \in Session
                  /\ Oldest(c2) = netlink_message_s2(Oldest(c1))

HalfAdded(c1, c2, s) ==
  /\ c1 # <<>>
  /\ c2 = <<>> => Oldest(c1) = s
  /\ c2 # <<>> => /\ Oldest(c1) \in Session
                  /\ Oldest(c2) = netlink_message_s2(Oldest(c1))

(* No callback is between the two buckets of s.                            *)
Settled(s) ==
  \A h \in Handler : pc[h] \in {"add2", "del2"} => B1(sess[h]) # B1(s)

(* The calls outside C are as they should be.                              *)
Pairs(C) ==
  /\ \A s \in Session : B1(s) \notin C /\ Settled(s) =>
       Paired(chain[B1(s)], chain[B2(s)])
  /\ \A h \in Handler : pc[h] = "add2" /\ B1(sess[h]) \notin C =>
       HalfAdded(chain[B1(sess[h])], chain[B2(sess[h])], sess[h])
  /\ \A h \in Handler : pc[h] = "del2" /\ B1(sess[h]) \notin C =>
       chain[B1(sess[h])] = <<>>

(* Callbacks that are at work on one call are known to have overlapped.    *)
Alone(C) ==
  \A g, h \in Handler :
    g # h /\ pc[g] # "idle" /\ pc[h] # "idle" /\ B1(sess[g]) = B1(sess[h]) =>
      B1(sess[h]) \in C

(* C holds both buckets of a call or neither.                              *)
WholeCalls(C) == \A s \in Session : B1(s) \in C <=> B2(s) \in C

RInv == IInv /\ FromSessions /\ Pairs(clash) /\ Alone(clash) /\ WholeCalls(clash)

LEMMA OldestAfterAdd ==
  ASSUME NEW c \in Seq(Entry), NEW e \in Entry
  PROVE  /\ <<e>> \o c # <<>>
         /\ c = <<>> => Oldest(<<e>> \o c) = e
         /\ c # <<>> => Oldest(<<e>> \o c) = Oldest(c)
  <1>1. /\ Len(<<e>> \o c) = Len(c) + 1
        /\ (<<e>> \o c)[1] = e
        /\ \A i \in 2 .. Len(c) + 1 : (<<e>> \o c)[i] = c[i - 1]
        /\ Len(c) \in Nat /\ (c = <<>> <=> Len(c) = 0)
    BY Prepended
  <1> QED
    BY <1>1 DEF Oldest

(* The handlers whose place does not change, and what the others do.       *)
LEMMA Elsewhere ==
  ASSUME CallsKeepApart, NEW s \in Session, NEW t \in Session,
         B1(s) # B1(t), NEW b \in BucketsOf(t),
         \A c \in Bucket : c # b => chain'[c] = chain[c]
  PROVE  chain'[B1(s)] = chain[B1(s)] /\ chain'[B2(s)] = chain[B2(s)]
  <1>1. B1(s) \in BucketsOf(s) /\ B2(s) \in BucketsOf(s)
    BY DEF B1, B2, BucketsOf
  <1>2. b # B1(s) /\ b # B2(s)
    BY <1>1 DEF CallsKeepApart
  <1>3. B1(s) \in Bucket /\ B2(s) \in Bucket
    BY SessionTypes DEF B1, B2
  <1> QED
    BY <1>2, <1>3

(* A step that leaves the table and the callbacks between two buckets      *)
(* alone.                                                                  *)
LEMMA NothingMoves ==
  ASSUME NEW C, FromSessions, Pairs(C), chain' = chain,
         \A g \in Handler :
           /\ pc'[g] \in {"add2", "del2"} <=> pc[g] \in {"add2", "del2"}
           /\ pc'[g] \in {"add2", "del2"} =>
                pc'[g] = pc[g] /\ sess'[g] = sess[g]
  PROVE  FromSessions' /\ Pairs(C)'
  <1>1. FromSessions'
    BY DEF FromSessions
  <1>2. \A s : Settled(s)' <=> Settled(s)
    BY DEF Settled, B1, key_s1
  <1>3. ASSUME NEW s \in Session, B1(s) \notin C, Settled(s)'
        PROVE  Paired(chain[B1(s)], chain[B2(s)])
    BY <1>2, <1>3 DEF Pairs
  <1>4. ASSUME NEW g \in Handler, pc'[g] = "add2", B1(sess'[g]) \notin C
        PROVE  HalfAdded(chain[B1(sess'[g])], chain[B2(sess'[g])], sess'[g])
    <2>1. pc[g] = "add2" /\ sess'[g] = sess[g]
      BY <1>4
    <2> QED
      BY <1>4, <2>1 DEF Pairs
  <1>5. ASSUME NEW g \in Handler, pc'[g] = "del2", B1(sess'[g]) \notin C
        PROVE  chain[B1(sess'[g])] = <<>>
    <2>1. pc[g] = "del2" /\ sess'[g] = sess[g]
      BY <1>5
    <2> QED
      BY <1>5, <2>1 DEF Pairs
  <1> QED
    BY <1>1, <1>3, <1>4, <1>5
    DEF Pairs, Paired, B1, B2, HalfAdded, key_s1, key_s2

(* What an insertion or a deletion leaves as the oldest entries.           *)
LEMMA OldestChange ==
  ASSUME FromSessions, TypeOK, NEW b \in Bucket, NEW e \in SessionEntries,
         e \in Entry,
         chain'[b] = <<>> \/ chain'[b] = <<e>> \o chain[b],
         \A c \in Bucket : c # b => chain'[c] = chain[c]
  PROVE  FromSessions'
  <1> SUFFICES ASSUME NEW c \in Bucket, chain'[c] # <<>>
               PROVE  Oldest(chain'[c]) \in SessionEntries
    BY DEF FromSessions, SessionEntries, netlink_message_s1,
      netlink_message_s2, Oldest
  <1>1. CASE c # b
    BY <1>1 DEF FromSessions
  <1>2. CASE c = b
    <2>1. chain[b] \in Seq(Entry) /\ chain'[b] = <<e>> \o chain[b]
      BY <1>2 DEF TypeOK
    <2> QED
      BY <1>2, <2>1, OldestAfterAdd DEF FromSessions
  <1> QED
    BY <1>1, <1>2

(* A change of a bucket of h's call, made by h, leaves the other calls     *)
(* alone, finished or not; and if callbacks of h's call never met, the     *)
(* other handlers are at work on other calls.                              *)
LEMMA OthersKeepPairs ==
  ASSUME CallsKeepApart, IInv, NEW C, Pairs(C), Alone(C),
         NEW h \in Handler, pc[h] # "idle", NEW b \in BucketsOf(sess[h]),
         \A c \in Bucket : c # b => chain'[c] = chain[c],
         \A g \in Handler : g # h => pc'[g] = pc[g] /\ sess'[g] = sess[g]
  PROVE  /\ \A s \in Session :
              B1(s) # B1(sess[h]) /\ B1(s) \notin C /\ Settled(s)' =>
                Paired(chain'[B1(s)], chain'[B2(s)])
         /\ \A g \in Handler :
              g # h /\ pc'[g] = "add2" /\ B1(sess'[g]) \notin C =>
                HalfAdded(chain'[B1(sess'[g])], chain'[B2(sess'[g])], sess'[g])
         /\ \A g \in Handler :
              g # h /\ pc'[g] = "del2" /\ B1(sess'[g]) \notin C =>
                chain'[B1(sess'[g])] = <<>>
  <1>1. sess[h] \in Session
    BY DEF IInv, TypeOK
  <1>2. ASSUME NEW s \in Session, B1(s) # B1(sess[h]), B1(s) \notin C,
               Settled(s)'
        PROVE  Paired(chain'[B1(s)], chain'[B2(s)])
    <2>1. Settled(s)
      <3> SUFFICES ASSUME NEW g \in Handler, pc[g] \in {"add2", "del2"}
                   PROVE  B1(sess[g]) # B1(s)
        BY DEF Settled
      <3>1. CASE g = h
        BY <3>1, <1>2
      <3>2. CASE g # h
        BY <3>2, <1>2 DEF Settled, B1, key_s1
      <3> QED
        BY <3>1, <3>2
    <2>2. chain'[B1(s)] = chain[B1(s)] /\ chain'[B2(s)] = chain[B2(s)]
      BY <1>1, <1>2, Elsewhere
    <2>3. Paired(chain[B1(s)], chain[B2(s)])
      BY <1>2, <2>1 DEF Pairs
    <2> QED
      BY <2>2, <2>3
  <1>3. ASSUME NEW g \in Handler, g # h, pc[g] \in {"add2", "del2"},
               B1(sess[g]) \notin C
        PROVE  /\ chain'[B1(sess[g])] = chain[B1(sess[g])]
               /\ chain'[B2(sess[g])] = chain[B2(sess[g])]
    <2>1. sess[g] \in Session /\ B1(sess[g]) # B1(sess[h])
      BY <1>3 DEF IInv, TypeOK, Alone
    <2> QED
      BY <1>1, <2>1, Elsewhere
  <1>4. ASSUME NEW g \in Handler, g # h, pc'[g] = "add2", B1(sess'[g]) \notin C
        PROVE  HalfAdded(chain'[B1(sess'[g])], chain'[B2(sess'[g])], sess'[g])
    <2>1. pc[g] = "add2" /\ sess'[g] = sess[g]
      BY <1>4
    <2>2. HalfAdded(chain[B1(sess[g])], chain[B2(sess[g])], sess[g])
      BY <1>4, <2>1 DEF Pairs
    <2> QED
      BY <1>3, <1>4, <2>1, <2>2
  <1>5. ASSUME NEW g \in Handler, g # h, pc'[g] = "del2", B1(sess'[g]) \notin C
        PROVE  chain'[B1(sess'[g])] = <<>>
    <2>1. pc[g] = "del2" /\ sess'[g] = sess[g]
      BY <1>5
    <2> QED
      BY <1>3, <1>5, <2>1 DEF Pairs
  <1> QED
    BY <1>2, <1>4, <1>5

-----------------------------------------------------------------------------
(* Each step keeps the calls outside C as they should be.                  *)

LEMMA FirstAdd ==
  ASSUME CallsKeepApart, IInv, FromSessions, NEW C, Pairs(C), Alone(C),
         NEW h \in Handler, Add1(h)
  PROVE  FromSessions' /\ Pairs(C)'
  <1> DEFINE t == sess[h]
  <1>1. /\ TypeOK /\ OwnBucket /\ FromSessions /\ pc[h] = "add1"
        /\ t \in Session /\ sess' = sess
        /\ pc' = [pc EXCEPT ![h] = "add2"] /\ pc'[h] = "add2"
        /\ \A g \in Handler : g # h => pc'[g] = pc[g] /\ sess'[g] = sess[g]
    BY DEF IInv, TypeOK, Add1
  <1>2. t \in Entry /\ t \in SessionEntries /\ key_s1(t) \in Key
    BY <1>1, SessionTypes, KernelAssumption
    DEF SessionEntries, netlink_message_s1
  <1>3. hash_add_rcu(key_s1(t), t)
    BY DEF Add1, netlink_message_s1
  <1>4. /\ chain'[B1(t)] = <<t>> \o chain[B1(t)]
        /\ \A b \in Bucket : b # B1(t) => chain'[b] = chain[b]
    BY <1>1, <1>2, <1>3, AddEffect DEF B1
  <1>5. /\ B1(t) \in Bucket /\ B2(t) \in Bucket /\ B1(t) \in BucketsOf(t)
        /\ B1(t) # B2(t) /\ chain[B1(t)] \in Seq(Entry)
    BY <1>1, SessionTypes DEF CallsKeepApart, B1, B2, BucketsOf, TypeOK
  <1>6. FromSessions'
    BY <1>1, <1>2, <1>4, <1>5, OldestChange
  <1>7. B1(t) \notin C => Settled(t)
    BY <1>1 DEF Alone, Settled
  <1>8. /\ B1(t) \notin C => Paired(chain[B1(t)], chain[B2(t)])
        /\ chain'[B2(t)] = chain[B2(t)]
    BY <1>1, <1>4, <1>5, <1>7 DEF Pairs
  <1>9. B1(t) \notin C => HalfAdded(chain'[B1(t)], chain'[B2(t)], t)
    <2>1. /\ chain'[B1(t)] # <<>>
          /\ chain[B1(t)] = <<>> => Oldest(chain'[B1(t)]) = t
          /\ chain[B1(t)] # <<>> =>
               Oldest(chain'[B1(t)]) = Oldest(chain[B1(t)])
      BY <1>2, <1>4, <1>5, OldestAfterAdd
    <2> QED
      BY <2>1, <1>8 DEF HalfAdded, Paired
  <1>10.
        /\ \A s \in Session :
             B1(s) # B1(t) /\ B1(s) \notin C /\ Settled(s)' =>
               Paired(chain'[B1(s)], chain'[B2(s)])
        /\ \A g \in Handler :
             g # h /\ pc'[g] = "add2" /\ B1(sess'[g]) \notin C =>
               HalfAdded(chain'[B1(sess'[g])], chain'[B2(sess'[g])], sess'[g])
        /\ \A g \in Handler :
             g # h /\ pc'[g] = "del2" /\ B1(sess'[g]) \notin C =>
               chain'[B1(sess'[g])] = <<>>
    BY <1>1, <1>4, <1>5, OthersKeepPairs
  <1>11. \A s : Settled(s)' => B1(s) # B1(t)
    BY <1>1 DEF Settled, B1, key_s1
  <1> QED
    BY <1>1, <1>6, <1>9, <1>10, <1>11
    DEF Pairs, B1, B2, Paired, HalfAdded, key_s1, key_s2

LEMMA SecondAdd ==
  ASSUME CallsKeepApart, IInv, FromSessions, NEW C, Pairs(C), Alone(C),
         NEW h \in Handler, Add2(h)
  PROVE  FromSessions' /\ Pairs(C)'
  <1> DEFINE t == sess[h]
             r == netlink_message_s2(t)
  <1>1. /\ TypeOK /\ OwnBucket /\ FromSessions /\ pc[h] = "add2"
        /\ t \in Session /\ pc'[h] = "idle"
        /\ \A g \in Handler : g # h => pc'[g] = pc[g] /\ sess'[g] = sess[g]
    BY DEF IInv, TypeOK, Add2, Return
  <1>2. /\ r \in Entry /\ r \in SessionEntries
        /\ key_s2(t) \in Key /\ key_s1(r) = key_s2(t)
    BY <1>1, SessionTypes, OwnKeys DEF SessionEntries
  <1>3. hash_add_rcu(key_s2(t), r)
    BY DEF Add2
  <1>4. /\ chain'[B2(t)] = <<r>> \o chain[B2(t)]
        /\ \A b \in Bucket : b # B2(t) => chain'[b] = chain[b]
    BY <1>1, <1>2, <1>3, AddEffect DEF B2
  <1>5. /\ B1(t) \in Bucket /\ B2(t) \in Bucket /\ B2(t) \in BucketsOf(t)
        /\ B1(t) # B2(t) /\ chain[B2(t)] \in Seq(Entry)
    BY <1>1, SessionTypes DEF CallsKeepApart, B1, B2, BucketsOf, TypeOK
  <1>6. FromSessions'
    BY <1>1, <1>2, <1>4, <1>5, OldestChange
  <1>7. /\ B1(t) \notin C => HalfAdded(chain[B1(t)], chain[B2(t)], t)
        /\ chain'[B1(t)] = chain[B1(t)]
    BY <1>1, <1>4, <1>5 DEF Pairs
  <1>8. B1(t) \notin C => Paired(chain'[B1(t)], chain'[B2(t)])
    <2>1. /\ chain'[B2(t)] # <<>>
          /\ chain[B2(t)] = <<>> => Oldest(chain'[B2(t)]) = r
          /\ chain[B2(t)] # <<>> =>
               Oldest(chain'[B2(t)]) = Oldest(chain[B2(t)])
      BY <1>2, <1>4, <1>5, OldestAfterAdd
    <2> QED
      BY <1>1, <2>1, <1>7 DEF HalfAdded, Paired
  <1>9. /\ \A s \in Session :
             B1(s) # B1(t) /\ B1(s) \notin C /\ Settled(s)' =>
               Paired(chain'[B1(s)], chain'[B2(s)])
        /\ \A g \in Handler :
             g # h /\ pc'[g] = "add2" /\ B1(sess'[g]) \notin C =>
               HalfAdded(chain'[B1(sess'[g])], chain'[B2(sess'[g])], sess'[g])
        /\ \A g \in Handler :
             g # h /\ pc'[g] = "del2" /\ B1(sess'[g]) \notin C =>
               chain'[B1(sess'[g])] = <<>>
    BY <1>1, <1>4, <1>5, OthersKeepPairs
  <1>10. \A s \in Session : B1(s) = B1(t) => B2(s) = B2(t)
    BY <1>1 DEF CallsKeepApart, BucketsOf, B1, B2
  <1> QED
    BY <1>1, <1>6, <1>8, <1>9, <1>10
    DEF Pairs, B1, B2, Paired, HalfAdded, key_s1, key_s2

LEMMA FirstDelete ==
  ASSUME CallsKeepApart, IInv, FromSessions, NEW C, Pairs(C), Alone(C),
         NEW h \in Handler, Delete1(h)
  PROVE  FromSessions' /\ Pairs(C)'
  <1> DEFINE t == sess[h]
  <1>1. /\ TypeOK /\ OwnBucket /\ FromSessions /\ pc[h] = "del1"
        /\ t \in Session /\ sess' = sess /\ pc'[h] = "del2"
        /\ \A g \in Handler : g # h => pc'[g] = pc[g] /\ sess'[g] = sess[g]
    BY DEF IInv, TypeOK, Delete1
  <1>2. t \in Entry /\ t \in SessionEntries /\ key_s1(t) \in Key
    BY <1>1, SessionTypes, KernelAssumption
    DEF SessionEntries, netlink_message_s1
  <1>3. DeleteBucket(key_s1(t))
    BY DEF Delete1
  <1>4. /\ chain'[B1(t)] = <<>>
        /\ \A b \in Bucket : b # B1(t) => chain'[b] = chain[b]
    BY <1>1, <1>2, <1>3, DeleteEffect DEF B1
  <1>5. B1(t) \in Bucket /\ B1(t) \in BucketsOf(t)
    BY <1>1, SessionTypes DEF B1, BucketsOf
  <1>6. FromSessions'
    BY <1>1, <1>2, <1>4, <1>5, OldestChange
  <1>7. /\ \A s \in Session :
             B1(s) # B1(t) /\ B1(s) \notin C /\ Settled(s)' =>
               Paired(chain'[B1(s)], chain'[B2(s)])
        /\ \A g \in Handler :
             g # h /\ pc'[g] = "add2" /\ B1(sess'[g]) \notin C =>
               HalfAdded(chain'[B1(sess'[g])], chain'[B2(sess'[g])], sess'[g])
        /\ \A g \in Handler :
             g # h /\ pc'[g] = "del2" /\ B1(sess'[g]) \notin C =>
               chain'[B1(sess'[g])] = <<>>
    BY <1>1, <1>4, <1>5, OthersKeepPairs
  <1>8. \A s : Settled(s)' => B1(s) # B1(t)
    BY <1>1 DEF Settled, B1, key_s1
  <1> QED
    BY <1>1, <1>4, <1>6, <1>7, <1>8
    DEF Pairs, B1, B2, Paired, HalfAdded, key_s1, key_s2

LEMMA SecondDelete ==
  ASSUME CallsKeepApart, IInv, FromSessions, NEW C, Pairs(C), Alone(C),
         NEW h \in Handler, Delete2(h)
  PROVE  FromSessions' /\ Pairs(C)'
  <1> DEFINE t == sess[h]
             r == netlink_message_s2(t)
  <1>1. /\ TypeOK /\ OwnBucket /\ FromSessions /\ pc[h] = "del2"
        /\ t \in Session /\ pc'[h] = "idle"
        /\ \A g \in Handler : g # h => pc'[g] = pc[g] /\ sess'[g] = sess[g]
    BY DEF IInv, TypeOK, Delete2, Return
  <1>2. r \in Entry /\ r \in SessionEntries /\ key_s2(t) \in Key
    BY <1>1, SessionTypes DEF SessionEntries
  <1>3. DeleteBucket(key_s2(t))
    BY DEF Delete2
  <1>4. /\ chain'[B2(t)] = <<>>
        /\ \A b \in Bucket : b # B2(t) => chain'[b] = chain[b]
    BY <1>1, <1>2, <1>3, DeleteEffect DEF B2
  <1>5. /\ B1(t) \in Bucket /\ B2(t) \in Bucket /\ B2(t) \in BucketsOf(t)
        /\ B1(t) # B2(t)
    BY <1>1, SessionTypes DEF CallsKeepApart, B1, B2, BucketsOf
  <1>6. FromSessions'
    BY <1>1, <1>2, <1>4, <1>5, OldestChange
  <1>7. B1(t) \notin C => chain'[B1(t)] = <<>>
    BY <1>1, <1>4, <1>5 DEF Pairs
  <1>8. B1(t) \notin C => Paired(chain'[B1(t)], chain'[B2(t)])
    BY <1>4, <1>7 DEF Paired
  <1>9. /\ \A s \in Session :
             B1(s) # B1(t) /\ B1(s) \notin C /\ Settled(s)' =>
               Paired(chain'[B1(s)], chain'[B2(s)])
        /\ \A g \in Handler :
             g # h /\ pc'[g] = "add2" /\ B1(sess'[g]) \notin C =>
               HalfAdded(chain'[B1(sess'[g])], chain'[B2(sess'[g])], sess'[g])
        /\ \A g \in Handler :
             g # h /\ pc'[g] = "del2" /\ B1(sess'[g]) \notin C =>
               chain'[B1(sess'[g])] = <<>>
    BY <1>1, <1>4, <1>5, OthersKeepPairs
  <1>10. \A s \in Session : B1(s) = B1(t) => B2(s) = B2(t)
    BY <1>1 DEF CallsKeepApart, BucketsOf, B1, B2
  <1> QED
    BY <1>1, <1>6, <1>8, <1>9, <1>10
    DEF Pairs, B1, B2, Paired, HalfAdded, key_s1, key_s2

LEMMA KernelKeepsPairs ==
  ASSUME CallsKeepApart, IInv, FromSessions, NEW C, Pairs(C), Alone(C),
         NEW h \in Handler, HandlerStep(h)
  PROVE  FromSessions' /\ Pairs(C)'
  <1>1. CASE \/ \E s \in Session : ReceiveSetup(h, s) \/ ReceiveTeardown(h, s)
             \/ Allocate(h) \/ AllocateFails(h)
    <2>1. /\ chain' = chain
          /\ pc[h] \notin {"add2", "del2"} /\ pc'[h] \notin {"add2", "del2"}
      BY <1>1 DEF IInv, TypeOK, ReceiveSetup, ReceiveTeardown, Allocate,
        AllocateFails, Return
    <2>2. \A g \in Handler :
           /\ pc'[g] \in {"add2", "del2"} <=> pc[g] \in {"add2", "del2"}
           /\ pc'[g] \in {"add2", "del2"} =>
                pc'[g] = pc[g] /\ sess'[g] = sess[g]
      BY <2>1, OneMoves
    <2> QED
      BY <2>1, <2>2, NothingMoves
  <1> QED
    BY <1>1, FirstAdd, SecondAdd, FirstDelete, SecondDelete
    DEF HandlerStep, CallbackStep

-----------------------------------------------------------------------------
(* The history: what is added to clash, and what is taken from it.         *)

(* Sessions that have a bucket in common are of one call.                  *)
LEMMA OneCall ==
  ASSUME CallsKeepApart, NEW s \in Session, NEW t \in Session,
         B1(s) \in BucketsOf(t) \/ B2(s) \in BucketsOf(t)
  PROVE  BucketsOf(s) = BucketsOf(t)
  <1>1. B1(s) \in BucketsOf(s) /\ B2(s) \in BucketsOf(s)
    BY DEF BucketsOf, B1, B2
  <1>2. B1(s) = B1(t) /\ B2(s) = B2(t)
    BY <1>1 DEF CallsKeepApart
  <1> QED
    BY <1>2 DEF BucketsOf, B1, B2

LEMMA ClashGrows ==
  ASSUME CallsKeepApart, WholeCalls(clash), Alone(clash), IInv, IInv',
         NEW h \in Handler, HandlerStep(h), Arrived(h),
         clash' = clash \union
           UNION {BucketsOf(sess'[g]) : g \in {h} \union Rivals(h)'}
  PROVE  Alone(clash)' /\ WholeCalls(clash)'
  <1> DEFINE met == {h} \union Rivals(h)'
  <1>1. \A g \in met : g \in Handler /\ sess'[g] \in Session
    BY DEF Rivals, Arrived, IInv, TypeOK
  <1>2. ASSUME NEW g \in met PROVE B1(sess'[g]) \in clash'
    <2>1. B1(sess'[g]) \in BucketsOf(sess'[g])
      BY DEF BucketsOf, B1
    <2> QED
      BY <2>1
  <1>3. ASSUME NEW f \in Handler, NEW g \in Handler, f # g, pc'[f] # "idle",
               pc'[g] # "idle", B1(sess'[f]) = B1(sess'[g])
        PROVE  B1(sess'[g]) \in clash'
    <2>1. BucketsOf(sess'[f]) \intersect BucketsOf(sess'[g]) # {}
      BY <1>3 DEF BucketsOf, B1
    <2>2. CASE f = h
      <3>1. g \in Rivals(h)'
        BY <1>3, <2>1, <2>2 DEF Rivals, BucketsOf, key_s1, key_s2
      <3> QED
        BY <1>2, <3>1
    <2>3. CASE g = h
      BY <1>2, <2>3
    <2>4. CASE f # h /\ g # h
      BY <1>3, <2>4, OneMoves DEF Alone
    <2> QED
      BY <2>2, <2>3, <2>4
  <1>4. ASSUME NEW s \in Session PROVE B1(s) \in clash' <=> B2(s) \in clash'
    <2>1. B1(s) \in BucketsOf(s) /\ B2(s) \in BucketsOf(s)
      BY DEF BucketsOf, B1, B2
    <2>2. CASE \E g \in met : B1(s) \in BucketsOf(sess'[g])
                              \/ B2(s) \in BucketsOf(sess'[g])
      <3>1. PICK g \in met : BucketsOf(s) = BucketsOf(sess'[g])
        BY <1>1, <2>2, OneCall
      <3> QED
        BY <2>1, <3>1
    <2>3. CASE ~ \E g \in met : B1(s) \in BucketsOf(sess'[g])
                                \/ B2(s) \in BucketsOf(sess'[g])
      BY <2>3 DEF WholeCalls
    <2> QED
      BY <2>2, <2>3
  <1> QED
    BY <1>3, <1>4 DEF Alone, WholeCalls, B1, B2, key_s1, key_s2

LEMMA ClashShrinks ==
  ASSUME CallsKeepApart, WholeCalls(clash), Alone(clash), IInv, IInv',
         NEW h \in Handler, HandlerStep(h), LeftClean(h),
         clash' = clash \ BucketsOf(sess[h])
  PROVE  /\ Alone(clash)' /\ WholeCalls(clash)'
         /\ \A g \in Handler : pc'[g] # "idle" =>
              B1(sess'[g]) \notin BucketsOf(sess[h])
         /\ \A s \in Session : B1(s) \in BucketsOf(sess[h]) =>
              chain'[B1(s)] = <<>> /\ chain'[B2(s)] = <<>>
  <1>1. sess[h] \in Session /\ pc[h] # "idle" /\ pc'[h] = "idle"
    BY DEF LeftClean, IInv, TypeOK
  <1>2. ASSUME NEW g \in Handler, pc'[g] # "idle"
        PROVE  /\ g # h /\ pc[g] # "idle" /\ sess'[g] = sess[g]
               /\ B1(sess[g]) \notin BucketsOf(sess[h])
    <2>1. g # h /\ pc[g] # "idle" /\ sess'[g] = sess[g]
      BY <1>1, <1>2, OneMoves
    <2>2. BucketsOf(sess[g]) \intersect BucketsOf(sess[h]) = {}
      BY <2>1 DEF LeftClean, Rivals
    <2> QED
      BY <2>1, <2>2 DEF BucketsOf, B1
  <1>3. ASSUME NEW f \in Handler, NEW g \in Handler, f # g, pc'[f] # "idle",
               pc'[g] # "idle", B1(sess'[f]) = B1(sess'[g])
        PROVE  B1(sess'[g]) \in clash'
    BY <1>2, <1>3 DEF Alone
  <1>4. ASSUME NEW s \in Session
        PROVE  /\ B1(s) \in clash' <=> B2(s) \in clash'
               /\ B1(s) \in BucketsOf(sess[h]) =>
                    chain'[B1(s)] = <<>> /\ chain'[B2(s)] = <<>>
    <2>1. B1(s) \in BucketsOf(s) /\ B2(s) \in BucketsOf(s)
      BY DEF BucketsOf, B1, B2
    <2>2. B1(s) \in BucketsOf(sess[h]) <=> B2(s) \in BucketsOf(sess[h])
      BY <1>1, <2>1, OneCall
    <2> QED
      BY <2>2 DEF WholeCalls, LeftClean
  <1> QED
    BY <1>2, <1>3, <1>4 DEF Alone, WholeCalls, B1, B2, key_s1, key_s2

LEMMA ClashMoves ==
  ASSUME CallsKeepApart, WholeCalls(clash), Alone(clash), IInv, IInv',
         NEW h \in Handler, HandlerStep(h), NoteClash(h),
         NEW C, C = clash, Pairs(C)'
  PROVE  Pairs(clash)' /\ Alone(clash)' /\ WholeCalls(clash)'
  <1>1. CASE Arrived(h) /\ Rivals(h)' # {}
    <2>1. clash' = clash \union
            UNION {BucketsOf(sess'[g]) : g \in {h} \union Rivals(h)'}
      BY <1>1 DEF NoteClash
    <2>2. C \subseteq clash'
      BY <2>1
    <2>3. Pairs(clash)'
      BY <2>2 DEF Pairs, B1, B2, key_s1, key_s2
    <2> QED
      BY <1>1, <2>1, <2>3, ClashGrows
  <1>2. CASE ~(Arrived(h) /\ Rivals(h)' # {}) /\ LeftClean(h)
    <2>1. clash' = clash \ BucketsOf(sess[h])
      BY <1>2 DEF NoteClash
    <2>2. /\ Alone(clash)' /\ WholeCalls(clash)'
          /\ \A g \in Handler : pc'[g] # "idle" =>
               B1(sess'[g]) \notin BucketsOf(sess[h])
          /\ \A s \in Session : B1(s) \in BucketsOf(sess[h]) =>
               chain'[B1(s)] = <<>> /\ chain'[B2(s)] = <<>>
      BY <1>2, <2>1, ClashShrinks
    <2>3. ASSUME NEW s \in Session, B1(s) \notin clash', Settled(s)'
          PROVE  Paired(chain'[B1(s)], chain'[B2(s)])
      <3>1. CASE B1(s) \in BucketsOf(sess[h])
        BY <2>2, <3>1 DEF Paired
      <3>2. CASE B1(s) \notin BucketsOf(sess[h])
        <4>1. B1(s) \notin C
          BY <2>1, <2>3, <3>2
        <4> QED
          BY <2>3, <4>1 DEF Pairs, B1, B2, key_s1, key_s2
      <3> QED
        BY <3>1, <3>2
    <2>4. ASSUME NEW g \in Handler, pc'[g] # "idle", B1(sess'[g]) \notin clash'
          PROVE  B1(sess'[g]) \notin C
      BY <2>1, <2>2, <2>4
    <2>5. ASSUME NEW g \in Handler, pc'[g] = "add2", B1(sess'[g]) \notin clash'
          PROVE  HalfAdded(chain'[B1(sess'[g])], chain'[B2(sess'[g])], sess'[g])
      <3>1. B1(sess'[g]) \notin C
        BY <2>4, <2>5
      <3> QED
        BY <2>5, <3>1 DEF Pairs, B1, B2, key_s1, key_s2
    <2>6. ASSUME NEW g \in Handler, pc'[g] = "del2", B1(sess'[g]) \notin clash'
          PROVE  chain'[B1(sess'[g])] = <<>>
      <3>1. B1(sess'[g]) \notin C
        BY <2>4, <2>6
      <3> QED
        BY <2>6, <3>1 DEF Pairs, B1, B2, key_s1, key_s2
    <2>7. Pairs(clash)'
      BY <2>3, <2>5, <2>6 DEF Pairs, Paired, HalfAdded, B1, B2, key_s1, key_s2
    <2> QED
      BY <2>2, <2>7
  <1>3. CASE ~(Arrived(h) /\ Rivals(h)' # {}) /\ ~LeftClean(h)
    <2>1. clash' = clash
      BY <1>3 DEF NoteClash
    <2>2. Pairs(clash)'
      BY <2>1
    <2>3. WholeCalls(clash)'
      BY <2>1 DEF WholeCalls, B1, B2, key_s1, key_s2
    <2>4. ASSUME NEW f \in Handler, NEW g \in Handler, f # g, pc'[f] # "idle",
                 pc'[g] # "idle", B1(sess'[f]) = B1(sess'[g])
          PROVE  B1(sess'[g]) \in clash'
      <3>1. ASSUME pc[h] = "idle", pc'[h] # "idle"
            PROVE  Rivals(h)' = {}
        BY <1>3, <3>1 DEF Arrived
      <3>2. BucketsOf(sess'[f]) \intersect BucketsOf(sess'[g]) # {}
        BY <2>4 DEF BucketsOf, B1
      <3>3. CASE f = h /\ pc[h] = "idle"
        BY <2>4, <3>1, <3>2, <3>3 DEF Rivals, BucketsOf, key_s1, key_s2
      <3>4. CASE g = h /\ pc[h] = "idle"
        BY <2>4, <3>1, <3>2, <3>4 DEF Rivals, BucketsOf, key_s1, key_s2
      <3>5. CASE ~(f = h /\ pc[h] = "idle") /\ ~(g = h /\ pc[h] = "idle")
        <4>1. /\ pc[f] # "idle" /\ sess'[f] = sess[f]
              /\ pc[g] # "idle" /\ sess'[g] = sess[g]
          BY <2>4, <3>5, OneMoves
        <4> QED
          BY <2>1, <2>4, <4>1 DEF Alone
      <3> QED
        BY <3>3, <3>4, <3>5
    <2>5. Alone(clash)'
      BY <2>4 DEF Alone, B1, key_s1
    <2> QED
      BY <2>2, <2>3, <2>5
  <1> QED
    BY <1>1, <1>2, <1>3

LEMMA RStep ==
  ASSUME CallsKeepApart, RInv, [OverlapNext]_ovars
  PROVE  RInv'
  <1>1. IInv /\ IInv'
    BY OverlapIsNext, Step DEF RInv
  <1>2. CASE OverlapNext
    <2>1. PICK h \in Handler : HandlerStep(h) /\ NoteClash(h)
      BY <1>2 DEF OverlapNext
    <2>2. PICK C : C = clash
      OBVIOUS
    <2>3. Pairs(C) /\ Alone(C)
      BY <2>2 DEF RInv
    <2>4. FromSessions' /\ Pairs(C)'
      BY <1>1, <2>1, <2>3, KernelKeepsPairs DEF RInv
    <2>5. Pairs(clash)' /\ Alone(clash)' /\ WholeCalls(clash)'
      BY <1>1, <2>1, <2>2, <2>4, ClashMoves DEF RInv
    <2> QED
      BY <1>1, <2>4, <2>5 DEF RInv
  <1>3. CASE UNCHANGED ovars
    <2>1. chain' = chain /\ pc' = pc /\ sess' = sess /\ clash' = clash
      BY <1>3 DEF ovars, vars
    <2>2. FromSessions'
      BY <2>1 DEF RInv, FromSessions
    <2>3. Pairs(clash)'
      BY <2>1 DEF RInv, Pairs, Settled, B1, B2, key_s1, key_s2
    <2>4. Alone(clash)' /\ WholeCalls(clash)'
      BY <2>1 DEF RInv, Alone, WholeCalls, B1, B2, key_s1, key_s2
    <2> QED
      BY <1>1, <2>2, <2>3, <2>4 DEF RInv
  <1> QED
    BY <1>2, <1>3

-----------------------------------------------------------------------------
LEMMA RInitially == OverlapInit => RInv
  <1> SUFFICES ASSUME OverlapInit PROVE RInv
    OBVIOUS
  <1>1. Init /\ IInv /\ clash = {}
    BY Initially DEF OverlapInit
  <1>2. \A b \in Bucket : chain[b] = <<>>
    BY <1>1 DEF Init
  <1>3. FromSessions
    BY <1>2 DEF FromSessions
  <1>4. \A s \in Session : Paired(chain[B1(s)], chain[B2(s)])
    BY <1>2, SessionTypes DEF Paired, B1, B2
  <1>5. \A h \in Handler : pc[h] = "idle"
    BY <1>1 DEF Init
  <1>6. Alone(clash) /\ WholeCalls(clash)
    BY <1>1, <1>5 DEF Alone, WholeCalls
  <1> QED
    BY <1>1, <1>3, <1>4, <1>5, <1>6 DEF RInv, Pairs

(* A call whose callbacks have not met, and at which none is at work, is   *)
(* answered both ways.                                                     *)
LEMMA PairsComeBack ==
  ASSUME RInv, NEW b \in Bucket \ clash
  PROVE  ComesBack(b)
  <1> DEFINE e == Oldest(chain[b])
             p == [src |-> e.dnat, dst |-> e.dst]
  <1> SUFFICES ASSUME chain[b] # <<>>, Quiet(e)
               PROVE  Path(Reply(Path(p))) = Reply(p)
    BY DEF ComesBack
  <1>1. e \in SessionEntries /\ BucketOf[key_s1(e)] = b
    <2>1. Len(chain[b]) \in 1 .. Len(chain[b])
      BY DEF RInv, IInv, TypeOK
    <2> QED
      BY <2>1 DEF RInv, FromSessions, IInv, OwnBucket, Oldest
  <1>2. ASSUME NEW s \in Session, BucketsOf(e) = BucketsOf(s), B1(s) \notin clash
        PROVE  Paired(chain[B1(s)], chain[B2(s)])
    <2>1. Settled(s)
      BY <1>2 DEF Quiet, Settled, BucketsOf, B1
    <2> QED
      BY <1>2, <2>1 DEF RInv, Pairs
  <1>3. CASE e \in Session
    <2>1. b = B1(e) /\ Paired(chain[B1(e)], chain[B2(e)])
      BY <1>1, <1>2, <1>3 DEF B1
    <2>2. /\ chain[B1(e)] # <<>> /\ Oldest(chain[B1(e)]) = e
          /\ chain[B2(e)] # <<>>
          /\ Oldest(chain[B2(e)]) = netlink_message_s2(e)
      BY <2>1 DEF Paired
    <2> QED
      BY <1>3, <2>2, BothWays
  <1>4. ASSUME NEW s \in Session, e = netlink_message_s2(s)
        PROVE  Path(Reply(Path(p))) = Reply(p)
    <2>1. key_s1(e) = key_s2(s) /\ key_s2(e) = key_s1(s)
      BY <1>4 DEF key_s1, key_s2, netlink_message_s2
    <2>2. b = B2(s) /\ BucketsOf(e) = BucketsOf(s)
      BY <1>1, <2>1 DEF B2, BucketsOf
    <2>3. Paired(chain[B1(s)], chain[B2(s)])
      <3>1. B1(s) \notin clash
        BY <2>2 DEF RInv, WholeCalls
      <3> QED
        BY <1>2, <2>2, <3>1
    <2>4. PICK t \in Session :
            /\ chain[B1(s)] # <<>> /\ chain[B2(s)] # <<>>
            /\ t = Oldest(chain[B1(s)]) /\ e = netlink_message_s2(t)
      BY <2>2, <2>3 DEF Paired
    <2>5. s \in Entry /\ t \in Entry
      BY KernelAssumption
    <2>6. s.src = t.src /\ s.dst = t.dst /\ s.snat = t.snat /\ s.dnat = t.dnat
      BY <1>4, <2>4 DEF netlink_message_s2
    <2>7. s = t
      BY <2>5, <2>6 DEF Entry
    <2>8. p = [src |-> s.src, dst |-> s.snat]
      BY <1>4 DEF netlink_message_s2
    <2> QED
      BY <1>4, <2>2, <2>4, <2>7, <2>8, BothWays
  <1> QED
    BY <1>1, <1>3, <1>4 DEF SessionEntries, netlink_message_s1

(* When the calls keep apart in the hash table, an entry on which no       *)
(* callback is at work is answered: a packet it translates gets its answer *)
(* back to where it came from, whatever setups were repeated, whatever was *)
(* torn down before, and whatever the callbacks of other calls did to each *)
(* other; only a call whose own callbacks have overlapped, and which none  *)
(* of them has since left clean, is not spoken of.                         *)
THEOREM MediaComesBack ==
  ASSUME CallsKeepApart
  PROVE  OverlapSpec => []RoundTrip
  <1>1. RInv /\ [OverlapNext]_ovars => RInv'
    BY RStep
  <1>2. RInv => RoundTrip
    BY PairsComeBack DEF RoundTrip
  <1> QED
    BY RInitially, <1>1, <1>2, PTL DEF OverlapSpec
=============================================================================
