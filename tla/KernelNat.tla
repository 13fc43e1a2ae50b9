------------------------------ MODULE KernelNat ------------------------------
(***************************************************************************)
(* The kernel module lrkproxy_module: a hash table of translation entries, *)
(* changed by the netlink callback lrkp_nl_recv_msg and read by the two    *)
(* netfilter hooks.                                                        *)
(*                                                                         *)
(* The callback runs in the context of the process that sent the netlink   *)
(* message and takes no lock, so two of them may run at once: a Handler is *)
(* such a context, each change of a bucket is a step, and the callbacks'   *)
(* steps interleave in every way, those for one bucket too.  Each list     *)
(* operation takes effect as a whole here; how two of them race on the     *)
(* pointers of one list is the matter of KernelBucket.                     *)
(*                                                                         *)
(* The four ends of a call, as proxied media flows:                        *)
(*     src  <-->  snat  [proxy]  dst  <-->  dnat                           *)
(***************************************************************************)
EXTENDS Integers, Sequences, FiniteSets

CONSTANTS
  Ip,        \* IPv4 addresses
  Port,      \* UDP ports
  Session,   \* the sessions Kamailio sets up and tears down
  Handler,   \* contexts in which the netlink callback runs
  Bucket,    \* buckets of netlink_hash_table
  BucketOf,  \* the bucket a key's 32-bit sum is hashed to
  NoSession, \* an idle handler's session
  MaxAdds    \* bound: setup messages in a behaviour

Endpoint == [ip : Ip, port : Port]

(* struct netlink_message: what the hooks use of it.                       *)
Entry == [src : Endpoint, dst : Endpoint, snat : Endpoint, dnat : Endpoint]

Key == Ip \X Port

ASSUME KernelAssumption ==
  /\ Ip \subseteq Nat
  /\ Session \subseteq Entry
  /\ BucketOf \in [Key -> Bucket]
  /\ NoSession \notin Entry
  /\ MaxAdds \in Nat

VARIABLES
  chain,   \* the entries of each bucket, newest first
  pc,      \* where each handler is in lrkp_nl_recv_msg
  sess,    \* the session it handles
  adds,    \* number of setup messages so far
  blocks,  \* memory blocks allocated and not freed
  leaked   \* history: blocks nothing refers to any more

vars == <<chain, pc, sess, adds, blocks, leaked>>

-----------------------------------------------------------------------------
(* The keys of a session, from tokens 5 and 7 and from tokens 2 and 8.     *)

key_s1(s) == <<s.dnat.ip, s.dst.port>>

(* Mutant: both keys use the callee's port.                                *)
key_s2SamePort(s) == <<s.src.ip, s.dst.port>>

(* Mutant: the port the caller's media comes from, as in the commented-out *)
(* line 294.                                                               *)
key_s2Announced(s) == <<s.src.ip, s.src.port>>

key_s2(s) == <<s.src.ip, s.snat.port>>

(* The entry inserted for the sender's side, and for the receiver's.       *)
netlink_message_s1(s) == s

(* Mutant: the receiver's entry keeps the sender's source.                 *)
netlink_message_s2Unswapped(s) ==
  [src |-> s.dnat, dst |-> s.snat, snat |-> s.snat, dnat |-> s.src]

netlink_message_s2(s) ==
  [src |-> s.dnat, dst |-> s.snat, snat |-> s.dst, dnat |-> s.src]

(* Mutant: new entries go to the end of the bucket.                        *)
hash_add_tail(k, e) ==
  chain' = [chain EXCEPT ![BucketOf[k]] = Append(@, e)]

(* hash_add_rcu puts the entry at the head of its bucket.                  *)
hash_add_rcu(k, e) ==
  chain' = [chain EXCEPT ![BucketOf[k]] = <<e>> \o @]

(* Mutant: the deletion loop stops after the first entry.                  *)
DeleteFirstOnly(k) ==
  LET b == BucketOf[k] IN
  /\ chain' = [chain EXCEPT ![b] = IF @ = <<>> THEN <<>> ELSE Tail(@)]
  /\ blocks' = blocks - (IF chain[b] = <<>> THEN 0 ELSE 1)

(* Mutant: the loop unlinks every entry and frees the first.               *)
DeleteFreesFirst(k) ==
  LET b == BucketOf[k] IN
  /\ chain' = [chain EXCEPT ![b] = <<>>]
  /\ blocks' = blocks - (IF chain[b] = <<>> THEN 0 ELSE 1)

(* hash_for_each_possible_safe walks the whole bucket, without comparing   *)
(* the entries' keys, and every entry is unlinked and freed.               *)
DeleteBucket(k) ==
  /\ chain' = [chain EXCEPT ![BucketOf[k]] = <<>>]
  /\ blocks' = blocks - Len(chain[BucketOf[k]])

-----------------------------------------------------------------------------
Init ==
  /\ chain = [b \in Bucket |-> <<>>]
  /\ pc = [h \in Handler |-> "idle"]
  /\ sess = [h \in Handler |-> NoSession]
  /\ adds = 0
  /\ blocks = 0
  /\ leaked = 0

BucketsOf(s) == {BucketOf[key_s1(s)], BucketOf[key_s2(s)]}

(* A message other than a teardown arrives and is parsed.                  *)
ReceiveSetup(h, s) ==
  /\ pc[h] = "idle"
  /\ adds < MaxAdds
  /\ adds' = adds + 1
  /\ pc' = [pc EXCEPT ![h] = "alloc"]
  /\ sess' = [sess EXCEPT ![h] = s]
  /\ UNCHANGED <<chain, blocks, leaked>>

ReceiveTeardown(h, s) ==
  /\ pc[h] = "idle"
  /\ pc' = [pc EXCEPT ![h] = "del1"]
  /\ sess' = [sess EXCEPT ![h] = s]
  /\ UNCHANGED <<chain, adds, blocks, leaked>>

(* Mutant: the callback gives up its session and goes on.                  *)
ReturnGoesOn(h) ==
  /\ sess' = [sess EXCEPT ![h] = NoSession]
  /\ UNCHANGED pc

Return(h) ==
  /\ pc' = [pc EXCEPT ![h] = "idle"]
  /\ sess' = [sess EXCEPT ![h] = NoSession]

Allocate(h) ==
  /\ pc[h] = "alloc"
  /\ pc' = [pc EXCEPT ![h] = "add1"]
  /\ blocks' = blocks + 2
  /\ UNCHANGED <<chain, sess, adds, leaked>>

(* One of the two kmallocs fails: the callback returns at once, and does   *)
(* not free the first block when it is the second that fails.              *)
AllocateFails(h) ==
  /\ pc[h] = "alloc"
  /\ \/ UNCHANGED <<blocks, leaked>>
     \/ blocks' = blocks + 1 /\ leaked' = leaked + 1
  /\ Return(h)
  /\ UNCHANGED <<chain, adds>>

Add1(h) ==
  /\ pc[h] = "add1"
  /\ hash_add_rcu(key_s1(sess[h]), netlink_message_s1(sess[h]))
  /\ pc' = [pc EXCEPT ![h] = "add2"]
  /\ UNCHANGED <<sess, adds, blocks, leaked>>

Add2(h) ==
  /\ pc[h] = "add2"
  /\ hash_add_rcu(key_s2(sess[h]), netlink_message_s2(sess[h]))
  /\ Return(h)
  /\ UNCHANGED <<adds, blocks, leaked>>

Delete1(h) ==
  /\ pc[h] = "del1"
  /\ DeleteBucket(key_s1(sess[h]))
  /\ pc' = [pc EXCEPT ![h] = "del2"]
  /\ UNCHANGED <<sess, adds, leaked>>

Delete2(h) ==
  /\ pc[h] = "del2"
  /\ DeleteBucket(key_s2(sess[h]))
  /\ Return(h)
  /\ UNCHANGED <<adds, leaked>>

(* The callback goes on, once the message has arrived.                     *)
CallbackStep(h) ==
  \/ Allocate(h) \/ AllocateFails(h)
  \/ Add1(h) \/ Add2(h)
  \/ Delete1(h) \/ Delete2(h)

HandlerStep(h) ==
  \/ \E s \in Session : ReceiveSetup(h, s) \/ ReceiveTeardown(h, s)
  \/ CallbackStep(h)

Next == \E h \in Handler : HandlerStep(h)

Spec == Init /\ [][Next]_vars

-----------------------------------------------------------------------------
(* The netfilter hooks, as functions of the table: they change the packet  *)
(* and nothing else.                                                       *)

Packet == [src : Endpoint, dst : Endpoint]

Found(p) == chain[BucketOf[<<p.src.ip, p.dst.port>>]]

Oldest(c) == c[Len(c)]

(* "^ 0x00000001" on an address.                                           *)
Flip(ip) == IF ip % 2 = 0 THEN ip + 1 ELSE ip - 1

WithFlippedSource(p) == [p EXCEPT !.src.ip = Flip(@)]

(* Every entry of the bucket is applied in turn, from the newest on, and   *)
(* each sets all four fields: the oldest one has the last word.            *)
main_hook_pre(p) ==
  IF Found(p) = <<>> THEN p
  ELSE LET e == Oldest(Found(p)) IN
       [src |-> [ip |-> Flip(e.snat.ip), port |-> e.snat.port],
        dst |-> e.src]

(* The lookup is commented out: every UDP packet is changed.               *)
main_hook_post(p) == WithFlippedSource(p)

(* What becomes of a packet that is forwarded.                             *)
Path(p) == main_hook_post(main_hook_pre(p))

Reply(p) == [src |-> p.dst, dst |-> p.src]

-----------------------------------------------------------------------------
(* Properties.                                                             *)

(* Every variable holds a value of its kind, and only a busy handler has a *)
(* session.                                                                *)
TypeOK ==
  /\ chain \in [Bucket -> Seq(Entry)]
  /\ pc \in [Handler -> {"idle", "alloc", "add1", "add2", "del1", "del2"}]
  /\ sess \in [Handler -> Session \union {NoSession}]
  /\ \A h \in Handler : pc[h] # "idle" => sess[h] \in Session
  /\ adds \in 0 .. MaxAdds
  /\ blocks \in Int
  /\ leaked \in Nat

(* Blocks a handler has allocated and not yet put in the table.            *)
Held(h) == CASE pc[h] = "add1" -> 2 [] pc[h] = "add2" -> 1 [] OTHER -> 0

(* The blocks that are entries, by their places, and those still in hand.  *)
InTable == UNION {{b} \X (1 .. Len(chain[b])) : b \in Bucket}
InHand == UNION {{h} \X (1 .. Held(h)) : h \in Handler}

(* Every block that was allocated and not freed is an entry of the table,  *)
(* is about to become one, or was lost when a second kmalloc failed: the   *)
(* two deletion loops free exactly what they unlink.                       *)
BlocksAccounted ==
  blocks = Cardinality(InTable) + Cardinality(InHand) + leaked

(* No two keys of the sessions share a bucket.                             *)
NoCollision ==
  LET Keys == UNION {{key_s1(s), key_s2(s)} : s \in Session} IN
  \A k, l \in Keys : BucketOf[k] = BucketOf[l] => k = l

(* An entry sits in the bucket the hook will look in for the packets of    *)
(* its own sender: those from dnat's address to dst's port.  This is so    *)
(* for the swapped entry too, although its key is computed from other      *)
(* tokens of the message.                                                  *)
OwnBucket ==
  \A b \in Bucket : \A i \in 1 .. Len(chain[b]) :
    BucketOf[key_s1(chain[b][i])] = b

(* No handler is at work on the buckets of session s.                      *)
Quiet(s) ==
  \A h \in Handler :
    pc[h] # "idle" => BucketsOf(s) \intersect BucketsOf(sess[h]) = {}

(* The reply to the packet that the rule of bucket b is meant for comes    *)
(* back to who sent that packet, from where it was sent to.                *)
ComesBack(b) ==
  chain[b] # <<>> =>
    LET e == Oldest(chain[b])
        p == [src |-> e.dnat, dst |-> e.dst]
    IN  Quiet(e) => Path(Reply(Path(p))) = Reply(p)

(* A teardown removes only entries of its own call; same comment.          *)
TeardownIsSpecific ==
  [][\A b \in Bucket : Len(chain'[b]) < Len(chain[b]) =>
       \E h \in Handler :
         /\ pc[h] \in {"del1", "del2"}
         /\ \A i \in 1 .. Len(chain[b]) :
              key_s1(chain[b][i]) \in {key_s1(sess[h]), key_s2(sess[h])}]_vars

-----------------------------------------------------------------------------
(* Without collisions the table implements one rule per key.               *)

SessionEntries ==
  {netlink_message_s1(s) : s \in Session}
    \union {netlink_message_s2(s) : s \in Session}

EntryKey == [e \in SessionEntries |-> key_s1(e)]

(* The rule in force for each key.                                         *)
InForce == [k \in Key |-> IF chain[BucketOf[k]] = <<>> THEN NoSession
                          ELSE Oldest(chain[BucketOf[k]])]

Rules == INSTANCE NatRules WITH
  Rule <- SessionEntries, KeyOf <- EntryKey, NoRule <- NoSession,
  rule <- InForce

(* A packet's translation changes only by being installed where there was  *)
(* none, or removed: not by a setup that is repeated, not by another call. *)
ImplementsRules == Rules!Spec
=============================================================================
