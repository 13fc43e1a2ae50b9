----------------------------- MODULE KernelBucket -----------------------------
(***************************************************************************)
(* One bucket of netlink_hash_table, pointer by pointer: an hlist that the *)
(* netlink callback changes and the prerouting hook walks, on several      *)
(* processors and without a lock.                                          *)
(*                                                                         *)
(* KernelNat takes each change of a bucket, and each walk of a hook, as a  *)
(* single step.  This module says when that is right: which operations may *)
(* overlap, and what is lost when they do.                                 *)
(*                                                                         *)
(* A step is one load from or store to memory that others can see, and all *)
(* see them in one order.  Memory is not given out twice, and a thread     *)
(* that would use memory after it was freed has no step left: what happens *)
(* then is undefined, and no property here speaks of it.                   *)
(***************************************************************************)
EXTENDS Naturals

CONSTANTS
  Node,    \* blocks that kmalloc can return
  Writer,  \* contexts of lrkp_nl_recv_msg, and of lrkp_exit
  Hook,    \* processors in main_hook_pre
  Null,
  Head     \* the address of the bucket's head pointer

ASSUME BucketAssumption ==
  /\ Null \notin Node /\ Head \notin Node \union {Null}
  /\ Writer \intersect Hook = {}

VARIABLES
  first,   \* the head pointer
  next,    \* hash_node.next of each block
  pprev,   \* hash_node.pprev: n stands for the address of n's next
  mem,     \* whether each block is in use
  op,      \* where each thread is
  pos,     \* its loop variable, or the block it inserts
  tmp,     \* temp_node, or the first node that hlist_add_head_rcu has read
  link,    \* next and pprev as hash_del_rcu has read them
  seen,    \* the last entry each hook has applied to its packet
  due,     \* history: the oldest entry when a hook began
  removal, \* history: did a removal overlap the hook's walk?
  crowded, \* history: have two writers overlapped?
  raced    \* history: has a removal overlapped another writer?

list == <<first, next, pprev, mem>>
regs == <<op, pos, tmp, link>>
walk == <<seen, due, removal>>
history == <<crowded, raced>>
vars == <<list, regs, walk, history>>

Thread == Writer \union Hook

Removing == {"load", "unlink", "store", "fix", "free"}
Adding == {"publish", "back"}

-----------------------------------------------------------------------------
(* The entries reached from the head, and the oldest of them.              *)

Reached ==
  {n \in Node : \A S \in SUBSET Node :
     /\ first # Null => first \in S
     /\ \A m \in S : next[m] # Null => next[m] \in S
     => n \in S}

Oldest ==
  IF first = Null THEN Null
  ELSE IF \E n \in Reached : next[n] = Null
         THEN CHOOSE n \in Reached : next[n] = Null
         ELSE Null

Init ==
  /\ first = Null
  /\ next = [n \in Node |-> Null]
  /\ pprev = [n \in Node |-> Null]
  /\ mem = [n \in Node |-> "none"]
  /\ op = [t \in Thread |-> "idle"]
  /\ pos = [t \in Thread |-> Null]
  /\ tmp = [t \in Thread |-> Null]
  /\ link = [t \in Thread |-> <<Null, Null>>]
  /\ seen = [h \in Hook |-> Null]
  /\ due = [h \in Hook |-> Null]
  /\ removal = [h \in Hook |-> FALSE]
  /\ crowded = FALSE
  /\ raced = FALSE

(* Writer w begins; the histories note whom it meets.                      *)
Begins(w, removes) ==
  LET others == {v \in Writer \ {w} : op[v] # "idle"} IN
  /\ op[w] = "idle"
  /\ crowded' = (crowded \/ others # {})
  /\ raced' = (raced \/ \E v \in others : removes \/ op[v] \in Removing)
  /\ removal' = [h \in Hook |-> removal[h] \/ (removes /\ op[h] # "idle")]

InUse(n) == n # Null /\ mem[n] = "live"

-----------------------------------------------------------------------------
(* hash_add_rcu, once the block is allocated and filled.                   *)

NewNode(n) ==
  /\ next' = [next EXCEPT ![n] = first]
  /\ pprev' = [pprev EXCEPT ![n] = Head]

AddReads(w, n) ==
  /\ Begins(w, FALSE)
  /\ mem[n] = "none"
  /\ mem' = [mem EXCEPT ![n] = "live"]
  /\ NewNode(n)
  /\ pos' = [pos EXCEPT ![w] = n]
  /\ tmp' = [tmp EXCEPT ![w] = first]
  /\ op' = [op EXCEPT ![w] = "publish"]
  /\ UNCHANGED <<first, link, seen, due>>

AddPublishes(w) ==
  /\ op[w] = "publish"
  /\ first' = pos[w]
  /\ op' = [op EXCEPT ![w] = IF tmp[w] = Null THEN "idle" ELSE "back"]
  /\ UNCHANGED <<next, pprev, mem, pos, tmp, link, walk, history>>

AddSetsBack(w) ==
  /\ op[w] = "back" /\ InUse(tmp[w])
  /\ pprev' = [pprev EXCEPT ![tmp[w]] = pos[w]]
  /\ op' = [op EXCEPT ![w] = "idle"]
  /\ UNCHANGED <<first, next, mem, pos, tmp, link, walk, history>>

-----------------------------------------------------------------------------
(* hash_for_each_possible_safe with hash_del_rcu and free as its body.     *)

AtEntry(n) == IF n = Null THEN "idle" ELSE "load"

RemoveBegins(w) ==
  /\ Begins(w, TRUE)
  /\ pos' = [pos EXCEPT ![w] = first]
  /\ op' = [op EXCEPT ![w] = AtEntry(first)]
  /\ UNCHANGED <<list, tmp, link, seen, due>>

(* n = pos->next, before the body.                                         *)
LoadNext(t, then) ==
  /\ op[t] = "load" /\ InUse(pos[t])
  /\ tmp' = [tmp EXCEPT ![t] = next[pos[t]]]
  /\ op' = [op EXCEPT ![t] = then]
  /\ UNCHANGED <<list, pos, link, walk, history>>

(* Mutant: the entry is freed where it is, without hash_del_rcu.           *)
RemoveLoadsAndFrees(w) == LoadNext(w, "free")

RemoveLoads(w) == LoadNext(w, "unlink")

(* Mutant: next and pprev are taken for each other.                        *)
LinkSwapped(n) == <<pprev[n], next[n]>>

LinkOf(n) == <<next[n], pprev[n]>>

(* hlist_del_init_rcu does nothing to a node whose pprev is NULL.          *)
RemoveReads(w) ==
  /\ op[w] = "unlink" /\ InUse(pos[w])
  /\ link' = [link EXCEPT ![w] = LinkOf(pos[w])]
  /\ op' = [op EXCEPT ![w] = IF pprev[pos[w]] = Null THEN "free" ELSE "store"]
  /\ UNCHANGED <<list, pos, tmp, walk, history>>

(* *pprev = next.                                                          *)
Store(target, n) ==
  IF target = Head
    THEN first' = n /\ UNCHANGED next
    ELSE /\ InUse(target)
         /\ next' = [next EXCEPT ![target] = n]
         /\ UNCHANGED first

RemoveStores(w) ==
  /\ op[w] = "store"
  /\ Store(link[w][2], link[w][1])
  /\ op' = [op EXCEPT ![w] = "fix"]
  /\ UNCHANGED <<pprev, mem, pos, tmp, link, walk, history>>

RemoveFixes(w) ==
  /\ op[w] = "fix" /\ InUse(pos[w])
  /\ link[w][1] # Null => InUse(link[w][1])
  /\ pprev' = [n \in Node |-> IF n = pos[w] THEN Null
                              ELSE IF n = link[w][1] THEN link[w][2]
                              ELSE pprev[n]]
  /\ op' = [op EXCEPT ![w] = "free"]
  /\ UNCHANGED <<first, next, mem, pos, tmp, link, walk, history>>

(* Mutant: the loop without "safe", as in the commented-out line 343,      *)
(* which looks for the next entry in the one just freed.                   *)
AdvanceUnsafely(t) ==
  /\ op' = [op EXCEPT ![t] = "load"]
  /\ UNCHANGED pos

Advance(t) ==
  /\ pos' = [pos EXCEPT ![t] = tmp[t]]
  /\ op' = [op EXCEPT ![t] = AtEntry(tmp[t])]

(* kfree, at once: no grace period.                                        *)
RemoveFrees(w) ==
  /\ op[w] = "free" /\ InUse(pos[w])
  /\ mem' = [mem EXCEPT ![pos[w]] = "freed"]
  /\ Advance(w)
  /\ UNCHANGED <<first, next, pprev, tmp, link, walk, history>>

-----------------------------------------------------------------------------
(* main_hook_pre walks with the same loop, and only reads.                 *)

WalkBegins(h) ==
  /\ op[h] = "idle"
  /\ pos' = [pos EXCEPT ![h] = first]
  /\ op' = [op EXCEPT ![h] = AtEntry(first)]
  /\ seen' = [seen EXCEPT ![h] = Null]
  /\ due' = [due EXCEPT ![h] = Oldest]
  /\ removal' = [removal EXCEPT ![h] = \E w \in Writer : op[w] \in Removing]
  /\ UNCHANGED <<list, tmp, link, history>>

WalkLoads(h) == LoadNext(h, "apply")

(* Mutant: the loop is left at the first entry.                            *)
ApplyFirst(h) == op' = [op EXCEPT ![h] = "idle"] /\ UNCHANGED pos

ApplyAndAdvance(h) == Advance(h)

(* The packet is rewritten from the entry, and from the next after it.     *)
WalkApplies(h) ==
  /\ op[h] = "apply" /\ InUse(pos[h])
  /\ seen' = [seen EXCEPT ![h] = pos[h]]
  /\ ApplyAndAdvance(h)
  /\ UNCHANGED <<list, tmp, link, due, removal, history>>

-----------------------------------------------------------------------------
WriterStep(w) ==
  \/ (\E n \in Node : AddReads(w, n)) \/ AddPublishes(w) \/ AddSetsBack(w)
  \/ RemoveBegins(w) \/ RemoveLoads(w) \/ RemoveReads(w) \/ RemoveStores(w)
  \/ RemoveFixes(w) \/ RemoveFrees(w)

HookStep(h) == WalkBegins(h) \/ WalkLoads(h) \/ WalkApplies(h)

Next == (\E w \in Writer : WriterStep(w)) \/ \E h \in Hook : HookStep(h)

Spec == Init /\ [][Next]_vars
-----------------------------------------------------------------------------
(* Properties.                                                             *)

(* Every variable holds a value of its kind.                               *)
TypeOK ==
  /\ first \in Node \union {Null}
  /\ next \in [Node -> Node \union {Null}]
  /\ pprev \in [Node -> Node \union {Null, Head}]
  /\ mem \in [Node -> {"none", "live", "freed"}]
  /\ op \in [Thread -> {"idle", "apply"} \union Removing \union Adding]
  /\ pos \in [Thread -> Node \union {Null}]
  /\ tmp \in [Thread -> Node \union {Null}]
  /\ link \in [Thread -> (Node \union {Null}) \X (Node \union {Null, Head})]
  /\ seen \in [Hook -> Node \union {Null}]
  /\ due \in [Hook -> Node \union {Null}]
  /\ removal \in [Hook -> BOOLEAN]
  /\ crowded \in BOOLEAN /\ raced \in BOOLEAN

(* The memory that thread t uses in its next step.                         *)
Uses(t) ==
  CASE op[t] \in {"load", "unlink", "free", "apply"} -> {pos[t]}
    [] op[t] = "store" -> {link[t][2]} \ {Head}
    [] op[t] = "fix" -> {pos[t], link[t][1]} \ {Null}
    [] op[t] = "back" -> {tmp[t]}
    [] OTHER -> {}

(* No callback uses or frees memory that was freed before, unless a        *)
(* teardown overlaps another callback for its bucket: two setups that race *)
(* do no such harm.  No hook does, unless a teardown overlaps its walk:    *)
(* the temp_node of line 345 may then be gone when it is looked at.        *)
NoUseAfterFree ==
  ~raced => \A t \in Thread :
    (t \in Hook => ~removal[t]) => \A n \in Uses(t) : mem[n] = "live"

(* Unless a teardown overlaps another callback, what is reached from the   *)
(* head is a list that ends, and none of it is freed memory; and when      *)
(* callbacks did not overlap at all and none is at work, it is every block *)
(* in use: nothing was lost, and each node's pprev leads back to it.       *)
BucketIntact ==
  ~raced =>
    /\ first # Null => \E n \in Reached : next[n] = Null
    /\ \A n \in Reached : mem[n] = "live"
    /\ ~crowded /\ (\A w \in Writer : op[w] = "idle") =>
         /\ Reached = {n \in Node : mem[n] = "live"}
         /\ \A n \in Reached :
              \/ pprev[n] = Head /\ first = n
              \/ pprev[n] \in Reached /\ next[pprev[n]] = n

(* A packet is translated as if the walk were one step at its beginning,   *)
(* by the entry that was the oldest then, although setups may put entries  *)
(* in the bucket meanwhile, and may even race with each other.             *)
WalkIsAtomic ==
  ~raced => \A h \in Hook :
    op[h] = "idle" /\ ~removal[h] => seen[h] = due[h]

(* When the loop of a teardown that met no other callback ends, the bucket *)
(* is empty.                                                               *)
RemovalEmpties ==
  [][\A w \in Writer :
       op[w] \in Removing /\ op'[w] = "idle" /\ ~raced => first' = Null]_vars
=============================================================================
