-------------------------- MODULE KernelBucketProofs --------------------------
(***************************************************************************)
(* What KernelBucket's runs check for three blocks, two callbacks and one  *)
(* packet, proved for every number of each.                                *)
(*                                                                         *)
(* The invariant says what the bucket looks like while no teardown meets   *)
(* another callback.  There are blocks L, all in use, that the links never *)
(* leave and along which a rank r falls, so that every walk ends; e gives  *)
(* each block the entry at which a walk from it ends.  Setups only add     *)
(* blocks to L, wherever they are interleaved: a setup that overtakes      *)
(* another may lose its block, but the lost block's links still lead into  *)
(* L, and to the same end.  That is why a packet whose walk meets setups   *)
(* only is translated by the entry that was the oldest when it began.      *)
(*                                                                         *)
(* While callbacks do not overlap at all, more holds: what is reached from *)
(* the head is every block in use but the one being put in or taken out,   *)
(* and each pprev leads back, or is about to be set.                       *)
(***************************************************************************)
EXTENDS KernelBucket, TLAPS, NaturalsInduction, WellFoundedInduction

(* Where a writer can be.                                                  *)
Roles == \A w \in Writer : op[w] \in {"idle"} \union Removing \union Adding

(* A teardown at work has marked every walk it met, or that met it.        *)
Marked ==
  \A w \in Writer, h \in Hook :
    op[w] \in Removing /\ op[h] # "idle" => removal[h]

Alone(w) == \A v \in Writer \ {w} : op[v] = "idle"

(* The blocks L, whose links lead down the ranks r to the ends e.          *)
Links(L, r, e) ==
  /\ first \in L \union {Null}
  /\ \A n \in L :
       /\ mem[n] = "live" /\ next[n] \in L \union {Null}
       /\ next[n] # Null => r[next[n]] < r[n] /\ e[next[n]] = e[n]
       /\ next[n] = Null => e[n] = n

(* A block that is not published yet is led to by nothing.                 *)
Adders(L) ==
  \A w \in Writer : op[w] \in Adding =>
    /\ pos[w] \in L /\ tmp[w] \in L \union {Null} /\ next[pos[w]] = tmp[w]
    /\ op[w] = "back" => tmp[w] # Null /\ tmp[w] # first
    /\ op[w] = "publish" =>
         /\ pos[w] # first /\ pprev[pos[w]] = Head
         /\ \A n \in L : next[n] # pos[w]
         /\ \A v \in Writer \ {w} : op[v] \in Adding => pos[v] # pos[w]

(* A teardown always takes the first entry.                                *)
Removers(L) ==
  \A w \in Writer : op[w] \in Removing =>
    /\ Alone(w) /\ pos[w] \in L
    /\ op[w] \in {"load", "unlink", "store"} => pos[w] = first
    /\ op[w] \in {"fix", "free"} => first = next[pos[w]]
    /\ op[w] # "load" => tmp[w] = next[pos[w]]
    /\ op[w] \in {"store", "fix"} => link[w] = <<next[pos[w]], Head>>

(* A walk that no teardown meets ends at the entry that is due.            *)
Hooks(L, e) ==
  \A h \in Hook : ~removal[h] =>
    /\ op[h] = "idle" => seen[h] = due[h]
    /\ op[h] # "idle" =>
         /\ op[h] \in {"load", "apply"}
         /\ pos[h] \in L /\ e[pos[h]] = due[h]
         /\ op[h] = "apply" => tmp[h] = next[pos[h]]

Fits(L, r, e) == Links(L, r, e) /\ Adders(L) /\ Removers(L) /\ Hooks(L, e)

Shape ==
  \E L \in SUBSET Node, r \in [Node -> Nat], e \in [Node -> Node] :
    Fits(L, r, e)

FirstIsHead ==
  first # Null /\ (\A w \in Writer : op[w] # "fix") => pprev[first] = Head

(* Blocks in use that are not in the list: not yet, or no longer.          *)
Apart == {pos[w] : w \in {v \in Writer : op[v] \in {"publish", "fix", "free"}}}

BackIs(n) ==
  \/ pprev[n] = Head /\ first = n
  \/ pprev[n] \in Reached /\ next[pprev[n]] = n

(* Someone is about to set n's pprev.                                      *)
Waits(n) ==
  \E w \in Writer :
    \/ op[w] = "back" /\ tmp[w] = n /\ pos[w] \in Reached /\ next[pos[w]] = n
    \/ op[w] = "fix" /\ first = n

Calm ==
  /\ ~raced
  /\ \A v, w \in Writer : op[v] # "idle" /\ op[w] # "idle" => v = w
  /\ Reached = {n \in Node : mem[n] = "live"} \ Apart
  /\ \A n \in Reached : BackIs(n) \/ Waits(n)
  /\ \A w \in Writer : op[w] = "publish" => tmp[w] = first
  /\ \A w \in Writer : op[w] = "back" => pos[w] = first

(* The inductive invariant.                                                *)
BucketInv ==
  /\ TypeOK /\ Roles /\ Marked
  /\ ~raced => Shape /\ FirstIsHead
  /\ ~crowded => Calm

-----------------------------------------------------------------------------
(* What is reached from a head f by the links nx.                          *)

ReachedFrom(f, nx) ==
  {n \in Node : \A S \in SUBSET Node :
     /\ f # Null => f \in S
     /\ \A m \in S : nx[m] # Null => nx[m] \in S
     => n \in S}

LEMMA ReachedIs ==
  /\ Reached = ReachedFrom(first, next)
  /\ Reached' = ReachedFrom(first', next')
BY DEF Reached, ReachedFrom

LEMMA ReachedLeast ==
  ASSUME NEW f, NEW nx, NEW S \in SUBSET Node,
         f # Null => f \in S,
         \A m \in S : nx[m] # Null => nx[m] \in S
  PROVE  ReachedFrom(f, nx) \subseteq S
BY DEF ReachedFrom

LEMMA ReachedClosed ==
  ASSUME NEW f \in Node \union {Null}, NEW nx \in [Node -> Node \union {Null}]
  PROVE  /\ f # Null => f \in ReachedFrom(f, nx)
         /\ \A m \in ReachedFrom(f, nx) :
              nx[m] # Null => nx[m] \in ReachedFrom(f, nx)
<1>1. f # Null => f \in ReachedFrom(f, nx)
  BY DEF ReachedFrom
<1>2. ASSUME NEW m \in ReachedFrom(f, nx), nx[m] # Null
      PROVE  nx[m] \in ReachedFrom(f, nx)
  <2>1. m \in Node /\ nx[m] \in Node
    BY <1>2 DEF ReachedFrom
  <2>2. ASSUME NEW S \in SUBSET Node, f # Null => f \in S,
               \A k \in S : nx[k] # Null => nx[k] \in S
        PROVE  nx[m] \in S
    BY <1>2, <2>2, ReachedLeast
  <2> QED
    BY <2>1, <2>2 DEF ReachedFrom
<1> QED
  BY <1>1, <1>2

LEMMA ReachedPrepend ==
  ASSUME NEW n \in Node, NEW nx \in [Node -> Node \union {Null}],
         NEW f, f = nx[n]
  PROVE  ReachedFrom(n, nx) = ReachedFrom(f, nx) \union {n}
<1>0. f \in Node \union {Null} /\ n # Null
  BY BucketAssumption
<1>1. ReachedFrom(n, nx) \subseteq ReachedFrom(f, nx) \union {n}
  <2> DEFINE S == ReachedFrom(f, nx) \union {n}
  <2>1. S \in SUBSET Node
    BY DEF ReachedFrom
  <2>2. \A m \in S : nx[m] # Null => nx[m] \in S
    BY <1>0, ReachedClosed
  <2>3. n \in S
    OBVIOUS
  <2> HIDE DEF S
  <2>4. ReachedFrom(n, nx) \subseteq S
    BY <2>1, <2>2, <2>3, ReachedLeast
  <2> QED
    BY <2>4 DEF S
<1>2. n \in ReachedFrom(n, nx)
  BY <1>0, ReachedClosed
<1>3. ReachedFrom(f, nx) \subseteq ReachedFrom(n, nx)
  <2> DEFINE S == ReachedFrom(n, nx)
  <2>1. S \in SUBSET Node
    BY DEF ReachedFrom
  <2>2. \A m \in S : nx[m] # Null => nx[m] \in S
    BY ReachedClosed
  <2>3. f # Null => f \in S
    BY <1>2, <2>2
  <2> HIDE DEF S
  <2>4. ReachedFrom(f, nx) \subseteq S
    BY <2>1, <2>2, <2>3, ReachedLeast
  <2> QED
    BY <2>4 DEF S
<1> QED
  BY <1>1, <1>2, <1>3

(* A change of links that are not reached changes nothing.                 *)
LEMMA ReachedSame ==
  ASSUME NEW f \in Node \union {Null},
         NEW nx \in [Node -> Node \union {Null}],
         NEW ny \in [Node -> Node \union {Null}],
         \A m \in ReachedFrom(f, nx) : ny[m] = nx[m]
  PROVE  ReachedFrom(f, ny) = ReachedFrom(f, nx)
<1> DEFINE X == ReachedFrom(f, nx)
           Y == ReachedFrom(f, ny)
<1>1. X \in SUBSET Node /\ Y \in SUBSET Node
  BY DEF ReachedFrom
<1>2. /\ f # Null => f \in X
      /\ \A m \in X : nx[m] # Null => nx[m] \in X
      /\ f # Null => f \in Y
      /\ \A m \in Y : ny[m] # Null => ny[m] \in Y
  BY ReachedClosed
<1>3. Y \subseteq X
  <2>1. \A m \in X : ny[m] # Null => ny[m] \in X
    BY <1>2
  <2> HIDE DEF X
  <2> QED
    BY <1>1, <1>2, <2>1, ReachedLeast
<1>4. \A m \in Y : nx[m] # Null => nx[m] \in Y
  BY <1>2, <1>3
<1>5. X \subseteq Y
  <2> HIDE DEF Y
  <2> QED
    BY <1>1, <1>2, <1>4, ReachedLeast
<1> QED
  BY <1>3, <1>5

-----------------------------------------------------------------------------
(* The shape of the bucket says where its walks end.                       *)

LEMMA Least ==
  ASSUME NEW T \in SUBSET Nat, T # {}
  PROVE  \E n \in T : \A m \in T : n <= m
<1>1. PICK n \in T : \A m \in T : ~(<<m, n>> \in OpToRel(<, Nat))
  BY WFMin, NatLessThanWellFounded
<1>2. \A m \in T : ~(m < n)
  BY <1>1 DEF OpToRel
<1> QED
  BY <1>2

(* Reached blocks are all of L, and are led to the end of the first.       *)
LEMMA ReachedWithin ==
  ASSUME TypeOK,
         NEW L \in SUBSET Node, NEW r \in [Node -> Nat],
         NEW e \in [Node -> Node], Links(L, r, e)
  PROVE  /\ Reached \subseteq L
         /\ first # Null => \A n \in Reached : e[n] = e[first]
         /\ first # Null => \A n \in Reached : r[n] <= r[first]
<1>0. /\ first # Null => first \in L
      /\ \A n \in L : next[n] # Null =>
           next[n] \in L /\ r[next[n]] < r[n] /\ e[next[n]] = e[n]
  BY DEF Links
<1>1. Reached \subseteq L
  <2>1. ReachedFrom(first, next) \subseteq L
    BY <1>0, ReachedLeast
  <2> QED
    BY <2>1, ReachedIs
<1>2. ASSUME first # Null
      PROVE  Reached \subseteq {n \in L : e[n] = e[first] /\ r[n] <= r[first]}
  <2> DEFINE S == {n \in L : e[n] = e[first] /\ r[n] <= r[first]}
  <2>1. first \in Node /\ r[first] \in Nat /\ first \in S
    BY <1>0, <1>2
  <2>2. \A m \in S : next[m] # Null => next[m] \in S
    <3>1. \A m \in L : r[m] \in Nat
      OBVIOUS
    <3> QED
      BY <1>0, <2>1, <3>1
  <2>3. S \in SUBSET Node
    OBVIOUS
  <2> HIDE DEF S
  <2>4. ReachedFrom(first, next) \subseteq S
    BY <2>1, <2>2, <2>3, ReachedLeast
  <2> QED
    BY <2>4, ReachedIs DEF S
<1> QED
  BY <1>1, <1>2

LEMMA OldestIs ==
  ASSUME TypeOK,
         NEW L \in SUBSET Node, NEW r \in [Node -> Nat],
         NEW e \in [Node -> Node], Links(L, r, e), first # Null
  PROVE  /\ \E n \in Reached : next[n] = Null
         /\ Oldest = e[first]
<1>1. Reached \subseteq L /\ Reached \subseteq Node
  BY ReachedWithin
<1>2. /\ first \in Reached
      /\ \A m \in Reached : next[m] # Null => next[m] \in Reached
  <2>1. first \in Node \union {Null} /\ next \in [Node -> Node \union {Null}]
    BY DEF TypeOK
  <2>2. /\ first \in ReachedFrom(first, next)
        /\ \A m \in ReachedFrom(first, next) :
             next[m] # Null => next[m] \in ReachedFrom(first, next)
    BY <2>1, ReachedClosed
  <2> QED
    BY <2>2, ReachedIs
<1>3. \E n \in Reached : next[n] = Null
  <2> DEFINE T == {r[n] : n \in Reached}
  <2>1. T \in SUBSET Nat /\ T # {}
    BY <1>1, <1>2
  <2> HIDE DEF T
  <2>2. PICK k \in T : \A m \in T : k <= m
    BY <2>1, Least
  <2>3. PICK n \in Reached : k = r[n]
    BY <2>2 DEF T
  <2>4. next[n] # Null => next[n] \in L /\ r[next[n]] < r[n]
    BY <1>1, <2>3 DEF Links
  <2>5. next[n] # Null => r[n] <= r[next[n]]
    BY <1>2, <2>2, <2>3 DEF T
  <2>6. next[n] # Null => r[n] \in Nat /\ r[next[n]] \in Nat
    BY <1>1, <2>3, <2>4
  <2> QED
    BY <2>3, <2>4, <2>5, <2>6
<1>4. ASSUME NEW n \in Reached, next[n] = Null
      PROVE  n = e[first]
  <2>1. e[n] = e[first]
    BY ReachedWithin
  <2>2. e[n] = n
    BY <1>1, <1>4 DEF Links
  <2> QED
    BY <2>1, <2>2
<1>5. Oldest = (CHOOSE n \in Reached : next[n] = Null)
  BY <1>3 DEF Oldest
<1> QED
  BY <1>3, <1>4, <1>5
-----------------------------------------------------------------------------
(* The initial states.                                                     *)

LEMMA BucketStarts == Init => BucketInv
<1> SUFFICES ASSUME Init PROVE BucketInv
  OBVIOUS
<1>1. TypeOK
  BY DEF Init, TypeOK
<1>2. \A w \in Writer : op[w] = "idle"
  BY DEF Init, Thread
<1>3. \A h \in Hook : op[h] = "idle" /\ seen[h] = due[h]
  BY DEF Init, Thread
<1>4. Roles /\ Marked
  BY <1>2 DEF Roles, Marked, Removing
<1>5. Shape
  <2> DEFINE r == [n \in Node |-> 0]
             e == [n \in Node |-> n]
  <2>1. Links({}, r, e)
    BY DEF Init, Links
  <2>2. Adders({}) /\ Removers({}) /\ Hooks({}, e)
    BY <1>2, <1>3 DEF Adders, Removers, Hooks, Adding, Removing
  <2>3. r \in [Node -> Nat] /\ e \in [Node -> Node] /\ {} \in SUBSET Node
    OBVIOUS
  <2> QED
    BY <2>1, <2>2, <2>3 DEF Shape, Fits
<1>6. FirstIsHead /\ ~raced
  BY DEF FirstIsHead, Init
<1>7. Reached = {}
  <2> DEFINE S == {}
  <2>0. S \in SUBSET Node /\ first = Null /\ \A m \in S : FALSE
    BY DEF Init
  <2> HIDE DEF S
  <2>1. ReachedFrom(first, next) \subseteq S
    BY <2>0, ReachedLeast
  <2> QED
    BY <2>1, ReachedIs DEF S
<1>8. Calm
  BY <1>2, <1>6, <1>7 DEF Calm, Init
<1> QED
  BY <1>1, <1>4, <1>5, <1>6, <1>8 DEF BucketInv

-----------------------------------------------------------------------------
(* Types and roles.                                                        *)

LEMMA WriterTypes ==
  ASSUME TypeOK, NEW w \in Writer, WriterStep(w)
  PROVE  TypeOK'
<1> USE DEF Thread, Removing, Adding
<1>1. w \in Thread /\ first \in Node \union {Null}
  BY DEF TypeOK
<1>2. CASE \E n \in Node : AddReads(w, n)
  BY <1>1, <1>2 DEF TypeOK, AddReads, Begins, NewNode
<1>3. CASE AddPublishes(w)
  <2>1. first' \in Node \union {Null}
    BY <1>1, <1>3 DEF TypeOK, AddPublishes
  <2> QED
    BY <1>1, <1>3, <2>1 DEF TypeOK, AddPublishes, walk, history
<1>4. CASE AddSetsBack(w)
  BY <1>1, <1>4 DEF TypeOK, AddSetsBack, walk, history
<1>5. CASE RemoveBegins(w)
  BY <1>1, <1>5 DEF TypeOK, RemoveBegins, Begins, AtEntry, list
<1>6. CASE RemoveLoads(w)
  BY <1>1, <1>6 DEF TypeOK, RemoveLoads, LoadNext, InUse, list, walk, history
<1>7. CASE RemoveReads(w)
  BY <1>1, <1>7
     DEF TypeOK, RemoveReads, LinkOf, InUse, list, walk, history
<1>8. CASE RemoveStores(w)
  <2>1. link[w][1] \in Node \union {Null}
        /\ link[w][2] \in Node \union {Null, Head}
    BY <1>1 DEF TypeOK
  <2>2. first' \in Node \union {Null} /\ next' \in [Node -> Node \union {Null}]
    BY <1>8, <2>1 DEF TypeOK, RemoveStores, Store
  <2> QED
    BY <1>1, <1>8, <2>2 DEF TypeOK, RemoveStores, walk, history
<1>9. CASE RemoveFixes(w)
  <2>1. pprev' \in [Node -> Node \union {Null, Head}]
    <3>1. link[w][2] \in Node \union {Null, Head}
      BY <1>1 DEF TypeOK
    <3>2. \A n \in Node : pprev[n] \in Node \union {Null, Head}
      BY DEF TypeOK
    <3> QED
      BY <1>9, <3>1, <3>2 DEF RemoveFixes
  <2> QED
    BY <1>1, <1>9, <2>1 DEF TypeOK, RemoveFixes, walk, history
<1>10. CASE RemoveFrees(w)
  BY <1>1, <1>10
     DEF TypeOK, RemoveFrees, Advance, AtEntry, InUse, walk, history
<1> QED
  BY <1>2, <1>3, <1>4, <1>5, <1>6, <1>7, <1>8, <1>9, <1>10 DEF WriterStep

LEMMA HookTypes ==
  ASSUME TypeOK, NEW h \in Hook, HookStep(h)
  PROVE  TypeOK'
<1> USE DEF Thread, Removing, Adding
<1>1. h \in Thread /\ first \in Node \union {Null}
  BY DEF TypeOK
<1>2. CASE WalkBegins(h)
  <2>1. Oldest \in Node \union {Null}
    BY DEF Oldest, Reached
  <2> QED
    BY <1>1, <1>2, <2>1 DEF TypeOK, WalkBegins, AtEntry, list, history
<1>3. CASE WalkLoads(h)
  BY <1>1, <1>3 DEF TypeOK, WalkLoads, LoadNext, InUse, list, walk, history
<1>4. CASE WalkApplies(h)
  BY <1>1, <1>4
     DEF TypeOK, WalkApplies, ApplyAndAdvance, Advance, AtEntry, InUse, list,
         history
<1> QED
  BY <1>2, <1>3, <1>4 DEF HookStep

(* What the steps of writer w leave to the others.                         *)
LEMMA WriterAlone ==
  ASSUME TypeOK, NEW w \in Writer, WriterStep(w)
  PROVE  /\ \A t \in Thread \ {w} :
              /\ op'[t] = op[t] /\ pos'[t] = pos[t]
              /\ tmp'[t] = tmp[t] /\ link'[t] = link[t]
         /\ seen' = seen /\ due' = due
         /\ \A h \in Hook : removal[h] => removal'[h]
         /\ \A h \in Hook : op'[h] = op[h]
         /\ raced => raced'
         /\ crowded => crowded'
         /\ op'[w] \in {"idle"} \union Removing \union Adding
         /\ op[w] # "idle" => removal' = removal
         /\ op[w] \in Adding => op'[w] \notin Removing
         /\ op[w] = "idle" =>
              /\ op'[w] \in Removing =>
                   \A h \in Hook : op[h] # "idle" => removal'[h]
<1> USE DEF Thread, Removing, Adding, TypeOK
<1>0. \A h \in Hook : h # w
  BY BucketAssumption
<1>2. CASE \E n \in Node : AddReads(w, n)
  BY <1>0, <1>2 DEF AddReads, Begins
<1>3. CASE AddPublishes(w)
  BY <1>0, <1>3 DEF AddPublishes, walk, history
<1>4. CASE AddSetsBack(w)
  BY <1>0, <1>4 DEF AddSetsBack, walk, history
<1>5. CASE RemoveBegins(w)
  BY <1>0, <1>5 DEF RemoveBegins, Begins, AtEntry
<1>6. CASE RemoveLoads(w)
  BY <1>0, <1>6 DEF RemoveLoads, LoadNext, walk, history
<1>7. CASE RemoveReads(w)
  BY <1>0, <1>7 DEF RemoveReads, walk, history
<1>8. CASE RemoveStores(w)
  BY <1>0, <1>8 DEF RemoveStores, walk, history
<1>9. CASE RemoveFixes(w)
  BY <1>0, <1>9 DEF RemoveFixes, walk, history
<1>10. CASE RemoveFrees(w)
  BY <1>0, <1>10 DEF RemoveFrees, Advance, AtEntry, walk, history
<1> QED
  BY <1>2, <1>3, <1>4, <1>5, <1>6, <1>7, <1>8, <1>9, <1>10 DEF WriterStep

LEMMA WriterMarks ==
  ASSUME TypeOK, Roles, Marked, NEW w \in Writer, WriterStep(w)
  PROVE  Roles' /\ Marked'
<1>1. \A v \in Writer \ {w} : op'[v] = op[v]
  BY WriterAlone DEF Thread
<1>2. Roles'
  BY <1>1, WriterAlone DEF Roles
<1>3. ASSUME NEW v \in Writer, NEW h \in Hook,
             op'[v] \in Removing, op'[h] # "idle"
      PROVE  removal'[h]
  <2>1. op[h] # "idle"
    BY <1>3, WriterAlone
  <2>2. CASE op[v] \in Removing
    BY <2>1, <2>2, WriterAlone DEF Marked
  <2>3. CASE op[v] \notin Removing
    BY <1>1, <1>3, <2>1, <2>3, WriterAlone DEF Roles
  <2> QED
    BY <2>2, <2>3
<1> QED
  BY <1>2, <1>3 DEF Marked

(* What the steps of hook h leave as it is.                                *)
LEMMA HookAlone ==
  ASSUME TypeOK, NEW h \in Hook, HookStep(h)
  PROVE  /\ \A t \in Thread \ {h} :
              /\ op'[t] = op[t] /\ pos'[t] = pos[t]
              /\ tmp'[t] = tmp[t] /\ link'[t] = link[t]
         /\ \A t \in Writer :
              /\ op'[t] = op[t] /\ pos'[t] = pos[t]
              /\ tmp'[t] = tmp[t] /\ link'[t] = link[t]
         /\ \A g \in Hook \ {h} :
              /\ seen'[g] = seen[g] /\ due'[g] = due[g]
              /\ removal'[g] = removal[g]
         /\ UNCHANGED <<list, history>>
         /\ op[h] # "idle" => removal' = removal
         /\ op[h] = "idle" =>
              removal'[h] = \E w \in Writer : op[w] \in Removing
<1> USE DEF Thread, TypeOK
<1>0. \A w \in Writer : h # w
  BY BucketAssumption
<1>1. CASE WalkBegins(h)
  BY <1>0, <1>1 DEF WalkBegins
<1>2. CASE WalkLoads(h)
  BY <1>0, <1>2 DEF WalkLoads, LoadNext, walk
<1>3. CASE WalkApplies(h)
  BY <1>0, <1>3 DEF WalkApplies, ApplyAndAdvance, Advance, walk
<1> QED
  BY <1>1, <1>2, <1>3 DEF HookStep

LEMMA HookMarks ==
  ASSUME TypeOK, Roles, Marked, NEW h \in Hook, HookStep(h)
  PROVE  Roles' /\ Marked'
<1>1. \A w \in Writer : op'[w] = op[w]
  BY HookAlone
<1>2. ASSUME NEW v \in Writer, NEW g \in Hook,
             op'[v] \in Removing, op'[g] # "idle"
      PROVE  removal'[g]
  <2>1. CASE g # h
    <3>1. op[v] \in Removing
      BY <1>1, <1>2
    <3>2. op'[g] = op[g] /\ removal'[g] = removal[g]
      BY <2>1, HookAlone DEF Thread
    <3> QED
      BY <1>2, <3>1, <3>2 DEF Marked
  <2>2. CASE g = h
    <3>1. op[v] \in Removing
      BY <1>1, <1>2
    <3>2. op[h] = "idle" => removal'[h]
      BY <3>1, HookAlone
    <3>3. op[h] # "idle" => removal'[h]
      BY <3>1, HookAlone DEF Marked
    <3> QED
      BY <2>2, <3>2, <3>3
  <2> QED
    BY <2>1, <2>2
<1> QED
  BY <1>1, <1>2 DEF Roles, Marked

-----------------------------------------------------------------------------
(* Each step keeps the shape.  Without a race, a setup meets no teardown,  *)
(* and a teardown meets no callback at all.                                *)

LEMMA ShapeAdds ==
  ASSUME BucketInv, NEW w \in Writer, NEW n \in Node, AddReads(w, n), ~raced'
  PROVE  Shape' /\ FirstIsHead'
<1> USE DEF Thread
<1>0. /\ TypeOK /\ ~raced /\ op[w] = "idle" /\ mem[n] = "none"
      /\ \A v \in Writer \ {w} : op[v] \notin Removing
  <2>1. op[w] = "idle" /\ mem[n] = "none" /\ TypeOK
    BY DEF BucketInv, AddReads, Begins
  <2>2. ~raced /\ \A v \in Writer \ {w} : op[v] # "idle" => op[v] \notin Removing
    BY DEF AddReads, Begins
  <2>3. "idle" \notin Removing
    BY DEF Removing
  <2> QED
    BY <2>1, <2>2, <2>3
<1>1. /\ first' = first
      /\ next' = [next EXCEPT ![n] = first]
      /\ pprev' = [pprev EXCEPT ![n] = Head]
      /\ mem' = [mem EXCEPT ![n] = "live"]
      /\ op'[w] = "publish" /\ pos'[w] = n /\ tmp'[w] = first
  BY <1>0 DEF AddReads, NewNode, TypeOK
<1>2. /\ \A v \in Writer \ {w} :
           op'[v] = op[v] /\ pos'[v] = pos[v] /\ tmp'[v] = tmp[v]
      /\ \A h \in Hook :
           /\ op'[h] = op[h] /\ pos'[h] = pos[h] /\ tmp'[h] = tmp[h]
           /\ seen'[h] = seen[h] /\ due'[h] = due[h]
           /\ removal[h] => removal'[h]
  BY <1>0, WriterAlone, BucketAssumption DEF WriterStep
<1>3. PICK L \in SUBSET Node, r \in [Node -> Nat], e \in [Node -> Node] :
        Fits(L, r, e)
  BY <1>0 DEF BucketInv, Shape
<1>4. Links(L, r, e) /\ Adders(L) /\ Hooks(L, e) /\ FirstIsHead
  BY <1>0, <1>3 DEF Fits, BucketInv
<1>5. n \notin L /\ first \in L \union {Null} /\ n # Null
  BY <1>0, <1>4, BucketAssumption DEF Links
<1>6. PICK K \in SUBSET Node, q \in [Node -> Nat], f \in [Node -> Node] :
        /\ K = L \union {n}
        /\ q = [r EXCEPT ![n] = IF first = Null THEN 0 ELSE r[first] + 1]
        /\ f = [e EXCEPT ![n] = IF first = Null THEN n ELSE e[first]]
  <2>1. /\ L \union {n} \in SUBSET Node
        /\ [r EXCEPT ![n] = IF first = Null THEN 0 ELSE r[first] + 1]
             \in [Node -> Nat]
        /\ [e EXCEPT ![n] = IF first = Null THEN n ELSE e[first]]
             \in [Node -> Node]
    BY <1>5
  <2> QED
    BY <2>1
<1>7. /\ \A m \in L : q[m] = r[m] /\ f[m] = e[m] /\ m # n
      /\ \A m \in L : next'[m] = next[m] /\ mem'[m] = "live"
      /\ next'[n] = first /\ mem'[n] = "live"
      /\ f[n] = IF first = Null THEN n ELSE e[first]
      /\ first # Null => r[first] < q[n]
  <2>1. \A m \in L : m # n /\ m \in Node
    BY <1>5
  <2>2. \A m \in L : q[m] = r[m] /\ f[m] = e[m]
    BY <1>6, <2>1
  <2>3. \A m \in L : next'[m] = next[m] /\ mem'[m] = "live"
    BY <1>0, <1>1, <1>4, <2>1 DEF Links, TypeOK
  <2>4. next'[n] = first /\ mem'[n] = "live"
    BY <1>0, <1>1 DEF TypeOK
  <2>5. f[n] = IF first = Null THEN n ELSE e[first]
    BY <1>6
  <2>6. first # Null => r[first] < q[n]
    BY <1>5, <1>6
  <2> QED
    BY <2>1, <2>2, <2>3, <2>4, <2>5, <2>6
<1>8. Links(K, q, f)'
  <2>1. first' \in K \union {Null}
    BY <1>1, <1>5, <1>6
  <2>2. ASSUME NEW m \in L
        PROVE  /\ mem'[m] = "live" /\ next'[m] \in K \union {Null}
               /\ next'[m] # Null =>
                    q[next'[m]] < q[m] /\ f[next'[m]] = f[m]
               /\ next'[m] = Null => f[m] = m
    BY <1>4, <1>6, <1>7 DEF Links
  <2>3. /\ mem'[n] = "live" /\ next'[n] \in K \union {Null}
        /\ next'[n] # Null => q[next'[n]] < q[n] /\ f[next'[n]] = f[n]
        /\ next'[n] = Null => f[n] = n
    BY <1>5, <1>6, <1>7
  <2> QED
    BY <1>6, <2>1, <2>2, <2>3 DEF Links
<1>9. Adders(K)'
  <2>1. ASSUME NEW v \in Writer \ {w}, op[v] \in Adding
        PROVE  /\ pos[v] \in L /\ pos[v] # n
               /\ tmp[v] \in L \union {Null} /\ next[pos[v]] = tmp[v]
               /\ op[v] = "back" => tmp[v] # Null /\ tmp[v] # first
               /\ op[v] = "publish" =>
                    /\ pos[v] # first /\ pprev[pos[v]] = Head
                    /\ \A m \in L : next[m] # pos[v]
                    /\ \A u \in Writer \ {v} : op[u] \in Adding => pos[u] # pos[v]
    BY <1>4, <1>5, <2>1 DEF Adders
  <2>2. ASSUME NEW v \in Writer \ {w}, op'[v] \in Adding
        PROVE  /\ pos'[v] \in K /\ tmp'[v] \in K \union {Null}
               /\ next'[pos'[v]] = tmp'[v]
               /\ op'[v] = "back" => tmp'[v] # Null /\ tmp'[v] # first'
    BY <1>1, <1>2, <1>6, <1>7, <2>1, <2>2
  <2>3. ASSUME NEW v \in Writer \ {w}, op'[v] = "publish"
        PROVE  /\ pos'[v] # first' /\ pprev'[pos'[v]] = Head
               /\ \A m \in K : next'[m] # pos'[v]
               /\ \A u \in Writer \ {v} : op'[u] \in Adding => pos'[u] # pos'[v]
    <3>1. op[v] = "publish" /\ op[v] \in Adding
      BY <1>2, <2>3 DEF Adding
    <3>2. pos'[v] # first' /\ pprev'[pos'[v]] = Head
      BY <1>0, <1>1, <1>2, <2>1, <3>1 DEF TypeOK
    <3>3. \A m \in K : next'[m] # pos'[v]
      BY <1>2, <1>6, <1>7, <2>1, <3>1
    <3>4. \A u \in Writer \ {v} : op'[u] \in Adding => pos'[u] # pos'[v]
      BY <1>1, <1>2, <2>1, <3>1
    <3> QED
      BY <3>2, <3>3, <3>4
  <2>4. /\ pos'[w] \in K /\ tmp'[w] \in K \union {Null}
        /\ next'[pos'[w]] = tmp'[w] /\ op'[w] # "back"
        /\ pos'[w] # first' /\ pprev'[pos'[w]] = Head
    BY <1>0, <1>1, <1>5, <1>6, <1>7 DEF TypeOK
  <2>5. \A m \in K : next'[m] # pos'[w]
    BY <1>1, <1>4, <1>5, <1>6, <1>7 DEF Links
  <2>6. \A v \in Writer \ {w} : op'[v] \in Adding => pos'[v] # pos'[w]
    BY <1>1, <1>2, <2>1
  <2> QED
    BY <2>2, <2>3, <2>4, <2>5, <2>6 DEF Adders
<1>10. Removers(K)'
  BY <1>0, <1>1, <1>2 DEF Removers, Removing
<1>11. Hooks(K, f)'
  <2> SUFFICES ASSUME NEW h \in Hook, ~removal'[h]
               PROVE  /\ op'[h] = "idle" => seen'[h] = due'[h]
                      /\ op'[h] # "idle" =>
                           /\ op'[h] \in {"load", "apply"}
                           /\ pos'[h] \in K /\ f[pos'[h]] = due'[h]
                           /\ op'[h] = "apply" => tmp'[h] = next'[pos'[h]]
    BY DEF Hooks
  <2> QED
    BY <1>2, <1>4, <1>6, <1>7 DEF Hooks
<1>12. FirstIsHead'
  <2>1. \A v \in Writer : op[v] # "fix"
    BY <1>0 DEF Removing
  <2>2. first # Null => pprev[first] = Head /\ first \in L
    BY <1>4, <1>5, <2>1 DEF FirstIsHead
  <2> QED
    BY <1>0, <1>1, <1>5, <2>2 DEF FirstIsHead, TypeOK
<1> QED
  BY <1>8, <1>9, <1>10, <1>11, <1>12 DEF Shape, Fits

LEMMA ShapePublishes ==
  ASSUME BucketInv, NEW w \in Writer, AddPublishes(w), ~raced'
  PROVE  Shape' /\ FirstIsHead'
<1> USE DEF Thread
<1>0. TypeOK /\ ~raced /\ op[w] = "publish"
  BY DEF BucketInv, AddPublishes, history
<1>1. /\ first' = pos[w] /\ UNCHANGED <<next, pprev, mem, pos, tmp>>
      /\ op'[w] = IF tmp[w] = Null THEN "idle" ELSE "back"
      /\ UNCHANGED <<seen, due, removal>>
      /\ \A t \in Thread \ {w} : op'[t] = op[t]
      /\ \A h \in Hook : op'[h] = op[h]
  BY <1>0, BucketAssumption DEF AddPublishes, walk, TypeOK
<1>3. PICK L \in SUBSET Node, r \in [Node -> Nat], e \in [Node -> Node] :
        Fits(L, r, e)
  BY <1>0 DEF BucketInv, Shape
<1>4. Links(L, r, e) /\ Adders(L) /\ Removers(L) /\ Hooks(L, e)
  BY <1>3 DEF Fits
<1>5. /\ pos[w] \in L /\ pos[w] # Null /\ next[pos[w]] = tmp[w]
      /\ pprev[pos[w]] = Head
      /\ \A n \in L : next[n] # pos[w]
      /\ \A v \in Writer \ {w} : op[v] \in Adding => pos[v] # pos[w]
  BY <1>0, <1>4, BucketAssumption DEF Adders, Adding
<1>6. Links(L, r, e)'
  BY <1>1, <1>4, <1>5 DEF Links
<1>7. Adders(L)'
  <2> SUFFICES ASSUME NEW v \in Writer, op'[v] \in Adding
               PROVE  /\ pos[v] \in L /\ tmp[v] \in L \union {Null}
                      /\ next[pos[v]] = tmp[v]
                      /\ op'[v] = "back" => tmp[v] # Null /\ tmp[v] # pos[w]
                      /\ op'[v] = "publish" =>
                           /\ pos[v] # pos[w] /\ pprev[pos[v]] = Head
                           /\ \A n \in L : next[n] # pos[v]
                           /\ \A u \in Writer \ {v} :
                                op'[u] \in Adding => pos[u] # pos[v]
    BY <1>1 DEF Adders
  <2>1. op[v] \in Adding
    BY <1>0, <1>1 DEF Adding
  <2>2. /\ pos[v] \in L /\ tmp[v] \in L \union {Null} /\ next[pos[v]] = tmp[v]
    BY <1>4, <2>1 DEF Adders
  <2>3. op'[v] = "back" => tmp[v] # Null /\ tmp[v] # pos[w]
    BY <1>1, <1>4, <1>5, <2>1, <2>2 DEF Adders
  <2>4. ASSUME op'[v] = "publish"
        PROVE  /\ pos[v] # pos[w] /\ pprev[pos[v]] = Head
               /\ \A n \in L : next[n] # pos[v]
    BY <1>0, <1>1, <1>4, <1>5, <2>1, <2>4 DEF Adders
  <2>5. ASSUME op'[v] = "publish", NEW u \in Writer \ {v}, op'[u] \in Adding
        PROVE  pos[u] # pos[v]
    <3>1. op[v] = "publish" /\ op[u] \in Adding
      BY <1>0, <1>1, <2>5 DEF Adding
    <3> QED
      BY <1>4, <2>1, <3>1 DEF Adders
  <2> QED
    BY <2>2, <2>3, <2>4, <2>5
<1>8. Removers(L)'
  <2>1. \A v \in Writer : op[v] \notin Removing
    BY <1>0, <1>4 DEF Removers, Alone, Removing
  <2> QED
    BY <1>1, <2>1 DEF Removers, Removing
<1>9. Hooks(L, e)'
  BY <1>1, <1>4 DEF Hooks
<1>10. FirstIsHead'
  BY <1>1, <1>5 DEF FirstIsHead
<1> QED
  BY <1>6, <1>7, <1>8, <1>9, <1>10 DEF Shape, Fits

LEMMA ShapeSetsBack ==
  ASSUME BucketInv, NEW w \in Writer, AddSetsBack(w), ~raced'
  PROVE  Shape' /\ FirstIsHead'
<1> USE DEF Thread
<1>0. TypeOK /\ ~raced /\ op[w] = "back"
  BY DEF BucketInv, AddSetsBack, history
<1>1. /\ UNCHANGED <<first, next, mem, pos, tmp>> /\ op'[w] = "idle"
      /\ pprev' = [pprev EXCEPT ![tmp[w]] = pos[w]]
      /\ UNCHANGED <<seen, due, removal>>
      /\ \A t \in Thread \ {w} : op'[t] = op[t]
      /\ \A h \in Hook : op'[h] = op[h]
  BY <1>0, BucketAssumption DEF AddSetsBack, walk, TypeOK
<1>3. PICK L \in SUBSET Node, r \in [Node -> Nat], e \in [Node -> Node] :
        Fits(L, r, e)
  BY <1>0 DEF BucketInv, Shape
<1>4. /\ Links(L, r, e) /\ Adders(L) /\ Removers(L) /\ Hooks(L, e)
      /\ FirstIsHead
  BY <1>0, <1>3 DEF Fits, BucketInv
<1>5. pos[w] \in L /\ next[pos[w]] = tmp[w] /\ tmp[w] # first
  BY <1>0, <1>4 DEF Adders, Adding
<1>6. Links(L, r, e)'
  BY <1>1, <1>4 DEF Links
<1>7. Adders(L)'
  <2> SUFFICES ASSUME NEW v \in Writer, op'[v] \in Adding
               PROVE  /\ pos[v] \in L /\ tmp[v] \in L \union {Null}
                      /\ next[pos[v]] = tmp[v]
                      /\ op'[v] = "back" => tmp[v] # Null /\ tmp[v] # first
                      /\ op'[v] = "publish" =>
                           /\ pos[v] # first /\ pprev'[pos[v]] = Head
                           /\ \A n \in L : next[n] # pos[v]
                           /\ \A u \in Writer \ {v} :
                                op'[u] \in Adding => pos[u] # pos[v]
    BY <1>1 DEF Adders
  <2>1. op'[v] = op[v] /\ v # w
    BY <1>1 DEF Adding
  <2>2. \A u \in Writer : op'[u] \in Adding => op[u] \in Adding
    BY <1>1 DEF Adding
  <2>3. op'[v] = "publish" => pprev'[pos[v]] = Head
    BY <1>0, <1>1, <1>4, <1>5, <2>1 DEF Adders, TypeOK
  <2> QED
    BY <1>4, <2>1, <2>2, <2>3 DEF Adders
<1>8. Removers(L)'
  <2>1. \A v \in Writer : op[v] \notin Removing
    BY <1>0, <1>4 DEF Removers, Alone, Removing
  <2> QED
    BY <1>1, <2>1 DEF Removers, Removing
<1>9. Hooks(L, e)'
  BY <1>1, <1>4 DEF Hooks
<1>10. FirstIsHead'
  <2>1. first # Null => pprev[first] = Head
    <3>1. \A v \in Writer : op[v] # "fix"
      BY <1>0, <1>4 DEF Removers, Alone, Removing
    <3> QED
      BY <1>4, <3>1 DEF FirstIsHead
  <2> QED
    BY <1>0, <1>1, <1>5, <2>1 DEF FirstIsHead, TypeOK
<1> QED
  BY <1>6, <1>7, <1>8, <1>9, <1>10 DEF Shape, Fits

LEMMA ShapeRemoveBegins ==
  ASSUME BucketInv, NEW w \in Writer, RemoveBegins(w), ~raced'
  PROVE  Shape' /\ FirstIsHead'
<1> USE DEF Thread
<1>0. TypeOK /\ ~raced /\ \A v \in Writer : op[v] = "idle"
  BY DEF BucketInv, RemoveBegins, Begins
<1>1. /\ UNCHANGED <<first, next, pprev, mem, tmp, seen, due>>
      /\ pos'[w] = first /\ op'[w] = AtEntry(first)
      /\ \A v \in Writer \ {w} : op'[v] = "idle"
      /\ \A h \in Hook : /\ op'[h] = op[h]
                         /\ ~removal'[h] => op[h] = "idle"
                         /\ removal[h] => removal'[h]
  BY <1>0, BucketAssumption DEF RemoveBegins, Begins, list, TypeOK
<1>3. PICK L \in SUBSET Node, r \in [Node -> Nat], e \in [Node -> Node] :
        Fits(L, r, e)
  BY <1>0 DEF BucketInv, Shape
<1>4. Links(L, r, e) /\ Hooks(L, e) /\ FirstIsHead
  BY <1>0, <1>3 DEF Fits, BucketInv
<1>6. Links(L, r, e)'
  BY <1>1, <1>4 DEF Links
<1>7. Adders(L)'
  BY <1>1 DEF Adders, Adding, AtEntry
<1>8. Removers(L)'
  BY <1>1, <1>4 DEF Removers, Removing, AtEntry, Alone, Links
<1>9. Hooks(L, e)'
  BY <1>1, <1>4 DEF Hooks
<1>10. FirstIsHead'
  BY <1>0, <1>1, <1>4 DEF FirstIsHead
<1> QED
  BY <1>6, <1>7, <1>8, <1>9, <1>10 DEF Shape, Fits

(* The teardown w, which has the bucket to itself.                         *)
LEMMA RemoverAlone ==
  ASSUME BucketInv, NEW w \in Writer, op[w] \in Removing, WriterStep(w),
         ~raced',
         NEW L \in SUBSET Node, NEW r, NEW e, Fits(L, r, e)
  PROVE  /\ \A v \in Writer \ {w} : op[v] = "idle" /\ op'[v] = "idle"
         /\ op'[w] \notin Adding
         /\ \A h \in Hook : ~removal'[h] =>
              op'[h] = "idle" /\ seen'[h] = due'[h]
         /\ Adders(L)'
         /\ \A K \in SUBSET Node : Adders(K)' /\ Hooks(K, e)'
<1>0. TypeOK /\ Marked /\ ~raced
  BY WriterAlone DEF BucketInv
<1>1. \A v \in Writer \ {w} : op[v] = "idle" /\ op'[v] = "idle"
  <2>1. \A v \in Writer \ {w} : op[v] = "idle"
    BY DEF Fits, Removers, Alone
  <2> QED
    BY <1>0, <2>1, WriterAlone DEF Thread
<1>2. op'[w] \notin Adding
  <2>1. CASE \E n \in Node : AddReads(w, n)
    BY <2>1 DEF AddReads, Begins, Removing
  <2>2. CASE AddPublishes(w) \/ AddSetsBack(w) \/ RemoveBegins(w)
    BY <2>2 DEF AddPublishes, AddSetsBack, RemoveBegins, Begins, Removing
  <2>3. CASE RemoveLoads(w) \/ RemoveReads(w) \/ RemoveStores(w)
             \/ RemoveFixes(w)
    BY <1>0, <2>3 DEF RemoveLoads, LoadNext, RemoveReads, RemoveStores,
       RemoveFixes, Adding, TypeOK, Thread
  <2>4. CASE RemoveFrees(w)
    BY <1>0, <2>4 DEF RemoveFrees, Advance, AtEntry, Adding, TypeOK, Thread
  <2> QED
    BY <2>1, <2>2, <2>3, <2>4 DEF WriterStep
<1>3. \A h \in Hook : ~removal'[h] => op'[h] = "idle" /\ seen'[h] = due'[h]
  <2> SUFFICES ASSUME NEW h \in Hook, ~removal'[h]
               PROVE  op'[h] = "idle" /\ seen'[h] = due'[h]
    OBVIOUS
  <2>1. ~removal[h] /\ op'[h] = op[h] /\ seen' = seen /\ due' = due
    BY <1>0, WriterAlone
  <2>2. op[h] = "idle"
    BY <1>0, <2>1 DEF Marked
  <2>3. seen[h] = due[h]
    BY <2>1, <2>2 DEF Fits, Hooks
  <2> QED
    BY <2>1, <2>2, <2>3
<1>4. \A K \in SUBSET Node : Adders(K)'
  BY <1>1, <1>2 DEF Adders, Adding
<1>5. \A K \in SUBSET Node : Hooks(K, e)'
  BY <1>3 DEF Hooks
<1> QED
  BY <1>1, <1>2, <1>3, <1>4, <1>5

LEMMA ShapeLoads ==
  ASSUME BucketInv, NEW w \in Writer, RemoveLoads(w) \/ RemoveReads(w), ~raced'
  PROVE  Shape' /\ FirstIsHead'
<1> USE DEF Thread
<1>0. /\ TypeOK /\ ~raced /\ op[w] \in Removing /\ WriterStep(w)
      /\ op[w] # "fix" /\ op'[w] # "fix"
      /\ UNCHANGED <<first, next, pprev, mem, pos>>
  BY DEF BucketInv, RemoveLoads, LoadNext, RemoveReads, list, history, Removing,
     WriterStep, TypeOK
<1>3. PICK L \in SUBSET Node, r \in [Node -> Nat], e \in [Node -> Node] :
        Fits(L, r, e)
  BY <1>0 DEF BucketInv, Shape
<1>4. /\ \A v \in Writer \ {w} : op[v] = "idle" /\ op'[v] = "idle"
      /\ Adders(L)' /\ Hooks(L, e)'
  BY <1>0, <1>3, RemoverAlone
<1>5. /\ pos[w] \in L /\ pos[w] = first
      /\ Links(L, r, e) /\ Removers(L) /\ FirstIsHead
  BY <1>0, <1>3 DEF Fits, Removers, BucketInv, RemoveLoads, LoadNext,
     RemoveReads
<1>6. first # Null => pprev[first] = Head
  BY <1>0, <1>4, <1>5 DEF FirstIsHead
<1>7. Links(L, r, e)'
  BY <1>0, <1>5 DEF Links
<1>8. Removers(L)'
  <2>1. CASE RemoveLoads(w)
    <3>1. op'[w] = "unlink" /\ tmp'[w] = next[pos[w]]
      BY <1>0, <2>1 DEF RemoveLoads, LoadNext, TypeOK
    <3> QED
      BY <1>0, <1>4, <1>5, <3>1 DEF Removers, Alone, Removing
  <2>2. CASE RemoveReads(w)
    <3>1. first \in Node /\ first # Null
      BY <1>5, BucketAssumption
    <3>2. /\ op'[w] = "store" /\ link'[w] = <<next[pos[w]], Head>>
          /\ tmp' = tmp /\ op[w] = "unlink"
      BY <1>0, <1>5, <1>6, <2>2, <3>1, BucketAssumption
         DEF RemoveReads, LinkOf, TypeOK
    <3>3. tmp[w] = next[pos[w]]
      BY <1>5, <3>2 DEF Removers, Removing
    <3> QED
      BY <1>0, <1>4, <1>5, <3>2, <3>3 DEF Removers, Alone, Removing
  <2> QED
    BY <2>1, <2>2
<1>9. FirstIsHead'
  BY <1>0, <1>6 DEF FirstIsHead
<1> QED
  BY <1>4, <1>7, <1>8, <1>9 DEF Shape, Fits

LEMMA ShapeStores ==
  ASSUME BucketInv, NEW w \in Writer, RemoveStores(w), ~raced'
  PROVE  /\ Shape' /\ FirstIsHead'
         /\ pos[w] = first /\ first' = next[first] /\ next' = next
<1> USE DEF Thread
<1>0. /\ TypeOK /\ ~raced /\ op[w] \in Removing /\ WriterStep(w)
      /\ op[w] = "store" /\ op'[w] = "fix"
      /\ UNCHANGED <<pprev, mem, pos, tmp, link>>
  BY DEF BucketInv, RemoveStores, history, Removing, WriterStep, TypeOK
<1>3. PICK L \in SUBSET Node, r \in [Node -> Nat], e \in [Node -> Node] :
        Fits(L, r, e)
  BY <1>0 DEF BucketInv, Shape
<1>4. /\ \A v \in Writer \ {w} : op[v] = "idle" /\ op'[v] = "idle"
      /\ Adders(L)' /\ Hooks(L, e)'
  BY <1>0, <1>3, RemoverAlone
<1>5. /\ pos[w] \in L /\ pos[w] = first /\ tmp[w] = next[pos[w]]
      /\ link[w] = <<next[pos[w]], Head>> /\ Links(L, r, e)
  BY <1>0, <1>3 DEF Fits, Removers
<1>6. first' = next[first] /\ next' = next
  BY <1>5 DEF RemoveStores, Store
<1>7. Links(L, r, e)'
  BY <1>0, <1>5, <1>6 DEF Links
<1>8. Removers(L)'
  BY <1>0, <1>4, <1>5, <1>6 DEF Removers, Alone, Removing
<1>9. FirstIsHead'
  BY <1>0 DEF FirstIsHead
<1> QED
  BY <1>4, <1>5, <1>6, <1>7, <1>8, <1>9 DEF Shape, Fits

LEMMA ShapeFixes ==
  ASSUME BucketInv, NEW w \in Writer, RemoveFixes(w), ~raced'
  PROVE  /\ Shape' /\ FirstIsHead'
         /\ first = link[w][1] /\ link[w][2] = Head /\ first # pos[w]
<1> USE DEF Thread
<1>0. /\ TypeOK /\ ~raced /\ op[w] \in Removing /\ WriterStep(w)
      /\ op[w] = "fix" /\ op'[w] = "free"
      /\ UNCHANGED <<first, next, mem, pos, tmp, link>>
  BY DEF BucketInv, RemoveFixes, history, Removing, WriterStep, TypeOK
<1>3. PICK L \in SUBSET Node, r \in [Node -> Nat], e \in [Node -> Node] :
        Fits(L, r, e)
  BY <1>0 DEF BucketInv, Shape
<1>4. /\ \A v \in Writer \ {w} : op[v] = "idle" /\ op'[v] = "idle"
      /\ Adders(L)' /\ Hooks(L, e)'
  BY <1>0, <1>3, RemoverAlone
<1>5. /\ pos[w] \in L /\ first = next[pos[w]] /\ tmp[w] = next[pos[w]]
      /\ link[w] = <<next[pos[w]], Head>> /\ Links(L, r, e)
  BY <1>0, <1>3 DEF Fits, Removers
<1>6. first # pos[w] /\ first = link[w][1] /\ link[w][2] = Head
  <2>1. first # Null => r[first] < r[pos[w]] /\ r[pos[w]] \in Nat
    BY <1>5 DEF Links
  <2>2. pos[w] # Null
    BY <1>5, BucketAssumption
  <2> QED
    BY <1>5, <2>1, <2>2
<1>7. Links(L, r, e)'
  BY <1>0, <1>5 DEF Links
<1>8. Removers(L)'
  BY <1>0, <1>4, <1>5, <1>6 DEF Removers, Alone, Removing
<1>9. FirstIsHead'
  <2>1. first # Null => first \in Node
    BY <1>5 DEF Links
  <2>2. first # Null => pprev'[first] = Head
    BY <1>6, <2>1 DEF RemoveFixes
  <2> QED
    BY <1>0, <2>2 DEF FirstIsHead
<1> QED
  BY <1>4, <1>6, <1>7, <1>8, <1>9 DEF Shape, Fits

LEMMA ShapeFrees ==
  ASSUME BucketInv, NEW w \in Writer, RemoveFrees(w), ~raced'
  PROVE  /\ Shape' /\ FirstIsHead'
         /\ op'[w] = AtEntry(first)
<1> USE DEF Thread
<1>0. /\ TypeOK /\ ~raced /\ op[w] \in Removing /\ WriterStep(w)
      /\ op[w] = "free" /\ pos'[w] = tmp[w] /\ op'[w] = AtEntry(tmp[w])
      /\ mem' = [mem EXCEPT ![pos[w]] = "freed"]
      /\ UNCHANGED <<first, next, pprev, tmp, link>>
  BY DEF BucketInv, RemoveFrees, Advance, history, Removing, WriterStep, TypeOK
<1>3. PICK L \in SUBSET Node, r \in [Node -> Nat], e \in [Node -> Node] :
        Fits(L, r, e)
  BY <1>0 DEF BucketInv, Shape
<1>4. /\ \A v \in Writer \ {w} : op[v] = "idle" /\ op'[v] = "idle"
      /\ \A K \in SUBSET Node : Adders(K)' /\ Hooks(K, e)'
  BY <1>0, <1>3, RemoverAlone
<1>5. /\ pos[w] \in L /\ first = next[pos[w]] /\ tmp[w] = next[pos[w]]
      /\ Links(L, r, e) /\ FirstIsHead
  BY <1>0, <1>3 DEF Fits, Removers, BucketInv
<1>6. PICK K \in SUBSET Node :
        K = {n \in L : first # Null /\ r[n] <= r[first]}
  OBVIOUS
<1>7. pos[w] \notin K /\ (first # Null => first \in K)
  <2>1. first # Null => first \in L /\ r[first] < r[pos[w]]
    BY <1>5 DEF Links
  <2>2. first # Null => r[first] \in Nat /\ r[pos[w]] \in Nat
    BY <1>5, <2>1
  <2> QED
    BY <1>6, <2>1, <2>2
<1>8. Links(K, r, e)'
  <2> SUFFICES ASSUME NEW n \in K
               PROVE  /\ mem'[n] = "live" /\ next[n] \in K \union {Null}
                      /\ next[n] # Null =>
                           r[next[n]] < r[n] /\ e[next[n]] = e[n]
                      /\ next[n] = Null => e[n] = n
    BY <1>0, <1>7 DEF Links
  <2>1. n \in L /\ n # pos[w] /\ first # Null /\ r[n] <= r[first]
    BY <1>6, <1>7
  <2>2. mem[n] = "live" /\ next[n] \in L \union {Null}
    BY <1>5, <2>1 DEF Links
  <2>3. mem'[n] = "live"
    BY <1>0, <2>1, <2>2 DEF TypeOK
  <2>4. next[n] # Null => r[next[n]] < r[n] /\ e[next[n]] = e[n]
    BY <1>5, <2>1 DEF Links
  <2>5. next[n] # Null => next[n] \in K
    <3>1. SUFFICES ASSUME next[n] # Null PROVE next[n] \in K
      OBVIOUS
    <3>2. /\ r[next[n]] \in Nat /\ r[n] \in Nat
          /\ first \in Node /\ r[first] \in Nat
      BY <1>7, <2>1, <2>2, <3>1
    <3> QED
      BY <1>6, <2>1, <2>2, <2>4, <3>1, <3>2
  <2>6. next[n] = Null => e[n] = n
    BY <1>5, <2>1 DEF Links
  <2> QED
    BY <2>3, <2>4, <2>5, <2>6
<1>9. Removers(K)'
  BY <1>0, <1>4, <1>5, <1>7 DEF Removers, Alone, Removing, AtEntry
<1>10. FirstIsHead'
  <2>1. \A v \in Writer : op[v] # "fix"
    BY <1>0, <1>4
  <2> QED
    BY <1>0, <1>5, <2>1 DEF FirstIsHead
<1> QED
  BY <1>0, <1>4, <1>5, <1>8, <1>9, <1>10 DEF Shape, Fits

LEMMA ShapeWalks ==
  ASSUME BucketInv, NEW h \in Hook, HookStep(h), ~raced'
  PROVE  Shape' /\ FirstIsHead'
<1> USE DEF Thread
<1>0. TypeOK /\ ~raced /\ UNCHANGED <<first, next, pprev, mem>>
  BY HookAlone DEF BucketInv, list, history
<1>1. \A w \in Writer :
        /\ op'[w] = op[w] /\ pos'[w] = pos[w]
        /\ tmp'[w] = tmp[w] /\ link'[w] = link[w]
  BY <1>0, HookAlone
<1>2. \A g \in Hook \ {h} :
        /\ op'[g] = op[g] /\ pos'[g] = pos[g] /\ tmp'[g] = tmp[g]
        /\ seen'[g] = seen[g] /\ due'[g] = due[g] /\ removal'[g] = removal[g]
  BY <1>0, HookAlone
<1>3. PICK L \in SUBSET Node, r \in [Node -> Nat], e \in [Node -> Node] :
        Fits(L, r, e)
  BY <1>0 DEF BucketInv, Shape
<1>4. /\ Links(L, r, e) /\ Adders(L) /\ Removers(L) /\ Hooks(L, e)
      /\ FirstIsHead
  BY <1>0, <1>3 DEF Fits, BucketInv
<1>6. Links(L, r, e)'
  BY <1>0, <1>4 DEF Links
<1>7. Adders(L)'
  <2> SUFFICES ASSUME NEW v \in Writer, op[v] \in Adding
               PROVE  /\ pos[v] \in L /\ tmp[v] \in L \union {Null}
                      /\ next[pos[v]] = tmp[v]
                      /\ op[v] = "back" => tmp[v] # Null /\ tmp[v] # first
                      /\ op[v] = "publish" =>
                           /\ pos[v] # first /\ pprev[pos[v]] = Head
                           /\ \A n \in L : next[n] # pos[v]
                           /\ \A u \in Writer \ {v} :
                                op[u] \in Adding => pos[u] # pos[v]
    BY <1>0, <1>1 DEF Adders
  <2> QED
    BY <1>4 DEF Adders
<1>8. Removers(L)'
  <2>1. \A v \in Writer : Alone(v)' = Alone(v)
    BY <1>1 DEF Alone
  <2> QED
    BY <1>0, <1>1, <1>4, <2>1 DEF Removers
<1>9. Hooks(L, e)'
  <2> SUFFICES ASSUME ~removal'[h]
               PROVE  /\ op'[h] = "idle" => seen'[h] = due'[h]
                      /\ op'[h] # "idle" =>
                           /\ op'[h] \in {"load", "apply"}
                           /\ pos'[h] \in L /\ e[pos'[h]] = due'[h]
                           /\ op'[h] = "apply" => tmp'[h] = next'[pos'[h]]
    BY <1>0, <1>2, <1>4 DEF Hooks
  <2>1. CASE WalkBegins(h)
    <3>1. /\ pos'[h] = first /\ op'[h] = AtEntry(first)
          /\ seen'[h] = Null /\ due'[h] = Oldest
      BY <1>0, <2>1 DEF WalkBegins, TypeOK
    <3>2. first = Null => Oldest = Null
      BY DEF Oldest
    <3>3. first # Null => Oldest = e[first] /\ first \in L
      BY <1>0, <1>4, OldestIs DEF Links
    <3> QED
      BY <3>1, <3>2, <3>3 DEF AtEntry
  <2>2. CASE WalkLoads(h)
    <3>1. /\ op[h] = "load" /\ op'[h] = "apply" /\ tmp'[h] = next[pos[h]]
          /\ pos' = pos /\ due' = due /\ removal' = removal
      BY <1>0, <2>2 DEF WalkLoads, LoadNext, TypeOK, walk
    <3> QED
      BY <1>0, <1>4, <3>1 DEF Hooks
  <2>3. CASE WalkApplies(h)
    <3>1. /\ op[h] = "apply" /\ op'[h] = AtEntry(tmp[h]) /\ pos'[h] = tmp[h]
          /\ seen'[h] = pos[h] /\ due' = due /\ removal' = removal
      BY <1>0, <2>3 DEF WalkApplies, ApplyAndAdvance, Advance, TypeOK
    <3>2. pos[h] \in L /\ e[pos[h]] = due[h] /\ tmp[h] = next[pos[h]]
      BY <1>4, <3>1 DEF Hooks
    <3>3. /\ tmp[h] # Null => tmp[h] \in L /\ e[tmp[h]] = e[pos[h]]
          /\ tmp[h] = Null => e[pos[h]] = pos[h]
      BY <1>4, <3>2 DEF Links
    <3> QED
      BY <3>1, <3>2, <3>3 DEF AtEntry
  <2> QED
    BY <2>1, <2>2, <2>3 DEF HookStep
<1>10. FirstIsHead'
  BY <1>0, <1>1, <1>4 DEF FirstIsHead
<1> QED
  BY <1>6, <1>7, <1>8, <1>9, <1>10 DEF Shape, Fits

-----------------------------------------------------------------------------
(* Each step keeps what holds while callbacks do not overlap.              *)

(* A callback that is at work has the bucket to itself.                    *)
LEMMA CalmAlone ==
  ASSUME BucketInv, NEW w \in Writer, WriterStep(w), ~crowded', ~raced'
  PROVE  /\ TypeOK /\ ~crowded /\ ~raced /\ Calm /\ Shape /\ FirstIsHead
         /\ \A v \in Writer \ {w} : op[v] = "idle" /\ op'[v] = "idle"
         /\ \A u, v \in Writer : op'[u] # "idle" /\ op'[v] # "idle" => u = v
         /\ Apart = IF op[w] \in {"publish", "fix", "free"} THEN {pos[w]} ELSE {}
         /\ Apart' =
              IF op'[w] \in {"publish", "fix", "free"} THEN {pos'[w]} ELSE {}
<1> USE DEF Thread
<1>1. TypeOK /\ ~crowded /\ ~raced /\ Calm /\ Shape /\ FirstIsHead
  BY WriterAlone DEF BucketInv
<1>2. \A v \in Writer \ {w} : op[v] = "idle"
  <2>1. CASE op[w] = "idle"
    <3>1. CASE \E n \in Node : AddReads(w, n)
      BY <3>1 DEF AddReads, Begins
    <3>2. CASE RemoveBegins(w)
      BY <3>2 DEF RemoveBegins, Begins
    <3> QED
      BY <2>1, <3>1, <3>2
         DEF WriterStep, AddPublishes, AddSetsBack, RemoveLoads, LoadNext,
             RemoveReads, RemoveStores, RemoveFixes, RemoveFrees
  <2>2. CASE op[w] # "idle"
    BY <1>1, <2>2 DEF Calm
  <2> QED
    BY <2>1, <2>2
<1>3. \A v \in Writer \ {w} : op'[v] = "idle"
  BY <1>1, <1>2, WriterAlone
<1>4. \A u, v \in Writer : op'[u] # "idle" /\ op'[v] # "idle" => u = v
  BY <1>3
<1>5. Apart = IF op[w] \in {"publish", "fix", "free"} THEN {pos[w]} ELSE {}
  BY <1>2 DEF Apart
<1>6. Apart' =
        IF op'[w] \in {"publish", "fix", "free"} THEN {pos'[w]} ELSE {}
  BY <1>3 DEF Apart
<1> QED
  BY <1>1, <1>2, <1>3, <1>4, <1>5, <1>6

(* Steps that change nothing but where a thread is.                        *)
LEMMA SameReached ==
  ASSUME first' = first, next' = next
  PROVE  Reached' = Reached
BY ReachedIs

LEMMA CalmAdds ==
  ASSUME BucketInv, NEW w \in Writer, NEW n \in Node, AddReads(w, n),
         ~crowded', ~raced'
  PROVE  Calm'
<1> USE DEF Thread
<1>1. WriterStep(w)
  BY DEF WriterStep
<1>2. /\ TypeOK /\ ~raced /\ Calm /\ Shape
      /\ \A v \in Writer \ {w} : op[v] = "idle" /\ op'[v] = "idle"
      /\ \A u, v \in Writer : op'[u] # "idle" /\ op'[v] # "idle" => u = v
  BY <1>1, CalmAlone
<1>3. /\ op[w] = "idle" /\ mem[n] = "none" /\ first' = first
      /\ next' = [next EXCEPT ![n] = first]
      /\ pprev' = [pprev EXCEPT ![n] = Head]
      /\ mem' = [mem EXCEPT ![n] = "live"]
      /\ op'[w] = "publish" /\ pos'[w] = n /\ tmp'[w] = first
  BY <1>2 DEF AddReads, Begins, NewNode, TypeOK
<1>4. Apart = {} /\ Apart' = {n}
  BY <1>1, <1>3, CalmAlone
<1>5. Reached \subseteq Node /\ n \notin Reached
      /\ Reached = {m \in Node : mem[m] = "live"}
  BY <1>2, <1>3, <1>4 DEF Calm
<1>6. \A m \in Reached : next'[m] = next[m] /\ pprev'[m] = pprev[m]
  BY <1>2, <1>3, <1>5 DEF TypeOK
<1>7. Reached' = Reached
  <2>1. /\ first \in Node \union {Null} /\ next \in [Node -> Node \union {Null}]
        /\ next' \in [Node -> Node \union {Null}]
    BY <1>2, <1>3 DEF TypeOK
  <2>2. \A m \in ReachedFrom(first, next) : next'[m] = next[m]
    BY <1>6, ReachedIs
  <2>3. ReachedFrom(first, next') = ReachedFrom(first, next)
    BY <2>1, <2>2, ReachedSame
  <2> QED
    BY <1>3, <2>3, ReachedIs
<1>8. Reached' = {m \in Node : mem'[m] = "live"} \ Apart'
  BY <1>2, <1>3, <1>4, <1>5, <1>7 DEF TypeOK
<1>9. \A m \in Reached' : BackIs(m)'
  <2> SUFFICES ASSUME NEW m \in Reached PROVE BackIs(m)'
    BY <1>7
  <2>1. BackIs(m)
    BY <1>2, <1>3 DEF Calm, Waits
  <2> QED
    BY <1>3, <1>6, <1>7, <2>1 DEF BackIs
<1>10. /\ \A v \in Writer : op'[v] = "publish" => tmp'[v] = first'
       /\ \A v \in Writer : op'[v] # "back"
  BY <1>2, <1>3
<1> QED
  BY <1>2, <1>8, <1>9, <1>10 DEF Calm

LEMMA CalmPublishes ==
  ASSUME BucketInv, NEW w \in Writer, AddPublishes(w), ~crowded', ~raced'
  PROVE  Calm'
<1> USE DEF Thread
<1>1. WriterStep(w)
  BY DEF WriterStep
<1>2. /\ TypeOK /\ ~raced /\ Calm /\ Shape
      /\ \A v \in Writer \ {w} : op[v] = "idle" /\ op'[v] = "idle"
      /\ \A u, v \in Writer : op'[u] # "idle" /\ op'[v] # "idle" => u = v
  BY <1>1, CalmAlone
<1>3. /\ op[w] = "publish" /\ first' = pos[w]
      /\ UNCHANGED <<next, pprev, mem, pos, tmp>>
      /\ op'[w] = IF tmp[w] = Null THEN "idle" ELSE "back"
  BY <1>2 DEF AddPublishes, TypeOK
<1>4. Apart = {pos[w]} /\ Apart' = {}
  BY <1>1, <1>3, CalmAlone
<1>5. /\ pos[w] \in Node /\ mem[pos[w]] = "live" /\ next[pos[w]] = tmp[w]
      /\ pprev[pos[w]] = Head /\ tmp[w] = first
  BY <1>2, <1>3 DEF Shape, Fits, Links, Adders, Adding, Calm
<1>6. Reached' = Reached \union {pos[w]}
  <2>1. ReachedFrom(pos[w], next) = ReachedFrom(first, next) \union {pos[w]}
    BY <1>2, <1>5, ReachedPrepend DEF TypeOK
  <2> QED
    BY <1>3, <2>1, ReachedIs
<1>7. Reached' = {m \in Node : mem'[m] = "live"} \ Apart'
  BY <1>2, <1>3, <1>4, <1>5, <1>6 DEF Calm
<1>8. ASSUME NEW m \in Reached' PROVE BackIs(m)' \/ Waits(m)'
  <2>1. CASE m = pos[w]
    BY <1>3, <1>5, <2>1 DEF BackIs
  <2>2. CASE m \in Reached
    <3>1. BackIs(m)
      BY <1>2, <1>3, <2>2 DEF Calm, Waits
    <3>2. CASE pprev[m] = Head /\ first = m
      <4>1. m # Null
        BY <2>2, BucketAssumption DEF Reached
      <4>2. op'[w] = "back" /\ tmp'[w] = m /\ pos'[w] \in Reached'
            /\ next'[pos'[w]] = m
        BY <1>3, <1>5, <1>6, <3>2, <4>1
      <4> QED
        BY <4>2 DEF Waits
    <3>3. CASE pprev[m] \in Reached /\ next[pprev[m]] = m
      BY <1>3, <1>6, <3>3 DEF BackIs
    <3> QED
      BY <3>1, <3>2, <3>3 DEF BackIs
  <2> QED
    BY <1>6, <2>1, <2>2
<1>9. /\ \A v \in Writer : op'[v] # "publish"
      /\ \A v \in Writer : op'[v] = "back" => pos'[v] = first'
  BY <1>2, <1>3
<1>10. ~raced'
  OBVIOUS
<1> QED
  BY <1>2, <1>7, <1>8, <1>9, <1>10 DEF Calm

LEMMA CalmSetsBack ==
  ASSUME BucketInv, NEW w \in Writer, AddSetsBack(w), ~crowded', ~raced'
  PROVE  Calm'
<1> USE DEF Thread
<1>1. WriterStep(w)
  BY DEF WriterStep
<1>2. /\ TypeOK /\ ~raced /\ Calm
      /\ \A v \in Writer \ {w} : op[v] = "idle" /\ op'[v] = "idle"
      /\ \A u, v \in Writer : op'[u] # "idle" /\ op'[v] # "idle" => u = v
  BY <1>1, CalmAlone
<1>3. /\ op[w] = "back" /\ op'[w] = "idle"
      /\ UNCHANGED <<first, next, mem, pos, tmp>>
      /\ pprev' = [pprev EXCEPT ![tmp[w]] = pos[w]]
  BY <1>2 DEF AddSetsBack, TypeOK
<1>4. Apart = {} /\ Apart' = {} /\ Reached' = Reached
  BY <1>1, <1>3, CalmAlone, SameReached
<1>5. Reached' = {m \in Node : mem'[m] = "live"} \ Apart'
  BY <1>2, <1>3, <1>4 DEF Calm
<1>6. ASSUME NEW m \in Reached' PROVE BackIs(m)'
  <2>1. m \in Reached /\ m \in Node
    BY <1>4 DEF Reached
  <2>2. BackIs(m) \/ Waits(m)
    BY <1>2, <2>1 DEF Calm
  <2>3. CASE m = tmp[w] /\ Waits(m)
    <3>1. pos[w] \in Reached /\ next[pos[w]] = m
      BY <1>2, <1>3, <2>3 DEF Waits
    <3>2. pprev'[m] = pos[w]
      BY <1>2, <1>3, <2>1, <2>3 DEF TypeOK
    <3> QED
      BY <1>3, <1>4, <3>1, <3>2 DEF BackIs
  <2>4. Waits(m) => m = tmp[w]
    BY <1>2, <1>3 DEF Waits
  <2>5. CASE m # tmp[w]
    <3>1. pprev'[m] = pprev[m]
      BY <1>2, <1>3, <2>1, <2>5 DEF TypeOK
    <3> QED
      BY <1>3, <1>4, <2>2, <2>4, <2>5, <3>1 DEF BackIs
  <2>6. CASE m = tmp[w] /\ ~Waits(m)
    <3>1. pos[w] = first /\ first \in Node \union {Null}
      BY <1>2, <1>3 DEF Calm, TypeOK
    <3>2. pos[w] \in Node /\ next[pos[w]] = tmp[w]
      BY <1>2, <1>3 DEF BucketInv, Shape, Fits, Adders, Adding
    <3>3. pos[w] \in Reached
      <4>1. first # Null
        BY <3>1, <3>2, BucketAssumption
      <4>2. first \in ReachedFrom(first, next)
        BY <1>2, <3>1, <4>1, ReachedClosed DEF TypeOK
      <4> QED
        BY <3>1, <4>2, ReachedIs
    <3> QED
      BY <1>3, <2>6, <3>2, <3>3 DEF Waits
  <2> QED
    BY <2>3, <2>5, <2>6
<1>7. \A v \in Writer : op'[v] # "publish" /\ op'[v] # "back"
  BY <1>2, <1>3
<1> QED
  BY <1>2, <1>5, <1>6, <1>7 DEF Calm

LEMMA CalmReads ==
  ASSUME BucketInv, NEW w \in Writer,
         RemoveBegins(w) \/ RemoveLoads(w) \/ RemoveReads(w),
         ~crowded', ~raced', FirstIsHead'
  PROVE  Calm'
<1> USE DEF Thread
<1>1. WriterStep(w)
  BY DEF WriterStep
<1>2. /\ TypeOK /\ ~raced /\ Calm /\ Shape /\ FirstIsHead
      /\ \A v \in Writer \ {w} : op[v] = "idle" /\ op'[v] = "idle"
      /\ \A u, v \in Writer : op'[u] # "idle" /\ op'[v] # "idle" => u = v
  BY <1>1, CalmAlone
<1>3. UNCHANGED <<first, next, pprev, mem>>
  BY DEF RemoveBegins, RemoveLoads, LoadNext, RemoveReads, list
<1>4. op[w] \in {"idle", "load", "unlink"}
  BY DEF RemoveBegins, Begins, RemoveLoads, LoadNext, RemoveReads
<1>5. op'[w] \in {"idle", "load", "unlink", "store"}
  <2>1. CASE RemoveBegins(w) \/ RemoveLoads(w)
    BY <1>2, <2>1
       DEF RemoveBegins, RemoveLoads, LoadNext, AtEntry, TypeOK
  <2>2. CASE RemoveReads(w)
    <3>1. op[w] = "unlink"
      BY <2>2 DEF RemoveReads
    <3>2. pos[w] = first /\ pos[w] \in Node
      BY <1>2, <3>1 DEF Shape, Fits, Removers, Removing
    <3>3. pprev[pos[w]] = Head
      BY <1>2, <3>1, <3>2, BucketAssumption DEF FirstIsHead
    <3> QED
      BY <1>2, <2>2, <3>3, BucketAssumption DEF RemoveReads, TypeOK
  <2> QED
    BY <2>1, <2>2
<1>6. Apart = {} /\ Apart' = {} /\ Reached' = Reached
  <2>1. Apart = {}
    BY <1>1, <1>4, CalmAlone
  <2>2. Apart' = {}
    BY <1>1, <1>5, CalmAlone
  <2> QED
    BY <1>3, <2>1, <2>2, SameReached
<1>7. Reached' = {m \in Node : mem'[m] = "live"} \ Apart'
  BY <1>2, <1>3, <1>6 DEF Calm
<1>8. ASSUME NEW m \in Reached' PROVE BackIs(m)'
  <2>1. BackIs(m) \/ Waits(m)
    BY <1>2, <1>6 DEF Calm
  <2>2. ~Waits(m)
    BY <1>2, <1>4 DEF Waits
  <2> QED
    BY <1>3, <1>6, <2>1, <2>2 DEF BackIs
<1>9. \A v \in Writer : op'[v] # "publish" /\ op'[v] # "back"
  BY <1>2, <1>5
<1> QED
  BY <1>2, <1>7, <1>8, <1>9 DEF Calm

LEMMA CalmStores ==
  ASSUME BucketInv, NEW w \in Writer, RemoveStores(w), ~crowded', ~raced'
  PROVE  Calm'
<1> USE DEF Thread
<1>1. WriterStep(w)
  BY DEF WriterStep
<1>2. /\ TypeOK /\ ~raced /\ Calm /\ Shape
      /\ \A v \in Writer \ {w} : op[v] = "idle" /\ op'[v] = "idle"
      /\ \A u, v \in Writer : op'[u] # "idle" /\ op'[v] # "idle" => u = v
  BY <1>1, CalmAlone
<1>3. /\ op[w] = "store" /\ op'[w] = "fix"
      /\ UNCHANGED <<pprev, mem, pos, tmp>>
      /\ pos[w] = first /\ first' = next[first] /\ next' = next
  BY <1>2, ShapeStores DEF RemoveStores, TypeOK
<1>4. Apart = {} /\ Apart' = {first}
  BY <1>1, <1>3, CalmAlone
<1>5. PICK L \in SUBSET Node, r \in [Node -> Nat], e \in [Node -> Node] :
        Links(L, r, e) /\ first \in L
  BY <1>2, <1>3 DEF Shape, Fits, Removers, Removing
<1>6. Reached = Reached' \union {first} /\ first \notin Reached'
  <2>1. Reached = Reached' \union {first}
    <3>1. ReachedFrom(first, next)
            = ReachedFrom(next[first], next) \union {first}
      BY <1>2, <1>5, ReachedPrepend DEF TypeOK
    <3> QED
      BY <1>3, <3>1, ReachedIs
  <2>2. first \notin Reached'
    <3> DEFINE S == {n \in L : r[n] < r[first]}
    <3>0. \A n \in L : r[n] \in Nat
      OBVIOUS
    <3>1. \A n \in L : next[n] # Null => next[n] \in L /\ r[next[n]] < r[n]
      BY <1>5 DEF Links
    <3>2. \A n \in S : next[n] # Null => next[n] \in S
      BY <1>5, <3>0, <3>1
    <3>3. next[first] # Null => next[first] \in S
      BY <1>5, <3>1
    <3>4. S \in SUBSET Node /\ first \notin S
      BY <1>5, <3>0
    <3> HIDE DEF S
    <3>5. ReachedFrom(next[first], next) \subseteq S
      BY <3>2, <3>3, <3>4, ReachedLeast
    <3> QED
      BY <1>3, <3>4, <3>5, ReachedIs
  <2> QED
    BY <2>1, <2>2
<1>7. Reached' = {m \in Node : mem'[m] = "live"} \ Apart'
  BY <1>2, <1>3, <1>4, <1>6 DEF Calm
<1>8. ASSUME NEW m \in Reached' PROVE BackIs(m)' \/ Waits(m)'
  <2>1. m \in Reached /\ m # first
    BY <1>6
  <2>2. BackIs(m)
    BY <1>2, <1>3, <2>1 DEF Calm, Waits
  <2>3. pprev[m] \in Reached /\ next[pprev[m]] = m
    BY <2>1, <2>2 DEF BackIs
  <2>4. CASE pprev[m] = first
    BY <1>3, <2>3, <2>4 DEF Waits
  <2>5. CASE pprev[m] # first
    BY <1>3, <1>6, <2>3, <2>5 DEF BackIs
  <2> QED
    BY <2>4, <2>5
<1>9. \A v \in Writer : op'[v] # "publish" /\ op'[v] # "back"
  BY <1>2, <1>3
<1> QED
  BY <1>2, <1>7, <1>8, <1>9 DEF Calm

LEMMA CalmFixes ==
  ASSUME BucketInv, NEW w \in Writer, RemoveFixes(w), ~crowded', ~raced'
  PROVE  Calm'
<1> USE DEF Thread
<1>1. WriterStep(w)
  BY DEF WriterStep
<1>2. /\ TypeOK /\ ~raced /\ Calm /\ Shape
      /\ \A v \in Writer \ {w} : op[v] = "idle" /\ op'[v] = "idle"
      /\ \A u, v \in Writer : op'[u] # "idle" /\ op'[v] # "idle" => u = v
  BY <1>1, CalmAlone
<1>3. /\ op[w] = "fix" /\ op'[w] = "free"
      /\ UNCHANGED <<first, next, mem, pos, tmp>>
      /\ pprev' = [n \in Node |-> IF n = pos[w] THEN Null
                                  ELSE IF n = first THEN Head
                                  ELSE pprev[n]]
      /\ first # pos[w]
  <2>1. first = link[w][1] /\ link[w][2] = Head /\ first # pos[w]
    BY ShapeFixes
  <2>2. /\ op[w] = "fix" /\ op' = [op EXCEPT ![w] = "free"]
        /\ UNCHANGED <<first, next, mem, pos, tmp>>
        /\ pprev' = [n \in Node |-> IF n = pos[w] THEN Null
                                    ELSE IF n = link[w][1] THEN link[w][2]
                                    ELSE pprev[n]]
    BY DEF RemoveFixes
  <2>3. op'[w] = "free"
    BY <1>2, <2>2 DEF TypeOK
  <2> QED
    BY <2>1, <2>2, <2>3
<1>4. Apart = {pos[w]} /\ Apart' = {pos[w]} /\ Reached' = Reached
  BY <1>1, <1>3, CalmAlone, SameReached
<1>7. Reached' = {m \in Node : mem'[m] = "live"} \ Apart'
  BY <1>2, <1>3, <1>4 DEF Calm
<1>8. ASSUME NEW m \in Reached' PROVE BackIs(m)'
  <2>1. m \in Reached /\ m # pos[w] /\ m \in Node
    BY <1>2, <1>4 DEF Calm
  <2>2. CASE m = first
    BY <1>3, <2>1, <2>2 DEF BackIs
  <2>3. CASE m # first
    <3>1. BackIs(m)
      BY <1>2, <1>3, <2>1, <2>3 DEF Calm, Waits
    <3>2. pprev'[m] = pprev[m]
      BY <1>3, <2>1, <2>3
    <3> QED
      BY <1>3, <1>4, <2>3, <3>1, <3>2 DEF BackIs
  <2> QED
    BY <2>2, <2>3
<1>9. \A v \in Writer : op'[v] # "publish" /\ op'[v] # "back"
  BY <1>2, <1>3
<1> QED
  BY <1>2, <1>7, <1>8, <1>9 DEF Calm

LEMMA CalmFrees ==
  ASSUME BucketInv, NEW w \in Writer, RemoveFrees(w), ~crowded', ~raced'
  PROVE  Calm'
<1> USE DEF Thread
<1>1. WriterStep(w)
  BY DEF WriterStep
<1>2. /\ TypeOK /\ ~raced /\ Calm /\ Shape
      /\ \A v \in Writer \ {w} : op[v] = "idle" /\ op'[v] = "idle"
      /\ \A u, v \in Writer : op'[u] # "idle" /\ op'[v] # "idle" => u = v
  BY <1>1, CalmAlone
<1>3. /\ op[w] = "free" /\ op'[w] \in {"idle", "load"}
      /\ UNCHANGED <<first, next, pprev, tmp>>
      /\ mem' = [mem EXCEPT ![pos[w]] = "freed"]
  BY <1>2, ShapeFrees DEF RemoveFrees, AtEntry
<1>4. Apart = {pos[w]} /\ Apart' = {} /\ Reached' = Reached
  <2>1. Apart = {pos[w]}
    BY <1>1, <1>3, CalmAlone
  <2>2. Apart' = {}
    BY <1>1, <1>3, CalmAlone
  <2> QED
    BY <1>3, <2>1, <2>2, SameReached
<1>7. Reached' = {m \in Node : mem'[m] = "live"} \ Apart'
  <2>1. Reached = {m \in Node : mem[m] = "live"} \ {pos[w]}
    BY <1>2, <1>4 DEF Calm
  <2>2. {m \in Node : mem'[m] = "live"}
          = {m \in Node : mem[m] = "live"} \ {pos[w]}
    BY <1>2, <1>3 DEF TypeOK
  <2> QED
    BY <1>4, <2>1, <2>2
<1>8. ASSUME NEW m \in Reached' PROVE BackIs(m)'
  <2>1. BackIs(m)
    BY <1>2, <1>3, <1>4 DEF Calm, Waits
  <2> QED
    BY <1>3, <1>4, <2>1 DEF BackIs
<1>9. \A v \in Writer : op'[v] # "publish" /\ op'[v] # "back"
  BY <1>2, <1>3
<1> QED
  BY <1>2, <1>7, <1>8, <1>9 DEF Calm

LEMMA CalmWalks ==
  ASSUME BucketInv, NEW h \in Hook, HookStep(h), ~crowded'
  PROVE  Calm'
<1>1. TypeOK
  BY DEF BucketInv
<1>2. /\ UNCHANGED <<first, next, pprev, mem, crowded, raced>>
      /\ \A w \in Writer :
           op'[w] = op[w] /\ pos'[w] = pos[w] /\ tmp'[w] = tmp[w]
  BY <1>1, HookAlone DEF list, history
<1>3. Calm
  BY <1>2 DEF BucketInv
<1>4. Reached' = Reached /\ Apart' = Apart
  BY <1>2, SameReached DEF Apart
<1>5. \A n : BackIs(n)' = BackIs(n)
  BY <1>2, <1>4 DEF BackIs
<1>6. \A n : Waits(n) => Waits(n)'
  BY <1>2, <1>4 DEF Waits
<1>7. \A n \in Reached' : BackIs(n)' \/ Waits(n)'
  BY <1>3, <1>4, <1>5, <1>6 DEF Calm
<1> QED
  BY <1>2, <1>3, <1>4, <1>7 DEF Calm

-----------------------------------------------------------------------------
(* The invariant.                                                          *)

(* Callbacks that race overlap.                                            *)
LEMMA RacedIsCrowded ==
  ASSUME BucketInv, Next, ~crowded'
  PROVE  ~raced'
<1>1. CASE \E h \in Hook : HookStep(h)
  BY <1>1, HookAlone DEF BucketInv, history, Calm
<1>2. ASSUME NEW w \in Writer, WriterStep(w)
      PROVE  ~raced'
  <2>1. ~crowded /\ ~raced
    BY <1>2, WriterAlone DEF BucketInv, Calm
  <2>2. CASE \E n \in Node : AddReads(w, n)
    BY <2>1, <2>2 DEF AddReads, Begins
  <2>3. CASE RemoveBegins(w)
    BY <2>1, <2>3 DEF RemoveBegins, Begins
  <2> QED
    BY <1>2, <2>1, <2>2, <2>3
       DEF WriterStep, AddPublishes, AddSetsBack, RemoveLoads, LoadNext,
           RemoveReads, RemoveStores, RemoveFixes, RemoveFrees, history
<1> QED
  BY <1>1, <1>2 DEF Next

LEMMA BucketSteps == BucketInv /\ [Next]_vars => BucketInv'
<1> SUFFICES ASSUME BucketInv, [Next]_vars PROVE BucketInv'
  OBVIOUS
<1>1. CASE UNCHANGED vars
  <2>1. UNCHANGED <<first, next, pprev, mem, op, pos, tmp, link, seen, due,
                    removal, crowded, raced>>
    BY <1>1 DEF vars, list, regs, walk, history
  <2>2. TypeOK' = TypeOK /\ Roles' = Roles /\ Marked' = Marked
    BY <2>1 DEF TypeOK, Roles, Marked
  <2>3. FirstIsHead' = FirstIsHead /\ Shape' = Shape
    <3>1. \A w \in Writer : Alone(w)' = Alone(w)
      BY <2>1 DEF Alone
    <3>2. \A L, r, e : Fits(L, r, e)' = Fits(L, r, e)
      BY <2>1, <3>1 DEF Fits, Links, Adders, Removers, Hooks
    <3>3. FirstIsHead' = FirstIsHead
      BY <2>1 DEF FirstIsHead
    <3> QED
      BY <3>2, <3>3 DEF Shape
  <2>4. Calm' = Calm
    <3>1. Reached' = Reached /\ Apart' = Apart
      BY <2>1, SameReached DEF Apart
    <3>2. \A n : BackIs(n)' = BackIs(n) /\ Waits(n)' = Waits(n)
      BY <2>1, <3>1 DEF BackIs, Waits
    <3> QED
      BY <2>1, <3>1, <3>2 DEF Calm
  <2> QED
    BY <2>1, <2>2, <2>3, <2>4 DEF BucketInv
<1>2. CASE Next
  <2>1. TypeOK' /\ Roles' /\ Marked'
    BY <1>2, WriterTypes, HookTypes, WriterMarks, HookMarks
       DEF Next, BucketInv
  <2>2. ASSUME ~raced' PROVE Shape' /\ FirstIsHead'
    BY <1>2, <2>2, ShapeAdds, ShapePublishes, ShapeSetsBack,
       ShapeRemoveBegins, ShapeLoads, ShapeStores, ShapeFixes, ShapeFrees,
       ShapeWalks DEF Next, WriterStep
  <2>3. ASSUME ~crowded' PROVE Calm'
    <3>1. ~raced' /\ FirstIsHead'
      BY <1>2, <2>2, <2>3, RacedIsCrowded
    <3> QED
      BY <1>2, <2>3, <3>1, CalmAdds, CalmPublishes, CalmSetsBack, CalmReads,
         CalmStores, CalmFixes, CalmFrees, CalmWalks DEF Next, WriterStep
  <2> QED
    BY <2>1, <2>2, <2>3 DEF BucketInv
<1> QED
  BY <1>1, <1>2

LEMMA BucketInvariant == Spec => []BucketInv
BY BucketStarts, BucketSteps, PTL DEF Spec

-----------------------------------------------------------------------------
(* The theorems.                                                           *)

(* Every variable of the bucket holds a value of its kind.                 *)
THEOREM BucketTypes == Spec => []TypeOK
<1>1. BucketInv => TypeOK
  BY DEF BucketInv
<1> QED
  BY <1>1, BucketInvariant, PTL

(* However setups, teardowns and walks are interleaved, and however many   *)
(* there are: a callback uses no freed memory unless a teardown overlaps   *)
(* another callback, and a hook none unless a teardown overlaps its walk.  *)
THEOREM MemoryIsLive == Spec => []NoUseAfterFree
<1>1. BucketInv => NoUseAfterFree
  <2> SUFFICES ASSUME BucketInv, ~raced, NEW t \in Thread,
                      t \in Hook => ~removal[t], NEW n \in Uses(t)
               PROVE  mem[n] = "live"
    BY DEF NoUseAfterFree
  <2>1. PICK L \in SUBSET Node, r \in [Node -> Nat], e \in [Node -> Node] :
          Fits(L, r, e)
    BY DEF BucketInv, Shape
  <2>2. \A m \in L : mem[m] = "live" /\ next[m] \in L \union {Null}
    BY <2>1 DEF Fits, Links
  <2>3. CASE t \in Hook
    <3>1. op[t] \in {"load", "apply"} => n = pos[t] /\ pos[t] \in L
      BY <2>1, <2>3 DEF Uses, Fits, Hooks
    <3>2. op[t] \in {"idle", "load", "apply"}
      BY <2>1, <2>3 DEF Fits, Hooks
    <3>3. op[t] # "idle"
      BY DEF Uses
    <3> QED
      BY <2>2, <3>1, <3>2, <3>3
  <2>4. CASE t \in Writer
    <3>1. op[t] \in Removing => n \in L
      <4>1. SUFFICES ASSUME op[t] \in Removing PROVE n \in L
        OBVIOUS
      <4>2. pos[t] \in L
        BY <2>1, <2>4, <4>1 DEF Fits, Removers
      <4>3. op[t] \in {"store", "fix"} => link[t] = <<next[pos[t]], Head>>
        BY <2>1, <2>4, <4>1 DEF Fits, Removers
      <4>4. CASE op[t] \in {"load", "unlink", "free"}
        BY <4>2, <4>4 DEF Uses
      <4>5. CASE op[t] = "store"
        BY <4>3, <4>5 DEF Uses
      <4>6. CASE op[t] = "fix"
        BY <2>2, <4>2, <4>3, <4>6 DEF Uses
      <4> QED
        BY <4>1, <4>4, <4>5, <4>6 DEF Removing
    <3>2. op[t] \in Adding => n \in L
      <4>1. SUFFICES ASSUME op[t] \in Adding PROVE n \in L
        OBVIOUS
      <4>2. op[t] = "back" /\ n = tmp[t]
        BY <4>1 DEF Uses, Adding
      <4> QED
        BY <2>1, <2>4, <4>1, <4>2 DEF Fits, Adders
    <3>3. op[t] # "idle"
      BY DEF Uses
    <3> QED
      BY <2>2, <2>4, <3>1, <3>2, <3>3 DEF BucketInv, Roles
  <2> QED
    BY <2>3, <2>4 DEF Thread
<1> QED
  BY <1>1, BucketInvariant, PTL

(* The list stays a list, of memory in use, and nothing of it is lost      *)
(* while callbacks do not overlap.                                         *)
THEOREM ListStaysIntact == Spec => []BucketIntact
<1>1. BucketInv => BucketIntact
  <2> SUFFICES ASSUME BucketInv, ~raced
               PROVE  /\ first # Null => \E n \in Reached : next[n] = Null
                      /\ \A n \in Reached : mem[n] = "live"
                      /\ ~crowded /\ (\A w \in Writer : op[w] = "idle") =>
                           /\ Reached = {n \in Node : mem[n] = "live"}
                           /\ \A n \in Reached : BackIs(n)
    BY DEF BucketIntact, BackIs
  <2>1. PICK L \in SUBSET Node, r \in [Node -> Nat], e \in [Node -> Node] :
          Links(L, r, e)
    BY DEF BucketInv, Shape, Fits
  <2>2. first # Null => \E n \in Reached : next[n] = Null
    BY <2>1, OldestIs DEF BucketInv
  <2>3. \A n \in Reached : mem[n] = "live"
    BY <2>1, ReachedWithin DEF BucketInv, Links
  <2>4. ASSUME ~crowded, \A w \in Writer : op[w] = "idle"
        PROVE  /\ Reached = {n \in Node : mem[n] = "live"}
               /\ \A n \in Reached : BackIs(n)
    BY <2>4 DEF BucketInv, Calm, Apart, Waits
  <2> QED
    BY <2>2, <2>3, <2>4
<1> QED
  BY <1>1, BucketInvariant, PTL

(* A walk that meets setups only translates its packet by the entry that   *)
(* was the oldest when it began.                                           *)
THEOREM WalksAreAtomic == Spec => []WalkIsAtomic
<1>1. BucketInv => WalkIsAtomic
  BY DEF BucketInv, WalkIsAtomic, Shape, Fits, Hooks
<1> QED
  BY <1>1, BucketInvariant, PTL

(* A teardown that met no other callback leaves an empty bucket.           *)
THEOREM TeardownsEmpty == Spec => RemovalEmpties
<1> DEFINE A == \A w \in Writer :
       op[w] \in Removing /\ op'[w] = "idle" /\ ~raced => first' = Null
<1>1. BucketInv /\ [Next]_vars => [A]_vars
  <2> SUFFICES ASSUME BucketInv, Next, NEW w \in Writer,
                      op[w] \in Removing, op'[w] = "idle", ~raced
               PROVE  first' = Null
    OBVIOUS
  <2>0. TypeOK
    BY DEF BucketInv
  <2>1. WriterStep(w)
    <3>1. \A h \in Hook : HookStep(h) => op'[w] = op[w]
      BY <2>0, HookAlone
    <3>2. \A v \in Writer \ {w} : WriterStep(v) => op'[w] = op[w]
      BY <2>0, WriterAlone DEF Thread
    <3>3. op'[w] # op[w]
      BY DEF Removing
    <3> QED
      BY <3>1, <3>2, <3>3 DEF Next
  <2>2. RemoveFrees(w)
    <3>1. op[w] \notin {"idle", "publish", "back"}
      BY DEF Removing
    <3> QED
      BY <2>0, <2>1, <3>1
         DEF WriterStep, AddReads, Begins, AddPublishes, AddSetsBack,
             RemoveBegins, RemoveLoads, LoadNext, RemoveReads, RemoveStores,
             RemoveFixes, TypeOK, Thread
  <2>3. ~raced' /\ first' = first
    BY <2>2 DEF RemoveFrees, history
  <2>4. op'[w] = AtEntry(first)
    BY <2>2, <2>3, ShapeFrees
  <2> QED
    BY <2>3, <2>4 DEF AtEntry
<1>2. Spec => [][A]_vars
  BY <1>1, BucketInvariant, PTL DEF Spec
<1> QED
  BY <1>2 DEF RemovalEmpties
=============================================================================
