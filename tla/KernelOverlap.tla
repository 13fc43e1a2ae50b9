----------------------------- MODULE KernelOverlap -----------------------------
(***************************************************************************)
(* What a call can rely on although nothing keeps the callbacks of its     *)
(* messages from overlapping: KernelNat with two history variables, which  *)
(* watch every step and hinder none.                                       *)
(***************************************************************************)
EXTENDS KernelNat

VARIABLES
  newer,  \* history: entries put into the first bucket of a teardown's call
          \* since its message arrived
  clash   \* history: buckets of the calls whose callbacks have overlapped

ovars == <<vars, newer, clash>>

OverlapInit ==
  /\ Init
  /\ newer = [h \in Handler |-> 0]
  /\ clash = {}

-----------------------------------------------------------------------------
TearingDown(h) == pc[h] \in {"del1", "del2"}

FirstBucket(h) == BucketOf[key_s1(sess[h])]

(* Somebody has put an entry into the first bucket of h's call.            *)
Grows(h) == Len(chain'[FirstBucket(h)]) > Len(chain[FirstBucket(h)])

CountNewer ==
  newer' = [h \in Handler |->
              IF ~TearingDown(h) \/ ~TearingDown(h)' THEN 0
              ELSE IF Grows(h) THEN newer[h] + 1 ELSE newer[h]]

(* The other callbacks at work on the buckets of handler h's call.         *)
Rivals(h) ==
  {g \in Handler \ {h} :
     pc[g] # "idle" /\ BucketsOf(sess[g]) \intersect BucketsOf(sess[h]) # {}}

(* A message has arrived at handler h.                                     *)
Arrived(h) == pc[h] = "idle" /\ pc'[h] # "idle"

(* The callback of handler h has returned, has left nothing of its call in *)
(* the table, and no other callback is at work on it: the call starts anew.*)
LeftClean(h) ==
  /\ pc[h] # "idle" /\ pc'[h] = "idle"
  /\ Rivals(h) = {}
  /\ \A b \in BucketsOf(sess[h]) : chain'[b] = <<>>

NoteClash(h) ==
  clash' =
    IF Arrived(h) /\ Rivals(h)' # {}
      THEN clash \union UNION {BucketsOf(sess'[g]) : g \in {h} \union Rivals(h)'}
    ELSE IF LeftClean(h) THEN clash \ BucketsOf(sess[h])
    ELSE clash

OverlapNext ==
  \E h \in Handler : HandlerStep(h) /\ CountNewer /\ NoteClash(h)

OverlapSpec == OverlapInit /\ [][OverlapNext]_ovars

-----------------------------------------------------------------------------
(* Properties.                                                             *)

(* When the callback for a teardown returns, nothing is left of what was   *)
(* in the call's buckets when its message arrived, in either direction,    *)
(* however many setups preceded it and whichever callbacks ran meanwhile:  *)
(* what is there now, the newest entries of the first bucket, was put in   *)
(* since.  The code is the two loops of lrkproxy_module.c:338-351; its     *)
(* comment, "it means the specific call teardown".                         *)
TeardownRemovesOlder ==
  [][\A h \in Handler : pc[h] = "del2" /\ pc'[h] = "idle" =>
       /\ chain'[BucketOf[key_s2(sess[h])]] = <<>>
       /\ Len(chain'[FirstBucket(h)]) <= newer[h]]_ovars

(* Media flows both ways or not at all.  When no callback is at work on    *)
(* the buckets of an entry, take the packet the entry is meant for, from   *)
(* dnat to dst: whoever receives it can answer, and the answer comes back  *)
(* to dnat from dst.  Setting a call up again with other ports in between  *)
(* does not break this, and no other call does, by its teardown or by      *)
(* callbacks of its own that overlap; a call whose callbacks did overlap   *)
(* is whole again once one of them, alone, leaves its buckets empty.       *)
RoundTrip == \A b \in Bucket \ clash : ComesBack(b)
=============================================================================
