---------------------------- MODULE CallPathProofs ----------------------------
(***************************************************************************)
(* What is proved of user_space and the kernel module together, for every  *)
(* set of calls, every number of children and every hash function; of what *)
(* needs patience of Kamailio, under that condition.                       *)
(***************************************************************************)
EXTENDS CallPath, UserSpaceRelayProofs

(* What a child sends to the kernel is a session.                          *)
LEMMA Ends ==
  ASSUME NEW m \in Message, NEW ports \in UdpPort \X UdpPort
  PROVE  /\ WithPorts(m, ports) \in Sessions
         /\ WithPorts(m, ports) \in Kernel!Entry
         /\ WithPorts(m, ports).src =
              [ip |-> SessionOf[m].src.ip, port |-> ports[1]]
         /\ WithPorts(m, ports).dnat =
              [ip |-> SessionOf[m].dnat.ip, port |-> ports[2]]
  <1> DEFINE s == SessionOf[m]
             t == WithPorts(m, ports)
             End == [ip : Ip, port : UdpPort]
  <1>1. s \in [src : End, snat : End, dst : End, dnat : End]
    BY PathAssumption DEF Endpoint
  <1>2. ports[1] \in UdpPort /\ ports[2] \in UdpPort
    OBVIOUS
  <1>3. t = [s EXCEPT !.src = [s.src EXCEPT !.port = ports[1]],
                      !.dnat = [s.dnat EXCEPT !.port = ports[2]]]
    BY <1>1 DEF WithPorts
  <1>4. /\ t.src = [s.src EXCEPT !.port = ports[1]]
        /\ t.dnat = [s.dnat EXCEPT !.port = ports[2]]
        /\ t \in [src : End, snat : End, dst : End, dnat : End]
    <2>1. /\ [s.src EXCEPT !.port = ports[1]] \in End
          /\ [s.dnat EXCEPT !.port = ports[2]] \in End
      BY <1>1, <1>2
    <2> QED
      BY <1>1, <1>3, <2>1
  <1>5. t \in Sessions
    BY DEF Sessions
  <1>6. /\ t.src = [ip |-> s.src.ip, port |-> ports[1]]
        /\ t.dnat = [ip |-> s.dnat.ip, port |-> ports[2]]
    BY <1>1, <1>4
  <1> QED
    BY <1>4, <1>5, <1>6 DEF Kernel!Entry, Kernel!Endpoint

LEMMA KernelIsAssumed ==
  /\ Sessions \subseteq Kernel!Entry
  /\ BucketOf \in [Kernel!Key -> Bucket]
  /\ NoSession \notin Kernel!Entry
  /\ NoSession \notin Sessions
  <1>1. Sessions \subseteq Kernel!Entry
    <2> SUFFICES ASSUME NEW s \in Sessions PROVE s \in Kernel!Entry
      OBVIOUS
    <2>1. PICK m \in Message, ports \in UdpPort \X UdpPort :
            s = WithPorts(m, ports)
      BY DEF Sessions
    <2> QED
      BY <2>1, Ends
  <1>2. BucketOf \in [Kernel!Key -> Bucket]
    BY PathAssumption DEF Kernel!Key
  <1>3. NoSession \notin Kernel!Entry
    BY PathAssumption DEF Kernel!Entry, Kernel!Endpoint, Endpoint
  <1> QED
    BY <1>1, <1>2, <1>3

(* The keys of a session, and the entries made of it.                      *)
LEMMA SessionKeys ==
  ASSUME NEW s \in Sessions
  PROVE  /\ Kernel!key_s1(s) \in Kernel!Key /\ Kernel!key_s2(s) \in Kernel!Key
         /\ Kernel!netlink_message_s1(s) \in Kernel!Entry
         /\ Kernel!netlink_message_s2(s) \in Kernel!Entry
  <1>1. s \in Kernel!Entry
    BY KernelIsAssumed
  <1>2. Kernel!key_s1(s) \in Kernel!Key /\ Kernel!key_s2(s) \in Kernel!Key
    BY <1>1
    DEF Kernel!Entry, Kernel!Endpoint, Kernel!Key, Kernel!key_s1, Kernel!key_s2
  <1>3. /\ Kernel!netlink_message_s1(s) \in Kernel!Entry
        /\ Kernel!netlink_message_s2(s) \in Kernel!Entry
    BY <1>1
    DEF Kernel!Entry, Kernel!netlink_message_s1, Kernel!netlink_message_s2
  <1> QED
    BY <1>2, <1>3

-----------------------------------------------------------------------------
(* Each part goes its own way: what the composition does, user_space does. *)

LEMMA RelayStep == [PathNext]_path => [Next]_vars
  <1> SUFFICES ASSUME [PathNext]_path PROVE [Next]_vars
    OBVIOUS
  <1>1. CASE \E m \in Message : KamailioSends(m)
    BY <1>1 DEF KamailioSends, Next, Peer
  <1>2. CASE ParentStep
    BY <1>2 DEF ParentStep, Next
  <1>3. ASSUME NEW c \in Read, ChildStep(c) PROVE [Next]_vars
    <2>1. \/ ChildReads(c) \/ Bind(c) \/ BindFails(c) \/ PollEnds(c) \/ Send(c)
          \/ UNCHANGED vars
      BY <1>3 DEF ChildStep, Take, BindPort, Hear, TimeOut, SendToKernel,
        CallbackGoesOn
    <2> QED
      BY <2>1 DEF Next, Child
  <1>4. CASE UNCHANGED path
    BY <1>4 DEF path
  <1> QED
    BY <1>1, <1>2, <1>3, <1>4 DEF PathNext

(* Nothing the kernel module does keeps user_space from what it promises:  *)
(* together they still give up a request only for a competing setup, and   *)
(* no buffer is lost or sent to the kernel twice.                          *)
THEOREM RelayStillKeepsContract ==
  PathSpec => KeepsContract /\ []ExactlyOnce
  <1>1. PathInit => Init
    BY DEF PathInit
  <1>2. PathSpec => Spec
    BY <1>1, RelayStep, PTL DEF PathSpec, Spec
  <1> QED
    BY <1>2, Implementation, NothingLostOrRepeated, PTL

-----------------------------------------------------------------------------
(* What the composition does, the kernel module does.                      *)

LearnedType == learned \in [Read -> UdpPort \X UdpPort]

LEMMA LearnKeepsType ==
  ASSUME IInv, LearnedType, NEW c \in Read, NEW from \in Media \union {Nobody},
         Learn(c, from)
  PROVE  LearnedType'
  <1>1. from.port \in UdpPort
    BY PathAssumption DEF Endpoint, Nobody
  <1>2. Leg(c) \in {1, 2}
    BY DEF Leg
  <1>3. learned[c] \in UdpPort \X UdpPort
    BY DEF LearnedType
  <1>4. [learned[c] EXCEPT ![Leg(c)] = from.port] \in UdpPort \X UdpPort
    BY <1>1, <1>2, <1>3
  <1> QED
    BY <1>4 DEF Learn, LearnedType

LEMMA LearnedStep ==
  ASSUME IInv, LearnedType, [PathNext]_path
  PROVE  LearnedType'
  <1>1. CASE UNCHANGED learned
    BY <1>1 DEF LearnedType
  <1>2. ASSUME NEW c \in Read, Take(c) PROVE LearnedType'
    <2>1. Head(pipe) \in 1 .. reads
      BY <1>2, TailFacts DEF Take, ChildReads, IInv, TypeOK
    <2>2. MessageOf(Head(pipe)) \in Message
      BY <2>1 DEF IInv, TypeOK
    <2>3. GivenPorts(MessageOf(Head(pipe))) \in UdpPort \X UdpPort
      BY <2>2, PathAssumption DEF GivenPorts, Endpoint
    <2> QED
      BY <1>2, <2>3 DEF Take, LearnedType
  <1>3. ASSUME NEW c \in Read, Hear(c) PROVE LearnedType'
    BY <1>3, LearnKeepsType DEF Hear
  <1>4. ASSUME NEW c \in Read, TimeOut(c) PROVE LearnedType'
    <2>1. CASE Learn(c, Nobody)
      BY <2>1, LearnKeepsType
    <2> QED
      BY <1>1, <1>4, <2>1 DEF TimeOut
  <1> QED
    BY <1>1, <1>2, <1>3, <1>4
    DEF PathNext, path, KamailioSends, ParentStep, ChildStep, BindPort,
      SendToKernel, CallbackGoesOn

LEMMA DeliveredIsSession ==
  ASSUME IInv, LearnedType, NEW c \in Read, Working(c)
  PROVE  /\ MessageOf(item[c]) \in Message
         /\ learned[c] \in UdpPort \X UdpPort
         /\ Delivered(c) \in Sessions
  <1>1. MessageOf(item[c]) \in Message
    BY DEF IInv, TypeOK, Phases
  <1>2. learned[c] \in UdpPort \X UdpPort
    BY DEF LearnedType
  <1> QED
    BY <1>1, <1>2, Ends DEF Delivered

LEMMA KernelStep ==
  ASSUME IInv, LearnedType, [PathNext]_path
  PROVE  [Kernel!Next]_(Kernel!vars)
  <1>1. CASE UNCHANGED kernel
    BY <1>1 DEF kernel, Kernel!vars
  <1>2. ASSUME NEW c \in Read, SendToKernel(c) PROVE Kernel!Next
    <2>1. Working(c)
      BY <1>2 DEF SendToKernel, Send, Working
    <2>2. Delivered(c) \in Sessions
      BY <2>1, DeliveredIsSession
    <2> QED
      BY <1>2, <2>2 DEF SendToKernel, Kernel!Next, Kernel!HandlerStep
  <1>3. ASSUME NEW c \in Read, CallbackGoesOn(c) PROVE Kernel!Next
    BY <1>3 DEF CallbackGoesOn, Kernel!Next, Kernel!HandlerStep
  <1> QED
    BY <1>1, <1>2, <1>3
    DEF PathNext, path, KamailioSends, ParentStep, ChildStep, Take, BindPort,
      Hear, TimeOut

LEMMA RelayInvariant == PathSpec => []IInv
  <1>1. PathInit => Init
    BY DEF PathInit
  <1> QED
    BY <1>1, RelayStep, Invariant, PTL DEF PathSpec, Spec

LEMMA LearnedInvariant == PathSpec => []LearnedType
  <1>1. PathInit => LearnedType
    BY PathAssumption DEF PathInit, LearnedType
  <1> QED
    BY <1>1, LearnedStep, RelayInvariant, PTL DEF PathSpec

(* The children of user_space use the kernel module as KernelNat says it   *)
(* is used: by one callback at a time in each child, for sessions.         *)
THEOREM KernelIsDriven == PathSpec => Kernel!Spec
  <1>1. PathInit => Kernel!Init
    BY DEF PathInit
  <1> QED
    BY <1>1, KernelStep, RelayInvariant, LearnedInvariant, PTL
    DEF PathSpec, Kernel!Spec

-----------------------------------------------------------------------------
(* So what is proved of the kernel module holds of the composition.        *)

Facts == INSTANCE KernelNatProofs WITH
  Port <- UdpPort, Session <- Sessions, Handler <- Read,
  MaxAdds <- MaxReads

LEMMA FactsAssumed == Facts!KernelAssumption
  BY KernelIsAssumed, RelayAssumption, PathAssumption
  DEF Facts!KernelAssumption, Facts!Entry, Facts!Endpoint, Facts!Key,
    Kernel!Entry, Kernel!Endpoint, Kernel!Key

LEMMA SameSpec == Kernel!Spec => Facts!Spec
  <1>1. Kernel!Init => Facts!Init
    BY DEF Kernel!Init, Facts!Init
  <1>2. [Kernel!Next]_(Kernel!vars) => [Facts!Next]_(Facts!vars)
    BY DEF Kernel!Next, Kernel!vars, Kernel!HandlerStep, Kernel!CallbackStep,
      Kernel!ReceiveSetup, Kernel!ReceiveTeardown,
      Kernel!Allocate, Kernel!AllocateFails, Kernel!Add1, Kernel!Add2,
      Kernel!Delete1, Kernel!Delete2, Kernel!Return,
      Kernel!key_s1, Kernel!key_s2, Kernel!hash_add_rcu, Kernel!DeleteBucket,
      Kernel!netlink_message_s1, Kernel!netlink_message_s2,
      Facts!Next, Facts!vars, Facts!HandlerStep, Facts!CallbackStep,
      Facts!ReceiveSetup, Facts!ReceiveTeardown,
      Facts!Allocate, Facts!AllocateFails, Facts!Add1, Facts!Add2,
      Facts!Delete1, Facts!Delete2, Facts!Return,
      Facts!key_s1, Facts!key_s2, Facts!hash_add_rcu, Facts!DeleteBucket,
      Facts!netlink_message_s1, Facts!netlink_message_s2
  <1> QED
    BY <1>1, <1>2, PTL DEF Kernel!Spec, Facts!Spec

LEMMA KernelTypes == PathSpec => []Kernel!TypeOK
  <1>1. Facts!Spec => []Facts!TypeOK
    BY FactsAssumed, Facts!TypeCorrect
  <1>2. Facts!TypeOK => Kernel!TypeOK
    BY DEF Facts!TypeOK, Kernel!TypeOK, Facts!Entry, Facts!Endpoint,
      Kernel!Entry, Kernel!Endpoint
  <1> QED
    BY <1>1, <1>2, KernelIsDriven, SameSpec, PTL

(* Whatever ports the children learn, and in whatever order their messages *)
(* come, an entry is in the bucket that the hook searches for it.          *)
THEOREM DrivenInOwnBucket == PathSpec => []Kernel!OwnBucket
  <1>1. Facts!Spec => []Facts!OwnBucket
    BY FactsAssumed, Facts!InOwnBucket
  <1>2. Facts!OwnBucket => Kernel!OwnBucket
    BY DEF Facts!OwnBucket, Kernel!OwnBucket, Facts!key_s1, Kernel!key_s1
  <1> QED
    BY <1>1, <1>2, KernelIsDriven, SameSpec, PTL

(* However many children send at once, and wherever memory runs out, every *)
(* block of the kernel module is accounted for.                            *)
THEOREM DrivenAccountsForMemory == PathSpec => []Kernel!BlocksAccounted
  <1>1. Facts!Spec => []Facts!BlocksAccounted
    BY FactsAssumed, Facts!MemoryIsAccounted
  <1>2. Facts!BlocksAccounted => Kernel!BlocksAccounted
    BY DEF Facts!BlocksAccounted, Kernel!BlocksAccounted, Facts!InTable,
      Kernel!InTable, Facts!InHand, Kernel!InHand, Facts!Held, Kernel!Held,
      Facts!Cardinality, Kernel!Cardinality
  <1> QED
    BY <1>1, <1>2, KernelIsDriven, SameSpec, PTL

(* When no two keys share a bucket, the table that the children write is a *)
(* table of rules: a call's entry is installed or removed, never replaced, *)
(* in whatever order the children come to send.                            *)
THEOREM DrivenImplementsRules ==
  ASSUME Facts!Injective
  PROVE  PathSpec => Facts!ImplementsRules
  <1>1. Facts!Spec => Facts!ImplementsRules
    BY FactsAssumed, Facts!Implementation
  <1> QED
    BY <1>1, KernelIsDriven, SameSpec, PTL

-----------------------------------------------------------------------------
(* The ports in the table are true ones.  The invariant follows a port     *)
(* from the child that learns it, through the callback, to the entries.    *)

Truthful(s) == {s.src, s.dnat} \subseteq TrueEnds

(* A callback runs in a child that is done with its own work.              *)
Callbacks ==
  \A c \in Read : pc[c] # "idle" =>
    /\ child[c] = "gone" /\ item[c] \in 1 .. reads
    /\ Truthful(sess[c])

Heard == \A c \in Read : Working(c) => Truthful(Delivered(c))

Truth == Callbacks /\ Heard /\ LearnedIsTrue

(* A session is true if its two learned ports are.                         *)
LEMMA TrueEnough ==
  ASSUME NEW m \in Message, NEW ports \in UdpPort \X UdpPort
  PROVE  Truthful(WithPorts(m, ports)) <=>
           /\ [ip |-> SessionOf[m].src.ip, port |-> ports[1]] \in TrueEnds
           /\ [ip |-> SessionOf[m].dnat.ip, port |-> ports[2]] \in TrueEnds
  BY Ends DEF Truthful

LEMMA GivenIsTrue ==
  ASSUME NEW m \in Message
  PROVE  Truthful(WithPorts(m, GivenPorts(m)))
  <1>1. SessionOf[m].src \in Endpoint /\ SessionOf[m].dnat \in Endpoint
    BY PathAssumption
  <1>2. /\ SessionOf[m].src = [ip |-> SessionOf[m].src.ip,
                               port |-> SessionOf[m].src.port]
        /\ SessionOf[m].dnat = [ip |-> SessionOf[m].dnat.ip,
                                port |-> SessionOf[m].dnat.port]
        /\ GivenPorts(m) \in UdpPort \X UdpPort
    BY <1>1 DEF Endpoint, GivenPorts
  <1>3. SessionOf[m].src \in TrueEnds /\ SessionOf[m].dnat \in TrueEnds
    BY DEF TrueEnds
  <1>4. /\ GivenPorts(m)[1] = SessionOf[m].src.port
        /\ GivenPorts(m)[2] = SessionOf[m].dnat.port
    BY DEF GivenPorts
  <1> QED
    BY <1>2, <1>3, <1>4, TrueEnough

-----------------------------------------------------------------------------
(* Each step keeps the truth.                                              *)

(* What is true is fixed by the requests.                                  *)
LEMMA TrueStays == TrueEnds' = TrueEnds
  BY DEF TrueEnds, OnHold, Nobody

LEMMA HoldIsTrue ==
  ASSUME OnHold # {}
  PROVE  Nobody \in TrueEnds
  BY DEF TrueEnds

LEMMA TableStays ==
  ASSUME LearnedIsTrue, chain' = chain
  PROVE  LearnedIsTrue'
  BY DEF LearnedIsTrue, TrueEnds

(* Kamailio and the parent: no child at work notices.                      *)
LEMMA ParentFrame ==
  ASSUME IInv, (\E m \in Message : KamailioSends(m)) \/ ParentStep
  PROVE  /\ UNCHANGED <<item, learned, refused, kernel>>
         /\ 1 .. reads \subseteq 1 .. reads'
         /\ \A i \in 1 .. reads : MessageOf(i)' = MessageOf(i)
         /\ \A c \in Read : Working(c)' <=> Working(c)
         /\ \A c \in Read : child[c] = "gone" => child'[c] = "gone"
  <1>1. UNCHANGED <<item, learned, refused, kernel>>
    BY DEF KamailioSends, PeerSends, processes, ParentStep, Parent,
      ParentReads, ParentReadsEof, ParentWrites, ParentForks, ForkFails,
      ParentEnds
  <1>2. CASE ParentReads \/ ParentReadsEof
    <2>1. ParentReadsEof => buffer[1] \in Message
      BY DEF ParentReadsEof, IInv, Opened
    <2>2. /\ reads' = reads + 1 /\ reads \in Nat /\ child' = child
          /\ \A i \in 1 .. reads : MessageOf(i)' = MessageOf(i)
      BY <1>2, <2>1, ReadEffect DEF IInv
    <2> QED
      BY <1>1, <2>2 DEF Working
  <1>3. CASE UNCHANGED texts
    <2>1. reads' = reads /\ \A i : MessageOf(i)' = MessageOf(i)
      BY <1>3 DEF reads, MessageOf
    <2>2. CASE UNCHANGED child
      BY <1>1, <2>1, <2>2 DEF Working
    <2>3. CASE ParentForks
      <3>1. child' = [child EXCEPT ![reads] = "new"] /\ parent = "fork"
        BY <2>3 DEF ParentForks
      <3>2. \A c \in Read : child'[c] # child[c] =>
              child[c] = "none" /\ child'[c] = "new"
        <4> SUFFICES ASSUME NEW c \in Read, child'[c] # child[c]
                     PROVE  child[c] = "none" /\ child'[c] = "new"
          OBVIOUS
        <4>1. c = reads /\ child'[c] = "new"
          BY <3>1 DEF IInv, TypeOK
        <4>2. ~(c < reads)
          BY <4>1 DEF Read
        <4> QED
          BY <3>1, <4>1, <4>2 DEF IInv, Forked
      <3> QED
        BY <1>1, <2>1, <3>2 DEF Working
    <2> QED
      BY <1>2, <2>2, <2>3
      DEF KamailioSends, PeerSends, processes, ParentStep, Parent,
        ParentWrites, ForkFails, ParentEnds
  <1> QED
    BY <1>2, <1>3
    DEF KamailioSends, PeerSends, processes, ParentStep, Parent,
      ParentWrites, ParentForks, ForkFails, ParentEnds

LEMMA ParentTruth ==
  ASSUME IInv, Truth, (\E m \in Message : KamailioSends(m)) \/ ParentStep
  PROVE  Truth'
  <1>1. /\ UNCHANGED <<item, learned, chain, pc, sess>>
        /\ 1 .. reads \subseteq 1 .. reads'
        /\ \A i \in 1 .. reads : MessageOf(i)' = MessageOf(i)
        /\ \A c \in Read : Working(c)' <=> Working(c)
        /\ \A c \in Read : child[c] = "gone" => child'[c] = "gone"
    BY ParentFrame DEF kernel
  <1>2. Callbacks'
    BY <1>1 DEF Truth, Callbacks, Truthful, TrueEnds
  <1>3. Heard'
    <2> SUFFICES ASSUME NEW c \in Read, Working(c)
                 PROVE  Truthful(Delivered(c))'
      BY <1>1 DEF Heard
    <2>1. item[c] \in 1 .. reads /\ Truthful(Delivered(c))
      BY DEF IInv, Phases, Truth, Heard
    <2>2. Delivered(c)' = Delivered(c)
      BY <1>1, <2>1 DEF Delivered
    <2> QED
      BY <2>1, <2>2 DEF Truthful, TrueEnds
  <1>4. LearnedIsTrue'
    BY <1>1, TableStays DEF Truth
  <1> QED
    BY <1>2, <1>3, <1>4 DEF Truth

(* A child takes a buffer, with the ports that the request gives.          *)
LEMMA TakeTruth ==
  ASSUME IInv, LearnedType, Truth, NEW c \in Read, Take(c)
  PROVE  Truth'
  <1> DEFINE i == Head(pipe)
  <1>1. /\ ChildReads(c) /\ child[c] = "new" /\ UNCHANGED <<chain, pc, sess>>
        /\ learned' = [learned EXCEPT ![c] = GivenPorts(MessageOf(i))]
        /\ item' = [item EXCEPT ![c] = i]
        /\ UNCHANGED ours
        /\ \A d \in Read : d # c => child'[d] = child[d]
    BY DEF Take, ChildReads, kernel
  <1>2. i \in 1 .. reads
    BY <1>1, TailFacts DEF ChildReads, IInv, TypeOK
  <1>3. /\ reads' = reads /\ \A j : MessageOf(j)' = MessageOf(j)
        /\ \A d \in Read : d # c => item'[d] = item[d]
                                     /\ learned'[d] = learned[d]
        /\ item'[c] = i /\ learned'[c] = GivenPorts(MessageOf(i))
    BY <1>1, ChildFrame DEF IInv, TypeOK, LearnedType
  <1>4. Callbacks'
    <2>1. pc[c] = "idle"
      BY <1>1 DEF Truth, Callbacks
    <2> QED
      BY <1>1, <1>3, <2>1 DEF Truth, Callbacks, Truthful, TrueEnds
  <1>5. Heard'
    <2> SUFFICES ASSUME NEW d \in Read, Working(d)'
                 PROVE  Truthful(Delivered(d))'
      BY DEF Heard
    <2>1. CASE d = c
      <3>1. MessageOf(i) \in Message
        BY <1>2 DEF IInv, TypeOK
      <3>2. Delivered(c)' = WithPorts(MessageOf(i), GivenPorts(MessageOf(i)))
        BY <1>3 DEF Delivered
      <3> QED
        BY <2>1, <3>1, <3>2, GivenIsTrue DEF Truthful, TrueEnds
    <2>2. CASE d # c
      <3>1. Working(d)
        BY <2>2, <1>1 DEF Working
      <3>2. Delivered(d)' = Delivered(d)
        BY <2>2, <1>3 DEF Delivered
      <3> QED
        BY <3>1, <3>2 DEF Truth, Heard, Truthful, TrueEnds
    <2> QED
      BY <2>1, <2>2
  <1>6. LearnedIsTrue'
    BY <1>1, TableStays DEF Truth
  <1> QED
    BY <1>4, <1>5, <1>6 DEF Truth

(* A child binds a port, or exits because it is taken.                     *)
LEMMA BindTruth ==
  ASSUME IInv, Truth, NEW c \in Read, BindPort(c)
  PROVE  Truth'
  <1>1. /\ UNCHANGED <<ours, item, learned, chain, pc, sess>>
        /\ child[c] \in {"bind1", "bind2"}
        /\ \A d \in Read : d # c => child'[d] = child[d]
    BY DEF BindPort, Bind, BindFails, kernel, IInv, TypeOK
  <1>2. /\ reads' = reads /\ \A i : MessageOf(i)' = MessageOf(i)
        /\ \A d \in Read : Delivered(d)' = Delivered(d)
    BY <1>1, ChildFrame DEF Delivered
  <1>3. Callbacks'
    BY <1>1, <1>2 DEF Truth, Callbacks, Truthful, TrueEnds
  <1>4. \A d \in Read : Working(d)' => Working(d)
    BY <1>1 DEF Working
  <1>5. Heard'
    BY <1>2, <1>4 DEF Truth, Heard, Truthful, TrueEnds
  <1>6. LearnedIsTrue'
    BY <1>1, TableStays DEF Truth
  <1> QED
    BY <1>3, <1>5, <1>6 DEF Truth

(* What a child believes is where a packet of the expected address came    *)
(* from, or port 0 for an end on hold.                                     *)
LEMMA LearnTruth ==
  ASSUME IInv, LearnedType, LearnedType', Truth, NEW c \in Read,
         NEW from \in Media \union {Nobody}, PollEnds(c), Learn(c, from),
         item' = item, UNCHANGED texts
  PROVE  Truthful(Delivered(c))'
  <1> DEFINE m == MessageOf(item[c])
             l == learned[c]
             k == learned'[c]
  <1>1. Working(c)
    BY DEF PollEnds, Working
  <1>2. /\ m \in Message
        /\ l \in UdpPort \X UdpPort /\ k \in UdpPort \X UdpPort
        /\ Delivered(c) = WithPorts(m, l)
    BY <1>1, DeliveredIsSession DEF Delivered, LearnedType
  <1>3. Delivered(c)' = WithPorts(m, k)
    BY DEF Delivered, MessageOf
  <1>4. /\ [ip |-> SessionOf[m].src.ip, port |-> l[1]] \in TrueEnds
        /\ [ip |-> SessionOf[m].dnat.ip, port |-> l[2]] \in TrueEnds
    BY <1>1, <1>2, TrueEnough DEF Truth, Heard
  <1>5. CASE from.ip # ExpectedIp(c)
    <2>1. k = l
      BY <1>5 DEF Learn
    <2>2. Truthful(WithPorts(m, k))
      BY <1>2, <1>4, <2>1, TrueEnough
    <2> QED
      BY <1>3, <2>2 DEF Truthful, TrueEnds
  <1>6. CASE from.ip = ExpectedIp(c)
    <2>1. /\ from \in TrueEnds
          /\ from = [ip |-> ExpectedIp(c), port |-> from.port]
      <3>1. CASE from \in Media
        BY <1>6, <3>1, PathAssumption DEF TrueEnds, Endpoint
      <3>2. CASE from = Nobody
        <4>1. ExpectedIp(c) = AnyIp
          BY <1>6, <3>2 DEF Nobody
        <4>2. m \in OnHold
          BY <1>2, <4>1 DEF OnHold, ExpectedIp
        <4>3. from \in TrueEnds
          BY <3>2, <4>2, HoldIsTrue
        <4>4. from = [ip |-> ExpectedIp(c), port |-> from.port]
          BY <3>2, <4>1 DEF Nobody
        <4> QED
          BY <4>3, <4>4
      <3> QED
        BY <3>1, <3>2
    <2>2. k = [l EXCEPT ![Leg(c)] = from.port]
      BY <1>6 DEF Learn, LearnedType
    <2>3. CASE child[c] = "poll1"
      <3>1. /\ ExpectedIp(c) = SessionOf[m].src.ip
            /\ k[1] = from.port /\ k[2] = l[2]
        BY <1>2, <2>2, <2>3 DEF ExpectedIp, Leg
      <3>2. Truthful(WithPorts(m, k))
        BY <1>2, <1>4, <2>1, <3>1, TrueEnough
      <3> QED
        BY <1>3, <3>2 DEF Truthful, TrueEnds
    <2>4. CASE child[c] # "poll1"
      <3>1. /\ ExpectedIp(c) = SessionOf[m].dnat.ip
            /\ k[2] = from.port /\ k[1] = l[1]
        BY <1>2, <2>2, <2>4 DEF ExpectedIp, Leg
      <3>2. Truthful(WithPorts(m, k))
        BY <1>2, <1>4, <2>1, <3>1, TrueEnough
      <3> QED
        BY <1>3, <3>2 DEF Truthful, TrueEnds
    <2> QED
      BY <2>3, <2>4
  <1> QED
    BY <1>5, <1>6

(* A wait for media ends.                                                  *)
LEMMA WaitTruth ==
  ASSUME IInv, LearnedType, LearnedType', Truth, NEW c \in Read,
         Hear(c) \/ TimeOut(c)
  PROVE  Truth'
  <1>1. /\ PollEnds(c) /\ UNCHANGED <<ours, item, chain, pc, sess>>
        /\ Working(c)
        /\ \A d \in Read : d # c => child'[d] = child[d]
    BY DEF Hear, TimeOut, PollEnds, kernel, Working, IInv, TypeOK
  <1>2. /\ reads' = reads /\ \A i : MessageOf(i)' = MessageOf(i)
    BY <1>1, ChildFrame
  <1>3. \A d \in Read : d # c => learned'[d] = learned[d]
    BY DEF Hear, TimeOut, Learn, LearnedType
  <1>4. Truthful(Delivered(c))'
    <2>1. CASE UNCHANGED learned
      <3>1. Delivered(c)' = Delivered(c)
        BY <1>1, <1>2, <2>1 DEF Delivered
      <3> QED
        BY <1>1, <3>1 DEF Truth, Heard, Truthful, TrueEnds
    <2>2. CASE \E from \in Media : Learn(c, from)
      BY <1>1, <2>2, LearnTruth DEF ours
    <2>3. CASE Learn(c, Nobody)
      BY <1>1, <2>3, LearnTruth DEF ours
    <2> QED
      BY <2>1, <2>2, <2>3 DEF Hear, TimeOut
  <1>5. Callbacks'
    <2>1. pc[c] = "idle"
      BY <1>1 DEF Truth, Callbacks, Working
    <2> QED
      BY <1>1, <1>2, <2>1 DEF Truth, Callbacks, Truthful, TrueEnds
  <1>6. Heard'
    <2> SUFFICES ASSUME NEW d \in Read, d # c, Working(d)'
                 PROVE  Truthful(Delivered(d))'
      BY <1>4 DEF Heard
    <2>1. Working(d) /\ Delivered(d)' = Delivered(d)
      BY <1>1, <1>2, <1>3 DEF Working, Delivered
    <2> QED
      BY <2>1 DEF Truth, Heard, Truthful, TrueEnds
  <1>7. LearnedIsTrue'
    BY <1>1, TableStays DEF Truth
  <1> QED
    BY <1>5, <1>6, <1>7 DEF Truth

(* A child sends: the callback begins, with what the child has learned.    *)
LEMMA SendTruth ==
  ASSUME IInv, LearnedType, Kernel!TypeOK, Truth, NEW c \in Read,
         SendToKernel(c)
  PROVE  Truth'
  <1>1. /\ child[c] = "send" /\ UNCHANGED <<ours, item, learned, chain>>
        /\ child'[c] = "gone"
        /\ \A d \in Read : d # c => child'[d] = child[d]
    BY DEF SendToKernel, Send, IInv, TypeOK, Kernel!ReceiveSetup,
      Kernel!ReceiveTeardown
  <1>2. /\ sess'[c] = Delivered(c)
        /\ \A d \in Read : d # c => pc'[d] = pc[d] /\ sess'[d] = sess[d]
    BY DEF SendToKernel, Kernel!ReceiveSetup, Kernel!ReceiveTeardown,
      Kernel!TypeOK
  <1>3. /\ reads' = reads /\ \A i : MessageOf(i)' = MessageOf(i)
        /\ \A d \in Read : Delivered(d)' = Delivered(d)
    BY <1>1, ChildFrame DEF Delivered
  <1>4. item[c] \in 1 .. reads /\ Truthful(Delivered(c))
    BY <1>1 DEF IInv, Phases, Working, Truth, Heard
  <1>5. Callbacks'
    BY <1>1, <1>2, <1>3, <1>4, TrueStays DEF Truth, Callbacks, Truthful
  <1>6. \A d \in Read : Working(d)' => Working(d)
    BY <1>1 DEF Working
  <1>7. Heard'
    BY <1>3, <1>6 DEF Truth, Heard, Truthful, TrueEnds
  <1>8. LearnedIsTrue'
    BY <1>1, TableStays DEF Truth
  <1> QED
    BY <1>5, <1>7, <1>8 DEF Truth

(* An entry of a true session is true, whichever way round.                *)
LEMMA EntryTruth ==
  ASSUME Kernel!TypeOK, LearnedIsTrue, NEW k \in Kernel!Key,
         NEW e \in Kernel!Entry, Truthful(e), Kernel!hash_add_rcu(k, e)
  PROVE  LearnedIsTrue'
  <1> DEFINE c == BucketOf[k]
  <1>1. /\ c \in Bucket /\ chain \in [Bucket -> Seq(Kernel!Entry)]
        /\ chain[c] \in Seq(Kernel!Entry)
    BY KernelIsAssumed DEF Kernel!TypeOK
  <1>2. /\ chain'[c] = <<e>> \o chain[c]
        /\ \A b \in Bucket : b # c => chain'[b] = chain[b]
    BY <1>1 DEF Kernel!hash_add_rcu
  <1>3. /\ Len(chain'[c]) = Len(chain[c]) + 1
        /\ chain'[c][1] = e
        /\ \A i \in 2 .. Len(chain[c]) + 1 : chain'[c][i] = chain[c][i - 1]
    BY <1>1, <1>2
  <1>4. ASSUME NEW b \in Bucket, NEW i \in 1 .. Len(chain'[b])
        PROVE  {chain'[b][i].src, chain'[b][i].dnat} \subseteq TrueEnds
    <2>1. CASE b # c
      BY <2>1, <1>2 DEF LearnedIsTrue
    <2>2. CASE b = c /\ i = 1
      BY <2>2, <1>3 DEF Truthful
    <2>3. CASE b = c /\ i # 1
      <3>1. i - 1 \in 1 .. Len(chain[c]) /\ chain'[c][i] = chain[c][i - 1]
        BY <2>3, <1>1, <1>3
      <3> QED
        BY <2>3, <3>1, <1>1 DEF LearnedIsTrue
    <2> QED
      BY <2>1, <2>2, <2>3
  <1> QED
    BY <1>4 DEF LearnedIsTrue, TrueEnds

LEMMA CallbackTruth ==
  ASSUME IInv, Kernel!TypeOK, Truth, NEW c \in Read, CallbackGoesOn(c)
  PROVE  Truth'
  <1> DEFINE s == sess[c]
  <1>1. /\ UNCHANGED <<vars, learned>> /\ pc[c] # "idle"
        /\ \A d \in Read : pc'[d] # "idle" =>
             pc[d] # "idle" /\ sess'[d] = sess[d]
    BY DEF CallbackGoesOn, Kernel!CallbackStep, Kernel!Allocate,
      Kernel!AllocateFails, Kernel!Add1, Kernel!Add2, Kernel!Delete1,
      Kernel!Delete2, Kernel!Return, Kernel!TypeOK
  <1>2. /\ reads' = reads /\ \A d \in Read : Delivered(d)' = Delivered(d)
        /\ \A d \in Read : Working(d)' <=> Working(d)
    BY <1>1 DEF vars, reads, Delivered, MessageOf, Working
  <1>3. Callbacks'
    BY <1>1, <1>2 DEF vars, Truth, Callbacks, Truthful, TrueEnds
  <1>4. Heard'
    BY <1>2 DEF Truth, Heard, Truthful, TrueEnds
  <1>5. LearnedIsTrue'
    <2>1. s \in Sessions /\ Truthful(s)
      BY <1>1 DEF Kernel!TypeOK, Truth, Callbacks
    <2>2. CASE UNCHANGED chain
      BY <2>2, TableStays DEF Truth
    <2>3. CASE Kernel!hash_add_rcu(Kernel!key_s1(s),
                                   Kernel!netlink_message_s1(s))
      BY <2>1, <2>3, SessionKeys, EntryTruth
      DEF Truth, Truthful, Kernel!netlink_message_s1
    <2>4. CASE Kernel!hash_add_rcu(Kernel!key_s2(s),
                                   Kernel!netlink_message_s2(s))
      <3>1. Truthful(Kernel!netlink_message_s2(s))
        BY <2>1 DEF Truthful, Kernel!netlink_message_s2
      <3> QED
        BY <2>1, <2>4, <3>1, SessionKeys, EntryTruth DEF Truth
    <2>5. ASSUME NEW k \in Kernel!Key, Kernel!DeleteBucket(k)
          PROVE  LearnedIsTrue'
      <3>1. \A b \in Bucket : chain'[b] = <<>> \/ chain'[b] = chain[b]
        BY <2>5 DEF Kernel!DeleteBucket, Kernel!TypeOK
      <3> QED
        BY <3>1, TrueStays DEF Truth, LearnedIsTrue
    <2> QED
      BY <2>1, <2>2, <2>3, <2>4, <2>5, SessionKeys
      DEF CallbackGoesOn, Kernel!CallbackStep, Kernel!Allocate,
        Kernel!AllocateFails, Kernel!Add1, Kernel!Add2, Kernel!Delete1,
        Kernel!Delete2
  <1> QED
    BY <1>3, <1>4, <1>5 DEF Truth

LEMMA TruthStep ==
  ASSUME IInv, LearnedType, LearnedType', Kernel!TypeOK, Truth,
         [PathNext]_path
  PROVE  Truth'
  <1>1. CASE (\E m \in Message : KamailioSends(m)) \/ ParentStep
    BY <1>1, ParentTruth
  <1>2. ASSUME NEW c \in Read, ChildStep(c) PROVE Truth'
    BY <1>2, TakeTruth, BindTruth, WaitTruth, SendTruth, CallbackTruth
    DEF ChildStep
  <1>3. CASE UNCHANGED path
    BY <1>3
    DEF path, vars, kernel, Truth, Callbacks, Heard, LearnedIsTrue, Truthful,
      TrueEnds, Delivered, Working, MessageOf, reads
  <1> QED
    BY <1>1, <1>2, <1>3 DEF PathNext

(* Whatever the children hear, from whomever, and whatever poll() leaves   *)
(* in len: the table sends media only where a request said, or where media *)
(* of that address has come from, or, for an end that names 0.0.0.0, to    *)
(* port 0 there.                                                           *)
THEOREM OnlyTruePorts == PathSpec => []LearnedIsTrue
  <1>1. PathInit => Truth
    BY DEF PathInit, Init, Kernel!Init, Truth, Callbacks, Heard,
      LearnedIsTrue, Working
  <1>2. Truth => LearnedIsTrue
    BY DEF Truth
  <1> QED
    BY <1>1, <1>2, TruthStep, RelayInvariant, LearnedInvariant, KernelTypes,
      PTL DEF PathSpec

-----------------------------------------------------------------------------
Refused == refused \subseteq 1 .. reads

LEMMA RefusedStep ==
  ASSUME IInv, Kernel!TypeOK, Truth, Refused, [PathNext]_path
  PROVE  Refused'
  <1>1. 1 .. reads \subseteq 1 .. reads'
    <2>1. CASE (\E m \in Message : KamailioSends(m)) \/ ParentStep
      BY <2>1, ParentFrame
    <2>2. CASE UNCHANGED texts
      BY <2>2 DEF reads
    <2> QED
      BY <2>1, <2>2
      DEF PathNext, path, vars, ChildStep, Take, ChildReads, BindPort, Bind,
        BindFails, Hear, TimeOut, PollEnds, SendToKernel, Send,
        CallbackGoesOn, ours
  <1>2. CASE UNCHANGED refused
    BY <1>1, <1>2 DEF Refused
  <1>3. ASSUME NEW c \in Read, CallbackGoesOn(c) PROVE Refused'
    <2>1. pc[c] = "alloc" => item[c] \in 1 .. reads
      BY DEF Truth, Callbacks
    <2> QED
      BY <1>1, <1>3, <2>1 DEF CallbackGoesOn, Refused
  <1> QED
    BY <1>2, <1>3
    DEF PathNext, path, KamailioSends, ParentStep, ChildStep, Take, BindPort,
      Hear, TimeOut, SendToKernel

(* Every variable of the composition holds a value of its kind, whatever   *)
(* the calls, the children and the hash function.                          *)
THEOREM PathTypeCorrect == PathSpec => []PathTypeOK
  <1>1. PathInit => Truth /\ Refused
    BY DEF PathInit, Init, Kernel!Init, Truth, Callbacks, Heard,
      LearnedIsTrue, Working, Refused
  <1>2. IInv /\ Kernel!TypeOK /\ LearnedType /\ Refused => PathTypeOK
    BY DEF IInv, LearnedType, Refused, PathTypeOK
  <1> QED
    BY <1>1, <1>2, TruthStep, RefusedStep, RelayInvariant, LearnedInvariant,
      KernelTypes, PTL DEF PathSpec

-----------------------------------------------------------------------------
(* The last request decides.  The invariant follows the requests of a call *)
(* on their way: they are all of one kind, and none is overtaken by one of *)
(* the other kind.                                                         *)

(* The buckets of a request, in the order in which a callback changes them.*)
FirstBucket(m) == BucketOf[Kernel!key_s1(SessionOf[m])]
SecondBucket(m) == BucketOf[Kernel!key_s2(SessionOf[m])]

(* No two calls share a bucket.                                            *)
CallsApart ==
  \A m, n \in Message :
    BucketsOf(m) \intersect BucketsOf(n) # {} => SameCall(m, n)

Handled(c) == MessageOf(item[c])

InCallback(i) == \E c \in Read : pc[c] # "idle" /\ item[c] = i

(* The buffers of the children: each has its own, and what a child that is *)
(* gone had was sent or dropped.                                           *)
Owners ==
  /\ \A c \in Read : item[c] # 0 => Working(c) \/ child[c] = "gone"
  /\ \A c \in Read : child[c] = "gone" =>
       item[c] \in 1 .. reads /\ (IsSent(item[c]) \/ item[c] \in dropped)
  /\ \A c, d \in Read : item[c] = item[d] /\ item[c] # 0 => c = d

(* A callback handles what its child has sent.                             *)
Handlers ==
  /\ \A i \in refused : IsSent(i)
  /\ \A c \in Read : pc[c] # "idle" =>
       /\ pc[c] \in {"alloc", "add1", "add2"} <=> Handled(c) \in Setup
       /\ sess[c] = Delivered(c)
       /\ IsSent(item[c]) /\ item[c] \notin refused

OneKind == \A m, n \in UnderWay : SameCall(m, n) => SameKind(m, n)

(* The later requests of the same call.                                    *)
Since(i) == {j \in i .. reads : SameCall(MessageOf(i), MessageOf(j))}

NoneOvertaken ==
  \A i \in Pending : \A j \in Since(i) : SameKind(MessageOf(i), MessageOf(j))

(* Between its two buckets, what a callback has done to the first stays.   *)
Halfway ==
  \A c \in Read :
    /\ pc[c] = "add2" => chain[FirstBucket(Handled(c))] # <<>>
    /\ pc[c] = "del2" => chain[FirstBucket(Handled(c))] = <<>>

TornDown ==
  \A i \in 1 .. reads :
    i \notin Pending /\ (\A j \in Since(i) : MessageOf(j) \notin Setup)
    => Removed(MessageOf(i))

SetUp ==
  \A i \in 1 .. reads :
    /\ i \notin Pending \union dropped \union refused
    /\ \A j \in Since(i) : MessageOf(j) \in Setup
    => Installed(MessageOf(i))

(* An entry was made by the callback of a child, for a setup that no       *)
(* teardown has followed into the kernel yet.                              *)
MadeBy(c, b, e) ==
  \/ /\ b = FirstBucket(Handled(c))
     /\ e = Kernel!netlink_message_s1(Delivered(c))
  \/ /\ b = SecondBucket(Handled(c))
     /\ e = Kernel!netlink_message_s2(Delivered(c))

Source(c, b, e) ==
  /\ child[c] = "gone" /\ pc[c] \in {"idle", "add2"}
  /\ item[c] \in 1 .. reads /\ item[c] \notin dropped \union refused
  /\ Handled(c) \in Setup
  /\ MadeBy(c, b, e)
  /\ \A j \in Since(item[c]) : MessageOf(j) \in Setup \/ j \in Pending

Origins ==
  \A b \in Bucket : \A x \in 1 .. Len(chain[b]) :
    \E c \in Read : Source(c, b, chain[b][x])

Base == /\ IInv /\ Kernel!TypeOK /\ LearnedType /\ Callbacks
        /\ ~closed /\ Owners /\ Handlers

Order == /\ OneKind /\ NoneOvertaken /\ Halfway /\ TornDown /\ SetUp
         /\ Origins

-----------------------------------------------------------------------------
(* What the operators say.                                                 *)

LEMMA PendingIs ==
  ASSUME NEW i \in 1 .. reads
  PROVE  i \in Pending <=>
           AtParent(i) \/ InPipe(i) \/ InHand(i) \/ InCallback(i)
  BY DEF Pending, AtParent, InPipe, InHand, InCallback, Occurs

(* Where a message is hashed to does not depend on the ports learned.      *)
LEMMA Buckets ==
  ASSUME NEW m \in Message, NEW ports \in UdpPort \X UdpPort
  PROVE  /\ BucketsOf(m) = {FirstBucket(m), SecondBucket(m)}
         /\ FirstBucket(m) \in Bucket /\ SecondBucket(m) \in Bucket
         /\ BucketOf[Kernel!key_s1(WithPorts(m, ports))] = FirstBucket(m)
         /\ BucketOf[Kernel!key_s2(WithPorts(m, ports))] = SecondBucket(m)
  <1>1. BucketsOf(m) = {FirstBucket(m), SecondBucket(m)}
    BY DEF BucketsOf, Kernel!BucketsOf, FirstBucket, SecondBucket
  <1>2. /\ WithPorts(m, ports).src.ip = SessionOf[m].src.ip
        /\ WithPorts(m, ports).dnat.ip = SessionOf[m].dnat.ip
    <2>1. /\ WithPorts(m, ports).src =
               [ip |-> SessionOf[m].src.ip, port |-> ports[1]]
          /\ WithPorts(m, ports).dnat =
               [ip |-> SessionOf[m].dnat.ip, port |-> ports[2]]
      BY Ends
    <2> QED
      BY <2>1
  <1>3. /\ WithPorts(m, ports).dst = SessionOf[m].dst
        /\ WithPorts(m, ports).snat = SessionOf[m].snat
        /\ SessionOf[m].dst \in Endpoint /\ SessionOf[m].snat \in Endpoint
        /\ SessionOf[m].src \in Endpoint /\ SessionOf[m].dnat \in Endpoint
    BY PathAssumption DEF WithPorts
  <1>4. /\ FirstBucket(m) \in Bucket /\ SecondBucket(m) \in Bucket
    BY <1>3, PathAssumption
    DEF FirstBucket, SecondBucket, Kernel!key_s1, Kernel!key_s2, Endpoint
  <1>5. /\ Kernel!key_s1(WithPorts(m, ports)) = Kernel!key_s1(SessionOf[m])
        /\ Kernel!key_s2(WithPorts(m, ports)) = Kernel!key_s2(SessionOf[m])
    BY <1>2, <1>3 DEF Kernel!key_s1, Kernel!key_s2
  <1> QED
    BY <1>1, <1>4, <1>5 DEF FirstBucket, SecondBucket

LEMMA CallOf ==
  /\ \A m : SameCall(m, m)
  /\ \A m, n : SameCall(m, n) => SameCall(n, m)
  /\ \A m, n, o : SameCall(m, n) /\ SameCall(n, o) => SameCall(m, o)
  BY DEF SameCall

LEMMA PendingUnderWay ==
  ASSUME NEW i \in Pending
  PROVE  i \in 1 .. reads /\ MessageOf(i) \in UnderWay
  BY DEF Pending, UnderWay

-----------------------------------------------------------------------------
(* What a step does to the requests that are on their way.                 *)

(* What is pending stays pending, and has no effect yet.                   *)
NoEffect ==
  /\ UNCHANGED <<texts, dropped, refused, closed, chain>>
  /\ Pending' = Pending

OnlyMoves == NoEffect /\ UNCHANGED inbox

LEMMA SendsEffect ==
  ASSUME Base, NEW m \in Message, KamailioSends(m)
  PROVE  /\ NoEffect
         /\ UNCHANGED <<pipe, child, item, sent, learned, kernel>>
         /\ UnderWay' = UnderWay \union {m}
  <1>1. /\ UNCHANGED <<texts, parent, pipe, child, item, sent, dropped, closed,
                       learned, refused, kernel>>
        /\ inbox' = Append(inbox, m) /\ inbox \in Seq(Message)
    BY DEF KamailioSends, PeerSends, processes, Base, IInv, TypeOK
  <1>2. Pending' = Pending /\ \A i : MessageOf(i)' = MessageOf(i)
    BY <1>1 DEF Pending, reads, kernel, Working, MessageOf
  <1>3. {inbox'[k] : k \in 1 .. Len(inbox')}
          = {inbox[k] : k \in 1 .. Len(inbox)} \union {m}
    <2>1. /\ Len(inbox') = Len(inbox) + 1 /\ inbox'[Len(inbox) + 1] = m
          /\ \A k \in 1 .. Len(inbox) : inbox'[k] = inbox[k]
          /\ Len(inbox) \in Nat
      BY <1>1, AppendFacts
    <2> QED
      BY <2>1
  <1> QED
    BY <1>1, <1>2, <1>3 DEF UnderWay, NoEffect, kernel

LEMMA ReadsEffect ==
  ASSUME Base, ParentReads
  PROVE  /\ UNCHANGED <<child, item, sent, dropped, closed>>
         /\ reads \in Nat /\ reads' = reads + 1
         /\ \A i \in 1 .. reads : MessageOf(i)' = MessageOf(i)
         /\ MessageOf(reads)' \in Message
         /\ UNCHANGED pc =>
              /\ Pending' = Pending \union {reads + 1}
              /\ MessageOf(reads)' \in UnderWay
              /\ \A m \in UnderWay' : m \in UnderWay
  <1>1. /\ reads' = reads + 1 /\ reads \in Nat /\ parent = "read"
        /\ \A i \in 1 .. reads : MessageOf(i)' = MessageOf(i)
        /\ MessageOf(reads)' \in Message
        /\ parent' = "write"
        /\ UNCHANGED <<child, item, sent, dropped, pipe, closed>>
    <2>1. ~ParentReadsEof
      BY DEF ParentReadsEof, Base
    <2> QED
      BY <2>1, ReadEffect DEF Base, IInv, ParentReads
  <1>2. MessageOf(reads)' = Head(inbox) /\ inbox # <<>>
    <2>1. Head(inbox) \in Message
      BY TailFacts DEF ParentReads, Base, IInv, TypeOK
    <2>2. buffer' \in Text /\ buffer'[1] = Head(inbox)
      BY <2>1, BufferType DEF ParentReads, Base, IInv, TypeOK
    <2>3. ReadAdds(buffer')
      BY <2>2, AppendedText DEF ParentReads, Base, IInv, TypeOK
    <2> QED
      BY <2>2, <2>3 DEF ReadAdds, ParentReads
  <1>3. /\ inbox' = Tail(inbox) /\ Len(inbox) \in Nat \ {0}
        /\ Head(inbox) = inbox[1] /\ Len(inbox') = Len(inbox) - 1
        /\ \A k \in 1 .. Len(inbox') : inbox'[k] = inbox[k + 1]
    BY <1>2, TailFacts DEF ParentReads, Base, IInv, TypeOK
  <1>4. ASSUME UNCHANGED pc
        PROVE  Pending' = Pending \union {reads + 1}
    <2>1. \A i \in 1 .. reads : i # reads + 1
      BY <1>1
    <2>2. ASSUME NEW i \in 1 .. reads PROVE i \in Pending' <=> i \in Pending
      BY <1>1, <1>4, <2>1 DEF Pending, Working
    <2>3. reads + 1 \in Pending'
      BY <1>1 DEF Pending
    <2>4. Pending \subseteq 1 .. reads /\ Pending' \subseteq 1 .. reads + 1
      BY <1>1 DEF Pending
    <2>5. \A i \in 1 .. reads + 1 : i \in 1 .. reads \/ i = reads + 1
      BY <1>1
    <2> QED
      BY <2>2, <2>3, <2>4, <2>5
  <1>5. MessageOf(reads)' \in UnderWay
    BY <1>2, <1>3 DEF UnderWay
  <1>6. ASSUME UNCHANGED pc, NEW m \in UnderWay'
        PROVE  m \in UnderWay
    <2>1. CASE \E k \in 1 .. Len(inbox') : m = inbox'[k]
      <3>1. PICK k \in 1 .. Len(inbox') : m = inbox[k + 1]
        BY <1>3, <2>1
      <3>2. k + 1 \in 1 .. Len(inbox)
        BY <1>3
      <3> QED
        BY <3>1, <3>2 DEF UnderWay
    <2>2. CASE \E i \in Pending' : m = MessageOf(i)'
      <3>1. PICK i \in Pending' : m = MessageOf(i)'
        BY <2>2
      <3>2. i \in Pending \/ i = reads + 1
        BY <3>1, <1>4, <1>6
      <3>3. CASE i = reads + 1
        BY <3>1, <3>3, <1>1, <1>5
      <3>4. CASE i \in Pending
        <4>1. i \in 1 .. reads
          BY <3>4 DEF Pending
        <4> QED
          BY <3>1, <3>4, <4>1, <1>1 DEF UnderWay
      <3> QED
        BY <3>2, <3>3, <3>4
    <2> QED
      BY <2>1, <2>2 DEF UnderWay
  <1> QED
    BY <1>1, <1>4, <1>5, <1>6

(* A buffer leaves the parent for the pipe.                                *)
LEMMA ParentMoves ==
  ASSUME Base, ParentStep, ~ParentReads
  PROVE  OnlyMoves /\ UNCHANGED <<sent, item, learned, kernel>>
  <1>1. /\ UNCHANGED <<texts, inbox, dropped, refused, closed, item, learned,
                       sent, kernel>>
        /\ ParentWrites \/ ParentForks \/ ForkFails
    <2>1. ~ParentReadsEof /\ ~ParentEnds
      BY DEF ParentReadsEof, ParentEnds, Base
    <2> QED
      BY <2>1 DEF ParentStep, Parent, ParentWrites, ParentForks, ForkFails
  <1>2. /\ \A c \in Read : Working(c)' <=> Working(c)
        /\ reads' = reads
    BY <1>1, ParentFrame DEF Base, reads
  <1>3. CASE ParentWrites
    <2>1. /\ parent = "write" /\ parent' = "fork"
          /\ \A i : Occurs(pipe', i) <=> Occurs(pipe, i) \/ i = reads
      <3>1. reads \in 1 .. reads /\ pipe \in Seq(1 .. reads)
        BY <1>3 DEF Base, IInv, TypeOK, Forked, ParentWrites, reads
      <3> QED
        BY <1>3, <3>1, AppendOccurs DEF ParentWrites
    <2>2. reads \in 1 .. reads
      BY <1>3 DEF Base, IInv, TypeOK, Forked, ParentWrites, reads
    <2>3. \A i \in 1 .. reads : i \in Pending' <=> i \in Pending
      BY <1>1, <1>2, <2>1 DEF Pending, Occurs, kernel
    <2>4. Pending' = Pending
      BY <1>2, <2>3 DEF Pending
    <2> QED
      BY <1>1, <2>4 DEF OnlyMoves, NoEffect, kernel
  <1>4. CASE ParentForks \/ ForkFails
    <2>1. pipe' = pipe /\ parent = "fork" /\ parent' = "read"
      BY <1>4 DEF ParentForks, ForkFails
    <2>2. Pending' = Pending
      BY <1>1, <1>2, <2>1 DEF Pending, kernel
    <2> QED
      BY <1>1, <2>2 DEF OnlyMoves, NoEffect, kernel
  <1> QED
    BY <1>1, <1>3, <1>4

(* From the pipe to a child.                                               *)
LEMMA TakeMoves ==
  ASSUME Base, NEW c \in Read, Take(c)
  PROVE  /\ OnlyMoves /\ UNCHANGED <<sent, kernel>>
         /\ item' = [item EXCEPT ![c] = Head(pipe)]
         /\ Head(pipe) \in 1 .. reads /\ Occurs(pipe, Head(pipe))
         /\ child[c] = "new" /\ Working(c)'
         /\ \A d \in Read : d # c =>
              child'[d] = child[d] /\ learned'[d] = learned[d]
  <1>1. /\ child[c] = "new" /\ pipe # <<>> /\ pipe' = Tail(pipe)
        /\ item' = [item EXCEPT ![c] = Head(pipe)]
        /\ child' = [child EXCEPT ![c] =
             IF MessageOf(Head(pipe)) \in Setup THEN "bind1" ELSE "send"]
        /\ UNCHANGED <<ours, sent, dropped, refused, kernel>>
        /\ learned' = [learned EXCEPT ![c] = GivenPorts(MessageOf(Head(pipe)))]
    BY DEF Take, ChildReads, TakeFromPipe
  <1>2. /\ pipe \in Seq(1 .. reads)
        /\ child \in [Read -> {"none", "new", "bind1", "poll1", "bind2",
                               "poll2", "send", "gone"}]
        /\ item \in [Read -> 0 .. reads] /\ NoRepeat(pipe)
    BY DEF Base, IInv, TypeOK, Distinct
  <1>3. /\ \A i : Occurs(pipe', i) <=> Occurs(pipe, i) /\ i # Head(pipe)
        /\ Occurs(pipe, Head(pipe)) /\ Head(pipe) \in 1 .. reads
    BY <1>1, <1>2, TailOccurs, TailFacts
  <1>4. /\ Working(c)' /\ ~Working(c) /\ item'[c] = Head(pipe)
        /\ pc[c] = "idle"
        /\ \A d \in Read : d # c =>
             /\ Working(d)' <=> Working(d)
             /\ item'[d] = item[d] /\ child'[d] = child[d]
             /\ learned'[d] = learned[d]
    BY <1>1, <1>2 DEF Working, Base, Callbacks, LearnedType
  <1>5. reads' = reads /\ pc' = pc
    BY <1>1 DEF reads, ours, kernel
  <1>6. ASSUME NEW i \in 1 .. reads
        PROVE  (\E d \in Read :
                  (Working(d)' \/ pc'[d] # "idle") /\ item'[d] = i)
                 <=> \/ \E d \in Read :
                          (Working(d) \/ pc[d] # "idle") /\ item[d] = i
                     \/ i = Head(pipe)
    BY <1>4, <1>5
  <1>7. \A i \in 1 .. reads : i \in Pending' <=> i \in Pending
    BY <1>1, <1>3, <1>5, <1>6 DEF Pending, Occurs, ours
  <1>8. Pending' = Pending
    BY <1>5, <1>7 DEF Pending
  <1> QED
    BY <1>1, <1>3, <1>4, <1>8 DEF OnlyMoves, NoEffect, ours, kernel

(* A child at work whose item stays in its hands.                          *)
LEMMA WaitMoves ==
  ASSUME Base, NEW c \in Read,
         (Bind(c) /\ BindPort(c)) \/ Hear(c) \/ TimeOut(c)
  PROVE  /\ OnlyMoves /\ UNCHANGED <<sent, item, kernel>>
         /\ Working(c) /\ Working(c)'
         /\ \A d \in Read : d # c =>
              child'[d] = child[d] /\ learned'[d] = learned[d]
  <1>1. /\ Bind(c) \/ PollEnds(c)
        /\ UNCHANGED <<ours, pipe, item, sent, dropped, refused, kernel>>
        /\ \A d \in Read : d # c => learned'[d] = learned[d]
    BY DEF BindPort, Hear, TimeOut, Bind, PollEnds, Learn, Base, LearnedType
  <1>2. /\ Working(c) /\ Working(c)'
        /\ \A d \in Read : d # c => child'[d] = child[d]
    BY <1>1 DEF Bind, PollEnds, Working, Base, IInv, TypeOK
  <1>3. \A d \in Read : Working(d)' <=> Working(d)
    BY <1>2 DEF Working
  <1>4. reads' = reads /\ pc' = pc /\ parent' = parent
    BY <1>1 DEF reads, ours, kernel
  <1>5. Pending' = Pending
    BY <1>1, <1>3, <1>4 DEF Pending
  <1> QED
    BY <1>1, <1>2, <1>5 DEF OnlyMoves, NoEffect, ours, kernel

(* A setup is dropped for a port.                                          *)
LEMMA DropEffect ==
  ASSUME Base, NEW c \in Read, BindFails(c), BindPort(c)
  PROVE  /\ UNCHANGED <<texts, inbox, closed, sent, item, learned, refused,
                        kernel>>
         /\ Working(c) /\ child'[c] = "gone"
         /\ \A d \in Read : d # c => child'[d] = child[d]
         /\ dropped' = dropped \union {item[c]}
         /\ item[c] \in 1 .. reads /\ Handled(c) \in Setup
         /\ \A i \in 1 .. reads :
              i \in Pending' <=> i \in Pending /\ i # item[c]
  <1>1. /\ child[c] \in {"bind1", "bind2"} /\ child'[c] = "gone"
        /\ \A d \in Read : d # c => child'[d] = child[d]
        /\ dropped' = dropped \union {item[c]}
        /\ UNCHANGED <<ours, pipe, item, sent, learned, refused, kernel>>
    BY DEF BindFails, BindPort, Base, IInv, TypeOK
  <1>2. /\ Working(c) /\ ~Working(c)' /\ pc[c] = "idle"
        /\ \A d \in Read : d # c => (Working(d)' <=> Working(d))
    BY <1>1 DEF Working, Base, Callbacks
  <1>3. item[c] \in 1 .. reads /\ Handled(c) \in Setup
    BY <1>1, <1>2 DEF Base, IInv, Phases, Handled
  <1>4. reads' = reads /\ pc' = pc /\ parent' = parent
    BY <1>1 DEF reads, ours, kernel
  <1>5. \A d \in Read : d # c => item[d] # item[c]
    BY <1>3 DEF Base, Owners
  <1>6. ~AtParent(item[c]) /\ ~InPipe(item[c])
    BY <1>2, <1>3 DEF Base, IInv, OnePlace, InHand
  <1>7. ASSUME NEW i \in 1 .. reads
        PROVE  i \in Pending' <=> i \in Pending /\ i # item[c]
    <2>1. i \in Pending' <=>
            AtParent(i)' \/ InPipe(i)' \/ InHand(i)' \/ InCallback(i)'
      BY <1>4
      DEF Pending, AtParent, InPipe, InHand, InCallback, Occurs
    <2>2. /\ AtParent(i)' <=> AtParent(i)
          /\ InPipe(i)' <=> InPipe(i)
          /\ InHand(i)' <=> InHand(i) /\ i # item[c]
          /\ InCallback(i)' <=> InCallback(i) /\ i # item[c]
      BY <1>1, <1>2, <1>4, <1>5
      DEF AtParent, InPipe, InHand, InCallback
    <2> QED
      BY <1>6, <2>1, <2>2, PendingIs
  <1> QED
    BY <1>1, <1>2, <1>3, <1>7 DEF ours

(* From a child to its callback.                                           *)
LEMMA SendMoves ==
  ASSUME Base, NEW c \in Read, SendToKernel(c)
  PROVE  /\ OnlyMoves /\ UNCHANGED <<item, learned>>
         /\ Working(c) /\ child'[c] = "gone" /\ item[c] \in 1 .. reads
         /\ \A d \in Read : d # c =>
              child'[d] = child[d] /\ pc'[d] = pc[d] /\ sess'[d] = sess[d]
         /\ pc[c] = "idle" /\ sess'[c] = Delivered(c)
         /\ pc'[c] = IF Handled(c) \in Setup THEN "alloc" ELSE "del1"
         /\ \A i : IsSent(i)' <=> IsSent(i) \/ i = item[c]
  <1>1. /\ child[c] = "send" /\ child'[c] = "gone"
        /\ sent' = Append(sent, item[c])
        /\ \A d \in Read : d # c => child'[d] = child[d]
        /\ UNCHANGED <<ours, pipe, item, dropped, learned, refused, chain>>
    BY DEF SendToKernel, Send, Kernel!ReceiveSetup, Kernel!ReceiveTeardown,
      Base, IInv, TypeOK
  <1>2. /\ pc[c] = "idle" /\ sess'[c] = Delivered(c)
        /\ pc'[c] = IF Handled(c) \in Setup THEN "alloc" ELSE "del1"
        /\ \A d \in Read : d # c => pc'[d] = pc[d] /\ sess'[d] = sess[d]
    BY DEF SendToKernel, Kernel!ReceiveSetup, Kernel!ReceiveTeardown,
      Base, Kernel!TypeOK, Handled
  <1>3. /\ Working(c) /\ item[c] \in 1 .. reads /\ sent \in Seq(1 .. reads)
        /\ \A d \in Read : d # c => (Working(d)' <=> Working(d))
        /\ pc'[c] # "idle"
    BY <1>1, <1>2 DEF Working, Base, IInv, TypeOK, Phases
  <1>4. reads' = reads /\ parent' = parent
    BY <1>1 DEF reads, ours
  <1>5. \A d \in Read :
          Working(d)' \/ pc'[d] # "idle" <=> Working(d) \/ pc[d] # "idle"
    BY <1>2, <1>3
  <1>6. Pending' = Pending
    BY <1>1, <1>4, <1>5 DEF Pending
  <1>7. \A i : IsSent(i)' <=> IsSent(i) \/ i = item[c]
    <2>1. \A i : Occurs(Append(sent, item[c]), i) <=>
                   Occurs(sent, i) \/ i = item[c]
      BY <1>3, AppendOccurs
    <2> QED
      BY <1>1, <2>1 DEF IsSent
  <1> QED
    BY <1>1, <1>2, <1>3, <1>6, <1>7 DEF OnlyMoves, NoEffect, ours

(* A callback goes on, or comes to its end.                                *)
LEMMA CallbackEffect ==
  ASSUME Base, NEW c \in Read, CallbackGoesOn(c)
  PROVE  /\ UNCHANGED <<vars, learned>>
         /\ pc[c] # "idle" /\ child[c] = "gone" /\ item[c] \in Pending
         /\ \A d \in Read : d # c => pc'[d] = pc[d] /\ sess'[d] = sess[d]
         /\ pc'[c] # "idle" => Pending' = Pending
         /\ pc'[c] = "idle" =>
              \A i \in 1 .. reads :
                i \in Pending' <=> i \in Pending /\ i # item[c]
  <1>1. /\ UNCHANGED <<vars, learned>> /\ pc[c] # "idle"
        /\ \A d \in Read : d # c => pc'[d] = pc[d] /\ sess'[d] = sess[d]
    BY DEF CallbackGoesOn, Kernel!CallbackStep, Kernel!Allocate,
      Kernel!AllocateFails, Kernel!Add1, Kernel!Add2, Kernel!Delete1,
      Kernel!Delete2, Kernel!Return, Base, Kernel!TypeOK
  <1>2. /\ child[c] = "gone" /\ item[c] \in 1 .. reads
        /\ IsSent(item[c]) /\ ~Working(c)
    BY <1>1 DEF Base, Callbacks, Handlers, Working
  <1>3. item[c] \in Pending
    BY <1>1, <1>2 DEF Pending
  <1>4. reads' = reads /\ parent' = parent /\ pipe' = pipe /\ item' = item
        /\ \A d \in Read : Working(d)' <=> Working(d)
    BY <1>1 DEF vars, reads, Working
  <1>5. ASSUME pc'[c] # "idle" PROVE Pending' = Pending
    <2>1. \A d \in Read : pc'[d] # "idle" <=> pc[d] # "idle"
      BY <1>1, <1>5
    <2> QED
      BY <1>4, <2>1 DEF Pending
  <1>6. ASSUME pc'[c] = "idle", NEW i \in 1 .. reads
        PROVE  i \in Pending' <=> i \in Pending /\ i # item[c]
    <2>1. \A d \in Read : d # c => item[d] # item[c]
      BY <1>2 DEF Base, Owners
    <2>2. ~AtParent(item[c]) /\ ~InPipe(item[c]) /\ ~InHand(item[c])
      BY <1>2 DEF Base, IInv, OnePlace
    <2>3. i \in Pending' <=>
            AtParent(i)' \/ InPipe(i)' \/ InHand(i)' \/ InCallback(i)'
      BY <1>4
      DEF Pending, AtParent, InPipe, InHand, InCallback, Occurs
    <2>4. /\ AtParent(i)' <=> AtParent(i)
          /\ InPipe(i)' <=> InPipe(i)
          /\ InHand(i)' <=> InHand(i)
          /\ InCallback(i)' <=> InCallback(i) /\ i # item[c]
      BY <1>1, <1>4, <1>6, <2>1
      DEF AtParent, InPipe, InHand, InCallback
    <2> QED
      BY <2>2, <2>3, <2>4, PendingIs
  <1> QED
    BY <1>1, <1>2, <1>3, <1>5, <1>6

-----------------------------------------------------------------------------
(* The parts of Base that are not known yet are kept.                      *)

(* Kamailio and the parent: nothing that a child owns changes.             *)
LEMMA ParentOwns ==
  ASSUME Base, (\E m \in Message : KamailioSends(m)) \/ ParentStep
  PROVE  ~closed' /\ Owners' /\ Handlers'
  <1>1. /\ UNCHANGED <<item, learned, refused, pc, sess>>
        /\ 1 .. reads \subseteq 1 .. reads'
        /\ \A i \in 1 .. reads : MessageOf(i)' = MessageOf(i)
        /\ \A c \in Read : Working(c)' <=> Working(c)
        /\ \A c \in Read : child[c] = "gone" => child'[c] = "gone"
    BY ParentFrame DEF kernel, Base
  <1>2. UNCHANGED <<closed, sent, dropped>>
    BY DEF KamailioSends, PeerSends, processes, ParentStep, Parent,
      ParentReads, ParentReadsEof, ParentWrites, ParentForks, ForkFails,
      ParentEnds
  <1>3. \A c \in Read : child'[c] = "gone" => child[c] = "gone"
    <2>1. \A c \in Read : child'[c] = child[c] \/ child'[c] = "new"
      BY DEF KamailioSends, PeerSends, processes, ParentStep, Parent,
        ParentReads, ParentReadsEof, ParentWrites, ParentForks, ForkFails,
        ParentEnds, Base, IInv, TypeOK
    <2> QED
      BY <2>1
  <1>4. Owners'
    BY <1>1, <1>2, <1>3 DEF Base, Owners, IsSent
  <1>5. Handlers'
    <2> SUFFICES ASSUME NEW c \in Read, pc[c] # "idle"
                 PROVE  /\ Handled(c)' = Handled(c)
                        /\ Delivered(c)' = Delivered(c)
      BY <1>1, <1>2 DEF Base, Handlers, IsSent
    <2> QED
      BY <1>1 DEF Base, Callbacks, Handled, Delivered
  <1> QED
    BY <1>2, <1>4, <1>5 DEF Base

LEMMA ChildOwns ==
  ASSUME Base, NEW c \in Read, ChildStep(c)
  PROVE  ~closed' /\ Owners' /\ Handlers'
  <1>1. CASE Take(c)
    <2> DEFINE i == Head(pipe)
    <2>1. /\ OnlyMoves /\ UNCHANGED <<sent, pc, sess>>
          /\ item'[c] = i /\ i \in 1 .. reads /\ Occurs(pipe, i)
          /\ child[c] = "new" /\ Working(c)'
          /\ \A d \in Read : d # c =>
               /\ child'[d] = child[d] /\ learned'[d] = learned[d]
               /\ item'[d] = item[d]
      BY <1>1, TakeMoves DEF kernel, Base, IInv, TypeOK
    <2>2. \A d \in Read : item[d] # i
      <3>1. SUFFICES ASSUME NEW d \in Read, item[d] = i PROVE FALSE
        OBVIOUS
      <3>2. ~InHand(i) /\ ~IsSent(i) /\ i \notin dropped
        BY <2>1 DEF Base, IInv, OnePlace, InPipe
      <3>3. Working(d) \/ child[d] = "gone"
        BY <2>1, <3>1 DEF Base, Owners
      <3> QED
        BY <3>1, <3>2, <3>3 DEF InHand, Base, Owners
    <2>3. /\ UNCHANGED <<texts, dropped, refused, closed>> /\ reads' = reads
      BY <2>1 DEF OnlyMoves, NoEffect, reads
    <2>4. child'[c] # "gone" /\ pc[c] = "idle"
      BY <2>1 DEF Working, Base, Callbacks
    <2>5. \A d \in Read : d # c => (Working(d)' <=> Working(d))
      BY <2>1 DEF Working
    <2>6. Owners'
      BY <2>1, <2>2, <2>3, <2>4, <2>5 DEF Base, Owners, IsSent
    <2>7. Handlers'
      BY <2>1, <2>3, <2>4
      DEF Base, Handlers, IsSent, Handled, Delivered, MessageOf
    <2> QED
      BY <2>3, <2>6, <2>7 DEF Base
  <1>2. CASE (BindPort(c) /\ Bind(c)) \/ Hear(c) \/ TimeOut(c)
    <2>1. /\ OnlyMoves /\ UNCHANGED <<sent, item, pc, sess>>
          /\ Working(c) /\ Working(c)'
          /\ \A d \in Read : d # c =>
               child'[d] = child[d] /\ learned'[d] = learned[d]
      BY <1>2, WaitMoves DEF kernel
    <2>2. /\ UNCHANGED <<texts, dropped, refused, closed>> /\ reads' = reads
      BY <2>1 DEF OnlyMoves, NoEffect, reads
    <2>3. /\ child[c] # "gone" /\ child'[c] # "gone" /\ pc[c] = "idle"
          /\ \A d \in Read : Working(d)' <=> Working(d)
      BY <2>1 DEF Working, Base, Callbacks
    <2>4. Owners'
      BY <2>1, <2>2, <2>3 DEF Base, Owners, IsSent
    <2>5. Handlers'
      BY <2>1, <2>2, <2>3
      DEF Base, Handlers, IsSent, Handled, Delivered, MessageOf
    <2> QED
      BY <2>2, <2>4, <2>5 DEF Base
  <1>3. CASE BindPort(c) /\ BindFails(c)
    <2>1. /\ UNCHANGED <<texts, closed, sent, item, learned, refused, pc,
                         sess>>
          /\ Working(c) /\ child'[c] = "gone"
          /\ \A d \in Read : d # c => child'[d] = child[d]
          /\ dropped' = dropped \union {item[c]}
          /\ item[c] \in 1 .. reads
      BY <1>3, DropEffect DEF kernel
    <2>2. /\ reads' = reads
          /\ \A d \in Read : d # c => (Working(d)' <=> Working(d))
      BY <2>1 DEF reads, Working
    <2>3. Owners'
      BY <2>1, <2>2 DEF Base, Owners, IsSent
    <2>4. Handlers'
      BY <2>1, <2>2
      DEF Base, Handlers, IsSent, Handled, Delivered, MessageOf
    <2> QED
      BY <2>1, <2>3, <2>4 DEF Base
  <1>4. CASE SendToKernel(c)
    <2>1. /\ OnlyMoves /\ UNCHANGED <<item, learned>>
          /\ Working(c) /\ child'[c] = "gone" /\ item[c] \in 1 .. reads
          /\ \A d \in Read : d # c =>
               child'[d] = child[d] /\ pc'[d] = pc[d] /\ sess'[d] = sess[d]
          /\ pc[c] = "idle" /\ sess'[c] = Delivered(c)
          /\ pc'[c] = IF Handled(c) \in Setup THEN "alloc" ELSE "del1"
          /\ \A i : IsSent(i)' <=> IsSent(i) \/ i = item[c]
      BY <1>4, SendMoves
    <2>2. /\ UNCHANGED <<texts, dropped, refused, closed>> /\ reads' = reads
          /\ \A d \in Read : d # c => (Working(d)' <=> Working(d))
      BY <2>1 DEF OnlyMoves, NoEffect, reads, Working
    <2>3. Owners'
      BY <2>1, <2>2 DEF Base, Owners
    <2>4. ~IsSent(item[c])
      BY <2>1 DEF Base, IInv, OnePlace, InHand
    <2>5. Handlers'
      <3>1. item[c] \notin refused
        BY <2>4 DEF Base, Handlers
      <3>2. \A d \in Read :
              Handled(d)' = Handled(d) /\ Delivered(d)' = Delivered(d)
        BY <2>1, <2>2 DEF Handled, Delivered, MessageOf
      <3>3. \A d \in Read : d # c /\ pc'[d] # "idle" =>
              /\ pc'[d] \in {"alloc", "add1", "add2"} <=> Handled(d)' \in Setup
              /\ sess'[d] = Delivered(d)'
              /\ IsSent(item[d])' /\ item'[d] \notin refused'
        BY <2>1, <2>2, <3>2 DEF Base, Handlers
      <3>4. /\ pc'[c] \in {"alloc", "add1", "add2"} <=> Handled(c)' \in Setup
            /\ sess'[c] = Delivered(c)'
            /\ IsSent(item[c])' /\ item'[c] \notin refused'
        BY <2>1, <2>2, <3>1, <3>2
      <3>5. \A i \in refused' : IsSent(i)'
        BY <2>1, <2>2 DEF Base, Handlers
      <3> QED
        BY <2>1, <3>3, <3>4, <3>5 DEF Handlers, IsSent
    <2> QED
      BY <2>2, <2>3, <2>5 DEF Base
  <1>5. CASE CallbackGoesOn(c)
    <2>1. /\ UNCHANGED <<vars, learned>> /\ pc[c] # "idle"
          /\ \A d \in Read : d # c => pc'[d] = pc[d] /\ sess'[d] = sess[d]
      BY <1>5, CallbackEffect
    <2>2. /\ UNCHANGED <<texts, item, child, sent, dropped, closed>>
          /\ reads' = reads
          /\ \A d \in Read : Working(d)' <=> Working(d)
          /\ \A d \in Read :
               Handled(d)' = Handled(d) /\ Delivered(d)' = Delivered(d)
      BY <2>1 DEF vars, reads, Working, Handled, Delivered, MessageOf
    <2>3. Owners'
      BY <2>2 DEF Base, Owners, IsSent
    <2>4. Handlers'
      <3>1. /\ refused' = refused \/ refused' = refused \union {item[c]}
            /\ pc'[c] # "idle" => refused' = refused
        BY <1>5 DEF CallbackGoesOn
      <3>2. pc'[c] # "idle" =>
              /\ sess'[c] = sess[c]
              /\ pc'[c] \in {"alloc", "add1", "add2"} <=>
                   pc[c] \in {"alloc", "add1", "add2"}
        BY <1>5
        DEF CallbackGoesOn, Kernel!CallbackStep, Kernel!Allocate,
          Kernel!AllocateFails, Kernel!Add1, Kernel!Add2, Kernel!Delete1,
          Kernel!Delete2, Kernel!Return, Base, Kernel!TypeOK
      <3>3. \A d \in Read : d # c /\ pc[d] # "idle" => item[d] # item[c]
        BY <2>1 DEF Base, Callbacks, Owners
      <3>4. \A i \in refused' : IsSent(i)'
        BY <2>1, <2>2, <3>1 DEF Base, Handlers, IsSent
      <3>5. ASSUME NEW d \in Read, pc'[d] # "idle"
            PROVE  /\ pc'[d] \in {"alloc", "add1", "add2"} <=>
                        Handled(d)' \in Setup
                   /\ sess'[d] = Delivered(d)'
                   /\ IsSent(item[d])' /\ item'[d] \notin refused'
        <4>1. CASE d = c
          BY <2>1, <2>2, <3>1, <3>2, <3>5, <4>1 DEF Base, Handlers, IsSent
        <4>2. CASE d # c
          BY <2>1, <2>2, <3>1, <3>3, <3>5, <4>2 DEF Base, Handlers, IsSent
        <4> QED
          BY <4>1, <4>2
      <3> QED
        BY <3>4, <3>5 DEF Handlers
    <2> QED
      BY <2>2, <2>3, <2>4 DEF Base
  <1> QED
    BY <1>1, <1>2, <1>3, <1>4, <1>5 DEF ChildStep, BindPort

-----------------------------------------------------------------------------
(* Each step keeps the order.                                              *)

LEMMA SourceStays ==
  ASSUME Base, NEW c \in Read, NEW b, NEW e, Source(c, b, e),
         child'[c] = "gone", pc'[c] \in {"idle", "add2"},
         item'[c] = item[c], learned'[c] = learned[c],
         reads \in Nat, reads' \in {reads, reads + 1},
         \A i \in 1 .. reads : MessageOf(i)' = MessageOf(i),
         item[c] \notin dropped' \union refused',
         \A j \in 1 .. reads' :
           (j \in 1 .. reads => j \in Pending /\ j \in Since(item[c]))
             => MessageOf(j)' \in Setup \/ j \in Pending'
  PROVE  Source(c, b, e)'
  <1>1. /\ item[c] \in 1 .. reads /\ item'[c] \in 1 .. reads'
        /\ Handled(c)' = Handled(c) /\ Delivered(c)' = Delivered(c)
    BY DEF Source, Handled, Delivered
  <1>2. MadeBy(c, b, e)'
    BY <1>1 DEF Source, MadeBy, FirstBucket, SecondBucket, Kernel!key_s1,
      Kernel!key_s2, Kernel!netlink_message_s1, Kernel!netlink_message_s2
  <1>3. ASSUME NEW j \in Since(item[c])'
        PROVE  MessageOf(j)' \in Setup \/ j \in Pending'
    <2>1. j \in item[c] .. reads' /\ j \in 1 .. reads'
      BY <1>1, <1>3 DEF Since
    <2>2. CASE j \in 1 .. reads
      <3>1. SameCall(MessageOf(item[c]), MessageOf(j))'
              <=> SameCall(MessageOf(item[c]), MessageOf(j))
        BY <1>1, <2>2
        DEF SameCall, BucketsOf, Kernel!BucketsOf, Kernel!key_s1, Kernel!key_s2
      <3>2. j \in Since(item[c])
        BY <1>3, <2>1, <2>2, <3>1, <1>1 DEF Since
      <3> QED
        BY <2>1, <2>2, <3>2 DEF Source
    <2>3. CASE j \notin 1 .. reads
      BY <2>1, <2>3
    <2> QED
      BY <2>2, <2>3
  <1> QED
    BY <1>1, <1>2, <1>3 DEF Source, Handled

(* The history of reads is the same, so are calls and what follows.        *)
LEMMA SameHistory ==
  ASSUME texts' = texts
  PROVE  /\ reads' = reads
         /\ \A i : MessageOf(i)' = MessageOf(i)
         /\ \A i : Since(i)' = Since(i)
  BY DEF reads, MessageOf, Since, SameCall, BucketsOf, Kernel!BucketsOf,
    Kernel!key_s1, Kernel!key_s2

LEMMA FewerUnderWay ==
  ASSUME OneKind, \A m \in UnderWay' : m \in UnderWay
  PROVE  OneKind'
  BY DEF OneKind, SameKind, SameCall, BucketsOf, Kernel!BucketsOf,
    Kernel!key_s1, Kernel!key_s2

(* A request moves on.                                                     *)
LEMMA MovesKeepOrder ==
  ASSUME Base, Order, NoEffect, OneKind',
         \A c \in Read : child[c] = "gone" =>
           /\ child'[c] = "gone" /\ item'[c] = item[c]
           /\ learned'[c] = learned[c]
           /\ pc[c] \in {"idle", "add2"} => pc'[c] = pc[c],
         \A c \in Read : pc'[c] \in {"add2", "del2"} =>
           pc[c] = pc'[c]
  PROVE  Order'
  <1>1. /\ UNCHANGED <<texts, dropped, refused, chain>>
        /\ Pending' = Pending /\ reads' = reads
        /\ \A i : MessageOf(i)' = MessageOf(i)
        /\ \A i : Since(i)' = Since(i)
    BY SameHistory DEF NoEffect
  <1>4. NoneOvertaken'
    BY <1>1 DEF Order, NoneOvertaken, SameKind
  <1>5. Halfway'
    <2> SUFFICES ASSUME NEW c \in Read, pc'[c] \in {"add2", "del2"}
                 PROVE  pc[c] = pc'[c] /\ Handled(c)' = Handled(c)
      BY <1>1 DEF Order, Halfway, FirstBucket, Kernel!key_s1
    <2>1. pc[c] = pc'[c] /\ child[c] = "gone"
      BY DEF Base, Callbacks
    <2> QED
      BY <1>1, <2>1 DEF Handled
  <1>6. TornDown' /\ SetUp'
    BY <1>1 DEF Order, TornDown, SetUp, Removed, Installed, BucketsOf,
      Kernel!BucketsOf, Kernel!key_s1, Kernel!key_s2
  <1>7. Origins'
    <2> SUFFICES ASSUME NEW b \in Bucket, NEW x \in 1 .. Len(chain[b])
                 PROVE  \E c \in Read : Source(c, b, chain[b][x])'
      BY <1>1 DEF Origins, Source, MadeBy, FirstBucket, SecondBucket,
        Kernel!key_s1, Kernel!key_s2, Kernel!netlink_message_s1,
        Kernel!netlink_message_s2
    <2>1. PICK c \in Read : Source(c, b, chain[b][x])
      BY DEF Order, Origins
    <2>2. /\ child[c] = "gone" /\ pc[c] \in {"idle", "add2"}
          /\ item[c] \notin dropped \union refused
          /\ reads \in Nat
      BY <2>1 DEF Source, Base, IInv, TypeOK, reads
    <2>3. \A j \in 1 .. reads' :
           (j \in 1 .. reads => j \in Pending /\ j \in Since(item[c]))
             => MessageOf(j)' \in Setup \/ j \in Pending'
      BY <1>1
    <2>4. Source(c, b, chain[b][x])'
      BY <1>1, <2>1, <2>2, <2>3, SourceStays
    <2> QED
      BY <2>4
  <1> QED
    BY <1>4, <1>5, <1>6, <1>7 DEF Order

LEMMA SameUnderWay ==
  ASSUME OnlyMoves
  PROVE  UnderWay' = UnderWay
  BY SameHistory DEF OnlyMoves, NoEffect, UnderWay

(* Patience is what keeps requests of one call on their way of one kind.   *)
LEMMA SendsKeepsOrder ==
  ASSUME Base, Order, Patient, NEW m \in Message, KamailioSends(m)
  PROVE  Order'
  <1>1. /\ NoEffect /\ UNCHANGED <<child, item, learned, pc>>
        /\ UnderWay' = UnderWay \union {m}
    BY SendsEffect DEF kernel
  <1>2. \A n \in UnderWay : SameCall(m, n) => SameKind(m, n)
    BY DEF KamailioSends
  <1>3. ASSUME NEW n \in UnderWay \union {m}, NEW o \in UnderWay \union {m},
               SameCall(n, o)
        PROVE  SameKind(n, o)
    <2>1. CASE n = m /\ o = m
      BY <2>1 DEF SameKind
    <2>2. CASE n = m /\ o \in UnderWay
      BY <1>2, <1>3, <2>2
    <2>3. CASE n \in UnderWay /\ o = m
      BY <1>2, <1>3, <2>3, CallOf DEF SameKind
    <2>4. CASE n \in UnderWay /\ o \in UnderWay
      BY <1>3, <2>4 DEF Order, OneKind
    <2> QED
      BY <2>1, <2>2, <2>3, <2>4
  <1>4. OneKind'
    BY <1>1, <1>3 DEF OneKind, SameKind, SameCall, BucketsOf,
      Kernel!BucketsOf, Kernel!key_s1, Kernel!key_s2
  <1> QED
    BY <1>1, <1>4, MovesKeepOrder

(* A read: the new request is pending, and of the kind of those before it. *)
LEMMA ReadsKeepsOrder ==
  ASSUME Base, Order, ParentStep, ParentReads
  PROVE  Order'
  <1>1. /\ UNCHANGED <<child, item, dropped, learned, refused, chain, pc>>
        /\ reads \in Nat /\ reads' = reads + 1
        /\ \A i \in 1 .. reads : MessageOf(i)' = MessageOf(i)
        /\ Pending' = Pending \union {reads + 1}
        /\ MessageOf(reads)' \in UnderWay
        /\ \A m \in UnderWay' : m \in UnderWay
    BY ReadsEffect DEF ParentStep, kernel
  <1>2. OneKind'
    BY <1>1, FewerUnderWay DEF Order
  <1>3. \A m, n : SameCall(m, n)' <=> SameCall(m, n)
    BY DEF SameCall, BucketsOf, Kernel!BucketsOf, Kernel!key_s1, Kernel!key_s2
  <1>4. ASSUME NEW i \in 1 .. reads
        PROVE  /\ \A j \in Since(i) : j \in Since(i)' /\ j \in 1 .. reads
               /\ \A j \in Since(i)' : j \in Since(i) \/ j = reads + 1
               /\ i # reads + 1
    <2>1. \A j \in i .. reads : j \in 1 .. reads /\ j \in i .. reads'
      BY <1>1
    <2>2. \A j \in i .. reads' : j \in i .. reads \/ j = reads + 1
      BY <1>1
    <2> QED
      BY <1>1, <1>3, <2>1, <2>2 DEF Since
  <1>5. NoneOvertaken'
    <2> SUFFICES ASSUME NEW i \in Pending', NEW j \in Since(i)'
                 PROVE  MessageOf(i)' \in Setup <=> MessageOf(j)' \in Setup
      BY DEF NoneOvertaken, SameKind
    <2>1. CASE i = reads + 1
      <3>1. j \in i .. reads'
        BY DEF Since
      <3>2. j = i
        BY <1>1, <2>1, <3>1
      <3> QED
        BY <3>2
    <2>2. CASE i \in Pending /\ j \in Since(i)
      <3>1. i \in 1 .. reads /\ j \in 1 .. reads
        BY <2>2, <1>4, PendingUnderWay
      <3> QED
        BY <1>1, <2>2, <3>1 DEF Order, NoneOvertaken, SameKind
    <2>3. CASE i \in Pending /\ j = reads + 1
      <3>1. i \in 1 .. reads /\ MessageOf(i) \in UnderWay
        BY <2>3, PendingUnderWay
      <3>2. SameCall(MessageOf(i), MessageOf(j)')
        BY <1>1, <1>3, <3>1 DEF Since
      <3>3. MessageOf(j)' \in UnderWay
        <4>1. MessageOf(j)' = MessageOf(reads)'
          BY <1>1, <2>3 DEF MessageOf
        <4> QED
          BY <1>1, <4>1
      <3> QED
        BY <1>1, <3>1, <3>2, <3>3 DEF Order, OneKind, SameKind
    <2> QED
      BY <1>1, <1>4, <2>1, <2>2, <2>3, PendingUnderWay
  <1>6. Halfway'
    <2> SUFFICES ASSUME NEW c \in Read, pc[c] # "idle"
                 PROVE  Handled(c)' = Handled(c)
      BY <1>1 DEF Order, Halfway, FirstBucket, Kernel!key_s1
    <2> QED
      BY <1>1 DEF Base, Callbacks, Handled
  <1>7. ASSUME NEW i \in 1 .. reads', i \notin Pending'
        PROVE  /\ i \in 1 .. reads /\ i \notin Pending
               /\ MessageOf(i)' = MessageOf(i)
               /\ \A j \in Since(i) :
                    j \in Since(i)' /\ MessageOf(j)' = MessageOf(j)
    <2>1. i \in 1 .. reads /\ i \notin Pending
      BY <1>1, <1>7
    <2> QED
      BY <2>1, <1>1, <1>4
  <1>8. TornDown' /\ SetUp'
    BY <1>1, <1>7 DEF Order, TornDown, SetUp, Removed, Installed, BucketsOf,
      Kernel!BucketsOf, Kernel!key_s1, Kernel!key_s2
  <1>9. Origins'
    <2> SUFFICES ASSUME NEW b \in Bucket, NEW x \in 1 .. Len(chain[b])
                 PROVE  \E c \in Read : Source(c, b, chain[b][x])'
      BY <1>1 DEF Origins, Source, MadeBy, FirstBucket, SecondBucket,
        Kernel!key_s1, Kernel!key_s2, Kernel!netlink_message_s1,
        Kernel!netlink_message_s2
    <2>1. PICK c \in Read : Source(c, b, chain[b][x])
      BY DEF Order, Origins
    <2>2. /\ child[c] = "gone" /\ pc[c] \in {"idle", "add2"}
          /\ item[c] \notin dropped \union refused
      BY <2>1 DEF Source
    <2>3. \A j \in 1 .. reads' :
           (j \in 1 .. reads => j \in Pending /\ j \in Since(item[c]))
             => MessageOf(j)' \in Setup \/ j \in Pending'
      BY <1>1
    <2>4. Source(c, b, chain[b][x])'
      BY <1>1, <2>1, <2>2, <2>3, SourceStays
    <2> QED
      BY <2>4
  <1> QED
    BY <1>2, <1>5, <1>6, <1>8, <1>9 DEF Order

(* A setup is given up, for a port or for memory.                          *)
LEMMA GivenUpKeepsOrder ==
  ASSUME Base, Order, NEW c \in Read,
         item[c] \in Pending, Handled(c) \in Setup,
         child[c] # "gone" \/ pc[c] \notin {"idle", "add2"},
         pc'[c] = "idle",
         UNCHANGED <<texts, inbox, item, learned, chain>>,
         dropped' \union refused' = dropped \union refused \union {item[c]},
         \A i \in 1 .. reads : i \in Pending' <=> i \in Pending /\ i # item[c],
         \A d \in Read : d # c => child'[d] = child[d] /\ pc'[d] = pc[d]
  PROVE  Order'
  <1>1. /\ reads' = reads /\ reads \in Nat
        /\ \A i : MessageOf(i)' = MessageOf(i)
        /\ \A i : Since(i)' = Since(i)
        /\ \A d : Handled(d)' = Handled(d)
    BY SameHistory DEF Base, IInv, TypeOK, reads, Handled
  <1>2. Pending' \subseteq Pending /\ item[c] \in 1 .. reads
    <2>1. Pending' \subseteq 1 .. reads
      BY <1>1 DEF Pending
    <2> QED
      BY <2>1, PendingUnderWay
  <1>3. OneKind'
    <2>1. \A m \in UnderWay' : m \in UnderWay
      BY <1>1, <1>2 DEF UnderWay
    <2> QED
      BY <2>1, FewerUnderWay DEF Order
  <1>4. NoneOvertaken'
    BY <1>1, <1>2 DEF Order, NoneOvertaken, SameKind
  <1>5. Halfway'
    BY <1>1 DEF Order, Halfway, FirstBucket, Kernel!key_s1
  <1>6. \A i \in 1 .. reads : i \in Since(i)
    <2>1. \A i \in 1 .. reads : i \in i .. reads
      BY <1>1
    <2> QED
      BY <2>1, CallOf DEF Since
  <1>7. TornDown'
    <2> SUFFICES ASSUME NEW i \in 1 .. reads, i \notin Pending',
                        \A j \in Since(i) : MessageOf(j) \notin Setup
                 PROVE  Removed(MessageOf(i))
      BY <1>1 DEF TornDown, Removed, BucketsOf, Kernel!BucketsOf,
        Kernel!key_s1, Kernel!key_s2
    <2>1. i # item[c]
      BY <1>6 DEF Handled
    <2> QED
      BY <2>1 DEF Order, TornDown
  <1>8. SetUp'
    <2> SUFFICES ASSUME NEW i \in 1 .. reads,
                        i \notin Pending' \union dropped' \union refused',
                        \A j \in Since(i) : MessageOf(j) \in Setup
                 PROVE  Installed(MessageOf(i))
      BY <1>1 DEF SetUp, Installed, BucketsOf, Kernel!BucketsOf,
        Kernel!key_s1, Kernel!key_s2
    <2>1. i # item[c] /\ i \notin dropped \union refused
      OBVIOUS
    <2> QED
      BY <2>1 DEF Order, SetUp
  <1>9. Origins'
    <2> SUFFICES ASSUME NEW b \in Bucket, NEW x \in 1 .. Len(chain[b])
                 PROVE  \E d \in Read : Source(d, b, chain[b][x])'
      BY DEF Origins, Source, MadeBy, FirstBucket, SecondBucket,
        Kernel!key_s1, Kernel!key_s2, Kernel!netlink_message_s1,
        Kernel!netlink_message_s2
    <2>1. PICK d \in Read : Source(d, b, chain[b][x])
      BY DEF Order, Origins
    <2>2. /\ child[d] = "gone" /\ pc[d] \in {"idle", "add2"}
          /\ item[d] \notin dropped \union refused /\ item[d] \in 1 .. reads
      BY <2>1 DEF Source
    <2>3. d # c
      BY <2>2
    <2>4. item[d] # item[c]
      BY <1>2, <2>2, <2>3 DEF Base, Owners
    <2>5. item[d] \notin dropped' \union refused'
      BY <2>2, <2>4
    <2>6. \A j \in 1 .. reads' :
           (j \in 1 .. reads => j \in Pending /\ j \in Since(item[d]))
             => MessageOf(j)' \in Setup \/ j \in Pending'
      BY <1>1 DEF Handled
    <2>7. Source(d, b, chain[b][x])'
      BY <1>1, <2>1, <2>2, <2>3, <2>5, <2>6, SourceStays
    <2> QED
      BY <2>7
  <1> QED
    BY <1>3, <1>4, <1>5, <1>7, <1>8, <1>9 DEF Order

-----------------------------------------------------------------------------
(* A callback changes a bucket of its call.  Whatever else relies on that  *)
(* bucket is of the callback's kind.                                       *)

LEMMA CallbackIs ==
  ASSUME Base, NEW c \in Read, pc[c] # "idle"
  PROVE  /\ item[c] \in Pending /\ item[c] \in 1 .. reads
         /\ Handled(c) \in Message /\ Handled(c) \in UnderWay
         /\ sess[c] = Delivered(c) /\ learned[c] \in UdpPort \X UdpPort
         /\ BucketOf[Kernel!key_s1(sess[c])] = FirstBucket(Handled(c))
         /\ BucketOf[Kernel!key_s2(sess[c])] = SecondBucket(Handled(c))
         /\ Kernel!key_s1(sess[c]) \in Kernel!Key
         /\ Kernel!key_s2(sess[c]) \in Kernel!Key
         /\ Kernel!netlink_message_s1(sess[c]) \in Kernel!Entry
         /\ Kernel!netlink_message_s2(sess[c]) \in Kernel!Entry
  <1>1. item[c] \in 1 .. reads
    BY DEF Base, Callbacks
  <1>2. item[c] \in Pending
    BY <1>1 DEF Pending
  <1>3. Handled(c) \in Message /\ Handled(c) \in UnderWay
    BY <1>1, <1>2 DEF Handled, Base, IInv, TypeOK, UnderWay
  <1>4. /\ sess[c] = WithPorts(Handled(c), learned[c])
        /\ sess[c] = Delivered(c) /\ learned[c] \in UdpPort \X UdpPort
    BY DEF Base, Handlers, Delivered, Handled, LearnedType
  <1>5. sess[c] \in Sessions
    BY <1>3, <1>4, Ends
  <1> QED
    BY <1>1, <1>2, <1>3, <1>4, <1>5, Buckets, SessionKeys

LEMMA SameKindThere ==
  ASSUME Base, Order, CallsApart, NEW c \in Read, pc[c] # "idle",
         NEW b \in BucketsOf(Handled(c))
  PROVE  /\ \A d \in Read : pc[d] # "idle" /\ b \in BucketsOf(Handled(d)) =>
              SameKind(Handled(d), Handled(c))
         /\ \A i \in 1 .. reads :
              /\ b \in BucketsOf(MessageOf(i))
              /\ \A j \in Since(i) : SameKind(MessageOf(i), MessageOf(j))
              => SameKind(MessageOf(i), Handled(c))
  <1>1. \A m \in Message : b \in BucketsOf(m) => SameCall(m, Handled(c))
    <2>1. Handled(c) \in Message
      BY CallbackIs
    <2> QED
      BY <2>1 DEF CallsApart
  <1>2. ASSUME NEW d \in Read, pc[d] # "idle", b \in BucketsOf(Handled(d))
        PROVE  SameKind(Handled(d), Handled(c))
    BY <1>1, <1>2, CallbackIs DEF Order, OneKind
  <1>3. ASSUME NEW i \in 1 .. reads, b \in BucketsOf(MessageOf(i)),
               \A j \in Since(i) : SameKind(MessageOf(i), MessageOf(j))
        PROVE  SameKind(MessageOf(i), Handled(c))
    <2>1. /\ SameCall(MessageOf(i), MessageOf(item[c]))
          /\ SameCall(MessageOf(item[c]), MessageOf(i))
      <3>1. MessageOf(i) \in Message
        BY DEF Base, IInv, TypeOK
      <3> QED
        BY <1>1, <1>3, <3>1, CallOf DEF Handled
    <2>2. item[c] \in Pending /\ item[c] \in 1 .. reads /\ reads \in Nat
      BY CallbackIs DEF Base, IInv, TypeOK, reads
    <2>3. CASE i <= item[c]
      <3>1. item[c] \in Since(i)
        BY <2>1, <2>2, <2>3 DEF Since
      <3> QED
        BY <1>3, <3>1 DEF Handled
    <2>4. CASE item[c] <= i
      <3>1. i \in Since(item[c])
        BY <2>1, <2>2, <2>4 DEF Since
      <3> QED
        BY <2>2, <3>1 DEF Order, NoneOvertaken, SameKind, Handled
    <2> QED
      BY <2>2, <2>3, <2>4
  <1> QED
    BY <1>2, <1>3

LEMMA InFront ==
  ASSUME NEW S, NEW s \in Seq(S), NEW e \in S
  PROVE  /\ <<e>> \o s # <<>>
         /\ Len(<<e>> \o s) = Len(s) + 1 /\ Len(s) \in Nat
         /\ (<<e>> \o s)[1] = e
         /\ \A x \in 2 .. Len(s) + 1 :
              (<<e>> \o s)[x] = s[x - 1] /\ x - 1 \in 1 .. Len(s)
  OBVIOUS

(* What the callback's own steps do.                                       *)
AddsTo(b, e) ==
  /\ b \in Bucket /\ chain[b] \in Seq(Kernel!Entry) /\ e \in Kernel!Entry
  /\ chain'[b] = <<e>> \o chain[b]
  /\ \A d \in Bucket : d # b => chain'[d] = chain[d]

LEMMA AddEffect ==
  ASSUME Base, NEW c \in Read, CallbackGoesOn(c), pc[c] \in {"add1", "add2"}
  PROVE  /\ refused' = refused /\ Handled(c) \in Setup
         /\ \/ /\ pc[c] = "add1" /\ pc'[c] = "add2"
               /\ AddsTo(FirstBucket(Handled(c)),
                      Kernel!netlink_message_s1(sess[c]))
            \/ /\ pc[c] = "add2" /\ pc'[c] = "idle"
               /\ AddsTo(SecondBucket(Handled(c)),
                      Kernel!netlink_message_s2(sess[c]))
  <1>1. /\ pc \in [Read -> {"idle", "alloc", "add1", "add2", "del1", "del2"}]
        /\ chain \in [Bucket -> Seq(Kernel!Entry)]
    BY DEF Base, Kernel!TypeOK
  <1>2. /\ refused' = refused /\ Handled(c) \in Setup
    BY DEF CallbackGoesOn, Base, Handlers
  <1>3. ASSUME NEW k \in Kernel!Key, NEW e \in Kernel!Entry,
               Kernel!hash_add_rcu(k, e)
        PROVE  AddsTo(BucketOf[k], e)
    <2>1. BucketOf[k] \in Bucket
      BY KernelIsAssumed
    <2> QED
      BY <1>1, <1>3, <2>1 DEF AddsTo, Kernel!hash_add_rcu
  <1>4. CASE pc[c] = "add1"
    <2>1. /\ pc'[c] = "add2"
          /\ Kernel!hash_add_rcu(Kernel!key_s1(sess[c]),
                                 Kernel!netlink_message_s1(sess[c]))
      BY <1>1, <1>4
      DEF CallbackGoesOn, Kernel!CallbackStep, Kernel!Allocate,
        Kernel!AllocateFails, Kernel!Add1, Kernel!Add2, Kernel!Delete1,
        Kernel!Delete2
    <2> QED
      BY <1>2, <1>3, <1>4, <2>1, CallbackIs
  <1>5. CASE pc[c] = "add2"
    <2>1. /\ pc'[c] = "idle"
          /\ Kernel!hash_add_rcu(Kernel!key_s2(sess[c]),
                                 Kernel!netlink_message_s2(sess[c]))
      BY <1>1, <1>5
      DEF CallbackGoesOn, Kernel!CallbackStep, Kernel!Allocate,
        Kernel!AllocateFails, Kernel!Add1, Kernel!Add2, Kernel!Delete1,
        Kernel!Delete2, Kernel!Return
    <2> QED
      BY <1>2, <1>3, <1>5, <2>1, CallbackIs
  <1> QED
    BY <1>4, <1>5

Empties(b) ==
  /\ b \in Bucket /\ chain'[b] = <<>>
  /\ \A d \in Bucket : d # b => chain'[d] = chain[d]

LEMMA DeleteEffect ==
  ASSUME Base, NEW c \in Read, CallbackGoesOn(c), pc[c] \in {"del1", "del2"}
  PROVE  /\ refused' = refused /\ Handled(c) \notin Setup
         /\ \/ /\ pc[c] = "del1" /\ pc'[c] = "del2"
               /\ Empties(FirstBucket(Handled(c)))
            \/ /\ pc[c] = "del2" /\ pc'[c] = "idle"
               /\ Empties(SecondBucket(Handled(c)))
  <1>1. /\ pc \in [Read -> {"idle", "alloc", "add1", "add2", "del1", "del2"}]
        /\ chain \in [Bucket -> Seq(Kernel!Entry)]
    BY DEF Base, Kernel!TypeOK
  <1>2. /\ refused' = refused /\ Handled(c) \notin Setup
    BY DEF CallbackGoesOn, Base, Handlers
  <1>3. ASSUME NEW k \in Kernel!Key, Kernel!DeleteBucket(k)
        PROVE  Empties(BucketOf[k])
    <2>1. BucketOf[k] \in Bucket
      BY KernelIsAssumed
    <2> QED
      BY <1>1, <1>3, <2>1 DEF Empties, Kernel!DeleteBucket
  <1>4. CASE pc[c] = "del1"
    <2>1. pc'[c] = "del2" /\ Kernel!DeleteBucket(Kernel!key_s1(sess[c]))
      BY <1>1, <1>4
      DEF CallbackGoesOn, Kernel!CallbackStep, Kernel!Allocate,
        Kernel!AllocateFails, Kernel!Add1, Kernel!Add2, Kernel!Delete1,
        Kernel!Delete2
    <2> QED
      BY <1>2, <1>3, <1>4, <2>1, CallbackIs
  <1>5. CASE pc[c] = "del2"
    <2>1. pc'[c] = "idle" /\ Kernel!DeleteBucket(Kernel!key_s2(sess[c]))
      BY <1>1, <1>5
      DEF CallbackGoesOn, Kernel!CallbackStep, Kernel!Allocate,
        Kernel!AllocateFails, Kernel!Add1, Kernel!Add2, Kernel!Delete1,
        Kernel!Delete2, Kernel!Return
    <2> QED
      BY <1>2, <1>3, <1>5, <2>1, CallbackIs
  <1> QED
    BY <1>4, <1>5

(* What every step of a callback leaves alone, and the parts of Order that *)
(* say nothing of the table.                                               *)
LEMMA CallbackFrame ==
  ASSUME Base, Order, NEW c \in Read, CallbackGoesOn(c)
  PROVE  /\ UNCHANGED <<texts, inbox, dropped, item, learned, child, closed>>
         /\ reads' = reads /\ reads \in Nat
         /\ \A i : MessageOf(i)' = MessageOf(i) /\ Since(i)' = Since(i)
         /\ \A d : Handled(d)' = Handled(d) /\ Delivered(d)' = Delivered(d)
         /\ \A i \in 1 .. reads : i \in Since(i)
         /\ Pending' \subseteq Pending
         /\ OneKind' /\ NoneOvertaken'
  <1>1. /\ UNCHANGED <<texts, inbox, dropped, item, learned, child, closed>>
        /\ reads' = reads /\ reads \in Nat
        /\ \A i : MessageOf(i)' = MessageOf(i) /\ Since(i)' = Since(i)
        /\ \A d : Handled(d)' = Handled(d) /\ Delivered(d)' = Delivered(d)
    BY CallbackEffect, SameHistory
    DEF vars, Base, IInv, TypeOK, reads, Handled, Delivered
  <1>2. Pending' \subseteq Pending
    <2>1. Pending' \subseteq 1 .. reads
      BY <1>1 DEF Pending
    <2> QED
      BY <2>1, CallbackEffect
  <1>3. OneKind'
    <2>1. \A m \in UnderWay' : m \in UnderWay
      BY <1>1, <1>2 DEF UnderWay
    <2> QED
      BY <2>1, FewerUnderWay DEF Order
  <1>4. NoneOvertaken'
    BY <1>1, <1>2 DEF Order, NoneOvertaken, SameKind
  <1>5. \A i \in 1 .. reads : i \in Since(i)
    <2>1. \A i \in 1 .. reads : i \in i .. reads
      BY <1>1
    <2> QED
      BY <2>1, CallOf DEF Since
  <1> QED
    BY <1>1, <1>2, <1>3, <1>4, <1>5

LEMMA OriginsAfter ==
  ASSUME \A a \in Bucket : \A x \in 1 .. Len(chain'[a]) : \A f :
           f = chain'[a][x] => \E d \in Read : Source(d, a, f)'
  PROVE  Origins'
  <1> SUFFICES ASSUME NEW a \in Bucket, NEW x \in 1 .. Len(chain'[a])
               PROVE  \E d \in Read : Source(d, a, chain[a][x])'
    BY DEF Origins
  <1>1. PICK f : f = chain'[a][x]
    OBVIOUS
  <1>2. PICK d \in Read : Source(d, a, f)'
    BY <1>1
  <1>3. Source(d, a, chain[a][x])'
    BY <1>1, <1>2 DEF Source, MadeBy
  <1> QED
    BY <1>3

LEMMA AddKeepsOrder ==
  ASSUME Base, Order, CallsApart, NEW c \in Read, CallbackGoesOn(c),
         pc[c] \in {"add1", "add2"}
  PROVE  Order'
  <1>1. /\ UNCHANGED <<texts, dropped, refused, item, learned, child>>
        /\ reads' = reads /\ reads \in Nat
        /\ \A i : MessageOf(i)' = MessageOf(i) /\ Since(i)' = Since(i)
        /\ \A d : Handled(d)' = Handled(d) /\ Delivered(d)' = Delivered(d)
        /\ \A i \in 1 .. reads : i \in Since(i)
        /\ OneKind' /\ NoneOvertaken'
    BY CallbackFrame, AddEffect
  <1>2. /\ pc[c] # "idle" /\ child[c] = "gone" /\ item[c] \in Pending
        /\ \A d \in Read : d # c => pc'[d] = pc[d]
        /\ \A i \in 1 .. reads :
             i \in Pending /\ i # item[c] => i \in Pending'
    BY CallbackEffect
  <1>3. /\ Handled(c) \in Setup /\ Handled(c) \in Message
        /\ item[c] \in 1 .. reads /\ sess[c] = Delivered(c)
        /\ BucketsOf(Handled(c)) =
             {FirstBucket(Handled(c)), SecondBucket(Handled(c))}
    <2>1. /\ Handled(c) \in Setup /\ Handled(c) \in Message
          /\ item[c] \in 1 .. reads /\ sess[c] = Delivered(c)
          /\ learned[c] \in UdpPort \X UdpPort
      BY <1>2, AddEffect, CallbackIs
    <2> QED
      BY <2>1, Buckets
  <1>4. PICK b \in BucketsOf(Handled(c)), e \in Kernel!Entry :
          /\ AddsTo(b, e) /\ MadeBy(c, b, e)
          /\ \/ /\ pc[c] = "add1" /\ pc'[c] = "add2"
                /\ b = FirstBucket(Handled(c))
             \/ /\ pc[c] = "add2" /\ pc'[c] = "idle"
                /\ b = SecondBucket(Handled(c))
    BY <1>3, AddEffect DEF MadeBy, AddsTo
  <1>5. /\ b \in Bucket /\ chain'[b] # <<>>
        /\ \A d \in Bucket : d # b => chain'[d] = chain[d]
        /\ chain[b] \in Seq(Kernel!Entry) /\ chain'[b] = <<e>> \o chain[b]
        /\ Len(chain'[b]) = Len(chain[b]) + 1 /\ chain'[b][1] = e
        /\ Len(chain[b]) \in Nat
        /\ \A x \in 2 .. Len(chain[b]) + 1 :
             chain'[b][x] = chain[b][x - 1] /\ x - 1 \in 1 .. Len(chain[b])
    <2>1. e \in Kernel!Entry /\ chain[b] \in Seq(Kernel!Entry)
      BY <1>4 DEF AddsTo
    <2> QED
      BY <1>4, <2>1, InFront DEF AddsTo
  <1>6. /\ \A d \in Read : pc[d] # "idle" /\ b \in BucketsOf(Handled(d)) =>
             Handled(d) \in Setup
        /\ \A i \in 1 .. reads :
             /\ b \in BucketsOf(MessageOf(i))
             /\ \A j \in Since(i) : MessageOf(j) \notin Setup
             => FALSE
    BY <1>1, <1>2, <1>3, SameKindThere DEF SameKind
  <1>7. \A m \in Message : BucketsOf(m) \subseteq Bucket
    <2>1. <<0, 0>> \in UdpPort \X UdpPort
      BY PathAssumption
    <2> QED
      BY <2>1, Buckets
  <1>8. Halfway'
    <2> SUFFICES ASSUME NEW d \in Read, pc'[d] \in {"add2", "del2"}
                 PROVE  /\ pc'[d] = "add2" =>
                             chain'[FirstBucket(Handled(d))] # <<>>
                        /\ pc'[d] = "del2" =>
                             chain'[FirstBucket(Handled(d))] = <<>>
      BY <1>1 DEF Halfway, FirstBucket, Kernel!key_s1
    <2>1. CASE d = c
      BY <1>4, <1>5, <2>1
    <2>2. CASE d # c
      <3>1. /\ pc'[d] = pc[d] /\ Handled(d) \in Message
            /\ learned[d] \in UdpPort \X UdpPort
        BY <1>2, <2>2, CallbackIs
      <3>2. /\ FirstBucket(Handled(d)) \in Bucket
            /\ FirstBucket(Handled(d)) \in BucketsOf(Handled(d))
        BY <3>1, Buckets
      <3>3. pc[d] = "del2" => Handled(d) \notin Setup
        BY DEF Base, Handlers
      <3>4. FirstBucket(Handled(d)) = b => pc[d] # "del2"
        BY <1>6, <3>1, <3>2, <3>3
      <3> QED
        BY <1>5, <3>1, <3>2, <3>4 DEF Order, Halfway
    <2> QED
      BY <2>1, <2>2
  <1>9. TornDown'
    <2> SUFFICES ASSUME NEW i \in 1 .. reads, i \notin Pending',
                        \A j \in Since(i) : MessageOf(j) \notin Setup,
                        NEW d \in BucketsOf(MessageOf(i))
                 PROVE  chain'[d] = <<>>
      BY <1>1 DEF TornDown, Removed, BucketsOf, Kernel!BucketsOf,
        Kernel!key_s1, Kernel!key_s2
    <2>1. i # item[c]
      BY <1>1, <1>3 DEF Handled
    <2>2. chain[d] = <<>>
      BY <1>2, <2>1 DEF Order, TornDown, Removed
    <2>3. d # b
      BY <1>6
    <2>4. d \in Bucket
      BY <1>7 DEF Base, IInv, TypeOK
    <2> QED
      BY <1>5, <2>2, <2>3, <2>4
  <1>10. SetUp'
    <2> SUFFICES ASSUME NEW i \in 1 .. reads,
                        i \notin Pending' \union dropped \union refused,
                        \A j \in Since(i) : MessageOf(j) \in Setup,
                        NEW d \in BucketsOf(MessageOf(i))
                 PROVE  chain'[d] # <<>>
      BY <1>1 DEF SetUp, Installed, BucketsOf, Kernel!BucketsOf,
        Kernel!key_s1, Kernel!key_s2
    <2>1. CASE d = b
      BY <1>5, <2>1
    <2>2. CASE d # b /\ i # item[c]
      <3>1. d \in Bucket
        BY <1>7 DEF Base, IInv, TypeOK
      <3>2. chain[d] # <<>>
        BY <1>2, <2>2 DEF Order, SetUp, Installed
      <3> QED
        BY <1>5, <2>2, <3>1, <3>2
    <2>3. CASE d # b /\ i = item[c]
      <3>1. pc[c] = "add2" /\ d = FirstBucket(Handled(c))
        <4>1. i \notin Pending' /\ i \in Pending
          BY <1>2, <2>3
        <4>2. pc'[c] = "idle"
          BY <4>1, CallbackEffect
        <4> QED
          BY <1>3, <1>4, <2>3, <4>2 DEF Handled
      <3>2. chain[d] # <<>> /\ d \in Bucket
        BY <1>7, <3>1 DEF Order, Halfway, Base, IInv, TypeOK
      <3> QED
        BY <1>5, <2>3, <3>2
    <2> QED
      BY <2>1, <2>2, <2>3
  <1>11. ASSUME NEW d \in Read, NEW a, NEW f, Source(d, a, f)
         PROVE  Source(d, a, f)'
    <2>1. /\ child[d] = "gone" /\ pc[d] \in {"idle", "add2"}
          /\ item[d] \notin dropped \union refused
      BY <1>11 DEF Source
    <2>2. pc'[d] \in {"idle", "add2"}
      BY <1>2, <1>4, <2>1
    <2>3. \A j \in 1 .. reads' :
           (j \in 1 .. reads => j \in Pending /\ j \in Since(item[d]))
             => MessageOf(j)' \in Setup \/ j \in Pending'
      BY <1>1, <1>2, <1>3 DEF Handled
    <2> QED
      BY <1>1, <1>11, <2>1, <2>2, <2>3, SourceStays
  <1>12. Source(c, b, e)'
    <2>1. /\ child'[c] = "gone" /\ pc'[c] \in {"idle", "add2"}
          /\ item'[c] \in 1 .. reads'
          /\ Handled(c)' \in Setup
      BY <1>1, <1>2, <1>3, <1>4
    <2>2. item'[c] \notin dropped' \union refused'
      BY <1>1, <1>2, <1>3 DEF Base, Handlers, IInv, OnePlace
    <2>3. MadeBy(c, b, e)'
      BY <1>1, <1>4 DEF MadeBy, FirstBucket, SecondBucket, Kernel!key_s1,
        Kernel!key_s2, Kernel!netlink_message_s1, Kernel!netlink_message_s2
    <2>4. \A j \in Since(item[c]) : MessageOf(j) \in Setup
      BY <1>2, <1>3 DEF Order, NoneOvertaken, SameKind, Handled
    <2> QED
      BY <1>1, <2>1, <2>2, <2>3, <2>4 DEF Source
  <1>13. ASSUME NEW a \in Bucket, NEW x \in 1 .. Len(chain'[a]),
                NEW f, f = chain'[a][x]
         PROVE  \E d \in Read : Source(d, a, f)'
    <2>1. CASE a = b /\ x = 1
      BY <1>5, <1>12, <1>13, <2>1
    <2>2. CASE ~(a = b /\ x = 1)
      <3>1. PICK y \in 1 .. Len(chain[a]) : f = chain[a][y]
        <4>1. CASE a # b
          BY <1>5, <1>13, <4>1
        <4>2. CASE a = b
          <5>1. x \in 2 .. Len(chain[b]) + 1
            BY <1>5, <2>2, <4>2
          <5> QED
            BY <1>5, <1>13, <4>2, <5>1
        <4> QED
          BY <4>1, <4>2
      <3>2. PICK d \in Read : Source(d, a, f)
        BY <3>1 DEF Order, Origins
      <3> QED
        BY <1>11, <3>2
    <2> QED
      BY <2>1, <2>2
  <1>14. Origins'
    BY <1>13, OriginsAfter
  <1> QED
    BY <1>1, <1>8, <1>9, <1>10, <1>14 DEF Order

LEMMA DeleteKeepsOrder ==
  ASSUME Base, Order, CallsApart, NEW c \in Read, CallbackGoesOn(c),
         pc[c] \in {"del1", "del2"}
  PROVE  Order'
  <1>1. /\ UNCHANGED <<texts, dropped, refused, item, learned, child>>
        /\ reads' = reads /\ reads \in Nat
        /\ \A i : MessageOf(i)' = MessageOf(i) /\ Since(i)' = Since(i)
        /\ \A d : Handled(d)' = Handled(d) /\ Delivered(d)' = Delivered(d)
        /\ \A i \in 1 .. reads : i \in Since(i)
        /\ OneKind' /\ NoneOvertaken'
    BY CallbackFrame, DeleteEffect
  <1>2. /\ pc[c] # "idle" /\ child[c] = "gone" /\ item[c] \in Pending
        /\ \A d \in Read : d # c => pc'[d] = pc[d]
        /\ \A i \in 1 .. reads :
             i \in Pending /\ i # item[c] => i \in Pending'
    BY CallbackEffect
  <1>3. /\ Handled(c) \notin Setup /\ Handled(c) \in Message
        /\ item[c] \in 1 .. reads
        /\ BucketsOf(Handled(c)) =
             {FirstBucket(Handled(c)), SecondBucket(Handled(c))}
    <2>1. /\ Handled(c) \notin Setup /\ Handled(c) \in Message
          /\ item[c] \in 1 .. reads
          /\ learned[c] \in UdpPort \X UdpPort
      BY <1>2, DeleteEffect, CallbackIs
    <2> QED
      BY <2>1, Buckets
  <1>4. PICK b \in BucketsOf(Handled(c)) :
          /\ Empties(b)
          /\ \/ /\ pc[c] = "del1" /\ pc'[c] = "del2"
                /\ b = FirstBucket(Handled(c))
             \/ /\ pc[c] = "del2" /\ pc'[c] = "idle"
                /\ b = SecondBucket(Handled(c))
    BY <1>3, DeleteEffect
  <1>5. /\ b \in Bucket /\ chain'[b] = <<>>
        /\ \A d \in Bucket : d # b => chain'[d] = chain[d]
    BY <1>4 DEF Empties
  <1>6. /\ \A d \in Read : pc[d] # "idle" /\ b \in BucketsOf(Handled(d)) =>
             Handled(d) \notin Setup
        /\ \A i \in 1 .. reads :
             /\ b \in BucketsOf(MessageOf(i))
             /\ \A j \in Since(i) : MessageOf(j) \in Setup
             => FALSE
    BY <1>1, <1>2, <1>3, SameKindThere DEF SameKind
  <1>7. \A m \in Message : BucketsOf(m) \subseteq Bucket
    <2>1. <<0, 0>> \in UdpPort \X UdpPort
      BY PathAssumption
    <2> QED
      BY <2>1, Buckets
  <1>8. Halfway'
    <2> SUFFICES ASSUME NEW d \in Read, pc'[d] \in {"add2", "del2"}
                 PROVE  /\ pc'[d] = "add2" =>
                             chain'[FirstBucket(Handled(d))] # <<>>
                        /\ pc'[d] = "del2" =>
                             chain'[FirstBucket(Handled(d))] = <<>>
      BY <1>1 DEF Halfway, FirstBucket, Kernel!key_s1
    <2>1. CASE d = c
      BY <1>4, <1>5, <2>1
    <2>2. CASE d # c
      <3>1. /\ pc'[d] = pc[d] /\ Handled(d) \in Message
            /\ learned[d] \in UdpPort \X UdpPort
        BY <1>2, <2>2, CallbackIs
      <3>2. /\ FirstBucket(Handled(d)) \in Bucket
            /\ FirstBucket(Handled(d)) \in BucketsOf(Handled(d))
        BY <3>1, Buckets
      <3>3. pc[d] = "add2" => Handled(d) \in Setup
        BY DEF Base, Handlers
      <3>4. FirstBucket(Handled(d)) = b => pc[d] # "add2"
        BY <1>6, <3>1, <3>2, <3>3
      <3> QED
        BY <1>5, <3>1, <3>2, <3>4 DEF Order, Halfway
    <2> QED
      BY <2>1, <2>2
  <1>9. SetUp'
    <2> SUFFICES ASSUME NEW i \in 1 .. reads,
                        i \notin Pending' \union dropped \union refused,
                        \A j \in Since(i) : MessageOf(j) \in Setup,
                        NEW d \in BucketsOf(MessageOf(i))
                 PROVE  chain'[d] # <<>>
      BY <1>1 DEF SetUp, Installed, BucketsOf, Kernel!BucketsOf,
        Kernel!key_s1, Kernel!key_s2
    <2>1. i # item[c]
      BY <1>1, <1>3 DEF Handled
    <2>2. chain[d] # <<>>
      BY <1>2, <2>1 DEF Order, SetUp, Installed
    <2>3. d # b
      BY <1>6
    <2>4. d \in Bucket
      BY <1>7 DEF Base, IInv, TypeOK
    <2> QED
      BY <1>5, <2>2, <2>3, <2>4
  <1>10. TornDown'
    <2> SUFFICES ASSUME NEW i \in 1 .. reads, i \notin Pending',
                        \A j \in Since(i) : MessageOf(j) \notin Setup,
                        NEW d \in BucketsOf(MessageOf(i))
                 PROVE  chain'[d] = <<>>
      BY <1>1 DEF TornDown, Removed, BucketsOf, Kernel!BucketsOf,
        Kernel!key_s1, Kernel!key_s2
    <2>1. CASE d = b
      BY <1>5, <2>1
    <2>2. CASE d # b /\ i # item[c]
      <3>1. d \in Bucket
        BY <1>7 DEF Base, IInv, TypeOK
      <3>2. chain[d] = <<>>
        BY <1>2, <2>2 DEF Order, TornDown, Removed
      <3> QED
        BY <1>5, <2>2, <3>1, <3>2
    <2>3. CASE d # b /\ i = item[c]
      <3>1. pc[c] = "del2" /\ d = FirstBucket(Handled(c))
        <4>1. i \notin Pending' /\ i \in Pending
          BY <1>2, <2>3
        <4>2. pc'[c] = "idle"
          BY <4>1, CallbackEffect
        <4> QED
          BY <1>3, <1>4, <2>3, <4>2 DEF Handled
      <3>2. chain[d] = <<>> /\ d \in Bucket
        BY <1>7, <3>1 DEF Order, Halfway, Base, IInv, TypeOK
      <3> QED
        BY <1>5, <2>3, <3>2
    <2> QED
      BY <2>1, <2>2, <2>3
  <1>11. ASSUME NEW a \in Bucket, NEW x \in 1 .. Len(chain'[a]),
                NEW f, f = chain'[a][x]
         PROVE  \E d \in Read : Source(d, a, f)'
    <2>1. a # b /\ f = chain[a][x] /\ x \in 1 .. Len(chain[a])
      BY <1>5, <1>11
    <2>2. PICK d \in Read : Source(d, a, f)
      BY <2>1 DEF Order, Origins
    <2>3. /\ child[d] = "gone" /\ pc[d] \in {"idle", "add2"} /\ d # c
          /\ item[d] \notin dropped \union refused /\ item[d] \in 1 .. reads
          /\ MadeBy(d, a, f)
      BY <1>4, <2>2 DEF Source
    <2>4. pc'[c] = "idle" => item[c] \notin Since(item[d])
      <3> SUFFICES ASSUME pc'[c] = "idle", item[c] \in Since(item[d])
                   PROVE  FALSE
        OBVIOUS
      <3>1. SameCall(Handled(d), Handled(c))
        BY DEF Since, Handled
      <3>2. Handled(d) \in Message
        BY <2>3 DEF Base, IInv, TypeOK, Handled
      <3>3. a \in BucketsOf(Handled(d))
        <4>1. <<0, 0>> \in UdpPort \X UdpPort
          BY PathAssumption
        <4> QED
          BY <2>3, <3>2, <4>1, Buckets DEF MadeBy
      <3>4. a \in BucketsOf(Handled(c))
        BY <3>1, <3>3 DEF SameCall
      <3>5. a = FirstBucket(Handled(c)) /\ pc[c] = "del2"
        BY <1>3, <1>4, <2>1, <3>4
      <3> QED
        BY <2>1, <3>5 DEF Order, Halfway
    <2>5. \A j \in 1 .. reads' :
           (j \in 1 .. reads => j \in Pending /\ j \in Since(item[d]))
             => MessageOf(j)' \in Setup \/ j \in Pending'
      BY <1>1, <1>2, <2>4, CallbackEffect
    <2>6. Source(d, a, f)'
      BY <1>1, <1>2, <2>2, <2>3, <2>5, SourceStays
    <2> QED
      BY <2>6
  <1>12. Origins'
    BY <1>11, OriginsAfter
  <1> QED
    BY <1>1, <1>8, <1>9, <1>10, <1>12 DEF Order

-----------------------------------------------------------------------------
LEMMA OrderStep ==
  ASSUME Patient, CallsApart, Base, Order, [PathNext]_path
  PROVE  Order'
  <1>1. CASE \E m \in Message : KamailioSends(m)
    BY <1>1, SendsKeepsOrder
  <1>2. CASE ParentStep
    <2>1. CASE ParentReads
      BY <1>2, <2>1, ReadsKeepsOrder
    <2>2. CASE ~ParentReads
      <3>1. OnlyMoves /\ UNCHANGED <<item, learned, pc>>
        BY <1>2, <2>2, ParentMoves DEF kernel
      <3>2. \A c \in Read : child[c] = "gone" => child'[c] = "gone"
        BY <1>2, ParentFrame DEF Base
      <3>3. OneKind'
        BY <3>1, SameUnderWay, FewerUnderWay DEF Order
      <3> QED
        BY <3>1, <3>2, <3>3, MovesKeepOrder DEF OnlyMoves
    <2> QED
      BY <2>1, <2>2
  <1>3. ASSUME NEW c \in Read, Take(c) PROVE Order'
    <2>1. /\ OnlyMoves /\ UNCHANGED pc
          /\ child[c] = "new"
          /\ \A d \in Read : d # c => /\ child'[d] = child[d]
                                       /\ learned'[d] = learned[d]
                                       /\ item'[d] = item[d]
      BY <1>3, TakeMoves DEF kernel, Base, IInv, TypeOK
    <2>2. OneKind'
      BY <2>1, SameUnderWay, FewerUnderWay DEF Order
    <2> QED
      BY <2>1, <2>2, MovesKeepOrder DEF OnlyMoves
  <1>4. ASSUME NEW c \in Read,
               (Bind(c) /\ BindPort(c)) \/ Hear(c) \/ TimeOut(c)
        PROVE  Order'
    <2>1. /\ OnlyMoves /\ UNCHANGED <<item, pc>> /\ child[c] # "gone"
          /\ \A d \in Read : d # c =>
               child'[d] = child[d] /\ learned'[d] = learned[d]
      BY <1>4, WaitMoves DEF kernel, Working
    <2>2. OneKind'
      BY <2>1, SameUnderWay, FewerUnderWay DEF Order
    <2> QED
      BY <2>1, <2>2, MovesKeepOrder DEF OnlyMoves
  <1>5. ASSUME NEW c \in Read, BindFails(c), BindPort(c) PROVE Order'
    <2>1. /\ UNCHANGED <<texts, inbox, item, learned, refused, chain, pc>>
          /\ Working(c) /\ child'[c] = "gone"
          /\ \A d \in Read : d # c => child'[d] = child[d]
          /\ dropped' = dropped \union {item[c]}
          /\ item[c] \in 1 .. reads /\ Handled(c) \in Setup
          /\ \A i \in 1 .. reads :
               i \in Pending' <=> i \in Pending /\ i # item[c]
      BY <1>5, DropEffect DEF kernel
    <2>2. /\ child[c] # "gone" /\ pc[c] = "idle" /\ item[c] \in Pending
      BY <2>1 DEF Working, Base, Callbacks, Pending
    <2>3. dropped' \union refused' = dropped \union refused \union {item[c]}
      BY <2>1
    <2> QED
      BY <2>1, <2>2, <2>3, GivenUpKeepsOrder
  <1>6. ASSUME NEW c \in Read, SendToKernel(c) PROVE Order'
    <2>1. /\ OnlyMoves /\ UNCHANGED <<item, learned>>
          /\ Working(c) /\ pc'[c] \in {"alloc", "del1"}
          /\ \A d \in Read : d # c =>
               child'[d] = child[d] /\ pc'[d] = pc[d]
      BY <1>6, SendMoves
    <2>2. OneKind' /\ child[c] # "gone"
      BY <2>1, SameUnderWay, FewerUnderWay DEF Order, Working
    <2> QED
      BY <2>1, <2>2, MovesKeepOrder DEF OnlyMoves
  <1>7. ASSUME NEW c \in Read, CallbackGoesOn(c) PROVE Order'
    <2>1. /\ UNCHANGED <<texts, inbox, dropped, item, learned, child, closed>>
          /\ pc[c] # "idle" /\ item[c] \in Pending
          /\ \A d \in Read : d # c => pc'[d] = pc[d]
          /\ OneKind'
          /\ pc \in [Read -> {"idle", "alloc", "add1", "add2", "del1", "del2"}]
      BY <1>7, CallbackFrame, CallbackEffect DEF Base, Kernel!TypeOK
    <2>2. CASE pc[c] = "alloc" /\ pc'[c] # "idle"
      <3>1. /\ pc'[c] = "add1" /\ UNCHANGED <<refused, chain>>
            /\ Pending' = Pending
        BY <1>7, <2>1, <2>2, CallbackEffect
        DEF CallbackGoesOn, Kernel!CallbackStep, Kernel!Allocate,
          Kernel!AllocateFails, Kernel!Add1, Kernel!Add2, Kernel!Delete1,
          Kernel!Delete2, Kernel!Return
      <3>2. NoEffect
        BY <2>1, <3>1 DEF NoEffect
      <3> QED
        BY <2>1, <2>2, <3>1, <3>2, MovesKeepOrder
    <2>3. CASE pc[c] = "alloc" /\ pc'[c] = "idle"
      <3>1. UNCHANGED chain /\ refused' = refused \union {item[c]}
        BY <1>7, <2>1, <2>3
        DEF CallbackGoesOn, Kernel!CallbackStep, Kernel!Allocate,
          Kernel!AllocateFails, Kernel!Add1, Kernel!Add2, Kernel!Delete1,
          Kernel!Delete2, Kernel!Return
      <3>2. /\ dropped' \union refused'
                 = dropped \union refused \union {item[c]}
            /\ Handled(c) \in Setup
            /\ \A i \in 1 .. reads :
                 i \in Pending' <=> i \in Pending /\ i # item[c]
            /\ \A d \in Read : d # c => child'[d] = child[d]
        BY <1>7, <2>1, <2>3, <3>1, CallbackEffect DEF Base, Handlers
      <3> QED
        BY <2>1, <2>3, <3>1, <3>2, GivenUpKeepsOrder
    <2>4. CASE pc[c] # "alloc"
      BY <1>7, <2>1, <2>4, AddKeepsOrder, DeleteKeepsOrder
    <2> QED
      BY <2>2, <2>3, <2>4
  <1>8. CASE UNCHANGED path
    <2>1. /\ OnlyMoves /\ UNCHANGED <<child, item, learned, pc>>
      BY <1>8
      DEF path, vars, kernel, OnlyMoves, NoEffect, Pending, reads, Working
    <2>2. OneKind'
      BY <2>1, SameUnderWay, FewerUnderWay DEF Order
    <2> QED
      BY <2>1, <2>2, MovesKeepOrder DEF OnlyMoves
  <1> QED
    BY <1>1, <1>2, <1>3, <1>4, <1>5, <1>6, <1>7, <1>8
    DEF PathNext, ChildStep, BindPort

LEMMA BaseInvariant == PathSpec => []Base
  <1> DEFINE Rest == ~closed /\ Owners /\ Handlers
  <1>1. PathInit => Rest /\ Truth
    BY DEF PathInit, Init, Kernel!Init, Owners, Handlers, Truth, Callbacks,
      Heard, LearnedIsTrue, Working
  <1>2. IInv /\ Kernel!TypeOK /\ LearnedType /\ Truth /\ Rest
          /\ [PathNext]_path => Rest'
    <2> SUFFICES ASSUME Base, [PathNext]_path PROVE Rest'
      BY DEF Base, Truth
    <2>1. CASE UNCHANGED path
      BY <2>1
      DEF path, vars, kernel, Base, Owners, Handlers, Working, IsSent, reads,
        Handled, Delivered, MessageOf
    <2> QED
      BY <2>1, ParentOwns, ChildOwns DEF PathNext
  <1>3. PathSpec => []Truth
    <2> QED
      BY <1>1, TruthStep, RelayInvariant, LearnedInvariant, KernelTypes, PTL
      DEF PathSpec
  <1>4. IInv /\ Kernel!TypeOK /\ LearnedType /\ Truth /\ Rest => Base
    BY DEF Base, Truth
  <1> QED
    BY <1>1, <1>2, <1>3, <1>4, RelayInvariant, LearnedInvariant, KernelTypes,
      PTL DEF PathSpec

LEMMA OrderInitially == PathInit => Order
  <1> SUFFICES ASSUME PathInit PROVE Order
    OBVIOUS
  <1>1. /\ reads = 0 /\ Len(inbox) = 0 /\ \A c \in Read : pc[c] = "idle"
        /\ \A b \in Bucket : Len(chain[b]) = 0
    BY DEF PathInit, Init, Kernel!Init, reads
  <1>2. 1 .. reads = {} /\ 1 .. Len(inbox) = {}
        /\ \A b \in Bucket : 1 .. Len(chain[b]) = {}
    BY <1>1
  <1>3. Pending = {} /\ UnderWay = {}
    BY <1>2 DEF Pending, UnderWay
  <1> QED
    BY <1>1, <1>2, <1>3 DEF Order, OneKind, NoneOvertaken, Halfway, TornDown,
      SetUp, Origins

LEMMA OrderInvariant ==
  Patient /\ CallsApart => (PathSpec => []Order)
  <1> SUFFICES ASSUME Patient, CallsApart PROVE PathSpec => []Order
    OBVIOUS
  <1>1. Base /\ Order /\ [PathNext]_path => Order'
    BY OrderStep
  <1> QED
    BY <1>1, OrderInitially, BaseInvariant, PTL DEF PathSpec

LEMMA OrderDecides ==
  ASSUME Base, Order
  PROVE  LastRequestDecides
  <1> SUFFICES ASSUME NEW i \in 1 .. reads, LastOfCall(i),
                      NothingUnderWay(MessageOf(i))
               PROVE  IF MessageOf(i) \in Setup
                        THEN Effective(i) # {} => Installed(MessageOf(i))
                        ELSE Removed(MessageOf(i))
    BY DEF LastRequestDecides
  <1>1. reads \in Nat
    BY DEF Base, IInv, TypeOK, reads
  <1>2. \A j \in Pending : ~SameCall(MessageOf(i), MessageOf(j))
    BY PendingUnderWay DEF NothingUnderWay
  <1>3. ASSUME NEW j \in 1 .. i, SameCall(MessageOf(i), MessageOf(j)),
               NEW k \in Since(j)
        PROVE  k \in j .. i /\ SameCall(MessageOf(i), MessageOf(k))
    <2>1. k \in j .. reads /\ SameCall(MessageOf(i), MessageOf(k))
      BY <1>3, CallOf DEF Since
    <2>2. k \notin i + 1 .. reads
      BY <2>1 DEF LastOfCall
    <2> QED
      BY <1>1, <2>1, <2>2
  <1>4. CASE MessageOf(i) \in Setup
    <2> SUFFICES ASSUME NEW j \in Effective(i) PROVE Installed(MessageOf(i))
      BY <1>4
    <2>1. /\ j \in 1 .. i /\ j \in 1 .. reads
          /\ SameCall(MessageOf(i), MessageOf(j))
          /\ j \notin dropped \union refused
          /\ \A k \in j .. i :
               SameCall(MessageOf(i), MessageOf(k)) => MessageOf(k) \in Setup
      BY <1>1 DEF Effective
    <2>2. \A k \in Since(j) : MessageOf(k) \in Setup
      BY <1>3, <2>1
    <2>3. j \notin Pending
      BY <1>2, <2>1
    <2>4. Installed(MessageOf(j))
      BY <2>1, <2>2, <2>3 DEF Order, SetUp
    <2> QED
      BY <2>1, <2>4 DEF Installed, SameCall
  <1>5. CASE MessageOf(i) \notin Setup
    <2>1. i \notin Pending
      BY <1>2, CallOf
    <2>2. \A k \in Since(i) : k = i
      BY <1>1, <1>3, CallOf
    <2> QED
      BY <1>5, <2>1, <2>2 DEF Order, TornDown
  <1> QED
    BY <1>4, <1>5

(* As long as Kamailio lets setups and teardowns finish, and no two calls  *)
(* share a bucket, the last request of a call decides: whatever the number *)
(* of calls and children, however their waits for media and their          *)
(* callbacks overlap, and whichever requests are dropped or refused.       *)
THEOREM LastDecides ==
  Patient /\ CallsApart => (PathSpec => []LastRequestDecides)
  <1> SUFFICES ASSUME Patient, CallsApart
               PROVE  PathSpec => []LastRequestDecides
    OBVIOUS
  <1>1. Base /\ Order => LastRequestDecides
    BY OrderDecides
  <1> QED
    BY <1>1, BaseInvariant, OrderInvariant, PTL

-----------------------------------------------------------------------------
(* Media comes back.  With one setup in force, all entries of the call are *)
(* its own, and once its callback is done both directions are there.       *)

(* The two ends of a call are hashed apart.                                *)
EndsApart == \A m \in Message : FirstBucket(m) # SecondBucket(m)

(* A source of an entry in a bucket of the call is the setup in force.     *)
LEMMA SourceInForce ==
  ASSUME Base, Order, CallsApart, NEW i \in 1 .. reads, LastOfCall(i),
         Effective(i) # {}, NEW c \in Read, NEW b, NEW e,
         b \in BucketsOf(MessageOf(i)), Source(c, b, e)
  PROVE  /\ item[c] \in Effective(i) /\ Handled(c) \in Message
         /\ SameCall(MessageOf(i), Handled(c))
         /\ \A j \in Since(item[c]) : MessageOf(j) \in Setup
  <1>1. reads \in Nat /\ \A j \in 1 .. reads : MessageOf(j) \in Message
    BY DEF Base, IInv, TypeOK, reads
  <1>2. /\ item[c] \in 1 .. reads /\ item[c] \notin dropped \union refused
        /\ Handled(c) \in Setup /\ Handled(c) \in Message
        /\ MadeBy(c, b, e)
        /\ \A j \in Since(item[c]) : MessageOf(j) \in Setup \/ j \in Pending
    BY <1>1 DEF Source, Handled
  <1>3. b \in BucketsOf(Handled(c))
    <2>1. <<0, 0>> \in UdpPort \X UdpPort
      BY PathAssumption
    <2> QED
      BY <1>2, <2>1, Buckets DEF MadeBy
  <1>4. /\ SameCall(MessageOf(i), MessageOf(item[c]))
        /\ SameCall(MessageOf(item[c]), MessageOf(i))
    BY <1>1, <1>2, <1>3, CallOf DEF CallsApart, Handled
  <1>5. item[c] \in 1 .. i
    <2>1. item[c] \notin i + 1 .. reads
      BY <1>4 DEF LastOfCall
    <2> QED
      BY <1>1, <1>2, <2>1
  <1>6. MessageOf(i) \in Setup
    <2>1. PICK j \in Effective(i) : TRUE
      OBVIOUS
    <2>2. i \in j .. i
      BY <2>1 DEF Effective
    <2> QED
      BY <2>1, <2>2, CallOf DEF Effective
  <1>7. ASSUME NEW k \in Since(item[c]) PROVE MessageOf(k) \in Setup
    <2>1. /\ k \in item[c] .. reads
          /\ SameCall(MessageOf(k), MessageOf(i))
          /\ SameCall(MessageOf(i), MessageOf(k))
      BY <1>4, CallOf DEF Since
    <2>2. k \notin i + 1 .. reads
      BY <2>1 DEF LastOfCall
    <2>3. i \in Since(k)
      BY <1>1, <1>2, <2>1, <2>2 DEF Since
    <2>4. k \in Pending => MessageOf(k) \in Setup
      BY <1>6, <2>3 DEF Order, NoneOvertaken, SameKind
    <2> QED
      BY <1>2, <2>4
  <1>8. item[c] \in Effective(i)
    <2>1. \A k \in item[c] .. i : SameCall(MessageOf(i), MessageOf(k)) =>
            k \in Since(item[c])
      <3>1. \A k \in item[c] .. i : k \in item[c] .. reads
        BY <1>1, <1>2
      <3> QED
        BY <1>4, <3>1, CallOf DEF Since
    <2> QED
      BY <1>2, <1>4, <1>5, <1>7, <2>1 DEF Effective
  <1> QED
    BY <1>2, <1>4, <1>7, <1>8 DEF Handled

(* There is one, so all entries of the call are of one session.            *)
LEMMA OneSource ==
  ASSUME Base, Order, CallsApart, NEW i \in 1 .. reads, LastOfCall(i),
         Cardinality(Effective(i)) = 1,
         NEW c \in Read, NEW d \in Read, NEW a, NEW b, NEW e, NEW f,
         a \in BucketsOf(MessageOf(i)), b \in BucketsOf(MessageOf(i)),
         Source(c, a, e), Source(d, b, f)
  PROVE  c = d /\ Effective(i) # {}
  <1>1. PICK j : Effective(i) = {j}
    <2>1. reads \in Nat
      BY DEF Base, IInv, TypeOK, reads
    <2>2. IsFiniteSet(1 .. i)
      BY <2>1, FS_Interval
    <2>3. IsFiniteSet(Effective(i))
      BY <2>2, FS_Subset DEF Effective
    <2> QED
      BY <2>3, FS_Singleton
  <1>2. item[c] = item[d]
    BY <1>1, SourceInForce
  <1>3. item[c] # 0
    BY DEF Source
  <1> QED
    BY <1>1, <1>2, <1>3 DEF Base, Owners

LEMMA SamePath == \A p : Kernel!Path(p) = Facts!Path(p)
  BY DEF Kernel!Path, Kernel!main_hook_post, Kernel!main_hook_pre,
    Kernel!Found, Kernel!Oldest, Kernel!Flip, Kernel!WithFlippedSource,
    Facts!Path, Facts!main_hook_post, Facts!main_hook_pre,
    Facts!Found, Facts!Oldest, Facts!Flip, Facts!WithFlippedSource

(* The oldest entry of a bucket, and whose it is.                          *)
LEMMA OldestHasSource ==
  ASSUME Base, Order, NEW b \in Bucket, chain[b] # <<>>
  PROVE  \E c \in Read : Source(c, b, Kernel!Oldest(chain[b]))
  <1>1. chain[b] \in Seq(Kernel!Entry)
    BY DEF Base, Kernel!TypeOK
  <1>2. Len(chain[b]) \in 1 .. Len(chain[b])
    BY <1>1
  <1> QED
    BY <1>2 DEF Order, Origins, Kernel!Oldest

(* A source at rest has installed both directions.                         *)
LEMMA SourceAtRest ==
  ASSUME Base, Order, NEW c \in Read, pc[c] = "idle",
         child[c] = "gone", item[c] \notin dropped \union refused,
         \A j \in Since(item[c]) : MessageOf(j) \in Setup
  PROVE  Installed(Handled(c))
  <1>1. item[c] \in 1 .. reads /\ IsSent(item[c]) /\ item[c] # 0
    BY DEF Base, Owners
  <1>2. ~AtParent(item[c]) /\ ~InPipe(item[c]) /\ ~InHand(item[c])
    BY <1>1 DEF Base, IInv, OnePlace
  <1>3. ~InCallback(item[c])
    BY <1>1 DEF InCallback, Base, Owners
  <1>4. item[c] \notin Pending
    BY <1>1, <1>2, <1>3, PendingIs
  <1> QED
    BY <1>1, <1>4 DEF Order, SetUp, Handled

LEMMA MediaComesBackTo ==
  ASSUME Base, Order, CallsApart, EndsApart,
         NEW i \in 1 .. reads, LastOfCall(i), Cardinality(Effective(i)) = 1,
         NEW b \in BucketsOf(MessageOf(i))
  PROVE  Kernel!ComesBack(b)
  <1> DEFINE e == Kernel!Oldest(chain[b])
             p == [src |-> e.dnat, dst |-> e.dst]
  <1> SUFFICES ASSUME chain[b] # <<>>, Kernel!Quiet(e)
               PROVE  Kernel!Path(Kernel!Reply(Kernel!Path(p)))
                        = Kernel!Reply(p)
    BY DEF Kernel!ComesBack
  <1>1. \A m \in Message :
          /\ BucketsOf(m) = {FirstBucket(m), SecondBucket(m)}
          /\ FirstBucket(m) \in Bucket /\ SecondBucket(m) \in Bucket
    <2>1. <<0, 0>> \in UdpPort \X UdpPort
      BY PathAssumption
    <2> QED
      BY <2>1, Buckets
  <1>2. b \in Bucket
    BY <1>1 DEF Base, IInv, TypeOK
  <1>3. PICK c \in Read : Source(c, b, e)
    BY <1>2, OldestHasSource
  <1> DEFINE s == Delivered(c)
             m == Handled(c)
             r == Kernel!netlink_message_s2(s)
  <1>4. /\ Effective(i) # {} /\ m \in Message
        /\ BucketsOf(m) = BucketsOf(MessageOf(i))
        /\ \A j \in Since(item[c]) : MessageOf(j) \in Setup
        /\ child[c] = "gone" /\ pc[c] \in {"idle", "add2"}
        /\ item[c] \notin dropped \union refused
    BY <1>3, OneSource, SourceInForce DEF Source, SameCall
  <1>5. /\ s \in Sessions /\ r \in Kernel!Entry
        /\ BucketOf[Kernel!key_s1(s)] = FirstBucket(m)
        /\ BucketOf[Kernel!key_s2(s)] = SecondBucket(m)
        /\ Kernel!key_s1(r) = Kernel!key_s2(s)
        /\ r.dnat = s.src /\ r.dst = s.snat
    <2>1. learned[c] \in UdpPort \X UdpPort /\ s = WithPorts(m, learned[c])
      BY DEF Base, LearnedType, Delivered, Handled
    <2>2. s \in Sessions
      BY <1>4, <2>1, Ends
    <2>3. /\ Kernel!key_s1(r) = Kernel!key_s2(s)
          /\ r.dnat = s.src /\ r.dst = s.snat
      BY DEF Kernel!key_s1, Kernel!key_s2, Kernel!netlink_message_s2
    <2> QED
      BY <1>4, <2>1, <2>2, <2>3, Buckets, SessionKeys
  <1>6. pc[c] = "idle"
    <2> SUFFICES ASSUME pc[c] # "idle" PROVE FALSE
      OBVIOUS
    <2>1. sess[c] = s
      BY DEF Base, Handlers
    <2>2. b \in Kernel!BucketsOf(s)
      BY <1>1, <1>4, <1>5 DEF Kernel!BucketsOf
    <2>3. b \in Kernel!BucketsOf(e)
      <3>1. \/ e = s /\ b = FirstBucket(m)
            \/ e = r /\ b = SecondBucket(m)
        BY <1>3 DEF Source, MadeBy, Kernel!netlink_message_s1
      <3> QED
        BY <1>5, <3>1 DEF Kernel!BucketsOf
    <2> QED
      BY <2>1, <2>2, <2>3 DEF Kernel!Quiet
  <1>7. Installed(m)
    BY <1>4, <1>6, SourceAtRest
  <1>8. ASSUME NEW a \in BucketsOf(m)
        PROVE  MadeBy(c, a, Kernel!Oldest(chain[a]))
    <2>1. a \in Bucket /\ chain[a] # <<>>
      BY <1>1, <1>4, <1>7, <1>8 DEF Installed
    <2>2. PICK d \in Read : Source(d, a, Kernel!Oldest(chain[a]))
      BY <2>1, OldestHasSource
    <2>3. d = c
      BY <1>3, <1>4, <1>8, <2>2, OneSource
    <2> QED
      BY <2>2, <2>3 DEF Source
  <1>9. /\ chain[FirstBucket(m)] # <<>>
        /\ Kernel!Oldest(chain[FirstBucket(m)]) = s
        /\ chain[SecondBucket(m)] # <<>>
        /\ Kernel!Oldest(chain[SecondBucket(m)]) = r
    <2>1. FirstBucket(m) # SecondBucket(m)
      BY <1>4 DEF EndsApart
    <2> QED
      BY <1>1, <1>4, <1>7, <1>8, <2>1
      DEF Installed, MadeBy, Kernel!netlink_message_s1
  <1>10. /\ Facts!B1(s) = FirstBucket(m) /\ Facts!B2(s) = SecondBucket(m)
         /\ Facts!netlink_message_s2(s) = r
         /\ \A a : Facts!Oldest(a) = Kernel!Oldest(a)
         /\ \A q : Facts!Reply(q) = Kernel!Reply(q)
    BY <1>5 DEF Facts!B1, Facts!B2, Facts!key_s1, Facts!key_s2, Kernel!key_s1,
      Kernel!key_s2, Facts!netlink_message_s2, Kernel!netlink_message_s2,
      Facts!Oldest, Kernel!Oldest, Facts!Reply, Kernel!Reply
  <1> HIDE DEF s, m, r
  <1>11. LET q == [src |-> s.dnat, dst |-> s.dst]
             t == [src |-> s.src, dst |-> s.snat]
         IN  /\ Facts!Path(Facts!Reply(Facts!Path(q))) = Facts!Reply(q)
             /\ Facts!Path(Facts!Reply(Facts!Path(t))) = Facts!Reply(t)
    BY <1>5, <1>9, <1>10, FactsAssumed, Facts!BothWays
  <1>12. e = s \/ e = r
    BY <1>1, <1>4, <1>9
  <1> QED
    BY <1>5, <1>10, <1>11, <1>12, SamePath

(* A call with one setup in force has media both ways or not at all, while *)
(* any number of other calls are set up and torn down around it.           *)
THEOREM MediaReturnsAlways ==
  Patient /\ CallsApart /\ EndsApart => (PathSpec => []MediaReturns)
  <1> SUFFICES ASSUME Patient, CallsApart, EndsApart
               PROVE  PathSpec => []MediaReturns
    OBVIOUS
  <1>1. Base /\ Order => MediaReturns
    BY MediaComesBackTo DEF MediaReturns
  <1> QED
    BY <1>1, BaseInvariant, OrderInvariant, PTL
=============================================================================
