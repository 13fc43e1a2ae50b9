------------------------------- MODULE CallPath -------------------------------
(***************************************************************************)
(* user_space and the kernel module together: the way of a request from    *)
(* the Unix socket to the table of translations.                           *)
(*                                                                         *)
(* The children of user_space are the processes in whose context the       *)
(* netlink callback runs, so the callback of child c is the handler c of   *)
(* KernelNat, and the callbacks of several children overlap as they like.  *)
(* The table in turn decides what the children hear: a media packet that   *)
(* finds an entry in the prerouting hook is forwarded, and never reaches   *)
(* the socket of the child that waits for it.                              *)
(*                                                                         *)
(* The buffers are those of UserSpaceRelay, taken to hold the request they *)
(* were read for.                                                          *)
(***************************************************************************)
EXTENDS UserSpaceRelay

CONSTANTS
  Ip,         \* IPv4 addresses
  AnyIp,      \* 0.0.0.0, what a caller on hold names as its address
  UdpPort,    \* UDP ports of all hosts
  SessionOf,  \* the four ends of the call each request names
  Media,      \* where packets to the proxy come from: <<address, port>>
  NoSession,  \* an idle callback's session
  Bucket,     \* buckets of netlink_hash_table
  BucketOf,   \* the bucket a key's sum is hashed to
  Patient     \* does Kamailio let setups and teardowns finish?

Endpoint == [ip : Ip, port : UdpPort]

(* Tokens 8 and 7 are ports of the proxy.                                  *)
ASSUME PathAssumption ==
  /\ Ip \subseteq Nat /\ AnyIp \in Ip
  /\ Port \subseteq UdpPort /\ 0 \in UdpPort
  /\ BucketOf \in [Ip \X UdpPort -> Bucket]
  /\ NoSession \notin [src : Endpoint, dst : Endpoint,
                      snat : Endpoint, dnat : Endpoint]
  /\ SessionOf \in
       [Message -> [src : Endpoint, snat : Endpoint,
                    dst : Endpoint, dnat : Endpoint]]
  /\ \A m \in Message :
       /\ FirstPort[m] = SessionOf[m].snat.port
       /\ SecondPort[m] = SessionOf[m].dst.port
  /\ Media \subseteq Endpoint
  /\ Patient \in BOOLEAN

VARIABLES
  learned,  \* tokens 6 and 9 as each child has them: src_port, dnat_port
  refused,  \* history: reads whose setup the kernel had no memory for
  chain, pc, sess, adds, blocks, leaked  \* KernelNat

kernel == <<chain, pc, sess, adds, blocks, leaked>>
path == <<vars, learned, refused, kernel>>

(* A setup with the ports it was given, or has learned.                    *)
WithPorts(m, ports) ==
  [SessionOf[m] EXCEPT !.src.port = ports[1], !.dnat.port = ports[2]]

Sessions ==
  {WithPorts(m, ports) : m \in Message, ports \in UdpPort \X UdpPort}

Kernel == INSTANCE KernelNat WITH
  Port <- UdpPort, Session <- Sessions, Handler <- Read,
  MaxAdds <- MaxReads

GivenPorts(m) == <<SessionOf[m].src.port, SessionOf[m].dnat.port>>

-----------------------------------------------------------------------------
PathInit ==
  /\ Init
  /\ Kernel!Init
  /\ learned = [c \in Read |-> <<0, 0>>]
  /\ refused = {}

BucketsOf(m) == Kernel!BucketsOf(SessionOf[m])

SameCall(m, n) == BucketsOf(m) = BucketsOf(n)
SameKind(m, n) == m \in Setup <=> n \in Setup

(* The reads whose requests have not had their effect yet: with the parent *)
(* or in the pipe, with a child, or in the callback.                       *)
Pending ==
  {i \in 1 .. reads :
     \/ parent = "write" /\ i = reads
     \/ \E k \in 1 .. Len(pipe) : pipe[k] = i
     \/ \E c \in Read : (Working(c) \/ pc[c] # "idle") /\ item[c] = i}

(* The requests on their way.                                              *)
UnderWay ==
  {inbox[k] : k \in 1 .. Len(inbox)} \union {MessageOf(i) : i \in Pending}

(* Kamailio sends a request.  When it is patient, it does not send a       *)
(* teardown while a setup of the same call is on its way, nor the reverse. *)
KamailioSends(m) ==
  /\ PeerSends(m)
  /\ Patient => \A n \in UnderWay : SameCall(m, n) => SameKind(m, n)
  /\ UNCHANGED <<learned, refused, kernel>>

ParentStep ==
  /\ Parent
  /\ UNCHANGED <<learned, refused, kernel>>

(* A child takes a buffer and splits it into tokens.                       *)
Take(c) ==
  /\ ChildReads(c)
  /\ learned' = [learned EXCEPT ![c] = GivenPorts(MessageOf(Head(pipe)))]
  /\ UNCHANGED <<refused, kernel>>

BindPort(c) ==
  /\ Bind(c) \/ BindFails(c)
  /\ UNCHANGED <<learned, refused, kernel>>

-----------------------------------------------------------------------------
(* sockbind, after bind: leg 1 waits for src on token 8, leg 2 for dnat on *)
(* token 7.                                                                *)

Leg(c) == IF child[c] = "poll1" THEN 1 ELSE 2

ExpectedIp(c) ==
  LET s == SessionOf[MessageOf(item[c])] IN
  IF child[c] = "poll1" THEN s.src.ip ELSE s.dnat.ip

(* Mutant: whoever sends first is believed.                                *)
LearnFromAnyone(c, from) ==
  learned' = [learned EXCEPT ![c][Leg(c)] = from.port]

(* The sender's port is written over the token if its address is the one   *)
(* the request names: strcmp(sdp_srcip, src_ip).                           *)
Learn(c, from) ==
  learned' = IF from.ip = ExpectedIp(c)
               THEN [learned EXCEPT ![c][Leg(c)] = from.port]
               ELSE learned

(* A packet that the prerouting hook finds an entry for goes elsewhere.    *)
Arrives(from, c) ==
  chain[BucketOf[<<from.ip, CHOOSE p \in BoundPort(c) : TRUE>>]] = <<>>

Hear(c) ==
  /\ PollEnds(c)
  /\ \E from \in Media : Arrives(from, c) /\ Learn(c, from)
  /\ UNCHANGED <<refused, kernel>>

(* The zeroed cliaddr, as if it were a sender.                             *)
Nobody == [ip |-> AnyIp, port |-> 0]

(* poll() times out.  len was never assigned: unless it happens to be -1,  *)
(* cliaddr is looked at as if a packet had come.                           *)
TimeOut(c) ==
  /\ PollEnds(c)
  /\ UNCHANGED learned \/ Learn(c, Nobody)
  /\ UNCHANGED <<refused, kernel>>

-----------------------------------------------------------------------------
(* The session a child writes to the netlink socket.                       *)
Delivered(c) == WithPorts(MessageOf(item[c]), learned[c])

(* sendmsg runs the callback, in the child's context.                      *)
SendToKernel(c) ==
  /\ Send(c)
  /\ IF MessageOf(item[c]) \in Setup
       THEN Kernel!ReceiveSetup(c, Delivered(c))
       ELSE Kernel!ReceiveTeardown(c, Delivered(c))
  /\ UNCHANGED <<learned, refused>>

CallbackGoesOn(c) ==
  /\ Kernel!CallbackStep(c)
  /\ refused' = IF pc[c] = "alloc" /\ pc'[c] = "idle"
                  THEN refused \union {item[c]} ELSE refused
  /\ UNCHANGED <<vars, learned>>

ChildStep(c) ==
  \/ Take(c) \/ BindPort(c) \/ Hear(c) \/ TimeOut(c)
  \/ SendToKernel(c) \/ CallbackGoesOn(c)

PathNext ==
  (\E m \in Message : KamailioSends(m)) \/ ParentStep
    \/ \E c \in Read : ChildStep(c)

PathSpec == PathInit /\ [][PathNext]_path

(* As in UserSpaceRelay: the host schedules the processes, poll() returns, *)
(* and a callback that has begun comes to its end.                         *)
FairPathSpec ==
  /\ PathSpec
  /\ WF_path(ParentStep)
  /\ \A c \in Read : WF_path(ChildStep(c))
-----------------------------------------------------------------------------
(* Properties.                                                             *)

PathTypeOK ==
  /\ TypeOK
  /\ Kernel!TypeOK
  /\ learned \in [Read -> UdpPort \X UdpPort]
  /\ refused \subseteq 1 .. reads

OnHold == {m \in Message : AnyIp \in {SessionOf[m].src.ip, SessionOf[m].dnat.ip}}

(* The addresses and ports that the ends of the calls really use; an end   *)
(* on hold, which names 0.0.0.0, may be given port 0.                      *)
TrueEnds ==
  Media
    \union (IF OnHold = {} THEN {} ELSE {Nobody})
    \union UNION {{SessionOf[m].src, SessionOf[m].dnat} : m \in Message}

(* A translation sends media only to where a request said, or to where     *)
(* media of that address has come from, whoever sends to the open port.    *)
(* The uninitialised len at user_space.c:84 spoils no end but one that     *)
(* names 0.0.0.0: a child that waited in vain may give it port 0.          *)
LearnedIsTrue ==
  \A b \in Bucket : \A i \in 1 .. Len(chain[b]) :
    {chain[b][i].src, chain[b][i].dnat} \subseteq TrueEnds

NothingUnderWay(m) == \A n \in UnderWay : ~SameCall(m, n)

Installed(m) == \A b \in BucketsOf(m) : chain[b] # <<>>
Removed(m) == \A b \in BucketsOf(m) : chain[b] = <<>>

LastOfCall(i) ==
  \A j \in i + 1 .. reads : ~SameCall(MessageOf(i), MessageOf(j))

(* Setups since the last teardown of the call that reached the kernel and  *)
(* got memory there.                                                       *)
Effective(i) ==
  {j \in 1 .. i :
     /\ SameCall(MessageOf(i), MessageOf(j))
     /\ \A k \in j .. i :
          SameCall(MessageOf(i), MessageOf(k)) => MessageOf(k) \in Setup
     /\ j \notin dropped \union refused}

(* When all requests of a call have had their effect, the last one has     *)
(* decided: after a teardown nothing of the call is left in the kernel, by *)
(* whatever ports it was set up; after a setup both directions are there,  *)
(* unless every setup was dropped for a port or refused for memory.        *)
LastRequestDecides ==
  \A i \in 1 .. reads :
    LastOfCall(i) /\ NothingUnderWay(MessageOf(i)) =>
      IF MessageOf(i) \in Setup
        THEN Effective(i) # {} => Installed(MessageOf(i))
        ELSE Removed(MessageOf(i))

(* What lrkproxy_module.c:335-336 says of a "D": it "means the specific    *)
(* call teardown", "Release session ID".  A teardown that is the last      *)
(* request of its call leaves nothing of it in the kernel.                 *)
TeardownIsFinal ==
  \A i \in 1 .. reads :
    /\ LastOfCall(i) /\ MessageOf(i) \notin Setup
    /\ NothingUnderWay(MessageOf(i))
    => Removed(MessageOf(i))

(* A call with one setup in force, whatever was set up and torn down       *)
(* before, has media both ways or not at all, by the ports its child has   *)
(* learned.  (Two children with one call's setups may learn different      *)
(* ports, and their callbacks may leave the older entry of one direction   *)
(* with the newer of the other.)                                           *)
MediaReturns ==
  \A i \in 1 .. reads :
    LastOfCall(i) /\ Cardinality(Effective(i)) = 1 =>
      \A b \in BucketsOf(MessageOf(i)) : Kernel!ComesBack(b)

(* Every request the parent has read comes to its effect in the kernel,    *)
(* through the pipe, two waits for media and the callback, or is dropped   *)
(* for a port in use, or refused for memory.                               *)
TookEffect(i) ==
  /\ reads >= i
  /\ \/ i \in dropped \union refused
     \/ MessageOf(i) \in Setup /\ Installed(MessageOf(i))
     \/ MessageOf(i) \notin Setup /\ Removed(MessageOf(i))

EveryRequestTakesEffect ==
  \A i \in Read : reads = i /\ parent = "write" ~> TookEffect(i)
=============================================================================
