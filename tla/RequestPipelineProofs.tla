----------------------- MODULE RequestPipelineProofs -----------------------
(***************************************************************************)
(* Proofs about RequestPipeline, for every set of datagrams and every      *)
(* bound: type correctness, Fifo, NoStrandedBatch and what the call status *)
(* cache holds.                                                            *)
(***************************************************************************)
EXTENDS RequestPipeline, SequenceTheorems, FiniteSetTheorems, TLAPS

-----------------------------------------------------------------------------
(* Facts about sequences.                                                  *)

LEMMA AppendRight ==
  ASSUME NEW S, NEW s \in Seq(S), NEW t \in Seq(S), NEW e \in S
  PROVE  s \o Append(t, e) = Append(s \o t, e)
<1>1. /\ <<e>> \in Seq(S)
      /\ s \o t \in Seq(S)
  BY ConcatProperties
<1>2. /\ Append(t, e) = t \o <<e>>
      /\ Append(s \o t, e) = (s \o t) \o <<e>>
  BY <1>1, AppendIsConcat
<1>3. QED
  BY <1>1, <1>2, ConcatAssociative

LEMMA MoveHead ==
  ASSUME NEW S, NEW s \in Seq(S), NEW t \in Seq(S), t # <<>>
  PROVE  Append(s, Head(t)) \o Tail(t) = s \o t
<1>1. /\ Head(t) \in S
      /\ Tail(t) \in Seq(S)
      /\ Len(Tail(t)) = Len(t) - 1
      /\ \A i \in 1 .. Len(Tail(t)) : Tail(t)[i] = t[i + 1]
  BY HeadTailProperties
<1>2. <<Head(t)>> \in Seq(S)
  BY <1>1
<1>3. <<Head(t)>> \o Tail(t) = t
  BY <1>1, <1>2
<1>4. Append(s, Head(t)) = s \o <<Head(t)>>
  BY <1>1, AppendIsConcat
<1>5. QED
  BY <1>1, <1>2, <1>3, <1>4, ConcatAssociative

-----------------------------------------------------------------------------
(* The inductive invariant.                                                *)

(* A session request waiting for its "OK" has been accepted.               *)
ReplyAccepted ==
  reply # Idle /\ get_request_id_and_command(reply) \in {"S", "D"}
    => accepted # <<>>

(* A consumer past Get holds at least one request.                         *)
BusyHasBatch == \A c \in Consumers : pc[c] # "get" => batch[c] # <<>>

(* Nobody writes delete_request_data_queue.                                *)
DeleteIdle == queue["delete"] = <<>> /\ batch["delete"] = <<>>

LoopInv == BusyHasBatch /\ DeleteIdle /\ NoStrandedBatch

IInv == TypeOK /\ ReplyAccepted /\ LoopInv /\ Fifo

-----------------------------------------------------------------------------
(* What each action does to the variables of the invariant.                *)

LEMMA UdpReceiveEffect ==
  ASSUME NEW r \in Request, UdpReceive(r), TypeOK
  PROVE  /\ \/ /\ queue' = [queue EXCEPT !["add"] = Append(queue["add"], r)]
               /\ Append(queue["add"], r) \in Seq(Request) \ {<<>>}
               /\ accepted' = Append(accepted, r)
               /\ Append(accepted, r) \in Seq(Request) \ {<<>>}
               /\ Len(accepted') = Len(accepted) + 1
               /\ reply' = r
            \/ /\ queue' = queue
               /\ accepted' = accepted
               /\ reply' \in {reply, r}
               /\ get_request_id_and_command(r) \notin {"S", "D"}
         /\ reply = Idle
         /\ UNCHANGED <<batch, pc, handed>>
<1>1. queue["add"] \in Seq(Request) /\ accepted \in Seq(Request)
  BY DEF TypeOK, Consumers, Handlers
<1>2. /\ Append(queue["add"], r) \in Seq(Request) \ {<<>>}
      /\ Append(accepted, r) \in Seq(Request) \ {<<>>}
      /\ Len(Append(accepted, r)) = Len(accepted) + 1
  BY <1>1, AppendProperties
<1>3. QED
  BY <1>2 DEF UdpReceive, QueueFor

LEMMA ForwardEffect ==
  ASSUME NEW c \in Handlers, Forward(c), TypeOK, BusyHasBatch
  PROVE  /\ pc[c] = "flush"
         /\ batch[c] # <<>>
         /\ Head(batch[c]) \in Request
         /\ Tail(batch[c]) \in Seq(Request)
         /\ queue' = [queue EXCEPT
                        !["data"] = Append(queue["data"], Head(batch[c]))]
         /\ Append(queue["data"], Head(batch[c])) \in Seq(Request) \ {<<>>}
         /\ batch' = [batch EXCEPT ![c] = Tail(batch[c])]
         /\ pc' = [pc EXCEPT ![c] = IF Tail(batch[c]) = <<>>
                                      THEN "get" ELSE "flush"]
         /\ UNCHANGED <<reply, accepted, handed>>
<1>1. pc[c] = "flush" /\ batch[c] # <<>> /\ batch[c] \in Seq(Request)
  BY DEF Forward, BusyHasBatch, TypeOK, Consumers
<1>2. Head(batch[c]) \in Request /\ Tail(batch[c]) \in Seq(Request)
  BY <1>1, HeadTailProperties
<1>3. Append(queue["data"], Head(batch[c])) \in Seq(Request) \ {<<>>}
  <2>1. queue["data"] \in Seq(Request)
    BY DEF TypeOK, Consumers
  <2>2. QED
    BY <1>2, <2>1, AppendProperties
<1>4. QED
  BY <1>1, <1>2, <1>3 DEF Forward, RestOfBatch, AfterOne

LEMMA HandOverEffect ==
  ASSUME HandOver, TypeOK, BusyHasBatch
  PROVE  /\ pc["data"] = "flush"
         /\ batch["data"] # <<>>
         /\ Head(batch["data"]) \in Request
         /\ Tail(batch["data"]) \in Seq(Request)
         /\ handed' = Append(handed, Head(batch["data"]))
         /\ handed' \in Seq(Request)
         /\ batch' = [batch EXCEPT !["data"] = Tail(batch["data"])]
         /\ pc' = [pc EXCEPT !["data"] = IF Tail(batch["data"]) = <<>>
                                           THEN "get" ELSE "flush"]
         /\ UNCHANGED <<reply, queue, accepted>>
<1>1. /\ pc["data"] = "flush"
      /\ batch["data"] # <<>>
      /\ batch["data"] \in Seq(Request)
  BY DEF HandOver, BusyHasBatch, TypeOK, Consumers
<1>2. Head(batch["data"]) \in Request /\ Tail(batch["data"]) \in Seq(Request)
  BY <1>1, HeadTailProperties
<1>3. Append(handed, Head(batch["data"])) \in Seq(Request)
  BY <1>2, AppendProperties DEF TypeOK
<1>4. QED
  BY <1>1, <1>2, <1>3 DEF HandOver, RestOfBatch, AfterOne

LEMMA GetEffect ==
  ASSUME NEW c \in Consumers, Get(c), TypeOK
  PROVE  /\ pc[c] = "get"
         /\ queue[c] # <<>>
         /\ Head(queue[c]) \in Request
         /\ Tail(queue[c]) \in Seq(Request)
         /\ batch' = [batch EXCEPT ![c] = Append(batch[c], Head(queue[c]))]
         /\ Append(batch[c], Head(queue[c])) \in Seq(Request) \ {<<>>}
         /\ queue' = [queue EXCEPT ![c] = Tail(queue[c])]
         /\ pc' = [pc EXCEPT ![c] = "decide"]
         /\ UNCHANGED <<reply, accepted, handed>>
<1>1. queue[c] # <<>> /\ queue[c] \in Seq(Request)
  BY DEF Get, TypeOK
<1>2. Head(queue[c]) \in Request /\ Tail(queue[c]) \in Seq(Request)
  BY <1>1, HeadTailProperties
<1>3. Append(batch[c], Head(queue[c])) \in Seq(Request) \ {<<>>}
  BY <1>2, AppendProperties DEF TypeOK
<1>4. QED
  BY <1>1, <1>2, <1>3 DEF Get

-----------------------------------------------------------------------------
LEMMA TypeInit == Init => TypeOK
  BY PipelineAssumption
     DEF PipelineAssumption, Init, TypeOK, NoRequestIds, Consumers, Handlers

LEMMA TypeStep ==
  TypeOK /\ ReplyAccepted /\ BusyHasBatch /\ [Next]_vars => TypeOK'
<1> SUFFICES ASSUME TypeOK, ReplyAccepted, BusyHasBatch, [Next]_vars
             PROVE  TypeOK'
  OBVIOUS
<1>1. ASSUME NEW r \in Request, UdpReceive(r) PROVE TypeOK'
  <2>1. queue' \in [Consumers -> Seq(Request)]
    BY <1>1, UdpReceiveEffect DEF TypeOK, Consumers, Handlers
  <2>2. accepted' \in Seq(Request) /\ Len(accepted') >= Len(accepted)
    <3>1. Len(accepted) \in Nat
      BY LenProperties DEF TypeOK
    <3>2. \/ accepted' = accepted
          \/ accepted' \in Seq(Request) /\ Len(accepted') = Len(accepted) + 1
      BY <1>1, UdpReceiveEffect
    <3>3. QED
      BY <3>1, <3>2 DEF TypeOK
  <2>3. acked' \subseteq 1 .. Len(accepted')
    <3>1. acked' = acked /\ acked \subseteq 1 .. Len(accepted)
      BY <1>1 DEF UdpReceive, TypeOK
    <3>2. Len(accepted) \in Nat /\ Len(accepted') \in Nat
      BY <2>2, LenProperties DEF TypeOK
    <3>3. QED
      BY <2>2, <3>1, <3>2
  <2>4. received' \in 0 .. MaxDatagrams /\ requests' \in Nat
    BY <1>1, PipelineAssumption
       DEF PipelineAssumption, UdpReceive, set_add_request, TypeOK
  <2>5. reply' \in Request \union {Idle}
    BY <1>1, UdpReceiveEffect DEF TypeOK
  <2>6. UNCHANGED <<batch, pc, add_calls, request_ids, acked, handed>>
    BY <1>1 DEF UdpReceive
  <2>7. QED
    BY <2>1, <2>2, <2>3, <2>4, <2>5, <2>6 DEF TypeOK
<1>2. ASSUME UdpReply \/ UdpReplyFails PROVE TypeOK'
  <2>1. acked' \subseteq 1 .. Len(accepted)
    <3>1. get_request_id_and_command(reply) \in {"S", "D"} /\ UdpReply
            => Len(accepted) \in Nat \ {0}
      BY EmptySeq DEF UdpReply, ReplyAccepted, TypeOK
    <3>2. acked' \subseteq acked \union {Len(accepted)}
      BY <1>2 DEF UdpReply, UdpReplyFails
    <3>3. CASE acked' = acked
      BY <3>3 DEF TypeOK
    <3>4. CASE acked' # acked
      <4>1. Len(accepted) \in 1 .. Len(accepted)
        BY <1>2, <3>1, <3>4 DEF UdpReply, UdpReplyFails
      <4>2. QED
        BY <3>2, <4>1 DEF TypeOK
    <3>5. QED
      BY <3>3, <3>4
  <2>2. reply' = Idle
    BY <1>2 DEF UdpReply, UdpReplyFails, TypeOK
  <2>3. UNCHANGED <<received, queue, batch, pc, cache, accepted, handed>>
    BY <1>2 DEF UdpReply, UdpReplyFails
  <2>4. QED
    BY <2>1, <2>2, <2>3 DEF TypeOK, cache
<1>3. ASSUME NEW c \in Consumers, Get(c) PROVE TypeOK'
  <2>1. batch' \in [Consumers -> Seq(Request)]
    BY <1>3, GetEffect DEF TypeOK
  <2>2. queue' \in [Consumers -> Seq(Request)]
    BY <1>3, GetEffect DEF TypeOK
  <2>3. pc' \in [Consumers -> {"get", "decide", "flush", "dead"}]
    BY <1>3, GetEffect DEF TypeOK
  <2>4. UNCHANGED <<received, reply, cache, accepted, acked, handed>>
    BY <1>3 DEF Get
  <2>5. QED
    BY <2>1, <2>2, <2>3, <2>4 DEF TypeOK, cache
<1>4. ASSUME NEW c \in Consumers, Linger(c) \/ StartFlush(c) PROVE TypeOK'
  BY <1>4 DEF Linger, StartFlush, TypeOK, cache
<1>5. ASSUME NEW c \in Handlers, Forward(c) PROVE TypeOK'
  <2>1. queue' \in [Consumers -> Seq(Request)]
    BY <1>5, ForwardEffect DEF TypeOK, Consumers, Handlers
  <2>2. batch' \in [Consumers -> Seq(Request)]
    BY <1>5, ForwardEffect DEF TypeOK, Consumers, Handlers
  <2>3. pc' \in [Consumers -> {"get", "decide", "flush", "dead"}]
    BY <1>5, ForwardEffect DEF TypeOK
  <2>4. Head(batch[c]) \in Request
    BY <1>5, ForwardEffect
  <2>5. get_call_id(Head(batch[c])) \in CacheKeys
    BY <2>4, PipelineAssumption
       DEF PipelineAssumption, get_call_id, CacheKeys
  <2>6. Append(request_ids[get_call_id(Head(batch[c]))], Head(batch[c]))
          \in Seq(Request)
    BY <2>4, <2>5, AppendProperties DEF TypeOK
  <2>7. add_calls' \in Nat
    BY <1>5 DEF Forward, CacheAdd, TypeOK
  <2>8. request_ids' \in [CacheKeys -> Seq(Request)]
    <3>1. CASE request_ids' = request_ids
      BY <3>1 DEF TypeOK
    <3>2. CASE request_ids' = [request_ids EXCEPT
                 ![get_call_id(Head(batch[c]))]
                   = Append(request_ids[get_call_id(Head(batch[c]))],
                            Head(batch[c]))]
      BY <2>5, <2>6, <3>2 DEF TypeOK
    <3>3. QED
      BY <1>5, <3>1, <3>2 DEF Forward, CacheAdd
  <2>9. UNCHANGED <<received, reply, requests, accepted, acked, handed>>
    BY <1>5 DEF Forward
  <2>10. QED
    BY <2>1, <2>2, <2>3, <2>7, <2>8, <2>9 DEF TypeOK
<1>6. ASSUME NEW c \in Handlers, ForwardRaises(c) PROVE TypeOK'
  BY <1>6 DEF ForwardRaises, TypeOK, cache
<1>7. ASSUME HandOver PROVE TypeOK'
  <2>1. batch' \in [Consumers -> Seq(Request)]
    BY <1>7, HandOverEffect DEF TypeOK, Consumers
  <2>2. pc' \in [Consumers -> {"get", "decide", "flush", "dead"}]
    BY <1>7, HandOverEffect DEF TypeOK
  <2>3. handed' \in Seq(Request)
    BY <1>7, HandOverEffect DEF TypeOK
  <2>4. UNCHANGED <<received, reply, queue, cache, accepted, acked>>
    BY <1>7 DEF HandOver
  <2>5. QED
    BY <2>1, <2>2, <2>3, <2>4 DEF TypeOK, cache
<1>8. ASSUME UNCHANGED vars PROVE TypeOK'
  BY <1>8 DEF vars, cache, TypeOK
<1>9. QED
  BY <1>1, <1>2, <1>3, <1>4, <1>5, <1>6, <1>7, <1>8
     DEF Next, UdpThread, Handler, DataThread, Collect, Consumers

-----------------------------------------------------------------------------
LEMMA LoopStep ==
  TypeOK /\ LoopInv /\ ReplyAccepted /\ [Next]_vars
    => LoopInv' /\ ReplyAccepted'
<1> SUFFICES ASSUME TypeOK, LoopInv, ReplyAccepted, [Next]_vars
             PROVE  LoopInv' /\ ReplyAccepted'
  OBVIOUS
<1> USE DEF LoopInv, BusyHasBatch, DeleteIdle, NoStrandedBatch
<1>1. ASSUME NEW r \in Request, UdpReceive(r)
      PROVE  LoopInv' /\ ReplyAccepted'
  <2>1. ReplyAccepted'
    BY <1>1, UdpReceiveEffect
       DEF TypeOK, ReplyAccepted, get_request_id_and_command
  <2>2. LoopInv'
    BY <1>1, UdpReceiveEffect
       DEF TypeOK, Consumers, Handlers
  <2>3. QED
    BY <2>1, <2>2
<1>2. ASSUME UdpReply \/ UdpReplyFails
      PROVE  LoopInv' /\ ReplyAccepted'
  BY <1>2 DEF UdpReply, UdpReplyFails, ReplyAccepted
<1>3. ASSUME NEW c \in Consumers, Get(c)
      PROVE  LoopInv' /\ ReplyAccepted'
  <2>1. ReplyAccepted'
    BY <1>3, GetEffect DEF ReplyAccepted, get_request_id_and_command
  <2>2. c # "delete"
    BY <1>3, GetEffect
  <2>3. LoopInv'
    BY <1>3, <2>2, GetEffect DEF TypeOK, Consumers, Handlers
  <2>4. QED
    BY <2>1, <2>3
<1>4. ASSUME NEW c \in Consumers, Linger(c) \/ StartFlush(c)
      PROVE  LoopInv' /\ ReplyAccepted'
  <2>1. UNCHANGED <<reply, queue, batch, accepted>>
    BY <1>4 DEF Linger, StartFlush
  <2>2. /\ pc[c] = "decide"
        /\ \/ pc' = [pc EXCEPT ![c] = "flush"]
           \/ pc' = [pc EXCEPT ![c] = "get"] /\ queue[c] # <<>>
    BY <1>4 DEF Linger, StartFlush, MayLinger
  <2>3. QED
    BY <2>1, <2>2 DEF TypeOK, ReplyAccepted, get_request_id_and_command
<1>5. ASSUME NEW c \in Handlers, Forward(c)
      PROVE  LoopInv' /\ ReplyAccepted'
  <2>1. ReplyAccepted'
    BY <1>5, ForwardEffect DEF ReplyAccepted, get_request_id_and_command
  <2>2. c = "add"
    BY <1>5, ForwardEffect DEF Handlers
  <2>3. LoopInv'
    BY <1>5, <2>2, ForwardEffect
       DEF TypeOK, Consumers, Handlers
  <2>4. QED
    BY <2>1, <2>3
<1>6. ASSUME NEW c \in Handlers, ForwardRaises(c)
      PROVE  LoopInv' /\ ReplyAccepted'
  BY <1>6 DEF ForwardRaises, TypeOK, ReplyAccepted,
              get_request_id_and_command, Consumers
<1>7. ASSUME HandOver
      PROVE  LoopInv' /\ ReplyAccepted'
  <2>1. ReplyAccepted'
    BY <1>7, HandOverEffect DEF ReplyAccepted, get_request_id_and_command
  <2>2. LoopInv'
    BY <1>7, HandOverEffect DEF TypeOK, Consumers, Handlers
  <2>3. QED
    BY <2>1, <2>2
<1>8. ASSUME UNCHANGED vars
      PROVE  LoopInv' /\ ReplyAccepted'
  BY <1>8 DEF vars, ReplyAccepted, get_request_id_and_command
<1>9. QED
  BY <1>1, <1>2, <1>3, <1>4, <1>5, <1>6, <1>7, <1>8
     DEF Next, UdpThread, Handler, DataThread, Collect, Consumers

-----------------------------------------------------------------------------
(* Fifo: the concatenation of the stages changes only at its right end,    *)
(* and there exactly as accepted does.                                     *)

LEMMA FifoStep ==
  TypeOK /\ LoopInv /\ Fifo /\ [Next]_vars => Fifo'
<1> SUFFICES ASSUME TypeOK, LoopInv, Fifo, [Next]_vars PROVE Fifo'
  OBVIOUS
<1> DEFINE H == handed
           bD == batch["data"]
           qD == queue["data"]
           bA == batch["add"]
           qA == queue["add"]
<1>a. accepted = (((H \o bD) \o qD) \o bA) \o qA
  BY DEF Fifo, Forwarded
<1>b. /\ H \in Seq(Request) /\ bD \in Seq(Request) /\ qD \in Seq(Request)
      /\ bA \in Seq(Request) /\ qA \in Seq(Request)
  BY DEF TypeOK, Consumers, Handlers
<1>c. /\ H \o bD \in Seq(Request)
      /\ (H \o bD) \o qD \in Seq(Request)
      /\ ((H \o bD) \o qD) \o bA \in Seq(Request)
  BY <1>b, ConcatProperties
<1>d. /\ batch \in [Consumers -> Seq(Request)]
      /\ queue \in [Consumers -> Seq(Request)]
      /\ "add" \in Consumers /\ "data" \in Consumers /\ "delete" \in Consumers
  BY DEF TypeOK, Consumers, Handlers
<1> HIDE DEF H, bD, qD, bA, qA
<1>e. ASSUME accepted' = (((handed' \o batch'["data"]) \o queue'["data"])
                            \o batch'["add"]) \o queue'["add"]
      PROVE  Fifo'
  BY <1>e DEF Fifo, Forwarded
<1>1. ASSUME NEW r \in Request, UdpReceive(r) PROVE Fifo'
  <2>0. (((H \o bD) \o qD) \o bA) \o Append(qA, r)
          = Append((((H \o bD) \o qD) \o bA) \o qA, r)
    BY <1>b, <1>c, AppendRight
  <2>1. CASE queue' = [queue EXCEPT !["add"] = Append(@, r)]
             /\ accepted' = Append(accepted, r)
    <3>1. queue'["add"] = Append(qA, r) /\ queue'["data"] = qD
      BY <2>1, <1>d DEF qA, qD
    <3>2. handed' = H /\ batch'["data"] = bD /\ batch'["add"] = bA
      BY <1>1, UdpReceiveEffect DEF H, bD, bA
    <3>3. QED
      BY <2>0, <2>1, <3>1, <3>2, <1>a, <1>e
  <2>2. CASE queue' = queue /\ accepted' = accepted
    BY <2>2, <1>1, UdpReceiveEffect DEF Fifo, Forwarded
  <2>3. QED
    BY <1>1, <2>1, <2>2, UdpReceiveEffect
<1>2. ASSUME NEW c \in Consumers, Get(c) PROVE Fifo'
  <2>1. c # "delete"
    BY <1>2, GetEffect DEF LoopInv, DeleteIdle
  <2>2. CASE c = "add"
    <3>1. /\ qA # <<>> /\ handed' = H /\ accepted' = accepted
          /\ queue'["add"] = Tail(qA) /\ queue'["data"] = qD
          /\ batch'["add"] = Append(bA, Head(qA)) /\ batch'["data"] = bD
      BY <1>2, <2>2, <1>d, GetEffect DEF H, qA, qD, bA, bD
    <3>2. Head(qA) \in Request
      BY <3>1, <1>b, HeadTailProperties
    <3>3. ((H \o bD) \o qD) \o Append(bA, Head(qA))
            = Append(((H \o bD) \o qD) \o bA, Head(qA))
      BY <1>b, <1>c, <3>2, AppendRight
    <3>4. Append(((H \o bD) \o qD) \o bA, Head(qA)) \o Tail(qA)
            = (((H \o bD) \o qD) \o bA) \o qA
      BY <1>b, <1>c, <3>1, MoveHead
    <3>5. QED
      BY <3>1, <3>3, <3>4, <1>a, <1>e
  <2>3. CASE c = "data"
    <3>1. /\ qD # <<>> /\ handed' = H /\ accepted' = accepted
          /\ queue'["data"] = Tail(qD) /\ queue'["add"] = qA
          /\ batch'["data"] = Append(bD, Head(qD)) /\ batch'["add"] = bA
      BY <1>2, <2>3, <1>d, GetEffect DEF H, qA, qD, bA, bD
    <3>2. Head(qD) \in Request
      BY <3>1, <1>b, HeadTailProperties
    <3>3. H \o Append(bD, Head(qD)) = Append(H \o bD, Head(qD))
      BY <1>b, <3>2, AppendRight
    <3>4. Append(H \o bD, Head(qD)) \o Tail(qD) = (H \o bD) \o qD
      BY <1>b, <1>c, <3>1, MoveHead
    <3>5. QED
      BY <3>1, <3>3, <3>4, <1>a, <1>e
  <2>4. QED
    BY <2>1, <2>2, <2>3 DEF Consumers, Handlers
<1>3. ASSUME NEW c \in Handlers, Forward(c) PROVE Fifo'
  <2>1. c = "add"
    BY <1>3, ForwardEffect DEF LoopInv, DeleteIdle, Handlers
  <2>2. /\ bA # <<>> /\ handed' = H /\ accepted' = accepted
        /\ queue'["data"] = Append(qD, Head(bA)) /\ queue'["add"] = qA
        /\ batch'["add"] = Tail(bA) /\ batch'["data"] = bD
    BY <1>3, <2>1, <1>d, ForwardEffect DEF LoopInv, H, qA, qD, bA, bD
  <2>3. Head(bA) \in Request
    BY <2>2, <1>b, HeadTailProperties
  <2>4. (H \o bD) \o Append(qD, Head(bA)) = Append((H \o bD) \o qD, Head(bA))
    BY <1>b, <1>c, <2>3, AppendRight
  <2>5. Append((H \o bD) \o qD, Head(bA)) \o Tail(bA)
          = ((H \o bD) \o qD) \o bA
    BY <1>b, <1>c, <2>2, MoveHead
  <2>6. QED
    BY <2>2, <2>4, <2>5, <1>a, <1>e
<1>4. ASSUME HandOver PROVE Fifo'
  <2>1. /\ bD # <<>> /\ handed' = Append(H, Head(bD)) /\ accepted' = accepted
        /\ queue' = queue
        /\ batch'["data"] = Tail(bD) /\ batch'["add"] = bA
    BY <1>4, <1>d, HandOverEffect DEF LoopInv, H, bA, bD
  <2>2. Append(H, Head(bD)) \o Tail(bD) = H \o bD
    BY <1>b, <2>1, MoveHead
  <2>3. QED
    BY <2>1, <2>2, <1>a, <1>e DEF qD, qA
<1>5. ASSUME UNCHANGED <<queue, batch, accepted, handed>> PROVE Fifo'
  BY <1>5 DEF Fifo, Forwarded
<1>6. ASSUME NEW c \in Consumers,
             Linger(c) \/ StartFlush(c) \/ ForwardRaises(c)
      PROVE  Fifo'
  BY <1>5, <1>6 DEF Linger, StartFlush, ForwardRaises
<1>7. ASSUME UdpReply \/ UdpReplyFails \/ UNCHANGED vars PROVE Fifo'
  BY <1>5, <1>7 DEF UdpReply, UdpReplyFails, vars
<1>8. QED
  BY <1>1, <1>2, <1>3, <1>4, <1>6, <1>7
     DEF Next, UdpThread, Handler, DataThread, Collect, Consumers

-----------------------------------------------------------------------------
LEMMA InitIInv == Init => IInv
<1> SUFFICES ASSUME Init PROVE IInv
  OBVIOUS
<1>1. TypeOK
  BY TypeInit
<1>2. ReplyAccepted /\ LoopInv
  BY DEF Init, ReplyAccepted, LoopInv, BusyHasBatch, DeleteIdle,
         NoStrandedBatch, Consumers, Handlers
<1>3. Fifo
  <2>1. <<>> \o <<>> = <<>>
    BY ConcatEmptySeq, EmptySeq
  <2>2. QED
    BY <2>1 DEF Init, Fifo, Forwarded, Consumers, Handlers
<1>4. QED
  BY <1>1, <1>2, <1>3 DEF IInv

(* The invariant on which the three theorems below rest holds throughout.  *)
THEOREM Inductive == Spec => []IInv
<1>1. IInv /\ [Next]_vars => IInv'
  BY TypeStep, LoopStep, FifoStep DEF IInv, LoopInv
<1>2. QED
  BY InitIInv, <1>1, PTL DEF Spec

(* Every variable of the pipeline keeps its type, and only accepted        *)
(* requests are acknowledged, for every traffic.                           *)
THEOREM TypeCorrect == Spec => []TypeOK
<1>1. IInv => TypeOK
  BY DEF IInv
<1>2. QED
  BY Inductive, <1>1, PTL

(* No consumer ever blocks on an empty queue with requests in its batch.   *)
THEOREM NeverStranded == Spec => []NoStrandedBatch
<1>1. IInv => NoStrandedBatch
  BY DEF IInv, LoopInv
<1>2. QED
  BY Inductive, <1>1, PTL

(* From bind_socket to data_handler the requests stay in the order they    *)
(* were accepted, none lost and none duplicated, for every traffic and     *)
(* every interleaving of the threads.                                      *)
THEOREM FirstInFirstOut == Spec => []Fifo
<1>1. IInv => Fifo
  BY DEF IInv
<1>2. QED
  BY Inductive, <1>1, PTL

-----------------------------------------------------------------------------
(* The cache.  Its lists grow exactly when Forwarded does.                 *)

LEMMA ForwardedTypes ==
  ASSUME IInv
  PROVE  /\ Forwarded \in Seq(Request)
         /\ Len(Forwarded) \in Nat /\ Len(accepted) \in Nat
         /\ Len(Forwarded) <= Len(accepted)
<1>1. /\ handed \in Seq(Request) /\ accepted \in Seq(Request)
      /\ batch["data"] \in Seq(Request) /\ queue["data"] \in Seq(Request)
      /\ batch["add"] \in Seq(Request) /\ queue["add"] \in Seq(Request)
  BY DEF IInv, TypeOK, Consumers, Handlers
<1>2. Forwarded \in Seq(Request)
  BY <1>1, ConcatProperties DEF Forwarded
<1>3. /\ Forwarded \o batch["add"] \in Seq(Request)
      /\ Len(Forwarded \o batch["add"]) = Len(Forwarded) + Len(batch["add"])
  BY <1>1, <1>2, ConcatProperties
<1>4. Len(accepted)
        = Len(Forwarded \o batch["add"]) + Len(queue["add"])
  BY <1>1, <1>3, ConcatProperties DEF IInv, Fifo
<1>5. /\ Len(batch["add"]) \in Nat /\ Len(queue["add"]) \in Nat
      /\ Len(Forwarded) \in Nat /\ Len(accepted) \in Nat
  BY <1>1, <1>2, LenProperties
<1>6. Len(accepted)
        = (Len(Forwarded) + Len(batch["add"])) + Len(queue["add"])
  BY <1>3, <1>4
<1>7. ASSUME NEW f \in Nat, NEW b \in Nat, NEW q \in Nat
      PROVE  f <= (f + b) + q
  OBVIOUS
<1>8. Len(Forwarded) <= Len(accepted)
  BY <1>5, <1>6, <1>7
<1> QED
  BY <1>2, <1>5, <1>8

(* Only Forward lengthens Forwarded, and only it writes the lists.         *)
LEMMA ForwardedStep ==
  ASSUME IInv, [Next]_vars
  PROVE  \/ Forwarded' = Forwarded /\ UNCHANGED <<add_calls, request_ids>>
         \/ \E r \in Request : Forwarded' = Append(Forwarded, r) /\ CacheAdd(r)
<1> DEFINE H == handed
           bD == batch["data"]
           qD == queue["data"]
<1>1. /\ H \in Seq(Request) /\ bD \in Seq(Request) /\ qD \in Seq(Request)
      /\ batch \in [Consumers -> Seq(Request)]
      /\ queue \in [Consumers -> Seq(Request)]
      /\ "add" \in Consumers /\ "data" \in Consumers /\ "delete" \in Consumers
  BY ConcatProperties DEF IInv, TypeOK, Consumers, Handlers
<1>2. TypeOK /\ BusyHasBatch /\ DeleteIdle
  BY DEF IInv, LoopInv
<1> HIDE DEF H, bD, qD
<1>a. H \in Seq(Request) /\ bD \in Seq(Request) /\ qD \in Seq(Request)
  BY <1>1
<1>b. H \o bD \in Seq(Request)
  BY <1>a, ConcatProperties
<1>3. Forwarded = (H \o bD) \o qD
  BY DEF Forwarded, H, bD, qD
<1>4. CASE \E r \in Request : UdpReceive(r)
  <2>1. PICK r \in Request : UdpReceive(r)
    BY <1>4
  <2>2. handed' = handed /\ batch' = batch /\ queue'["data"] = queue["data"]
    BY <1>1, <1>2, <2>1, UdpReceiveEffect
  <2> QED
    BY <2>1, <2>2 DEF Forwarded, UdpReceive
<1>5. CASE \E c \in Consumers : Get(c)
  <2>1. PICK c \in Consumers : Get(c)
    BY <1>5
  <2>2. UNCHANGED <<add_calls, request_ids>>
    BY <2>1 DEF Get, cache
  <2>3. CASE c # "data"
    BY <1>1, <1>2, <2>1, <2>2, <2>3, GetEffect DEF Forwarded
  <2>4. CASE c = "data"
    <3>1. /\ qD # <<>> /\ handed' = H
          /\ queue'["data"] = Tail(qD)
          /\ batch'["data"] = Append(bD, Head(qD))
      BY <1>1, <1>2, <2>1, <2>4, GetEffect DEF H, qD, bD
    <3>2. Head(qD) \in Request
      BY <1>1, <3>1, HeadTailProperties
    <3>3. H \o Append(bD, Head(qD)) = Append(H \o bD, Head(qD))
      BY <1>a, <3>2, AppendRight
    <3>4. Append(H \o bD, Head(qD)) \o Tail(qD) = (H \o bD) \o qD
      BY <1>a, <1>b, <3>1, MoveHead
    <3>5. Forwarded' = Forwarded
      BY <1>3, <3>1, <3>3, <3>4 DEF Forwarded
    <3> QED
      BY <2>2, <3>5
  <2> QED
    BY <2>3, <2>4
<1>6. CASE \E c \in Handlers : Forward(c)
  <2>1. PICK c \in Handlers : Forward(c)
    BY <1>6
  <2>2. PICK r \in Request : r = Head(batch[c]) /\ CacheAdd(r)
    BY <1>2, <2>1, ForwardEffect DEF Forward
  <2>3. /\ c # "data" /\ handed' = H /\ batch'["data"] = bD
        /\ queue'["data"] = Append(qD, r)
    BY <1>1, <1>2, <2>1, <2>2, ForwardEffect DEF Handlers, H, bD, qD
  <2>4. (H \o bD) \o Append(qD, r) = Append((H \o bD) \o qD, r)
    BY <1>a, <1>b, AppendRight
  <2>5. Forwarded' = Append(Forwarded, r)
    BY <1>3, <2>3, <2>4 DEF Forwarded
  <2> QED
    BY <2>2, <2>5
<1>7. CASE HandOver
  <2>1. /\ bD # <<>> /\ handed' = Append(H, Head(bD)) /\ queue' = queue
        /\ batch'["data"] = Tail(bD)
    BY <1>1, <1>2, <1>7, HandOverEffect DEF H, bD
  <2>2. Append(H, Head(bD)) \o Tail(bD) = H \o bD
    BY <1>a, <2>1, MoveHead
  <2>3. Forwarded' = Forwarded
    BY <1>3, <2>1, <2>2 DEF Forwarded, qD
  <2> QED
    BY <1>7, <2>3 DEF HandOver, cache
<1>8. CASE UdpReply \/ UdpReplyFails \/ UNCHANGED vars
  BY <1>8 DEF UdpReply, UdpReplyFails, vars, cache, Forwarded
<1>9. CASE \E c \in Consumers :
             Linger(c) \/ StartFlush(c) \/ ForwardRaises(c)
  BY <1>9 DEF Linger, StartFlush, ForwardRaises, cache, Forwarded
<1> QED
  BY <1>4, <1>5, <1>6, <1>7, <1>8, <1>9
     DEF Next, UdpThread, Handler, DataThread, Collect, Consumers

(* A list of a call's requests grows with the sequence it is taken from.   *)
LEMMA ListGrows ==
  ASSUME NEW t \in Seq(Request), NEW s \in Seq(Request), NEW r \in Request,
         NEW c, ListsCall(t, s, c)
  PROVE  ListsCall(IF get_call_id(r) = c THEN Append(t, r) ELSE t,
                   Append(s, r), c)
<1> DEFINE n == Len(s)
           s2 == Append(s, r)
           mine == {i \in 1 .. n : get_call_id(s[i]) = c}
           mine2 == {i \in 1 .. n + 1 : get_call_id(s2[i]) = c}
<1>1. /\ n \in Nat /\ Len(s2) = n + 1 /\ s2[n + 1] = r
      /\ \A i \in 1 .. n : s2[i] = s[i]
  BY AppendProperties, LenProperties
<1>2. Len(t) = Cardinality(mine)
      /\ \A i \in mine : t[Cardinality({j \in mine : j <= i})] = s[i]
  BY DEF ListsCall
<1>3. IsFiniteSet(mine) /\ mine \in SUBSET (1 .. n)
  <2>1. IsFiniteSet(1 .. n) /\ mine \in SUBSET (1 .. n)
    BY <1>1, FS_Interval
  <2> HIDE DEF mine
  <2> QED
    BY <2>1, FS_Subset
<1>4. mine2 = IF get_call_id(r) = c THEN mine \union {n + 1} ELSE mine
  <2>1. n + 1 \in mine2 <=> get_call_id(r) = c
    BY <1>1
  <2>2. \A i \in 1 .. n : i \in mine2 <=> i \in mine
    BY <1>1
  <2>3. mine2 \in SUBSET (1 .. n + 1) /\ 1 .. n + 1 = (1 .. n) \union {n + 1}
    BY <1>1
  <2> HIDE DEF mine2, mine
  <2>4. CASE get_call_id(r) = c
    BY <1>3, <2>1, <2>2, <2>3, <2>4
  <2>5. CASE get_call_id(r) # c
    <3>1. \A i : i \in mine2 <=> i \in mine
      BY <1>3, <2>1, <2>2, <2>3, <2>5
    <3> QED
      BY <2>5, <3>1
  <2> QED
    BY <2>4, <2>5
<1>5. n + 1 \notin mine
  BY <1>1
<1>6. \A i \in mine : {j \in mine2 : j <= i} = {j \in mine : j <= i}
  <2> HIDE DEF mine2, mine
  <2> QED
    BY <1>1, <1>3, <1>4
<1>7. \A i \in mine : s2[i] = s[i]
  BY <1>1
<1>8. SUFFICES LET u == IF get_call_id(r) = c THEN Append(t, r) ELSE t
               IN  /\ Len(u) = Cardinality(mine2)
                   /\ \A i \in mine2 :
                        u[Cardinality({j \in mine2 : j <= i})] = s2[i]
  BY <1>1 DEF ListsCall
<1>9. CASE get_call_id(r) # c
  <2> HIDE DEF mine, mine2, s2
  <2> QED
    BY <1>2, <1>4, <1>6, <1>7, <1>9
<1>10. CASE get_call_id(r) = c
  <2>1. mine2 = mine \union {n + 1}
    BY <1>4, <1>10
  <2>2. \A i \in mine : /\ Cardinality({j \in mine : j <= i}) \in Nat
                        /\ Cardinality({j \in mine : j <= i}) <= Cardinality(mine)
                        /\ Cardinality({j \in mine : j <= i}) # 0
    <3> SUFFICES ASSUME NEW i \in mine
                 PROVE  /\ Cardinality({j \in mine : j <= i}) \in Nat
                        /\ Cardinality({j \in mine : j <= i})
                             <= Cardinality(mine)
                        /\ Cardinality({j \in mine : j <= i}) # 0
      OBVIOUS
    <3> DEFINE P == {j \in mine : j <= i}
    <3>1. P \in SUBSET mine /\ i \in P
      BY <1>3
    <3> HIDE DEF P, mine
    <3>2. IsFiniteSet(P) /\ Cardinality(P) <= Cardinality(mine)
      BY <1>3, <3>1, FS_Subset
    <3>3. Cardinality(P) \in Nat /\ Cardinality(P) # 0
      BY <3>1, <3>2, FS_CardinalityType, FS_EmptySet
    <3> QED
      BY <3>2, <3>3 DEF P
  <2>3. Cardinality(mine2) = Cardinality(mine) + 1
    <3> HIDE DEF mine, mine2
    <3> QED
      BY <1>3, <1>5, <2>1, FS_AddElement
  <2>4. {j \in mine2 : j <= n + 1} = mine2
    <3> HIDE DEF mine, mine2
    <3> QED
      BY <1>1, <1>3, <2>1
  <2>5. /\ Len(Append(t, r)) = Len(t) + 1
        /\ Append(t, r)[Len(t) + 1] = r
        /\ \A k \in 1 .. Len(t) : Append(t, r)[k] = t[k]
    BY AppendProperties
  <2>6. Len(t) \in Nat
    BY LenProperties
  <2> DEFINE u == Append(t, r)
  <2> HIDE DEF mine, mine2, s2, u
  <2>7. Len(u) = Cardinality(mine2)
    BY <1>2, <2>3, <2>5 DEF u
  <2>8. u[Cardinality({j \in mine2 : j <= n + 1})] = s2[n + 1]
    BY <1>1, <1>2, <2>3, <2>4, <2>5 DEF u
  <2>9. ASSUME NEW i \in mine
        PROVE  u[Cardinality({j \in mine2 : j <= i})] = s2[i]
    <3>1. Cardinality({j \in mine : j <= i}) \in 1 .. Len(t)
      BY <1>2, <2>2, <2>6
    <3>2. u[Cardinality({j \in mine : j <= i})]
            = t[Cardinality({j \in mine : j <= i})]
      BY <2>5, <3>1 DEF u
    <3> QED
      BY <1>2, <1>6, <1>7, <3>2
  <2> QED
    BY <1>10, <2>1, <2>7, <2>8, <2>9 DEF u
<1> QED
  BY <1>9, <1>10

(* With the cache on, every accepted request has been counted.             *)
Counted == SaveCallCache => Len(accepted) <= requests

Lists ==
  SaveCallCache =>
    /\ add_calls = Len(Forwarded)
    /\ \A c \in CacheKeys : ListsCall(request_ids[c], Forwarded, c)

LEMMA CountedStep == IInv /\ Counted /\ [Next]_vars => Counted'
<1> SUFFICES ASSUME IInv, Counted, [Next]_vars PROVE Counted'
  OBVIOUS
<1>1. TypeOK /\ Len(accepted) \in Nat /\ requests \in Nat
  BY ForwardedTypes DEF IInv, TypeOK
<1>2. CASE \E r \in Request : UdpReceive(r)
  <2>1. PICK r \in Request : UdpReceive(r)
    BY <1>2
  <2>2. accepted' = accepted \/ Len(accepted') = Len(accepted) + 1
    BY <1>1, <2>1, UdpReceiveEffect
  <2>3. SaveCallCache => requests' = requests + 1
    BY <2>1 DEF UdpReceive, set_add_request
  <2> QED
    BY <1>1, <2>2, <2>3 DEF Counted
<1>3. CASE UNCHANGED <<accepted, requests>>
  BY <1>3 DEF Counted
<1>4. CASE UdpReply \/ UdpReplyFails \/ HandOver \/ UNCHANGED vars
  BY <1>3, <1>4 DEF UdpReply, UdpReplyFails, HandOver, vars, cache
<1>5. CASE \E c \in Consumers :
             \/ Get(c) \/ Linger(c) \/ StartFlush(c)
             \/ Forward(c) \/ ForwardRaises(c)
  BY <1>3, <1>5 DEF Get, Linger, StartFlush, Forward, ForwardRaises, cache
<1> QED
  BY <1>2, <1>4, <1>5
     DEF Next, UdpThread, Handler, DataThread, Collect, Consumers

LEMMA ListsStep == IInv /\ Lists /\ [Next]_vars => Lists'
<1> SUFFICES ASSUME IInv, Lists, [Next]_vars, SaveCallCache
             PROVE  /\ add_calls' = Len(Forwarded')
                    /\ \A c \in CacheKeys :
                         ListsCall(request_ids'[c], Forwarded', c)
  BY DEF Lists, ListsCall, get_call_id
<1>1. CASE Forwarded' = Forwarded /\ UNCHANGED <<add_calls, request_ids>>
  BY <1>1 DEF Lists
<1>2. ASSUME NEW r \in Request,
             Forwarded' = Append(Forwarded, r), CacheAdd(r)
      PROVE  /\ add_calls' = Len(Forwarded')
             /\ \A c \in CacheKeys : ListsCall(request_ids'[c], Forwarded', c)
  <2>1. Forwarded \in Seq(Request)
    BY ForwardedTypes
  <2>2. Len(Append(Forwarded, r)) = Len(Forwarded) + 1
    BY <2>1, AppendProperties
  <2>3. request_ids \in [CacheKeys -> Seq(Request)]
    BY DEF IInv, TypeOK
  <2>4. request_ids' = [request_ids EXCEPT ![get_call_id(r)] = Append(@, r)]
        /\ add_calls' = add_calls + 1
    BY <1>2 DEF CacheAdd
  <2>5. ASSUME NEW c \in CacheKeys
        PROVE  ListsCall(request_ids'[c], Forwarded', c)
    <3>1. request_ids'[c] = IF get_call_id(r) = c
                              THEN Append(request_ids[c], r)
                              ELSE request_ids[c]
      BY <2>3, <2>4
    <3>2. ListsCall(request_ids[c], Forwarded, c)
      BY DEF Lists
    <3>3. ListsCall(IF get_call_id(r) = c THEN Append(request_ids[c], r)
                                          ELSE request_ids[c],
                    Append(Forwarded, r), c)
      BY <2>1, <2>3, <3>2, ListGrows
    <3> QED
      BY <1>2, <3>1, <3>3
  <2> QED
    BY <1>2, <2>2, <2>4, <2>5 DEF Lists
<1> QED
  BY <1>1, <1>2, ForwardedStep

(* With save_call_cache on, the cache counts each forwarded request once,  *)
(* no more than were received, and lists the requests of each call in the  *)
(* order in which they were forwarded, for every traffic.                  *)
THEOREM CacheAgrees == Spec => []CacheMirrorsForwarding
<1>1. Init => Counted /\ Lists
  <2> SUFFICES ASSUME Init PROVE Counted /\ Lists
    OBVIOUS
  <2>1. Forwarded = <<>> /\ accepted = <<>> /\ add_calls = 0 /\ requests = 0
    <3>1. <<>> \o <<>> = <<>>
      BY ConcatEmptySeq, EmptySeq
    <3> QED
      BY <3>1 DEF Init, Forwarded, Consumers, Handlers
  <2>2. Len(<<>>) = 0 /\ Cardinality({}) = 0
    BY FS_EmptySet
  <2>3. ASSUME NEW c \in CacheKeys PROVE ListsCall(request_ids[c], Forwarded, c)
    <3>1. request_ids[c] = <<>>
      BY DEF Init, NoRequestIds
    <3>2. {i \in 1 .. Len(Forwarded) : get_call_id(Forwarded[i]) = c} = {}
      BY <2>1, <2>2
    <3> QED
      BY <2>2, <3>1, <3>2 DEF ListsCall
  <2> QED
    BY <2>1, <2>2, <2>3 DEF Counted, Lists
<1>2. IInv /\ Counted /\ Lists => CacheMirrorsForwarding
  <2> SUFFICES ASSUME IInv, Counted, Lists, SaveCallCache
               PROVE  add_calls <= requests
    BY DEF CacheMirrorsForwarding, Lists
  <2>1. add_calls = Len(Forwarded) /\ Len(accepted) <= requests
        /\ requests \in Nat
    BY DEF Counted, Lists, IInv, TypeOK
  <2> QED
    BY <2>1, ForwardedTypes
<1> QED
  BY <1>1, <1>2, CountedStep, ListsStep, Inductive, PTL DEF Spec
=============================================================================
