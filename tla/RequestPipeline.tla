--------------------------- MODULE RequestPipeline ---------------------------
(***************************************************************************)
(* The Python threads a Kamailio request passes through:                   *)
(*                                                                         *)
(*   UDPSocketService.bind_socket                      (thread "udp")      *)
(*     --add_request_data_queue-->                                         *)
(*   SessionControllerService.consumer_add_request     (thread "add")      *)
(*   SessionControllerService.consumer_delete_request  (thread "delete")   *)
(*     --data_request_queue-->                                             *)
(*   UnixSocketClientService.consumer_data_request     (thread "data")     *)
(*                                                                         *)
(* The three consumers share one loop: take a request, keep it in          *)
(* local_requests, go on collecting while the batch is younger than a      *)
(* second and the queue is not empty, then handle the whole batch.  What   *)
(* data_handler does with the request (sock.send) is the subject of the    *)
(* Unix socket client; here a request is "handed" when data_handler is     *)
(* called with it.                                                         *)
(***************************************************************************)
EXTENDS Integers, Sequences, FiniteSets

CONSTANTS
  Request,        \* the decodable datagrams Kamailio may send
  Command,        \* the second token of each datagram
  Tokens,         \* how many tokens it has after strip() and replace()
  CallIds,        \* the call ids the datagrams name
  CallId,         \* the call id of each datagram (its token 11)
  NoCallId,       \* Python's None, the call id of a short datagram
  Idle,           \* the UDP thread has no reply to send
  SaveCallCache,  \* Config.save_call_cache
  MaxDatagrams    \* bound: datagrams received in a behaviour

ASSUME PipelineAssumption ==
  /\ Command \in [Request -> STRING]
  /\ Tokens \in [Request -> Nat]
  /\ CallId \in [Request -> CallIds]
  /\ NoCallId \notin CallIds
  /\ Idle \notin Request
  /\ SaveCallCache \in BOOLEAN
  /\ MaxDatagrams \in Nat

VARIABLES
  received,    \* number of datagrams received so far
  reply,       \* the datagram the UDP thread is about to answer, or Idle
  queue,       \* the three queue.Queue objects, by the thread that reads them
  batch,       \* local_requests of each consumer
  pc,          \* where each consumer is in its loop
  requests,    \* the "requests" counter of CallStatusRequest
  add_calls,   \* its "add_calls" counter
  request_ids, \* its "request_ids", by call id
  accepted,    \* history: requests put on a session queue, in order
  acked,       \* history: positions in accepted that were answered "OK"
  handed       \* history: requests data_handler was called with, in order

cache == <<requests, add_calls, request_ids>>

vars == <<received, reply, queue, batch, pc, cache,
          accepted, acked, handed>>

Handlers == {"add", "delete"}          \* run data_request_handler
Consumers == Handlers \union {"data"}

-----------------------------------------------------------------------------
(* Reading a request.                                                      *)

get_request_id_and_command(r) ==
  IF Tokens[r] >= 2 THEN Command[r] ELSE "None"

(* data[11] raises IndexError unless there are 12 tokens, but it is        *)
(* evaluated as soon as there are 11.                                      *)
CallIdRaises(r) == Tokens[r] >= 11 /\ 11 \notin 0 .. Tokens[r] - 1

get_call_id(r) == IF Tokens[r] >= 11 THEN CallId[r] ELSE NoCallId

(* Mutant: teardowns use the queue named after them.                       *)
QueueForCrossed(cmd) == IF cmd = "D" THEN "delete" ELSE "add"

(* Both "S" and "D" are put on add_request_data_queue.                     *)
QueueFor(cmd) == "add"

-----------------------------------------------------------------------------
(* CallStatusRequest.__cache, used when save_call_cache is on: two of its  *)
(* counters, and the request ids of each call.                             *)

CacheKeys == CallIds \union {NoCallId}

set_add_request ==
  requests' = IF SaveCallCache THEN requests + 1 ELSE requests

(* Mutant: a teardown is not recorded.                                     *)
CacheAddSetupsOnly(r) ==
  IF SaveCallCache /\ Command[r] = "S"
    THEN /\ add_calls' = add_calls + 1
         /\ request_ids' = [request_ids EXCEPT
                              ![get_call_id(r)] = Append(@, r)]
    ELSE UNCHANGED <<add_calls, request_ids>>

CacheAdd(r) ==
  IF SaveCallCache
    THEN /\ add_calls' = add_calls + 1
         /\ request_ids' = [request_ids EXCEPT
                              ![get_call_id(r)] = Append(@, r)]
    ELSE UNCHANGED <<add_calls, request_ids>>

-----------------------------------------------------------------------------
(* Mutant: no entry for the requests whose call id is None.                *)
NoRequestIdsOfNone == [c \in CallIds |-> <<>>]

NoRequestIds == [c \in CacheKeys |-> <<>>]

Init ==
  /\ received = 0
  /\ reply = Idle
  /\ queue = [c \in Consumers |-> <<>>]
  /\ batch = [c \in Consumers |-> <<>>]
  /\ pc = [c \in Consumers |-> "get"]
  /\ requests = 0
  /\ add_calls = 0
  /\ request_ids = NoRequestIds
  /\ accepted = <<>>
  /\ acked = {}
  /\ handed = <<>>

(* bind_socket, one datagram: recvfrom, parse, count, and for a session    *)
(* command put it on the queue; the reply is a step of its own because the *)
(* consumers run between put() and sendto().                               *)
UdpReceive(r) ==
  LET cmd == get_request_id_and_command(r) IN
  /\ reply = Idle
  /\ received < MaxDatagrams
  /\ received' = received + 1
  /\ set_add_request
  /\ \/ /\ cmd \in {"S", "D"}
        /\ queue' = [queue EXCEPT ![QueueFor(cmd)] = Append(@, r)]
        /\ accepted' = Append(accepted, r)
        /\ reply' = r
     \/ /\ cmd \in {"P", "G"}
        /\ reply' = r
        /\ UNCHANGED <<queue, accepted>>
     \/ /\ cmd \notin {"S", "D", "P", "G"}
        /\ UNCHANGED <<reply, queue, accepted>>
  /\ UNCHANGED <<batch, pc, add_calls, request_ids, acked, handed>>

(* send_pong, send_config or send_successfully_get_data.                   *)
UdpReply ==
  /\ reply # Idle
  /\ reply' = Idle
  /\ acked' = IF get_request_id_and_command(reply) \in {"S", "D"}
                THEN acked \union {Len(accepted)} ELSE acked
  /\ UNCHANGED <<received, queue, batch, pc, cache, accepted, handed>>

(* sendto raised: bind_socket logs the error and receives again.           *)
UdpReplyFails ==
  /\ reply # Idle
  /\ reply' = Idle
  /\ UNCHANGED <<received, queue, batch, pc, cache, accepted,
                 acked, handed>>

-----------------------------------------------------------------------------
(* The consumer loop.                                                      *)

(* queue.get() blocks while the queue is empty.                            *)
Get(c) ==
  /\ pc[c] = "get"
  /\ queue[c] # <<>>
  /\ batch' = [batch EXCEPT ![c] = Append(@, Head(queue[c]))]
  /\ queue' = [queue EXCEPT ![c] = Tail(@)]
  /\ pc' = [pc EXCEPT ![c] = "decide"]
  /\ UNCHANGED <<received, reply, cache, accepted, acked, handed>>

(* Mutant: a young batch always waits for more.                            *)
MayLingerWhenYoung(c) == TRUE

(* qsize() > 0; the batch's age against one second is left open.           *)
MayLinger(c) == queue[c] # <<>>

Linger(c) ==
  /\ pc[c] = "decide"
  /\ MayLinger(c)
  /\ pc' = [pc EXCEPT ![c] = "get"]
  /\ UNCHANGED <<received, reply, queue, batch, cache, accepted,
                 acked, handed>>

StartFlush(c) ==
  /\ pc[c] = "decide"
  /\ pc' = [pc EXCEPT ![c] = "flush"]
  /\ UNCHANGED <<received, reply, queue, batch, cache, accepted,
                 acked, handed>>

(* What is left of local_requests after one turn of the for loop.          *)
RestOfBatch(c) == Tail(batch[c])

AfterOne(c) == IF RestOfBatch(c) = <<>> THEN "get" ELSE "flush"

(* One call of data_request_handler.                                       *)
Forward(c) ==
  LET r == Head(batch[c]) IN
  /\ pc[c] = "flush"
  /\ ~CallIdRaises(r)
  /\ CacheAdd(r)
  /\ queue' = [queue EXCEPT !["data"] = Append(@, r)]
  /\ batch' = [batch EXCEPT ![c] = RestOfBatch(c)]
  /\ pc' = [pc EXCEPT ![c] = AfterOne(c)]
  /\ UNCHANGED <<received, reply, requests, accepted, acked, handed>>

(* get_call_id raised IndexError.  The inner try catches queue.Empty only; *)
(* the outer one is outside the loop, so the thread logs, sleeps and ends. *)
ForwardRaises(c) ==
  /\ pc[c] = "flush"
  /\ CallIdRaises(Head(batch[c]))
  /\ pc' = [pc EXCEPT ![c] = "dead"]
  /\ UNCHANGED <<received, reply, queue, batch, cache, accepted,
                 acked, handed>>

(* One call of data_handler, which catches every exception.                *)
HandOver ==
  /\ pc["data"] = "flush"
  /\ handed' = Append(handed, Head(batch["data"]))
  /\ batch' = [batch EXCEPT !["data"] = RestOfBatch("data")]
  /\ pc' = [pc EXCEPT !["data"] = AfterOne("data")]
  /\ UNCHANGED <<received, reply, queue, cache, accepted, acked>>

-----------------------------------------------------------------------------
UdpThread == (\E r \in Request : UdpReceive(r)) \/ UdpReply \/ UdpReplyFails

Collect(c) == Get(c) \/ Linger(c) \/ StartFlush(c)

Handler(c) == Collect(c) \/ Forward(c) \/ ForwardRaises(c)

DataThread == Collect("data") \/ HandOver

Next == UdpThread \/ (\E c \in Handlers : Handler(c)) \/ DataThread

Spec == Init /\ [][Next]_vars

(* Every thread that can run is scheduled; nothing is asked of Kamailio.   *)
FairSpec ==
  /\ Spec
  /\ WF_vars(UdpReply \/ UdpReplyFails)
  /\ \A c \in Handlers : WF_vars(Handler(c))
  /\ WF_vars(DataThread)
-----------------------------------------------------------------------------
(* Properties.                                                             *)

(* The requests the session controller has forwarded, in order, wherever   *)
(* they are now.                                                           *)
Forwarded == handed \o batch["data"] \o queue["data"]

(* Every variable holds a value of its kind, and nothing is acknowledged   *)
(* that was not accepted.                                                  *)
TypeOK ==
  /\ received \in 0 .. MaxDatagrams
  /\ reply \in Request \union {Idle}
  /\ queue \in [Consumers -> Seq(Request)]
  /\ batch \in [Consumers -> Seq(Request)]
  /\ pc \in [Consumers -> {"get", "decide", "flush", "dead"}]
  /\ requests \in Nat
  /\ add_calls \in Nat
  /\ request_ids \in [CacheKeys -> Seq(Request)]
  /\ accepted \in Seq(Request)
  /\ acked \subseteq 1 .. Len(accepted)
  /\ handed \in Seq(Request)

(* The stages of the pipeline, read from its end, spell out exactly the    *)
(* requests accepted, in the order they were accepted: between the socket  *)
(* and data_handler no request is lost, duplicated or overtaken, so a      *)
(* teardown never passes the setup it follows.  A request caught in the    *)
(* batch of a thread that died keeps its place there.                      *)
Fifo == accepted = Forwarded \o batch["add"] \o queue["add"]

(* A consumer never blocks in queue.get() on an empty queue while it holds *)
(* requests in local_requests: the batching loop cannot strand a batch.    *)
NoStrandedBatch ==
  \A c \in Consumers : pc[c] = "get" /\ batch[c] # <<>> => queue[c] # <<>>

(* t lists the requests of s that have the call id c, in the order of s.   *)
ListsCall(t, s, c) ==
  LET mine == {i \in 1 .. Len(s) : get_call_id(s[i]) = c} IN
  /\ Len(t) = Cardinality(mine)
  /\ \A i \in mine : t[Cardinality({j \in mine : j <= i})] = s[i]

(* With save_call_cache on, the cache agrees with what was forwarded: it   *)
(* counts every forwarded request once, it lists the requests of each call *)
(* in forwarding order, and it never counts more than was received.        *)
CacheMirrorsForwarding ==
  SaveCallCache =>
    /\ add_calls = Len(Forwarded)
    /\ add_calls <= requests
    /\ \A c \in CacheKeys : ListsCall(request_ids[c], Forwarded, c)

(* The accepted requests up to position i can all be handled.              *)
CleanUpTo(i) ==
  /\ i <= Len(accepted)
  /\ \A j \in 1 .. i : ~CallIdRaises(accepted[j])

(* Every accepted request with no 11-token request before it reaches       *)
(* data_handler, whatever the consumers' batches and the traffic behind it *)
(* do.                                                                     *)
CleanPrefixIsHanded ==
  \A i \in 1 .. MaxDatagrams : CleanUpTo(i) ~> Len(handed) >= i

(* README.md:69: a request that is sent to the proxy and answered "OK" is  *)
(* sent on.  Refuted: an 11-token request kills the consumer thread.       *)
AckedIsHanded ==
  \A i \in 1 .. MaxDatagrams : i \in acked ~> Len(handed) >= i
=============================================================================
