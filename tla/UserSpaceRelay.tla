---------------------------- MODULE UserSpaceRelay ----------------------------
(***************************************************************************)
(* user_space.c: a parent process that reads requests from a Unix socket,  *)
(* writes its whole buffer to a pipe and forks a child for each; a child   *)
(* takes one buffer from the pipe, waits for media on the two ports of a   *)
(* setup, and sends the request to the kernel module.                      *)
(*                                                                         *)
(* The children share the pipe and the host's UDP ports and nothing else.  *)
(* What poll() returns decides how long a child waits, and which client    *)
(* ports it writes over tokens 6 and 9; neither matters to the properties  *)
(* here.  A request is "sent" when sendmsg is called with it.              *)
(***************************************************************************)
EXTENDS Integers, Sequences, FiniteSets

CONSTANTS
  Message,      \* decodable requests
  Setup,        \* those whose command is "S"
  Port,         \* UDP ports of the proxy
  FirstPort,    \* the port of token 8 of each request
  SecondPort,   \* the port of token 7 of each request
  Size,         \* the length of each request, in cells
  Cell,         \* positions in a buffer
  Blank,        \* what bzero leaves there
  PipeCap,      \* buffers the pipe can hold (64 on Linux)
  MayClose,     \* may the peer close the Unix socket?
  MaxMessages,  \* bound: requests sent by the peer
  MaxReads,     \* bound: reads by the parent
  MaxForkFails  \* bound: times fork fails

ASSUME RelayAssumption ==
  /\ Setup \subseteq Message
  /\ FirstPort \in [Message -> Port]
  /\ SecondPort \in [Message -> Port]
  /\ Cell \subseteq Nat /\ 1 \in Cell
  /\ Size \in [Message -> Nat \ {0}]
  /\ Blank \notin Message
  /\ PipeCap \in Nat \ {0}
  /\ MayClose \in BOOLEAN
  /\ MaxMessages \in Nat /\ MaxReads \in Nat /\ MaxForkFails \in Nat

VARIABLES
  inbox,      \* requests in the Unix socket
  offered,    \* number of requests the peer has sent
  closed,     \* the peer has closed
  buffer,     \* main's buffer: whose byte each cell holds
  parent,     \* where the parent is in its loop
  texts,      \* history: the buffer after each read
  pipe,       \* buffers in the pipe, by the number of their read
  child,      \* where the child forked after each read is
  item,       \* the buffer each child has taken from the pipe, or 0
  fork_fails, \* number of times fork has failed
  sent,       \* history: buffers sent to the kernel, in order
  dropped,    \* history: buffers whose child exited in bind
  barred      \* history: those no sibling of that child stood in the way of

vars == <<inbox, offered, closed, buffer, parent, texts, pipe, child, item,
          fork_fails, sent, dropped, barred>>

Read == 1 .. MaxReads
reads == Len(texts)

(* The request at the front of a buffer.                                   *)
MessageOf(i) == texts[i][1]

-----------------------------------------------------------------------------
(* Mutant: main's buffer is not cleared before the loop.                   *)
UnclearedBuffer == [x \in Cell |-> "stack"]

ClearedBuffer == [x \in Cell |-> Blank]

Init ==
  /\ inbox = <<>>
  /\ offered = 0
  /\ closed = FALSE
  /\ buffer = ClearedBuffer
  /\ parent = "read"
  /\ texts = <<>>
  /\ pipe = <<>>
  /\ child = [c \in Read |-> "none"]
  /\ item = [c \in Read |-> 0]
  /\ fork_fails = 0
  /\ sent = <<>>
  /\ dropped = {}
  /\ barred = {}

processes ==
  <<parent, texts, pipe, child, item, fork_fails, sent, dropped, barred>>

(* The peer (UnixSocketClientService) sends a request.                     *)
PeerSends(m) ==
  /\ ~closed
  /\ offered < MaxMessages
  /\ offered' = offered + 1
  /\ inbox' = Append(inbox, m)
  /\ UNCHANGED <<closed, buffer, processes>>

(* The peer's process ends, by its signal handler or otherwise: the socket *)
(* closes, and so does the other end of user_space's standard output.  It  *)
(* is taken to end after the first request has been read.                  *)
PeerCloses ==
  /\ MayClose
  /\ ~closed
  /\ reads > 0
  /\ closed' = TRUE
  /\ UNCHANGED <<inbox, offered, buffer, processes>>

-----------------------------------------------------------------------------
(* The parent.                                                             *)

(* read() overwrites the front of the buffer.                              *)
Overwritten(m) == [x \in Cell |-> IF x <= Size[m] THEN m ELSE buffer[x]]

ParentReads ==
  /\ parent = "read"
  /\ reads < MaxReads
  /\ inbox # <<>>
  /\ inbox' = Tail(inbox)
  /\ buffer' = Overwritten(Head(inbox))
  /\ texts' = Append(texts, buffer')
  /\ parent' = "write"
  /\ UNCHANGED <<offered, closed, pipe, child, item, fork_fails, sent,
                 dropped, barred>>

(* At end of file read() returns 0, which is not less than 0: the parent   *)
(* goes on with what is in the buffer.                                     *)
ParentReadsEof ==
  /\ parent = "read"
  /\ reads < MaxReads
  /\ closed /\ inbox = <<>>
  /\ texts' = Append(texts, buffer)
  /\ parent' = "write"
  /\ UNCHANGED <<inbox, offered, closed, buffer, pipe, child, item,
                 fork_fails, sent, dropped, barred>>

(* write() blocks while the pipe is full.                                  *)
ParentWrites ==
  /\ parent = "write"
  /\ Len(pipe) < PipeCap
  /\ pipe' = Append(pipe, reads)
  /\ parent' = "fork"
  /\ UNCHANGED <<inbox, offered, closed, buffer, texts, child, item,
                 fork_fails, sent, dropped, barred>>

ParentForks ==
  /\ parent = "fork"
  /\ child' = [child EXCEPT ![reads] = "new"]
  /\ parent' = "read"
  /\ UNCHANGED <<inbox, offered, closed, buffer, texts, pipe, item,
                 fork_fails, sent, dropped, barred>>

(* fork() fails: logged, and the parent goes on.                           *)
ForkFails ==
  /\ parent = "fork"
  /\ fork_fails < MaxForkFails
  /\ fork_fails' = fork_fails + 1
  /\ parent' = "read"
  /\ UNCHANGED <<inbox, offered, closed, buffer, texts, pipe, child, item,
                 sent, dropped, barred>>

(* Somebody has to read what the parent prints.  With the peer gone the    *)
(* line of one of the requests it reads, or of end of file, fills the      *)
(* stdio buffer, is written to the broken pipe, and SIGPIPE ends the       *)
(* parent before it has written the request on.                            *)
ParentEnds ==
  /\ parent = "read"
  /\ closed
  /\ parent' = "ended"
  /\ UNCHANGED <<inbox, offered, closed, buffer, texts, pipe, child, item,
                 fork_fails, sent, dropped, barred>>

-----------------------------------------------------------------------------
(* A child.                                                                *)

ours == <<inbox, offered, closed, buffer, parent, texts, fork_fails>>

(* Mutant: the buffer is read without being taken out.                     *)
TakeFromPipeCopies == UNCHANGED pipe

TakeFromPipe == pipe' = Tail(pipe)

ChildReads(c) ==
  /\ child[c] = "new"
  /\ pipe # <<>>
  /\ TakeFromPipe
  /\ item' = [item EXCEPT ![c] = Head(pipe)]
  /\ child' = [child EXCEPT
       ![c] = IF MessageOf(Head(pipe)) \in Setup THEN "bind1" ELSE "send"]
  /\ UNCHANGED <<ours, sent, dropped, barred>>

(* The ports child c is bound to: sockbind closes its socket on return.    *)
BoundPort(c) ==
  CASE child[c] = "poll1" -> {FirstPort[MessageOf(item[c])]}
    [] child[c] = "poll2" -> {SecondPort[MessageOf(item[c])]}
    [] OTHER -> {}

WantedPort(c) ==
  IF child[c] = "bind1" THEN FirstPort[MessageOf(item[c])]
                        ELSE SecondPort[MessageOf(item[c])]

PortFree(p) == \A d \in Read : p \notin BoundPort(d)

(* sockbind binds a port that no sibling is bound to.                      *)
Bind(c) ==
  /\ child[c] \in {"bind1", "bind2"}
  /\ PortFree(WantedPort(c))
  /\ child' = [child EXCEPT
       ![c] = IF child[c] = "bind1" THEN "poll1" ELSE "poll2"]
  /\ UNCHANGED <<ours, pipe, item, sent, dropped, barred>>

(* sockbind exits the process on every error of bind: because a sibling    *)
(* has the port, or because somebody user_space knows nothing of has it, a *)
(* child that has outlived an earlier user_space or another program.       *)
BindFails(c) ==
  /\ child[c] \in {"bind1", "bind2"}
  /\ child' = [child EXCEPT ![c] = "gone"]
  /\ dropped' = dropped \union {item[c]}
  /\ barred' = IF PortFree(WantedPort(c)) THEN barred \union {item[c]}
                                          ELSE barred
  /\ UNCHANGED <<ours, pipe, item, sent>>

(* Mutant: a child that hears nothing gives up.                            *)
PollEndsInExit(c) ==
  /\ child[c] \in {"poll1", "poll2"}
  /\ child' = [child EXCEPT ![c] = "gone"]
  /\ dropped' = dropped \union {item[c]}
  /\ UNCHANGED <<ours, pipe, item, sent, barred>>

(* poll() times out or a packet comes; the socket is closed.               *)
PollEnds(c) ==
  /\ child[c] \in {"poll1", "poll2"}
  /\ child' = [child EXCEPT
       ![c] = IF child[c] = "poll1" THEN "bind2" ELSE "send"]
  /\ UNCHANGED <<ours, pipe, item, sent, dropped, barred>>

Send(c) ==
  /\ child[c] = "send"
  /\ sent' = Append(sent, item[c])
  /\ child' = [child EXCEPT ![c] = "gone"]
  /\ UNCHANGED <<ours, pipe, item, dropped, barred>>

-----------------------------------------------------------------------------
Peer == (\E m \in Message : PeerSends(m)) \/ PeerCloses

Parent ==
  \/ ParentReads \/ ParentReadsEof \/ ParentEnds
  \/ ParentWrites \/ ParentForks \/ ForkFails

Child(c) ==
  ChildReads(c) \/ Bind(c) \/ BindFails(c) \/ PollEnds(c) \/ Send(c)

Next == Peer \/ Parent \/ \E c \in Read : Child(c)

Spec == Init /\ [][Next]_vars

(* The host schedules every process; poll() returns within five seconds.   *)
FairSpec == Spec /\ WF_vars(Parent) /\ \A c \in Read : WF_vars(Child(c))
-----------------------------------------------------------------------------
(* Properties.                                                             *)

Text == [Cell -> Message \union {Blank}]

(* Every variable holds a value of its kind, and buffers are known by the  *)
(* number of a read that has happened.                                     *)
TypeOK ==
  /\ inbox \in Seq(Message)
  /\ offered \in 0 .. MaxMessages
  /\ closed \in BOOLEAN
  /\ buffer \in Text
  /\ parent \in {"read", "write", "fork", "ended"}
  /\ texts \in Seq(Text) /\ reads <= MaxReads
  /\ \A i \in 1 .. reads : MessageOf(i) \in Message
  /\ pipe \in Seq(1 .. reads)
  /\ child \in [Read -> {"none", "new", "bind1", "poll1", "bind2", "poll2",
                         "send", "gone"}]
  /\ item \in [Read -> 0 .. reads]
  /\ fork_fails \in 0 .. MaxForkFails
  /\ sent \in Seq(1 .. reads)
  /\ dropped \subseteq 1 .. reads /\ barred \subseteq dropped

Waiting == {c \in Read : child[c] = "new"}

(* The pipe holds one buffer for each child that has not read yet, and one *)
(* more for each fork that failed or is about to happen.  So no child ever *)
(* blocks on an empty pipe, in whatever order the children run; and what a *)
(* failed fork leaves behind is never made up for.                         *)
PipeAccounting ==
  Len(pipe) = Cardinality(Waiting) + fork_fails
                + (IF parent = "fork" THEN 1 ELSE 0)

Times(i, s) == Cardinality({k \in 1 .. Len(s) : s[k] = i})

Working(c) == child[c] \notin {"none", "new", "gone"}

(* Every buffer read is in one place: in the parent's hands, in the pipe,  *)
(* with one child, sent, or dropped.  The children take what comes first   *)
(* out of the pipe, not what they were forked for, and still none is sent  *)
(* twice and none is forgotten.                                            *)
ExactlyOnce ==
  \A i \in 1 .. reads :
    1 = (IF parent = "write" /\ i = reads THEN 1 ELSE 0)
          + Times(i, pipe)
          + Cardinality({c \in Read : Working(c) /\ item[c] = i})
          + Times(i, sent)
          + (IF i \in dropped THEN 1 ELSE 0)

-----------------------------------------------------------------------------
(* The relay keeps the contract.                                           *)

PortsOf(m) == {FirstPort[m], SecondPort[m]}

Competitors ==
  {p \in Setup \X Setup : PortsOf(p[1]) \intersect PortsOf(p[2]) # {}}

Named(S) == {<<i, MessageOf(i)>> : i \in S}

SentItems == {sent[k] : k \in 1 .. Len(sent)}
Resolved == SentItems \union dropped

TakenTickets == Named(1 .. reads \ Resolved)
SentTickets == Named(SentItems)
DroppedTickets == Named(dropped \ barred)
BarredTickets == Named(barred)

Contract == INSTANCE RelayContract WITH
  Id <- Read,
  Competing <- Competitors,
  taken <- TakenTickets,
  delivered <- SentTickets,
  dropped <- DroppedTickets,
  barred <- BarredTickets

(* A request is given up only because a stranger holds one of its ports,   *)
(* or another setup, not yet sent, wants one of them: never by waiting in  *)
(* vain for media, and never because of a child that is done.              *)
KeepsContract == Contract!Spec

(* When the setups of different calls use different ports, setups do not   *)
(* cancel each other out: for each that was dropped for a sibling, one of  *)
(* the setups for its ports is sent or under way, unless a stranger held a *)
(* port that they want.                                                    *)
SomeSetupSurvives ==
  \A i \in dropped \ barred : \E j \in (1 .. reads \ dropped) \union barred :
    <<MessageOf(i), MessageOf(j)>> \in Competitors

(* The parent "keeps waiting for new data" (user_space.c:212): it stays    *)
(* blocked in write() for ever only once fork has failed as often as the   *)
(* pipe has room for buffers.  A buffer whose child was never born stays   *)
(* in the pipe, and these alone use it up.                                 *)
ParentKeepsReading ==
  parent = "write" ~> parent = "read" \/ fork_fails >= PipeCap

(* Every request sent by the peer is sent on or dropped for a port, unless *)
(* a fork fails or the parent ends with its peer.                          *)
EveryRequestResolved ==
  \A i \in Read :
    offered >= i ~> i \in Resolved \/ fork_fails > 0 \/ parent = "ended"

(* README.md:69, "the data is sent to the kernel space": the buffer sent   *)
(* is the request that was received, and nothing else.                     *)
SentAsReceived ==
  \A k \in 1 .. Len(sent) : \A x \in Cell :
    texts[sent[k]][x] =
      IF x <= Size[MessageOf(sent[k])] THEN MessageOf(sent[k]) ELSE Blank
=============================================================================
