# A TLA+ model of pylrkproxy

pylrkproxy relays RTP media for Kamailio. Kamailio sends it a datagram for each
call to set up (`S`) or tear down (`D`); the request travels through Python
threads, a C process and a netlink socket to a kernel module, which then
translates the media packets of the call. This directory holds TLA+ modules of
those parts, the TLC configurations that check them on small instances, and
proofs, checked by TLAPS, of what holds for every instance.

## The system

```
Kamailio --UDP--> udp thread --queue--> add thread --queue--> data thread
                      |                                            |
                      '--"OK"/PONG/config--> Kamailio        Unix socket
                                                                   v
   media packets --> hooks of the kernel module <--netlink-- user_space.o
                                                          (parent, children)
```

| Component | Source | State | Operations | Depends on | What is hard |
|---|---|---|---|---|---|
| UDP front end | `lib/service/udp_socket_service.py` | one socket, `client_address` | receive and dispatch, reply | queues of the session controller | replies are sent before anything is done |
| Session controller | `lib/service/session_controller_service.py` | two queues, a batch per thread | collect a batch, forward it | queue of the Unix client, call cache | blocking `get` with a batch in hand; an exception ends the thread |
| Unix socket client | `lib/service/unix_socket_client_service.py` | `is_run_unix_o`, `force_connected`, `sock`, a queue | start and restart `user_space.o`, connect, send | the process, a path | three threads share flags and a socket without a lock; restarts |
| user_space | `lib/c/user_space.o/user_space.c` | buffer, pipe, children, bound ports | read, write to the pipe, fork; child: take, bind, wait for media, send | Unix socket, UDP ports, netlink | children in any order, failing fork, full pipe, stale buffer, end of file |
| Kernel module | `lib/c/kernel_space.ko/lrkproxy_module.c` | hash table of entries | netlink callback (set up, tear down), two packet hooks, load, unload | the processes that send netlink messages | callbacks and hooks at once without locks, bucket collisions, failing allocation |
| Module loading | `lib/shell/kernel_space_module.py` | none | make, rmmod, insmod | kernel module | a module in use, loaded with other settings, loaded while traffic runs |
| Call status cache | `lib/cache/call_status_request_cache.py` | counters, request ids by call | count, add | updated by two threads | |
| Call session cache | `lib/cache/call_session_cache.py` | a dictionary | add, get, remove (no caller) | | writes to the wrong dictionary |
| Configuration | `conf/config.py` | class attributes | `load_ini` | read by all | values of an unexpected type are kept |
| Server | `pylrkproxy.py` | loaded services | load, run, stop on SIGINT | services | what it starts outlives it |
| Monitoring, logging, paths, test sender | `monitoring_service.py`, `logger.py`, `common_functions.py`, `lib/test` | none that others read | | | |

`lib/service/session_controller_service_new.py` is a variant that does not
compile (tabs and spaces mix on line 132); `load_modules` logs that and goes on.

What makes each correct: the request threads lose, duplicate and reorder
nothing, and a batch is never stuck; the Unix client keeps one process running
and one connection to it; user_space hands each request on once, whatever its
children do; the three parsers of a request agree; the kernel module translates
both directions of a call, exactly while it is set up, and accounts for its
memory; and a server that is started again finds its way among what earlier ones
left behind.

## The modules

| Module | Models | Checked by | Proofs |
|---|---|---|---|
| `RequestPipeline` | UDP thread, three consumer threads, call status cache | `MCRequestPipeline` | `RequestPipelineProofs` |
| `UnixSocketClient` | runner, checker, `data_handler`, life of `user_space.o` | through `Deployment` | through `DeploymentProofs` |
| `Deployment` | EXTENDS it with the server, its start and end, the settings, and the kernel module's load and unload | `MCDeployment` | `DeploymentProofs` |
| `UserSpaceRelay` | parent and children of user_space | `MCUserSpaceRelay` | `UserSpaceRelayProofs` |
| `RelayContract` | what user_space promises, abstractly | through `UserSpaceRelay` | `UserSpaceRelayProofs` |
| `KernelNat` | netlink callback, hash table, hooks | `MCKernelNat` | `KernelNatProofs` |
| `KernelOverlap` | EXTENDS it with a record of which callbacks overlapped, and what a call can rely on regardless | `MCKernelNat` | `KernelOverlapProofs` |
| `NatRules` | a table of one rule per key, abstractly | through `KernelNat` | `KernelNatProofs` |
| `KernelBucket` | one bucket of the table, load by load and store by store | `MCKernelBucket` | `KernelBucketProofs` |
| `CallPath` | EXTENDS `UserSpaceRelay`, with `KernelNat` as an instance and the ports the children learn | `MCCallPath` | `CallPathProofs` |
| `RequestFormat` | the three ways a request is taken apart | `MCRequestFormat` | `RequestFormatProofs` |

Operators whose comment begins with "Mutant:" belong to no specification: they
are wrong versions of the operator that follows them, by which each property was
seen to fail when the code is wrong.

### RequestPipeline

The variables `queue` and `batch` are the `queue.Queue` objects and the threads'
`local_requests`; `pc` is where a consumer is in its loop. One datagram is a
request with a command, a number of tokens and a call id. `UdpReceive` is one
pass of `bind_socket` up to the reply; the reply is a step of its own, since the
consumers run in between. `Get`, `Linger`, `StartFlush` are the batching loop
shared by the three consumers (the age of the batch against one second is left
open: both branches are possible when the queue is not empty); `Forward` is one
call of `data_request_handler`, `HandOver` one call of `data_handler`.
`ForwardRaises` is the IndexError of `get_call_id`, which ends the thread.
Nothing is ever put on `delete_request_data_queue`, so the delete thread has
actions that no behaviour takes; the proof of `Fifo` rests on that.
`accepted`, `acked`, `handed` are history variables.

### UnixSocketClient and Deployment

`is_run_unix_o`, `force_connected` and `sock` are the class attributes of the
service, `built` the result of gcc. The runner's steps are the statements of
`run_user_space` that touch shared state; the two assignments before
`subprocess.run` are one step. The checker makes a socket, connects and clears
the flag in separate steps. `proc` follows the process from its start through
`bind` and `listen`; it may fail at any time, and leaves its socket file. When
it dies, a child it forked may hold its end of the connection for up to ten
seconds; a send then succeeds and nobody reads it. It is counted as lost.

`SlowRestart` states an assumption about time: the runner's sleeps of 1 and 5
seconds last longer than a pass of the checker from its test to
`force_connected = False`. Without it TLC finds that a restart between `connect`
and that assignment leaves the new process unconnected.

`Deployment` puts this into its surroundings. `server` is where `pylrkproxy.py`
is: it loads its settings, calls rmmod and insmod, and runs its services; it may
be stopped by SIGINT, or die without its handler, in every state, and then be
started again. `orphans` are processes of earlier servers and children of
processes that failed, which go on without them; `module` is the kernel module,
absent, initialising, live or exiting, `min_port` its parameter, and `table`
says whether its hash table holds entries. `Rmmod` fails while a process has a
netlink socket open, `Insmod` while the module is there, and the server goes on
in both cases; so the module may keep an old port, which `SettingsApplied`
states and its run refutes. `Callback` is any message of any process that has a
netlink socket, while the callback is registered: that is all the kernel module
needs to know of the traffic here. `LoadedInt` is `load_ini` for an option with
an integer default.

One more assumption about time is built in and stated in the module's head: a
server takes longer to start than insmod or user_space.o, so a new server does
not meet a module halfway through its init.

### UserSpaceRelay

Reads are numbered, and a buffer is known by the number of its read; `texts`
keeps what each buffer held, as a function from a few cells to the request that
last wrote there, which is enough to see the stale end of an earlier request.
`pipe` holds numbers. The child forked after read `c` is `child[c]`, and
`item[c]` is the buffer it took, which need not be `c`. `sockbind` is `Bind` or
`BindFails`, then `PollEnds`. The code exits on any error of `bind`, and so
`BindFails` is always possible: a sibling may hold the port, or a process that
user_space knows nothing of, such as a child of an earlier one; `barred` records
the second case. A pause of two seconds after a failing `read` changes nothing
and is left out.

`PeerCloses` is the end of the server's process. It is taken to come after the
first read; before that the child would parse an empty buffer. The parent then
reads the end of file as if it were its last request again. It also prints each
request to a pipe that nobody reads any more, so at some flush of stdio's buffer
SIGPIPE ends it: `ParentEnds`, at any of these reads. While the server lives its
thread in `subprocess.run` drains that pipe, and printing does not block.

`RelayContract` states the promise: a request is taken, then delivered or given
up once, and given up only while another setup that wants one of its ports is
still under way, or for a stranger on one of its ports.

### KernelNat and KernelBucket

`chain[b]` is a bucket, newest entry first. A `Handler` is a context in which
`lrkp_nl_recv_msg` runs: netlink calls it in the sending process, so several run
at once. It allocates, inserts twice, or deletes twice, one bucket per step.
`key_s1` and `key_s2` are the two keys a message yields; the 32-bit sum and its
hash are the constant function `BucketOf`, so that collisions can be switched on
and off. They are real: 192.168.10.20 with port 20001 and 192.169.10.20 with
port 20000 give the same sum on a little-endian machine, before any hashing.
Nothing keeps messages of one call from arriving together, so callbacks for one
bucket overlap as they like, each list operation taking effect whole. The hooks change no state and are operators: `main_hook_pre`, `main_hook_post`,
and `Path`, a forwarded packet's way through both. Every entry of a bucket is
applied to the packet in turn, so the oldest one decides.

`NatRules` is the abstract table: one rule per key, installed where there was
none, removed, never replaced. `KernelNat` implements it when no two keys share
a bucket; a repeated setup maps to a stuttering step, that is, it has no effect.

`KernelOverlap` adds two history variables that watch every step of `KernelNat`
and hinder none. `newer` counts what others put into a teardown's first bucket
while it runs, so that `TeardownRemovesOlder` can say that nothing older is left.
`clash` holds the buckets of calls whose callbacks have overlapped, until one of
them, alone, leaves them empty; `RoundTrip` is about all other buckets. Without
that exception TLC finds `RoundTrip` broken in eight steps: a setup is overtaken,
between its two insertions, by a whole teardown of its call, and one direction
stays. So the code's lack of a lock costs the call whose requests overlap, and,
as the property shows, no other.

`KernelBucket` looks into a step of `KernelNat`. The list primitives are written
out: `hash_add_rcu` reads the head, publishes and sets `pprev` back;
`hash_for_each_possible_safe` with `hash_del_rcu` and a free as its body loads
the next entry, unlinks, frees and advances; the prerouting hook walks with the
same loop. A step is one load or store, all processors see stores in one order,
and freed memory is not given out again. Three history variables record who met
whom, and each property says what is kept in which company. The outcome is what
`KernelNat` may take for atomic: a packet's walk may overlap setups, and setups
may overlap each other without damage to memory (though one entry can be lost);
a teardown must overlap neither another callback nor a walk of the same bucket.
Nothing in the code sees to that: the entries are freed without a grace period
and without a lock.

### CallPath

The relay and the table, joined: `Kernel` is an instance of `KernelNat` whose
handlers are the children of user_space, because a netlink callback runs in the
process that sends. It adds the ports a child learns (`learned`, tokens 6 and
9): `Hear` is a media packet at an open port, believed when its address is the
one the request names, `TimeOut` a `poll` that returns nothing. After a time-out
the code looks at a `len` it never assigned, so the zeroed client address may or
may not be used (`Nobody`, port 0 of 0.0.0.0). It is believed when the request
itself names 0.0.0.0, as one does for an end on hold: that end is then given port
0. `LearnedIsTrue` says that no other end is. A packet that finds an entry in the prerouting hook is
forwarded and never reaches a child (`Arrives`), which is how the table acts
back on the relay. `Patient` is the assumption that Kamailio does not send a
teardown while a setup of the same call is under way, nor the reverse. A request
is under way (`UnderWay`) while it is in the socket, or its buffer is with the
parent, in the pipe or with a child (`Pending`).

### RequestFormat

The server splits with `str.split(" ")` after `strip` and one pass of
`replace("  ", " ")`, a child with `strtok`, the kernel module with `strsep`. A
text is a sequence of fields, where `Blank` is the empty field between two
spaces, and the other fields are numbered by the token they hold (`Numbered`, an
assumption on the constant `Text`: the fields that are not blank are the tokens
1, 2, 3 in their order, which is how the model names them). A setup is put
together again by the child, a teardown is passed on as it came, and the two
keys are taken by position. The child's array `childbufarry` has room for 15
tokens, and its loop does not stop there; a setup's tokens up to the tenth are
used without a look at their number. A request outside these limits
(`Readable`) goes to the stage "undefined" and no further.

## What the runs show

Together the runs check the safety properties below on small instances; each of
them that holds is also proved, see the next section. All runs are small enough to be exhaustive. Deadlock is not checked where the
bound on traffic stops the system; the kernel runs check it.

| Run | Bounds | Shows |
|---|---|---|
| `pipeline` | 3 datagrams of 9 kinds, cache on | `Fifo`, `NoStrandedBatch`, `CacheMirrorsForwarding`, `CleanPrefixIsHanded` |
| `pipeline_stall` | 3 datagrams | `AckedIsHanded` fails |
| `deployment` | 2 runs of the server, 3 starts of user_space.o, 1 OSError, 1 request, 4 texts for the port | `ConnectedOnce`, `PathIsFree`, `ConnectionIsDue`, `NoEntryIsLost`, `Reconnects`, `ServesAgain` |
| `deployment_settings` | as `deployment` | `SettingsApplied` fails |
| `relay` | 3 requests, 3 reads, pipe of 2, 2 failing forks, ports held by strangers, a server that ends | `PipeAccounting`, `ExactlyOnce`, `SomeSetupSurvives`, `KeepsContract`, `ParentKeepsReading`, `EveryRequestResolved` |
| `relay_stale` | as small as the counterexample | `SentAsReceived` fails |
| `kernel` | 2 callbacks, 3 sessions of 2 calls, 4 setups, any number of teardowns, callbacks that overlap | `BlocksAccounted`, `OwnBucket`, `RoundTrip`, `TeardownRemovesOlder`, `ImplementsRules` |
| `kernel_hash` | 2 setups | `TeardownIsSpecific` fails |
| `kernel_bucket` | 3 blocks, 2 callbacks, 1 packet at a time | `NoUseAfterFree`, `BucketIntact`, `WalkIsAtomic`, `RemovalEmpties` |
| `call_path` | one call, 3 requests, pipe of 1, the caller behind a NAT, the callee on hold with 0.0.0.0, a third host, `Patient` | `LearnedIsTrue`, `LastRequestDecides`, `MediaReturns`, `EveryRequestTakesEffect` |
| `call_overtaken` | 2 requests, not `Patient` | `TeardownIsFinal` fails |
| `request_format` | 8 to 13, 15 and 16 tokens, up to 4 spaces too many in each of 2 places | `SetupAsMeant`, `TeardownFindsSetup` |

Why the bounds are enough. Three datagrams are one in a batch, one in the queue
behind it and one that kills the thread between them. Two servers and three
starts let the second server meet an orphan of the first, a process fail under
it and be replaced. Three requests are two competing setups and a request that
overtakes them; a pipe of two is full when one fork has failed and one child
waits, and full for good when two have failed. Two callbacks and two calls are what it takes to interleave or collide,
and four setups put up to four entries in a bucket. Three blocks give the list a
head, a middle and an end; two callbacks and a walk are every pair that can meet.
Three requests of one call are a setup, a teardown and a setup again, or two
setups that race; calls on other ports and keys do not touch it. Token 13 is one
more than a request has, 15 is what the child has room for and 16 one too many,
and four spaces leave two after the one pass of
`replace`.

The runs that fail (`expect: violation`) each refute one statement of a comment
or of the repository's README; `PROJECT.json` quotes them under `findings`:

- a session request of exactly 11 tokens ends the consumer thread, yet every
  later request is still answered `OK`;
- a request can reach the kernel with the end of an earlier one attached;
- a teardown removes the entries of other calls in its buckets;
- a teardown overtakes a setup that waits for media, and the call is then
  installed for good;
- a server started again with another `start_port` leaves the kernel module with
  the old one, if a process of the earlier server still holds it.

Plain to see in the models, without a run of their own:

- each failed `fork` leaves a buffer in the pipe, so 64 of them (`PipeCap`)
  block the parent in `write` for good (`ParentKeepsReading` says that nothing
  less does);
- after end of file the parent forwards its last request again and again, until
  it dies of SIGPIPE (`ParentReadsEof`, `ParentEnds`);
- an end of a call that names 0.0.0.0 may be given port 0 (`Nobody`);
- a request of 16 or more tokens is written past the end of an array, and what
  follows is undefined (`Readable`);
- a request handed over while user_space is not connected is dropped (`lost`);
- when starting user_space.o raises OSError, `is_run_unix_o` stays up and no
  process is started any more (`RunnerOsError`);
- another `forward_to` than `/root/sock` is never connected to, as the path is
  compiled into user_space.c;
- overlapping callbacks for one bucket can lose an entry or free one twice
  (`KernelBucket`), or leave one direction of a call behind (`KernelOverlap`); two
  setups of one call that learn different ports may leave
  the older entry of one direction with the newer of the other;
- the source port is not part of the key although a comment says so
  (`lrkproxy_module.c:140`), and the postrouting hook changes the source address
  of UDP packets of no call.

### Fairness

`RequestPipeline!FairSpec`: the UDP thread sends the reply it owes, and each
consumer takes its next step. These are operating system threads that block only
in `get()`. Nothing is asked of Kamailio.
`UserSpaceRelay!FairSpec`: the parent and each child are scheduled, and `poll`
returns within five seconds; fork is not made to fail or to succeed.
`CallPath!FairPathSpec`: the same, and a callback that has begun comes to its
end; no media packet is made to arrive.
`Deployment!FairDeploymentSpec`: the server goes on while it is not stopped, the
module's init and exit end, runner, checker and the start of the process go on;
nothing is made to fail, nor to stay up, and no orphan is made to end. The
server is started again (fairness of `Server`, up to the bound on its runs), as
the administrator would.

## What is proved

Assumptions on the constants are the named `ASSUME`s of the modules, which TLC
evaluates on every run. Further assumptions are in the theorems, each named.

`RequestPipelineProofs`, for every set of datagrams and every bound:

- `TypeCorrect`, `NeverStranded`, `FirstInFirstOut` (`TypeOK`, `NoStrandedBatch`,
  `Fifo`), from the invariant `IInv`. It adds that a consumer past `Get` holds a
  request, that the delete thread has none, and that a reply owed for a session
  request belongs to an accepted one. `Fifo` is kept by each step because moving
  a request from one stage to the next leaves the concatenation of the stages
  as it was; the lemmas `AppendRight` and `MoveHead` say so for sequences.
- `CacheAgrees` (`CacheMirrorsForwarding`). `ListsCall` says that a list holds a
  call's requests by rank: the i-th entry is the i-th position of that call.
  `Forwarded` changes only when `Forward` puts a request at its end
  (`ForwardedStep`), which is when the cache is written, and `ListGrows` says that
  a list then grows in the same way. `Counted`, that every accepted request was
  counted before it was queued, gives the bound by `requests`.

`KernelNatProofs`, for every set of sessions and callbacks:

- `TypeCorrect` and `InOwnBucket` (`OwnBucket`) for every hash function and also
  with overlapping callbacks. The argument is the lemma `OwnKeys`: the second
  key of a message is the first key of the swapped entry.
- `MemoryIsAccounted` (`BlocksAccounted`) for every hash function, callbacks that
  overlap and every pattern of failing allocations. Blocks are counted as two
  finite sets, the positions in the table (`InTable`) and the blocks in the hands
  of callbacks (`InHand`); a step adds, removes or moves members, and the
  invariant `Accounted` adds that both sets are finite, also with infinitely many
  buckets.
- `Implementation` (`ImplementsRules`), assuming that no two keys share a
  bucket (`Injective`), overlapping callbacks included.

`KernelOverlapProofs`, on top of it, and also with overlapping callbacks:

- `TeardownIsComplete` (`TeardownRemovesOlder`), for every hash function. The
  invariant adds `OlderGone`: between its two loops a teardown finds in its first
  bucket at most as many entries as `newer` has counted, and as entries are put
  in front, those are the ones that came since its message.
- `MediaComesBack` (`RoundTrip`), assuming `CallsKeepApart` (a session's two
  buckets differ, and two sessions share both, in their order, or none). The
  invariant `RInv` adds that entries come from sessions, and, for the calls outside
  `clash`, `Pairs`: the oldest entries of a call's two buckets belong to one setup
  (`Paired`), or both buckets are empty, except while a callback is between them
  (`HalfAdded`). A setup puts its entries in front, so it changes the oldest of
  both buckets or of neither; a teardown empties both. `Alone` says that callbacks
  that work on one call are in `clash`, so outside it a callback has its call to
  itself; `WholeCalls`, that `clash` holds both buckets of a call or neither. A
  call leaves `clash` with both buckets empty and nobody at work, where `Pairs`
  holds of it again.

`UserSpaceRelayProofs`, for every set of requests, pipe and number of children:

- `TypeCorrect`, and `NothingLostOrRepeated` (`ExactlyOnce`): the invariant has
  `OnePlace`, that a buffer is in at most one of the places it can be, and
  that every place names a buffer that was read.
- `PipeIsAccountedFor` (`PipeAccounting`), by counting the waiting children.
- `Implementation` (`KeepsContract`): each step is one of the contract's or a
  stutter. A bind fails because of a child that holds the port (`Rival`), or the
  buffer is in `barred`.
- `OneSurvives` (`SomeSetupSurvives`), assuming that setups of different calls
  use different ports (`PortsByCall`). For setups that a stranger barred it
  promises nothing.

`CallPathProofs`, for every set of calls, hash function and number of children,
and whether or not Kamailio is patient:

- `RelayStillKeepsContract`: the composition implements `UserSpaceRelay`, so
  `KeepsContract` and `ExactlyOnce` hold of it too.
- `KernelIsDriven`: it implements `KernelNat`, as what a child sends is always a
  session. So the theorems of `KernelNatProofs` hold of it, through an instance
  of that module: `DrivenInOwnBucket` is one of them.
- `OnlyTruePorts` (`LearnedIsTrue`): the invariant `Truth` follows a port from
  the child that learns it (`Heard`) through its callback (`Callbacks`) to the
  entries. A callback runs in a child that is done with its own work, which is
  why its session no longer changes. No assumption keeps requests from naming
  0.0.0.0: a child that believed the zeroed address was sent for one that does
  (`OnHold`).
- `PathTypeCorrect` (`PathTypeOK`).
- `DrivenAccountsForMemory` and `DrivenImplementsRules` carry two more theorems
  about the kernel module over, in the way of `DrivenInOwnBucket`.

Two theorems of the same module speak of a whole call and need conditions, which
the run `call_path` satisfies. Kamailio is `Patient`; without that the run
`call_overtaken` shows a teardown that fails. `CallsApart`: no two calls share a
bucket; without that the run `kernel_hash` shows a teardown that removes another
call. `EndsApart`: a call's two ends are hashed to different buckets; otherwise
both its entries apply to every packet.

- `LastDecides` (`LastRequestDecides`), if `Patient` and `CallsApart`. `OneKind`
  is what patience gives: the requests of a call that are under way are all
  setups or all teardowns. `NoneOvertaken` follows, that a request under way has
  only its own kind after it, and so do `TornDown` and `SetUp`: after a teardown that
  is done, and with no setup since, the call's buckets are empty; after a setup
  in force that is done, both are filled. `Halfway` covers a callback between its
  two buckets. What a child that has gone left behind is known from `Owners`: its
  buffer was sent or dropped.
- `MediaReturnsAlways` (`MediaReturns`), if also `EndsApart`. `Origins` says that
  each entry is one that a child's callback made from what that child delivered.
  With one setup in force all entries of the call come from one child, so both
  directions carry the ports that it learned.

`KernelBucketProofs`, for every number of blocks, callbacks and packets:

- `BucketTypes` (`TypeOK`), `MemoryIsLive` (`NoUseAfterFree`), `ListStaysIntact`
  (`BucketIntact`), `WalksAreAtomic` (`WalkIsAtomic`) and `TeardownsEmpty`
  (`RemovalEmpties`), all from `BucketInv`. The properties themselves are not
  inductive, because a setup that overtakes another unlinks a block whose links
  are still followed. `Shape` therefore does not speak of the list but of some
  set L of live blocks that no link leaves, of a rank r that falls along each
  link, so that walks end, and of a map e that gives each block the entry at
  which a walk from it ends. Setups add to L, a teardown takes its first block
  out. A packet's walk keeps its end e, which is the entry that was due when it
  began: that is `WalkIsAtomic`. `Calm` says more for as long as callbacks do not
  overlap: the list is every block in use but the one in hand, and each `pprev`
  leads back or is about to be set.
- `Reached`, the blocks in the list, is the smallest set that holds the head and
  is closed under `next`, a definition that can be reasoned about without
  induction.

`RequestFormatProofs`, for every text, with any number of tokens and blanks (a
text that the child has no room for ends at "undefined", and nothing is said of it):

- `SetupsReadAsMeant` (`SetupAsMeant`) and `TeardownsFindSetups`
  (`TeardownFindsSetup`). The number of tokens in a prefix rises by at most one
  per field, so there is a field for each number (`StrtokInOrder`); and where
  field n is token n, no field before it is blank. The invariant `FormatInv`
  says what each stage has made of the original text.

`DeploymentProofs`, for every bound, configuration and number of servers:

- `TypeCorrect`, `PathStaysFree` (`PathIsFree`) and `EntriesAreSafe`
  (`NoEntryIsLost`) from an invariant that ties the runner's place to the process
  and its socket file, and the server's place to the module's.
- `NeverConnectedTwice` (`ConnectedOnce`) and `ConnectionStaysDue`
  (`ConnectionIsDue`), assuming `SlowRestart`.

All invariants and all action properties that hold in the runs, and both
refinements, are stated by these theorems. Only model-checked are the liveness
properties, which are out of the prover's reach: `CleanPrefixIsHanded`,
`Reconnects`, `ServesAgain`, `ParentKeepsReading`, `EveryRequestResolved` and
`EveryRequestTakesEffect`; and the five properties that the code violates, where
TLC's counterexample is the result.

The induction theorems of the library take an operator as a parameter and cannot
be used. Where an argument needs induction it goes by a smallest counterexample,
which the well-foundedness of `<` on the naturals gives (`WFMin`), by ranks
(`KernelBucket`, `ListsCall`) or by a smallest closed set (`Reached`). No module
with a proof declares a recursive operator.

## What is not modelled

- `CallSessionCache`: nobody calls it.
- The alternative session controller: it does not compile.
- Monitoring and logging, which no other part reads; the test program; paths.
- Options other than those with an integer default, of which only `start_port`
  changes what the modelled parts do.
- In user_space: `socket()` failing in `sockbind`, and the result of `sendmsg`,
  which the code ignores; what becomes of a request with more tokens than
  `childbufarry` holds.
- In the kernel module: checksums, the RTCP code under `#if 0`, weak memory
  order, and memory that is given out again after it was freed.
- Counters of the call status cache that nobody updates.
- Datagrams that are not UTF-8.

`PROJECT.json` lists every component with its status, and under `hazards` what
can go wrong where, with the properties that cover it.

## Plan

Done: the modules above, in the order `RequestPipeline`, `KernelNat`,
`UserSpaceRelay`, `UnixSocketClient`, `CallPath`, `KernelBucket`, `RequestFormat`,
`Deployment`, `KernelOverlap`, with their proofs. What is left:

1. An abstract bucket, a sequence that changes at one step of each callback,
   implemented by `KernelBucket` while callbacks do not overlap: it would join
   `KernelBucket` to `KernelNat` by a refinement instead of by their properties.
2. An abstract channel from the UDP socket to `data_handler`, implemented by
   `RequestPipeline`.
3. `NatKey`: the key arithmetic modulo 2^32 and the byte order; which addresses
   and ports collide before hashing.
4. Weak memory order in `KernelBucket`.
