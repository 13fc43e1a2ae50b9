--------------------------- MODULE UnixSocketClient ---------------------------
(***************************************************************************)
(* UnixSocketClientService: three threads around one class-level socket,   *)
(* and the user_space.o process they keep running.                         *)
(*                                                                         *)
(*   run_user_space           (thread "runner")   starts the process and   *)
(*                            waits for it, again when it fails            *)
(*   worker_check_connection  (thread "checker")  connects to it           *)
(*   data_handler             (thread "data")     sends it the requests    *)
(*                                                                         *)
(* The threads share is_run_unix_o, force_connected and sock without a     *)
(* lock; each access that matters is a step.  The process ends only by     *)
(* failing, since its main loop has no exit.  Config.forward_to is the     *)
(* path compiled into user_space.c: with any other the checker never finds *)
(* the socket.                                                             *)
(***************************************************************************)
EXTENDS Integers

CONSTANTS
  SlowRestart,  \* are the runner's sleeps longer than a pass of the checker?
  MaxStarts,    \* bound: times user_space.o is started
  MaxOsErrors,  \* bound: times starting it raises OSError
  MaxRequests   \* bound: requests handed to data_handler

ASSUME ClientAssumption ==
  /\ SlowRestart \in BOOLEAN
  /\ MaxStarts \in Nat /\ MaxOsErrors \in Nat /\ MaxRequests \in Nat

VARIABLES
  is_run_unix_o, force_connected,  \* class attributes of the service
  sock,       \* cls.sock: its state, and the process it is connected to
  built,      \* has gcc made user_space.o?
  runner,     \* where run_user_space is
  checker,    \* where worker_check_connection is
  proc,       \* the user_space.o process
  starts,     \* its number: how often it was started
  file,       \* does /root/sock exist?
  accepted,   \* history: connections made to each process
  os_errors,  \* number of OSErrors so far
  delivered,  \* history: number of requests the process was sent
  lost        \* history: number of requests data_handler gave up

flags == <<is_run_unix_o, force_connected>>
requests == <<delivered, lost>>

vars == <<flags, sock, built, runner, checker, proc, starts, file, accepted,
          os_errors, requests>>

Process == 1 .. MaxStarts

NoSocket == [state |-> "none", peer |-> 0]
NewSocket == [state |-> "new", peer |-> 0]
Closed == [state |-> "closed", peer |-> 0]
ConnectedTo(n) == [state |-> "connected", peer |-> n]

Init ==
  /\ is_run_unix_o = FALSE
  /\ force_connected = TRUE
  /\ sock = NoSocket
  /\ built = FALSE
  /\ runner = "prepare"
  /\ checker = "check"
  /\ proc = "none"
  /\ starts = 0
  /\ file \in BOOLEAN
  /\ accepted = [n \in Process |-> 0]
  /\ os_errors = 0
  /\ delivered = 0
  /\ lost = 0

(* os.remove(Config.forward_to), if it exists.                             *)
RemoveFile == file' = FALSE

-----------------------------------------------------------------------------
(* The runner.                                                             *)

create_unix_file ==
  /\ runner = "prepare"
  /\ RemoveFile
  /\ built' \in BOOLEAN
  /\ runner' = "loop"
  /\ UNCHANGED <<flags, sock, checker, proc, starts, accepted, os_errors,
                 requests>>

(* Mutant: a restart does not ask for a new connection.                    *)
RaiseFlagsOnce ==
  /\ is_run_unix_o' = TRUE
  /\ UNCHANGED force_connected

RaiseFlags == is_run_unix_o' = TRUE /\ force_connected' = TRUE

(* The test of is_run_unix_o and the two assignments after it.             *)
RunnerLoops ==
  /\ runner = "loop"
  /\ built
  /\ ~is_run_unix_o
  /\ starts < MaxStarts
  /\ RaiseFlags
  /\ runner' = "start"
  /\ UNCHANGED <<built, sock, checker, proc, starts, file, accepted,
                 os_errors, requests>>

RunnerStarts ==
  /\ runner = "start"
  /\ proc' = "started"
  /\ starts' = starts + 1
  /\ runner' = "wait"
  /\ UNCHANGED <<built, flags, sock, checker, file, accepted, os_errors,
                 requests>>

(* subprocess.run raises OSError: is_run_unix_o stays up, so the loop does *)
(* nothing from now on; and when there is no socket yet, cls.sock.close()  *)
(* raises in the handler and ends the thread.                              *)
RunnerOsError ==
  /\ runner = "start"
  /\ os_errors < MaxOsErrors
  /\ os_errors' = os_errors + 1
  /\ \/ sock = NoSocket /\ runner' = "dead" /\ UNCHANGED sock
     \/ sock # NoSocket /\ runner' = "loop" /\ sock' = Closed
  /\ UNCHANGED <<built, flags, checker, proc, starts, file, accepted,
                 requests>>

(* Mutant: the process is still taken to run.                              *)
MarkNothing == UNCHANGED is_run_unix_o

MarkStopped == is_run_unix_o' = FALSE

(* subprocess.run raises CalledProcessError.                               *)
RunnerSeesFailure ==
  /\ runner = "wait"
  /\ proc = "none"
  /\ MarkStopped
  /\ runner' = "clean"
  /\ UNCHANGED <<built, force_connected, sock, checker, proc, starts, file,
                 accepted, os_errors, requests>>

(* Mutant: the socket file of the failed process is left.                  *)
KeepFile == UNCHANGED file

CleanUp == RemoveFile

RunnerCleans ==
  /\ runner = "clean"
  /\ CleanUp
  /\ runner' = "sleep"
  /\ UNCHANGED <<built, flags, sock, checker, proc, starts, accepted,
                 os_errors, requests>>

(* One second, and five more.                                              *)
RunnerWakes ==
  /\ runner = "sleep"
  /\ SlowRestart => checker = "check"
  /\ runner' = "loop"
  /\ UNCHANGED <<built, flags, sock, checker, proc, starts, file, accepted,
                 os_errors, requests>>

-----------------------------------------------------------------------------
(* The process, as far as the socket goes.                                 *)

ProcessBinds ==
  /\ proc = "started"
  /\ IF file THEN proc' = "none" /\ UNCHANGED file   \* exit(1)
             ELSE proc' = "bound" /\ file' = TRUE
  /\ UNCHANGED <<built, flags, sock, runner, checker, starts, accepted,
                 os_errors, requests>>

(* listen(), and a single accept().                                        *)
ProcessListens ==
  /\ proc = "bound"
  /\ proc' = "up"
  /\ UNCHANGED <<built, flags, sock, runner, checker, starts, file, accepted,
                 os_errors, requests>>

(* It is killed, or stops in error(); the socket file stays.               *)
ProcessFails ==
  /\ proc # "none"
  /\ proc' = "none"
  /\ UNCHANGED <<built, flags, sock, runner, checker, starts, file, accepted,
                 os_errors, requests>>

-----------------------------------------------------------------------------
(* The checker.  It is started when the runner has been.                   *)

elsewhere == <<built, runner, proc, starts, file, os_errors, requests>>

CheckerTests ==
  /\ checker = "check"
  /\ runner # "prepare"
  /\ is_run_unix_o /\ force_connected
  /\ file                         \* os.path.exists(Config.forward_to)
  /\ checker' = "socket"
  /\ UNCHANGED <<flags, sock, accepted, elsewhere>>

CheckerMakesSocket ==
  /\ checker = "socket"
  /\ sock' = NewSocket
  /\ checker' = "connect"
  /\ UNCHANGED <<flags, accepted, elsewhere>>

CheckerConnects ==
  /\ checker = "connect"
  /\ proc = "up" /\ file
  /\ sock' = ConnectedTo(starts)
  /\ accepted' = [accepted EXCEPT ![starts] = @ + 1]
  /\ checker' = "clear"
  /\ UNCHANGED <<flags, elsewhere>>

(* Nobody listens: the socket is closed, and the next pass tries again.    *)
CheckerRefused ==
  /\ checker = "connect"
  /\ ~(proc = "up" /\ file)
  /\ sock' = Closed
  /\ checker' = "check"
  /\ UNCHANGED <<flags, accepted, elsewhere>>

(* Mutant: the checker goes on connecting.                                 *)
LeaveFlag == UNCHANGED force_connected

ClearFlag == force_connected' = FALSE

CheckerClears ==
  /\ checker = "clear"
  /\ ClearFlag
  /\ checker' = "check"
  /\ UNCHANGED <<is_run_unix_o, sock, accepted, elsewhere>>

-----------------------------------------------------------------------------
(* data_handler, called by consumer_data_request.                          *)

(* The socket is the connection to the process that runs.  A send on it    *)
(* can also succeed when the process is gone but a child it forked is not; *)
(* nobody reads what is sent then.                                         *)
Usable == sock.state = "connected" /\ proc = "up" /\ sock.peer = starts

(* An exception of sock.send is logged and the request forgotten.          *)
data_handler ==
  /\ runner # "prepare"
  /\ delivered + lost < MaxRequests
  /\ IF Usable THEN delivered' = delivered + 1 /\ UNCHANGED lost
               ELSE lost' = lost + 1 /\ UNCHANGED delivered
  /\ UNCHANGED <<built, flags, sock, runner, checker, proc, starts, file,
                 accepted, os_errors>>

-----------------------------------------------------------------------------
Runner ==
  \/ create_unix_file \/ RunnerLoops \/ RunnerStarts \/ RunnerOsError
  \/ RunnerSeesFailure \/ RunnerCleans \/ RunnerWakes

Checker ==
  \/ CheckerTests \/ CheckerMakesSocket \/ CheckerConnects \/ CheckerRefused
  \/ CheckerClears

Startup == ProcessBinds \/ ProcessListens

Next == Runner \/ Checker \/ Startup \/ ProcessFails \/ data_handler

Spec == Init /\ [][Next]_vars
-----------------------------------------------------------------------------
(* Properties.                                                             *)

(* Every variable holds a value of its kind, and the socket's peer is a    *)
(* process that was started.                                               *)
TypeOK ==
  /\ is_run_unix_o \in BOOLEAN /\ force_connected \in BOOLEAN
  /\ sock \in {NoSocket, NewSocket, Closed}
                \union {ConnectedTo(n) : n \in 1 .. starts}
  /\ built \in BOOLEAN
  /\ runner \in {"prepare", "loop", "start", "wait", "clean", "sleep", "dead"}
  /\ checker \in {"check", "socket", "connect", "clear"}
  /\ proc \in {"none", "started", "bound", "up"}
  /\ starts \in 0 .. MaxStarts
  /\ file \in BOOLEAN
  /\ accepted \in [Process -> Nat]
  /\ os_errors \in 0 .. MaxOsErrors
  /\ delivered \in Nat /\ lost \in Nat
  /\ delivered + lost <= MaxRequests

(* user_space.o accepts one connection and never looks at a second one.    *)
(* However the process fails, the runner restarts it and the checker runs  *)
(* between them, no process is connected to twice: a second connection     *)
(* would swallow every request that follows.                               *)
ConnectedOnce == \A n \in Process : accepted[n] <= 1

(* A process that starts finds no socket file in its way, wherever the one *)
(* before it failed; so bind() does not make it exit in a loop.            *)
PathIsFree == proc = "started" => ~file

(* The flag that asks for a connection is not lost: while a process is up  *)
(* and not connected to, the checker still has its connection to make.     *)
ConnectionIsDue ==
  proc = "up" /\ accepted[starts] = 0 => is_run_unix_o /\ force_connected

(* A process that stays up is connected to, and the socket the requests    *)
(* are sent on is that connection.                                         *)
Reconnects ==
  \A n \in Process :
    proc = "up" /\ starts = n ~> Usable \/ proc # "up" \/ starts # n
=============================================================================
