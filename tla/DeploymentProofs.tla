--------------------------- MODULE DeploymentProofs ---------------------------
(***************************************************************************)
(* What is proved of servers, processes and the kernel module that outlive *)
(* each other: for every number of starts, failures and requests, every    *)
(* setting, and whatever is left behind by earlier servers.                *)
(***************************************************************************)
EXTENDS Deployment, TLAPS

(* The inductive invariant, its part about the services and the process.   *)

(* A process that runs was started, and its runner waits for it.           *)
Processes ==
  /\ proc # "none" => starts >= 1 /\ runner = "wait" /\ is_run_unix_o
  /\ runner = "start" => starts < MaxStarts /\ is_run_unix_o

(* The path is free from when the runner has removed the file until the    *)
(* next process binds it.                                                  *)
Files ==
  /\ runner \in {"loop", "start", "sleep"} => ~file
  /\ proc = "started" => ~file

(* A process that nobody has connected to yet is asked for by the flag,    *)
(* and one that has been connected to is not.  Only because the runner     *)
(* sleeps for longer than a pass of the checker can the flag it raises not *)
(* be cleared for the process before.                                      *)
Connecting ==
  SlowRestart =>
    /\ runner \in {"prepare", "loop", "start"} => checker = "check"
    /\ runner = "start" => force_connected
    /\ \A n \in Process : accepted[n] <= 1 /\ (n > starts => accepted[n] = 0)
    /\ proc # "none" =>
         \/ accepted[starts] = 0 /\ force_connected /\ checker # "clear"
         \/ accepted[starts] = 1 /\ checker = "clear"
         \/ accepted[starts] = 1 /\ checker = "check" /\ ~force_connected

ClientInv == TypeOK /\ Processes /\ Files /\ Connecting

(* Its part about the server and the kernel module: a module that is not   *)
(* in full service has neither users nor entries, and is being inserted or *)
(* removed by a server that runs no services.                              *)
Loading ==
  /\ server # "services" => runner = "prepare" /\ proc = "none"
  /\ module # "live" => ~table /\ orphans = {} /\ proc \notin {"bound", "up"}
  /\ module = "exiting" => server \in {"insmod", "down"}
  /\ module = "initialising" => server \in {"loading", "down"}

IInv == ClientInv /\ DeploymentTypeOK /\ Loading

-----------------------------------------------------------------------------
(* The states a socket may be in.                                          *)
Socket(n) ==
  {NoSocket, NewSocket, Closed} \union {ConnectedTo(m) : m \in 1 .. n}

LEMMA SocketGrows ==
  ASSUME NEW n \in Nat, NEW s \in Socket(n)
  PROVE  s \in Socket(n + 1)
  BY DEF Socket

LEMMA SocketConnected ==
  ASSUME NEW n \in Nat \ {0}
  PROVE  ConnectedTo(n) \in Socket(n)
  BY DEF Socket

LEMMA ClientInitially == Init => ClientInv
  <1> SUFFICES ASSUME Init PROVE ClientInv
    OBVIOUS
  <1>1. TypeOK
    <2>1. sock \in Socket(starts)
      BY DEF Init, Socket
    <2>2. /\ starts \in 0 .. MaxStarts /\ os_errors \in 0 .. MaxOsErrors
          /\ delivered \in Nat /\ lost \in Nat
          /\ delivered + lost <= MaxRequests
      BY ClientAssumption DEF Init
    <2>3. accepted \in [Process -> Nat]
      BY DEF Init
    <2> QED
      BY <2>1, <2>2, <2>3 DEF Init, TypeOK, Socket
  <1>2. Processes /\ Files /\ Connecting
    BY ClientAssumption DEF Init, Processes, Files, Connecting, Process
  <1> QED
    BY <1>1, <1>2 DEF ClientInv

(* The steps of the runner.                                                *)
LEMMA RunnerKeeps == ClientInv /\ Runner => ClientInv'
  <1> SUFFICES ASSUME ClientInv, Runner PROVE ClientInv'
    OBVIOUS
  <1> USE ClientAssumption DEF ClientInv, flags, requests
  <1>1. CASE create_unix_file
    <2>1. TypeOK'
      BY <1>1 DEF create_unix_file, RemoveFile, TypeOK
    <2>2. Processes' /\ Files' /\ Connecting'
      BY <1>1 DEF create_unix_file, RemoveFile, TypeOK, Processes, Files,
        Connecting
    <2> QED
      BY <2>1, <2>2
  <1>2. CASE RunnerLoops
    <2>1. TypeOK'
      BY <1>2 DEF RunnerLoops, RaiseFlags, TypeOK
    <2>2. Processes' /\ Files' /\ Connecting'
      BY <1>2 DEF RunnerLoops, RaiseFlags, TypeOK, Processes, Files,
        Connecting
    <2> QED
      BY <2>1, <2>2
  <1>3. CASE RunnerStarts
    <2>1. starts' = starts + 1 /\ starts' \in 1 .. MaxStarts
      BY <1>3 DEF RunnerStarts, TypeOK, Processes
    <2>2. sock' \in Socket(starts')
      BY <1>3, <2>1, SocketGrows DEF RunnerStarts, TypeOK, Socket
    <2>3. TypeOK'
      BY <1>3, <2>1, <2>2 DEF RunnerStarts, TypeOK, Socket
    <2>4. Processes' /\ Files'
      BY <1>3, <2>1 DEF RunnerStarts, TypeOK, Processes, Files
    <2>5. Connecting'
      BY <1>3, <2>1 DEF RunnerStarts, TypeOK, Connecting, Processes, Process
    <2> QED
      BY <2>3, <2>4, <2>5
  <1>4. CASE RunnerOsError
    <2>1. TypeOK'
      BY <1>4 DEF RunnerOsError, TypeOK
    <2>2. Processes' /\ Files' /\ Connecting'
      BY <1>4 DEF RunnerOsError, TypeOK, Processes, Files, Connecting
    <2> QED
      BY <2>1, <2>2
  <1>5. CASE RunnerSeesFailure
    <2>1. TypeOK'
      BY <1>5 DEF RunnerSeesFailure, MarkStopped, TypeOK
    <2>2. Processes' /\ Files' /\ Connecting'
      BY <1>5 DEF RunnerSeesFailure, MarkStopped, TypeOK, Processes, Files,
        Connecting
    <2> QED
      BY <2>1, <2>2
  <1>6. CASE RunnerCleans
    <2>1. TypeOK'
      BY <1>6 DEF RunnerCleans, CleanUp, RemoveFile, TypeOK
    <2>2. Processes' /\ Files' /\ Connecting'
      BY <1>6 DEF RunnerCleans, CleanUp, RemoveFile, TypeOK, Processes,
        Files, Connecting
    <2> QED
      BY <2>1, <2>2
  <1>7. CASE RunnerWakes
    <2>1. TypeOK'
      BY <1>7 DEF RunnerWakes, TypeOK
    <2>2. Processes' /\ Files' /\ Connecting'
      BY <1>7 DEF RunnerWakes, TypeOK, Processes, Files, Connecting
    <2> QED
      BY <2>1, <2>2
  <1> QED
    BY <1>1, <1>2, <1>3, <1>4, <1>5, <1>6, <1>7 DEF Runner

(* The steps of the checker.                                               *)
LEMMA CheckerKeeps == ClientInv /\ Checker => ClientInv'
  <1> SUFFICES ASSUME ClientInv, Checker PROVE ClientInv'
    OBVIOUS
  <1> USE ClientAssumption DEF ClientInv, flags, requests, elsewhere
  <1>1. CASE CheckerTests
    <2>1. TypeOK'
      BY <1>1 DEF CheckerTests, TypeOK
    <2>2. Processes' /\ Files' /\ Connecting'
      BY <1>1 DEF CheckerTests, TypeOK, Processes, Files, Connecting
    <2> QED
      BY <2>1, <2>2
  <1>2. CASE CheckerMakesSocket
    <2>1. TypeOK'
      BY <1>2 DEF CheckerMakesSocket, TypeOK
    <2>2. Processes' /\ Files' /\ Connecting'
      BY <1>2 DEF CheckerMakesSocket, TypeOK, Processes, Files, Connecting
    <2> QED
      BY <2>1, <2>2
  <1>3. CASE CheckerConnects
    <2>1. starts \in Process /\ starts \in Nat \ {0}
      BY <1>3 DEF CheckerConnects, Processes, TypeOK, Process
    <2>2. /\ accepted' = [accepted EXCEPT ![starts] = accepted[starts] + 1]
          /\ accepted[starts] \in Nat
      BY <1>3, <2>1 DEF CheckerConnects, TypeOK
    <2>3. accepted' \in [Process -> Nat]
      BY <2>1, <2>2 DEF TypeOK
    <2>4. sock' \in Socket(starts)
      BY <1>3, <2>1, SocketConnected DEF CheckerConnects
    <2>5. TypeOK'
      BY <1>3, <2>3, <2>4 DEF CheckerConnects, TypeOK, Socket
    <2>6. Processes' /\ Files'
      BY <1>3 DEF CheckerConnects, Processes, Files
    <2>7. ASSUME SlowRestart
          PROVE  /\ accepted'[starts] = 1
                 /\ \A n \in Process : n # starts => accepted'[n] = accepted[n]
      BY <1>3, <2>1, <2>2, <2>7 DEF CheckerConnects, Connecting, TypeOK
    <2>8. Connecting'
      BY <1>3, <2>1, <2>7 DEF CheckerConnects, Connecting, Processes
    <2> QED
      BY <2>5, <2>6, <2>8
  <1>4. CASE CheckerRefused
    <2>1. TypeOK'
      BY <1>4 DEF CheckerRefused, TypeOK
    <2>2. Processes' /\ Files' /\ Connecting'
      BY <1>4 DEF CheckerRefused, TypeOK, Processes, Files, Connecting
    <2> QED
      BY <2>1, <2>2
  <1>5. CASE CheckerClears
    <2>1. TypeOK'
      BY <1>5 DEF CheckerClears, ClearFlag, TypeOK
    <2>2. Processes' /\ Files' /\ Connecting'
      BY <1>5 DEF CheckerClears, ClearFlag, TypeOK, Processes, Files,
        Connecting
    <2> QED
      BY <2>1, <2>2
  <1> QED
    BY <1>1, <1>2, <1>3, <1>4, <1>5 DEF Checker

(* The steps of the process.                                               *)
LEMMA ProcessKeeps == ClientInv /\ (Startup \/ ProcessFails) => ClientInv'
  <1> SUFFICES ASSUME ClientInv, Startup \/ ProcessFails PROVE ClientInv'
    OBVIOUS
  <1> USE ClientAssumption DEF ClientInv, flags, requests
  <1>1. CASE ProcessBinds
    <2>1. TypeOK'
      BY <1>1 DEF ProcessBinds, TypeOK
    <2>2. Processes' /\ Files' /\ Connecting'
      BY <1>1 DEF ProcessBinds, TypeOK, Processes, Files, Connecting
    <2> QED
      BY <2>1, <2>2
  <1>2. CASE ProcessListens
    <2>1. TypeOK'
      BY <1>2 DEF ProcessListens, TypeOK
    <2>2. Processes' /\ Files' /\ Connecting'
      BY <1>2 DEF ProcessListens, TypeOK, Processes, Files, Connecting
    <2> QED
      BY <2>1, <2>2
  <1>3. CASE ProcessFails
    <2>1. TypeOK'
      BY <1>3 DEF ProcessFails, TypeOK
    <2>2. Processes' /\ Files' /\ Connecting'
      BY <1>3 DEF ProcessFails, TypeOK, Processes, Files, Connecting
    <2> QED
      BY <2>1, <2>2
  <1> QED
    BY <1>1, <1>2, <1>3 DEF Startup

(* A request is sent or given up; nothing else changes.                    *)
LEMMA DataKeeps == ClientInv /\ data_handler => ClientInv'
  <1> SUFFICES ASSUME ClientInv, data_handler PROVE ClientInv'
    OBVIOUS
  <1> USE ClientAssumption DEF ClientInv, flags
  <1>1. TypeOK'
    BY DEF data_handler, TypeOK
  <1>2. Processes' /\ Files' /\ Connecting'
    BY DEF data_handler, TypeOK, Processes, Files, Connecting
  <1> QED
    BY <1>1, <1>2

LEMMA ClientUnchanged == ClientInv /\ UNCHANGED vars => ClientInv'
  BY DEF ClientInv, vars, flags, requests, TypeOK, Processes, Files,
    Connecting

(* When the server stops, its threads' state is what Init says it is.      *)
LEMMA StopKeeps == ClientInv /\ ServerStops => ClientInv'
  <1> SUFFICES ASSUME ClientInv, ServerStops PROVE ClientInv'
    OBVIOUS
  <1>1. file' \in BOOLEAN
    BY DEF ClientInv, ServerStops, TypeOK
  <1>2. TypeOK'
    BY <1>1 DEF ClientInv, ServerStops, requests, TypeOK
  <1>3. Processes' /\ Files'
    BY DEF ServerStops, Processes, Files
  <1>4. Connecting'
    BY DEF ClientInv, ServerStops, Connecting
  <1> QED
    BY <1>2, <1>3, <1>4 DEF ClientInv

-----------------------------------------------------------------------------
(* The whole deployment.                                                   *)

LEMMA Initially == DeploymentInit => IInv
  <1> SUFFICES ASSUME DeploymentInit PROVE IInv
    OBVIOUS
  <1>1. ClientInv
    BY ClientInitially DEF DeploymentInit
  <1>2. DeploymentTypeOK
    <2>1. runs \in 0 .. MaxRuns /\ min_port \in Nat \ {0} /\ start_port \in Nat
      BY DeploymentAssumption DEF DeploymentInit
    <2> QED
      BY <1>1, <2>1 DEF ClientInv, DeploymentInit, DeploymentTypeOK
  <1>3. Loading
    BY DEF DeploymentInit, Init, Loading
  <1> QED
    BY <1>1, <1>2, <1>3 DEF IInv

(* What load_ini makes of start_port is a number or None, and what insmod  *)
(* is given is a number.                                                   *)
LEMMA PortTypes ==
  /\ \A text \in PortText : LoadedInt(DefaultPort, text) \in Nat \union {None}
  /\ \A port \in Nat \union {None} : InsmodPort(port) \in Nat \ {0}
  BY DeploymentAssumption DEF LoadedInt, InsmodPort

(* The steps that change the client's variables keep its invariant, and    *)
(* the others leave them alone.                                            *)
LEMMA ClientKeeps == IInv /\ DeploymentNext => ClientInv'
  <1> SUFFICES ASSUME IInv, DeploymentNext PROVE ClientInv'
    OBVIOUS
  <1>1. ClientInv
    BY DEF IInv
  <1>2. CASE UNCHANGED vars
    BY <1>1, <1>2, ClientUnchanged
  <1>3. CASE ServerStops
    BY <1>1, <1>3, StopKeeps
  <1>4. CASE ServiceThread
    BY <1>1, <1>4, RunnerKeeps, CheckerKeeps, DataKeeps DEF ServiceThread
  <1>5. CASE ProcessStarts
    <2>1. CASE Startup
      BY <1>1, <2>1, ProcessKeeps
    <2>2. CASE ~Startup
      BY <1>1, <1>5, <2>2, ProcessKeeps DEF ProcessStarts, ProcessFails
    <2> QED
      BY <2>1, <2>2
  <1>6. CASE ProcessEnds
    BY <1>1, <1>6, ProcessKeeps DEF ProcessEnds
  <1>7. CASE Server \/ Module \/ Callback \/ OrphanEnds
    BY <1>2, <1>7 DEF Server, ServerStarts, NoModuleFile, Rmmod, Insmod,
      RunServices, Module, InitEnds, InitFails, ExitEnds, Callback, OrphanEnds
  <1> QED
    BY <1>3, <1>4, <1>5, <1>6, <1>7 DEF DeploymentNext

(* A service's thread and the process leave the server and the module      *)
(* alone; the process gets a socket only while the module is live.         *)
LEMMA ServicesKeep ==
  IInv /\ (ServiceThread \/ ProcessStarts \/ ProcessEnds) =>
    IInv'
  <1> SUFFICES ASSUME IInv, ServiceThread \/ ProcessStarts \/ ProcessEnds
               PROVE  IInv'
    OBVIOUS
  <1>1. ClientInv'
    BY ClientKeeps DEF DeploymentNext
  <1> USE DEF ours, kernel
  <1>2. CASE ServiceThread
    <2>1. /\ server = "services"
          /\ proc' \in {proc, "started"}
          /\ starts' \in {starts, starts + 1}
      BY <1>2 DEF ServiceThread, ServicesRun, Runner, Checker, data_handler,
        create_unix_file, RunnerLoops, RunnerStarts, RunnerOsError,
        RunnerSeesFailure, RunnerCleans, RunnerWakes, CheckerTests,
        CheckerMakesSocket, CheckerConnects, CheckerRefused, CheckerClears,
        elsewhere
    <2>2. DeploymentTypeOK'
      BY <1>1, <1>2, <2>1
      DEF IInv, ClientInv, TypeOK, ServiceThread, DeploymentTypeOK
    <2>3. Loading'
      BY <1>2, <2>1 DEF IInv, ServiceThread, Loading
    <2> QED
      BY <1>1, <2>2, <2>3 DEF IInv
  <1>3. CASE ProcessStarts
    <2>1. /\ starts' = starts /\ runner' = runner
          /\ proc # "none"
          /\ proc' \in {"bound", "up"} => Registered \/ proc = "bound"
      BY <1>3 DEF ProcessStarts, Startup, ProcessBinds, ProcessListens
    <2>2. server = "services" /\ (proc' \in {"bound", "up"} => module = "live")
      BY <2>1 DEF IInv, Loading, DeploymentTypeOK, Registered
    <2>3. DeploymentTypeOK'
      BY <1>1, <1>3, <2>1
      DEF IInv, ClientInv, TypeOK, ProcessStarts, DeploymentTypeOK
    <2>4. Loading'
      BY <1>3, <2>2 DEF IInv, ProcessStarts, Loading
    <2> QED
      BY <1>1, <2>3, <2>4 DEF IInv
  <1>4. CASE ProcessEnds
    <2>1. /\ starts' = starts /\ proc # "none" /\ proc' = "none"
          /\ orphans' # orphans =>
               proc = "up" /\ orphans' = orphans \union {starts}
          /\ UNCHANGED <<server, runs, start_port, module, min_port, table>>
      BY <1>4 DEF ProcessEnds, ProcessFails
    <2>2. server = "services" /\ (proc = "up" => module = "live")
      BY <2>1 DEF IInv, Loading
    <2>3. orphans' \subseteq 1 .. starts
      <3>1. orphans \subseteq 1 .. starts /\ starts \in 1 .. starts
        BY <2>1 DEF IInv, ClientInv, Processes, TypeOK, DeploymentTypeOK
      <3> QED
        BY <2>1, <3>1
    <2>4. DeploymentTypeOK'
      BY <1>1, <2>1, <2>3 DEF IInv, ClientInv, DeploymentTypeOK
    <2>5. Loading'
      BY <2>1, <2>2 DEF IInv, Loading
    <2> QED
      BY <1>1, <2>4, <2>5 DEF IInv
  <1> QED
    BY <1>2, <1>3, <1>4

(* The server loads the module, each command when the last has ended.      *)
LEMMA ServerKeeps == IInv /\ Server => IInv'
  <1> SUFFICES ASSUME IInv, Server PROVE IInv'
    OBVIOUS
  <1>1. ClientInv'
    BY ClientKeeps DEF DeploymentNext
  <1> USE DEF IInv, kernel
  <1>2. UNCHANGED vars
    BY DEF Server, ServerStarts, NoModuleFile, Rmmod, Insmod, RunServices
  <1>3. UNCHANGED <<runner, proc, starts>>
    BY <1>2 DEF vars
  <1>4. DeploymentTypeOK'
    <2>1. CASE ServerStarts
      <3>1. runs' \in 0 .. MaxRuns
        BY <2>1, DeploymentAssumption DEF ServerStarts, DeploymentTypeOK
      <3>2. start_port' \in Nat \union {None}
        BY <2>1, PortTypes DEF ServerStarts
      <3> QED
        BY <1>1, <1>3, <2>1, <3>1, <3>2
        DEF ClientInv, ServerStarts, DeploymentTypeOK
    <2>2. CASE NoModuleFile
      BY <1>1, <1>3, <2>2 DEF ClientInv, NoModuleFile, DeploymentTypeOK
    <2>3. CASE Rmmod
      BY <1>1, <1>3, <2>3 DEF ClientInv, Rmmod, DeploymentTypeOK
    <2>4. CASE Insmod
      <3>1. min_port' \in Nat \ {0}
        BY <2>4, PortTypes DEF Insmod, DeploymentTypeOK
      <3> QED
        BY <1>1, <1>3, <2>4, <3>1 DEF ClientInv, Insmod, DeploymentTypeOK
    <2>5. CASE RunServices
      BY <1>1, <1>3, <2>5 DEF ClientInv, RunServices, DeploymentTypeOK
    <2> QED
      BY <2>1, <2>2, <2>3, <2>4, <2>5 DEF Server
  <1>5. Loading'
    <2>1. CASE ServerStarts
      BY <1>3, <2>1 DEF ServerStarts, Loading
    <2>2. CASE NoModuleFile
      BY <1>3, <2>2 DEF NoModuleFile, Loading
    <2>3. CASE Rmmod
      BY <1>3, <2>3 DEF Rmmod, Loading, Holders
    <2>4. CASE Insmod
      BY <1>3, <2>4 DEF Insmod, Loading
    <2>5. CASE RunServices
      BY <1>3, <2>5 DEF RunServices, Loading
    <2> QED
      BY <2>1, <2>2, <2>3, <2>4, <2>5 DEF Server
  <1> QED
    BY <1>1, <1>4, <1>5

(* A server that stops may leave its process as an orphan, but only with   *)
(* the module live.                                                        *)
LEMMA StopLeaves == IInv /\ ServerStops => IInv'
  <1> SUFFICES ASSUME IInv, ServerStops PROVE IInv'
    OBVIOUS
  <1>1. ClientInv'
    BY ClientKeeps DEF DeploymentNext
  <1> USE DEF IInv, kernel
  <1>2. orphans' # orphans =>
          proc # "none" /\ orphans' = orphans \union {starts}
    BY DEF ServerStops, MayBind
  <1>3. orphans' # orphans => module = "live"
    <2>1. ASSUME orphans' # orphans
          PROVE  server = "services" /\ (proc = "started" => Registered)
      BY <2>1, <1>2 DEF ServerStops, MayBind, Loading
    <2> QED
      BY <2>1, <1>2 DEF Loading, Registered, DeploymentTypeOK, TypeOK
  <1>4. orphans' \subseteq 1 .. starts
    <2>1. CASE orphans' = orphans
      BY <2>1 DEF DeploymentTypeOK
    <2>2. CASE orphans' # orphans
      <3>1. orphans \subseteq 1 .. starts /\ starts \in 1 .. starts
        BY <1>2, <2>2 DEF ClientInv, Processes, TypeOK, DeploymentTypeOK
      <3> QED
        BY <1>2, <2>2, <3>1
    <2> QED
      BY <2>1, <2>2
  <1>5. DeploymentTypeOK'
    BY <1>1, <1>4 DEF ClientInv, ServerStops, DeploymentTypeOK
  <1>6. Loading'
    BY <1>3 DEF ServerStops, Loading
  <1> QED
    BY <1>1, <1>5, <1>6

(* The module's own steps, callbacks, and the end of an orphan.            *)
LEMMA KernelKeeps == IInv /\ (Module \/ Callback \/ OrphanEnds) => IInv'
  <1> SUFFICES ASSUME IInv, Module \/ Callback \/ OrphanEnds PROVE IInv'
    OBVIOUS
  <1>1. ClientInv'
    BY ClientKeeps DEF DeploymentNext
  <1> USE DEF IInv
  <1>2. UNCHANGED <<runner, proc, starts>>
    BY DEF Module, InitEnds, InitFails, ExitEnds, Callback, OrphanEnds, vars
  <1>3. CASE Module
    <2>1. /\ module \in {"initialising", "exiting"}
          /\ module' \in {"live", "absent"}
          /\ module' = "live" => module = "initialising"
          /\ UNCHANGED <<server, runs, start_port, min_port, table, orphans>>
      BY <1>3 DEF Module, InitEnds, InitFails, ExitEnds
    <2>2. DeploymentTypeOK'
      BY <1>1, <1>2, <2>1 DEF ClientInv, DeploymentTypeOK
    <2>3. Loading'
      BY <1>2, <2>1 DEF Loading
    <2> QED
      BY <1>1, <2>2, <2>3
  <1>4. CASE Callback
    BY <1>1, <1>2, <1>4 DEF Callback, Registered, Holders, ClientInv,
      DeploymentTypeOK, Loading
  <1>5. CASE OrphanEnds
    <2>1. /\ orphans' \subseteq orphans
          /\ UNCHANGED <<server, runs, start_port, module, min_port, table>>
      BY <1>5 DEF OrphanEnds, kernel
    <2>2. DeploymentTypeOK'
      BY <1>1, <1>2, <2>1 DEF ClientInv, DeploymentTypeOK
    <2>3. Loading'
      BY <1>2, <2>1 DEF Loading
    <2> QED
      BY <1>1, <2>2, <2>3
  <1> QED
    BY <1>3, <1>4, <1>5

LEMMA Stutters == IInv /\ UNCHANGED deployment => IInv'
  BY ClientUnchanged DEF IInv, deployment, ours, kernel, DeploymentTypeOK,
    Loading, vars, ClientInv

LEMMA Invariant == DeploymentSpec => []IInv
  <1>1. IInv /\ [DeploymentNext]_deployment => IInv'
    BY ServicesKeep, ServerKeeps, StopLeaves, KernelKeeps, Stutters
    DEF DeploymentNext
  <1> QED
    BY Initially, <1>1, PTL DEF DeploymentSpec

-----------------------------------------------------------------------------
(* Every variable holds a value of its kind, whatever fails when, for      *)
(* every number of servers and processes.                                  *)
THEOREM TypeCorrect == DeploymentSpec => []DeploymentTypeOK
  BY Invariant, PTL DEF IInv

(* No process finds the socket file of an earlier one in its way.          *)
THEOREM PathStaysFree == DeploymentSpec => []PathIsFree
  <1>1. IInv => PathIsFree
    BY DEF IInv, ClientInv, Files, PathIsFree
  <1> QED
    BY <1>1, Invariant, PTL

(* If the runner sleeps for longer than a pass of the checker, no process  *)
(* is connected to twice.                                                  *)
THEOREM NeverConnectedTwice ==
  ASSUME SlowRestart
  PROVE  DeploymentSpec => []ConnectedOnce
  <1>1. IInv => ConnectedOnce
    BY DEF IInv, ClientInv, Connecting, ConnectedOnce
  <1> QED
    BY <1>1, Invariant, PTL

(* On the same condition, the wish to connect to a process is not lost     *)
(* before the connection is made.                                          *)
THEOREM ConnectionStaysDue ==
  ASSUME SlowRestart
  PROVE  DeploymentSpec => []ConnectionIsDue
  <1>1. IInv => ConnectionIsDue
    BY DEF IInv, ClientInv, Processes, Connecting, ConnectionIsDue
  <1> QED
    BY <1>1, Invariant, PTL

(* No setup reaches a kernel module that is being inserted or removed, and *)
(* no entry outlives one, although lrkp_init and lrkp_exit leave room for  *)
(* both.                                                                   *)
THEOREM EntriesAreSafe == DeploymentSpec => []NoEntryIsLost
  <1>1. IInv => NoEntryIsLost
    BY DEF IInv, Loading, NoEntryIsLost, Holders
  <1> QED
    BY <1>1, Invariant, PTL
=============================================================================
