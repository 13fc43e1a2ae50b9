------------------------------ MODULE Deployment ------------------------------
(***************************************************************************)
(* The parts that outlive each other: the Python server, which may be      *)
(* stopped or killed at any time and started again; the user_space.o       *)
(* processes it starts, which go on without it; and the kernel module,     *)
(* which stays in the kernel, with its table, until rmmod.                 *)
(*                                                                         *)
(* A server first loads its settings and the kernel module (pylrkproxy.py  *)
(* from "load_ini" to "load_kernel_module"), then runs its services, of    *)
(* which UnixSocketClientService is the one that matters here; the actions *)
(* of its threads and of user_space.o are those of UnixSocketClient.       *)
(*                                                                         *)
(* The kernel refuses rmmod while a socket of NETLINK_USER is open, insmod *)
(* while the module is there, and such a socket while the module is not.   *)
(* Starting the server, with its calls of make and gcc, takes longer than  *)
(* insmod or the start of user_space.o.                                    *)
(***************************************************************************)
EXTENDS UnixSocketClient

CONSTANTS
  PortText,    \* what pylrkproxy.ini may say of start_port
  Digits,      \* texts that str.isdigit accepts, with their values
  NoneText,    \* "none", in whatever case
  None,        \* Python's None
  DefaultPort, \* start_port of config.py, and of load_kernel_module
  MaxRuns      \* bound: times the server is started

ASSUME DeploymentAssumption ==
  /\ DOMAIN Digits \union {NoneText} \subseteq PortText
  /\ NoneText \notin DOMAIN Digits
  /\ \A text \in DOMAIN Digits : Digits[text] \in Nat
  /\ DefaultPort \in Nat \ {0}
  /\ None \notin Nat
  /\ MaxRuns \in Nat \ {0}

VARIABLES
  server,     \* where pylrkproxy.py is
  runs,       \* how often it was started
  start_port, \* Config.start_port
  module,     \* lrkproxy_module in the kernel
  min_port,   \* its parameter
  table,      \* does its hash table hold entries?
  orphans     \* earlier processes, or children of theirs, still alive

kernel == <<module, min_port, table>>
ours == <<server, runs, start_port, kernel, orphans>>
deployment == <<vars, ours>>

DeploymentInit ==
  /\ Init
  /\ server = "down"
  /\ runs = 0
  /\ start_port = DefaultPort
  /\ module = "absent"
  /\ min_port = DefaultPort
  /\ table = FALSE
  /\ orphans = {}

(* The processes with a netlink socket.                                    *)
Holders == orphans \union (IF proc \in {"bound", "up"} THEN {starts} ELSE {})

Registered == module # "absent"

-----------------------------------------------------------------------------
(* The server.                                                             *)

(* load_ini, for an option whose default is an integer: "none" is None,    *)
(* digits are a number, and anything else is passed over.                  *)
LoadedInt(default, text) ==
  CASE text = NoneText -> None
    [] text \in DOMAIN Digits -> Digits[text]
    [] OTHER -> default

ServerStarts ==
  /\ server = "down"
  /\ module \in {"absent", "live"}
  /\ runs < MaxRuns
  /\ runs' = runs + 1
  /\ \E text \in PortText : start_port' = LoadedInt(DefaultPort, text)
  /\ server' = "rmmod"
  /\ UNCHANGED <<vars, kernel, orphans>>

(* make has not left a lrkproxy_module.ko: the services run without.       *)
NoModuleFile ==
  /\ server = "rmmod"
  /\ server' = "services"
  /\ UNCHANGED <<vars, runs, start_port, kernel, orphans>>

(* rmmod fails when the module is in use, and when there is none.          *)
Rmmod ==
  /\ server = "rmmod"
  /\ IF module = "live" /\ Holders = {}
       THEN module' = "exiting" /\ table' = FALSE
       ELSE UNCHANGED <<module, table>>
  /\ server' = "insmod"
  /\ UNCHANGED <<vars, runs, start_port, min_port, orphans>>

(* Mutant: the fallback is forgotten.                                      *)
InsmodPortPlain(port) == port

InsmodPort(port) == IF port \in {None, 0} THEN DefaultPort ELSE port

(* insmod fails when the module is there.                                  *)
Insmod ==
  /\ server = "insmod" /\ module # "exiting"
  /\ IF module = "absent"
       THEN /\ module' = "initialising"
            /\ min_port' = InsmodPort(start_port)
       ELSE UNCHANGED <<module, min_port>>
  /\ server' = "loading"
  /\ UNCHANGED <<vars, runs, start_port, table, orphans>>

(* Popen.communicate waits for insmod; then Server.run.                    *)
RunServices ==
  /\ server = "loading" /\ module # "initialising"
  /\ server' = "services"
  /\ UNCHANGED <<vars, runs, start_port, kernel, orphans>>

(* user_space.o is about to open its netlink socket and bind the path.     *)
MayBind == proc = "started" /\ Registered /\ ~file

(* SIGINT, whose handler removes the socket file, or a death without it.   *)
(* All that Python held is gone.  user_space.o may die too, or live on: if *)
(* it was just starting it may yet bind the path.                          *)
ServerStops ==
  /\ server # "down"
  /\ server' = "down"
  /\ is_run_unix_o' = FALSE /\ force_connected' = TRUE
  /\ sock' = NoSocket /\ built' = FALSE
  /\ runner' = "prepare" /\ checker' = "check"
  /\ proc' = "none"
  /\ file' \in {FALSE, file} \union (IF MayBind THEN {TRUE} ELSE {})
  /\ orphans' \in {orphans} \union
       (IF MayBind \/ proc \in {"bound", "up"}
          THEN {orphans \union {starts}} ELSE {})
  /\ UNCHANGED <<starts, accepted, os_errors, requests, runs, start_port,
                 kernel>>

-----------------------------------------------------------------------------
(* The kernel module's own steps.                                          *)

(* lrkp_init, from the first callback that is possible to hash_init.       *)
InitEnds ==
  /\ module = "initialising"
  /\ module' = "live"
  /\ UNCHANGED <<vars, server, runs, start_port, min_port, table, orphans>>

(* lrkp_init returns -10: there is no netlink socket to be had.            *)
InitFails ==
  /\ module = "initialising"
  /\ module' = "absent"
  /\ UNCHANGED <<vars, server, runs, start_port, min_port, table, orphans>>

(* lrkp_exit, after the entries are freed.                                 *)
ExitEnds ==
  /\ module = "exiting"
  /\ module' = "absent"
  /\ UNCHANGED <<vars, server, runs, start_port, min_port, table, orphans>>

(* Any process with a netlink socket may send a setup, or a teardown: a    *)
(* child of a process that is gone waits up to ten seconds before it does, *)
(* and a process that reads an end of file repeats itself.                 *)
Callback ==
  /\ Registered /\ Holders # {}
  /\ table' \in BOOLEAN
  /\ UNCHANGED <<vars, server, runs, start_port, module, min_port, orphans>>

-----------------------------------------------------------------------------
(* The services and the processes.                                         *)

(* Mutant: the services are run before the kernel module is loaded.        *)
ServicesRunFirst == server # "down"

ServicesRun == server = "services"

ServiceThread ==
  /\ ServicesRun
  /\ Runner \/ Checker \/ data_handler
  /\ UNCHANGED ours

(* socket() fails without the module, and user_space.o exits.              *)
ProcessStarts ==
  /\ IF Registered \/ proc = "bound"
       THEN Startup
       ELSE /\ proc = "started" /\ proc' = "none"
            /\ UNCHANGED <<flags, sock, built, runner, checker, starts, file,
                           accepted, os_errors, requests>>
  /\ UNCHANGED ours

(* The process ends, and may leave children that have yet to send.         *)
ProcessEnds ==
  /\ ProcessFails
  /\ orphans' \in {orphans} \union
       (IF proc = "up" THEN {orphans \union {starts}} ELSE {})
  /\ UNCHANGED <<server, runs, start_port, kernel>>

OrphanEnds ==
  /\ \E n \in orphans : orphans' = orphans \ {n}
  /\ UNCHANGED <<vars, server, runs, start_port, kernel>>

-----------------------------------------------------------------------------
Server ==
  ServerStarts \/ NoModuleFile \/ Rmmod \/ Insmod \/ RunServices

Module == InitEnds \/ InitFails \/ ExitEnds

DeploymentNext ==
  \/ Server \/ ServerStops \/ Module \/ Callback
  \/ ServiceThread \/ ProcessStarts \/ ProcessEnds \/ OrphanEnds

DeploymentSpec == DeploymentInit /\ [][DeploymentNext]_deployment

(* The commands the server waits for, its threads and the process run on;  *)
(* nothing makes anybody fail, or an orphan end.  The administrator starts *)
(* the server again.                                                       *)
FairDeploymentSpec ==
  /\ DeploymentSpec
  /\ WF_deployment(Server)
  /\ WF_deployment(Module)
  /\ WF_deployment(ServicesRun /\ Runner /\ UNCHANGED ours)
  /\ WF_deployment(ServicesRun /\ Checker /\ UNCHANGED ours)
  /\ WF_deployment(ProcessStarts)
-----------------------------------------------------------------------------
(* Properties.                                                             *)

(* Every variable holds a value of its kind, whatever the ini file says:   *)
(* the module is never given None or 0 for a port.  An orphan was started. *)
DeploymentTypeOK ==
  /\ TypeOK
  /\ server \in {"down", "rmmod", "insmod", "loading", "services"}
  /\ runs \in 0 .. MaxRuns
  /\ start_port \in Nat \union {None}
  /\ module \in {"absent", "initialising", "live", "exiting"}
  /\ min_port \in Nat \ {0}
  /\ table \in BOOLEAN
  /\ orphans \subseteq 1 .. starts

(* lrkp_init makes the netlink socket and the hooks before it clears the   *)
(* table, and lrkp_exit frees the entries before it lets go of them, but   *)
(* no callback comes in between: no setup is wiped out by hash_init, and   *)
(* no entry is left when the module is gone.  It is the order in which the *)
(* server does things, and what it finds running, that ensures this.       *)
NoEntryIsLost ==
  module \in {"initialising", "exiting", "absent"} =>
    ~table /\ Holders = {}

(* README.md:80, "To apply the new settings, just change the variables in  *)
(* the `pylrkproxy.ini` file and run the project again": the module that   *)
(* is there when insmod has ended has the port that was set.               *)
SettingsApplied ==
  server = "loading" /\ module = "live" /\ start_port \in Nat \ {0} =>
    min_port = start_port

(* Whatever was left behind by servers and processes before, a server that *)
(* goes on running comes to have a process that it is connected to, as far *)
(* as the bound on starts allows; unless the module is not there, gcc has  *)
(* failed, or starting the process raises OSError.                         *)
ServesAgain ==
  \A n \in 1 .. MaxRuns :
    server = "rmmod" /\ runs = n ~>
      \/ Usable
      \/ server = "down" \/ runs # n
      \/ ~Registered \/ os_errors > 0 \/ starts = MaxStarts
      \/ runner # "prepare" /\ ~built
=============================================================================
