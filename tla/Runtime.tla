------------------------------ MODULE Runtime ------------------------------
(***************************************************************************)
(* The daemon as a process (main.rs, config.rs, and the receive loop of    *)
(* dhcp/server.rs): how it starts, which of its sockets it owns, and how   *)
(* its tasks share the worker threads of the tokio runtime.  recvmsg in    *)
(* the receive loop blocks the thread that polls it; every other task      *)
(* gives its thread back at each await.                                    *)
(*                                                                         *)
(* main's own future runs on the main thread, not on a worker.  The        *)
(* service manager restarts a process that fails (ndhcpd.service).         *)
(***************************************************************************)
EXTENDS ReplyPath, FiniteSets

CONSTANTS
    Workers,      \* worker threads of the runtime, one per core (#[tokio::main])
    InitialFiles, \* the command line and what the two files may hold at first
    Yaml,         \* text of a well-formed file -> its sections, each a record
    SocketArg,    \* --unix-socket was given
    Datagrams,    \* [iface, data]: what arrives on port 67
    LateDatagrams,\* the ones of them that arrive after a first mishap
    MaxReady,     \* bound on the tasks with work at one time
    MaxFailures,  \* bound on failing calls of the start-up
    MaxCrashes,   \* bound on the crashes of the process
    MaxEdits,     \* bound on the edits of the configuration file
    MaxOthers     \* bound on starts of the program by hand

ASSUME RuntimeAssumption ==
    /\ Workers \in Nat \ {0}
    /\ \A t \in DOMAIN Yaml :
          "dhcp" \in DOMAIN Yaml[t] /\ "default_lease_time" \in DOMAIN Yaml[t].dhcp =>
              Yaml[t].dhcp.default_lease_time \in Nat
    /\ {MaxReady, MaxFailures, MaxCrashes, MaxEdits, MaxOthers} \subseteq Nat

VARIABLES
    pc,           \* how far main has come
    files,        \* contents of args.config and of ./config.yaml, and whether
                  \* --config was left at its default
    path,         \* the resolved configuration path
    config,       \* the configuration in use
    stable,       \* no edit since main started
    sockfile,     \* what is at the Unix socket's path
    ready,        \* tasks, other than the listener, with work to do
    listener,     \* state of the listen_loop task
    held,         \* tasks in a blocking call on a worker
    queue,        \* datagram in the socket's buffer
    cur,          \* the packet being handled
    budget        \* failures, crashes, edits and other starts so far

procVars == <<pc, path, config, stable, sockfile>>
vars == <<procVars, files, ready, listener, held, queue, cur, budget, replyVars>>

Tasks == {"unix", "tcp", "ra", "cleanup"}
Paths == {"given", "local"}
Garbled == "garbled"                        \* not YAML
Missing == "missing"                        \* no such file
Texts == DOMAIN Yaml \cup {Garbled, Missing}

Empty == <<>>

(* Config::default(); the serde default of an optional key agrees with it. *)
DefaultConfig ==
    [listen_interfaces |-> {"eth0"}, unix_socket |-> TRUE, require_authentication |-> FALSE,
     ra |-> FALSE, default_lease_time |-> 86400]

(* The fields of Config without #[serde(default)]. *)
Mandatory == {"listen_interfaces", "api", "dhcp"}

OrDefault(section, key) ==
    IF key \in DOMAIN section THEN section[key] ELSE DefaultConfig[key]

(* Config::from_file: Err, as the empty set, or the configuration.  A file *)
(* without one of the mandatory sections is an Err, whatever else it says; *)
(* `ra` stands for ra.enabled.                                             *)
from_file(text) ==
    LET Given == {Yaml[t] : t \in {text} \cap DOMAIN Yaml}
    IN  {[listen_interfaces |-> y.listen_interfaces,
          unix_socket |-> OrDefault(y.api, "unix_socket"),
          require_authentication |-> OrDefault(y.api, "require_authentication"),
          ra |-> OrDefault(y, "ra"),
          default_lease_time |-> OrDefault(y.dhcp, "default_lease_time")]
            : y \in {x \in Given : Mandatory \subseteq DOMAIN x}}

(* Result::unwrap_or *)
UnwrapOr(result, default) == IF result = {} THEN default ELSE CHOOSE c \in result : TRUE

Init ==
    /\ pc = "down"
    /\ files \in InitialFiles
    /\ path = "given"
    /\ config = DefaultConfig
    /\ stable = TRUE
    /\ sockfile = "none"
    /\ ready = {}
    /\ listener = "off"
    /\ held = {}
    /\ queue = Empty
    /\ cur = Empty
    /\ budget = [failures |-> 0, crashes |-> 0, edits |-> 0, others |-> 0]
    /\ ReplyInit

Spend(what, max) ==
    /\ budget[what] < max
    /\ budget' = [budget EXCEPT ![what] = budget[what] + 1]

Untroubled == \A what \in DOMAIN budget : budget[what] = 0

Serving == pc = "serving"

-----------------------------------------------------------------------------
(* Start-up. *)

(* Mutant: ./config.yaml also stands in for a file named on the command line. *)
resolve_anywhere(f) == IF f.given = Missing /\ f.local # Missing THEN "local" ELSE "given"

(* ./config.yaml stands in for the default path only. *)
resolve(f) ==
    IF f.given = Missing /\ f.default /\ f.local # Missing THEN "local" ELSE "given"

TasksDown ==
    /\ ready' = {} /\ listener' = "off" /\ held' = {} /\ queue' = Empty /\ cur' = Empty
    /\ out' = Nothing
    /\ bcast_sockets' = [i \in Iface |-> "absent"]

TasksSame == UNCHANGED <<ready, listener, held, queue, cur, replyVars>>

(* The process ends; the kernel closes its sockets but a bound path stays, *)
(* unless the end comes between remove_file and bind.                      *)
Dies ==
    /\ pc' = "down"
    /\ \/ sockfile' = IF sockfile = "mine" THEN "stale" ELSE sockfile
       \/ pc = "unix" /\ config.unix_socket /\ sockfile' = "none"
    /\ TasksDown
    /\ UNCHANGED <<files, path, config, stable>>

Exec ==
    /\ pc = "down"
    /\ pc' = "first"
    /\ path' = resolve(files)
    /\ stable' = TRUE
    /\ UNCHANGED <<files, config, sockfile, budget>>
    /\ TasksSame

(* Config::from_file(..).unwrap_or_else(|_| Config::default()) *)
FirstLoad ==
    /\ pc = "first"
    /\ pc' = "second"
    /\ config' = UnwrapOr(from_file(files[path]), DefaultConfig)
    /\ UNCHANGED <<files, path, stable, sockfile, budget>>
    /\ TasksSame

(* The file is read again; a failure now keeps what the first read gave.   *)
(* Then the command line has its say.                                      *)
SecondLoad ==
    /\ pc = "second"
    /\ pc' = "database"
    /\ LET c == UnwrapOr(from_file(files[path]), config)
       IN  config' = [c EXCEPT !.unix_socket = c.unix_socket \/ SocketArg]
    /\ UNCHANGED <<files, path, stable, sockfile, budget>>
    /\ TasksSame

OpenDatabase ==
    /\ pc = "database"
    /\ pc' = "unix"
    /\ UNCHANGED <<files, path, config, stable, sockfile, budget>>
    /\ TasksSame

(* Mutant: the path a crashed process left behind stays in the way. *)
BindUnixInPlace ==
    /\ pc = "unix"
    /\ config.unix_socket => sockfile = "none"
    /\ sockfile' = IF config.unix_socket THEN "mine" ELSE sockfile
    /\ pc' = "tcp"
    /\ UNCHANGED <<files, path, config, stable, budget>>
    /\ TasksSame

(* Mutant: the listener is bound first and the path cleared after. *)
BindThenRemove ==
    /\ pc = "unix"
    /\ sockfile' = IF config.unix_socket THEN "none" ELSE sockfile
    /\ pc' = "tcp"
    /\ UNCHANGED <<files, path, config, stable, budget>>
    /\ TasksSame

(* remove_file, bind, and the accept loop is spawned. *)
BindUnix ==
    /\ pc = "unix"
    /\ sockfile' = IF config.unix_socket THEN "mine" ELSE sockfile
    /\ pc' = "tcp"
    /\ UNCHANGED <<files, path, config, stable, budget>>
    /\ TasksSame

BindTcp ==
    /\ pc = "tcp"
    /\ pc' = "spawn"
    /\ UNCHANGED <<files, path, config, stable, sockfile, budget>>
    /\ TasksSame

(* The RA server if enabled, then DhcpServer::run spawns its two tasks.    *)
SpawnServers ==
    /\ pc = "spawn"
    /\ pc' = "serving"
    /\ listener' = "bind"
    /\ UNCHANGED <<files, path, config, stable, sockfile, budget, ready, held, queue, cur,
                   replyVars>>

(* The database, the Unix socket or the TCP address cannot be had: main    *)
(* returns Err.                                                            *)
StartFails ==
    /\ pc \in {"database", "unix", "tcp"}
    /\ Spend("failures", MaxFailures)
    /\ Dies

Start == Exec \/ FirstLoad \/ SecondLoad \/ OpenDatabase \/ BindUnix \/ BindTcp \/ SpawnServers

-----------------------------------------------------------------------------
(* The listen_loop task. *)

Proc == UNCHANGED <<procVars, files, budget>>

(* Bind port 67, set_broadcast, enable_recv_interface; then recvmsg.       *)
ListenSetup ==
    /\ listener = "bind"
    /\ Cardinality(held) < Workers
    /\ listener' = "recv"
    /\ held' = held \cup {"listener"}
    /\ Proc /\ UNCHANGED <<ready, queue, cur, replyVars>>

(* One of the three fails: the task ends, the daemon goes on. *)
ListenSetupFails ==
    /\ listener = "bind"
    /\ Cardinality(held) < Workers
    /\ Spend("failures", MaxFailures)
    /\ listener' = "ended"
    /\ UNCHANGED <<procVars, files, ready, held, queue, cur, replyVars>>

(* A datagram on an interface that is not managed or is not known, and one *)
(* that does not parse, is dropped and recvmsg called again.               *)
Accepted(d) == d.iface \in Iface \cap config.listen_interfaces /\ parse(d.data) # {}

(* Mutant: recvmsg peeks, and only an accepted datagram is then read. *)
RecvDroppedPeeked ==
    /\ listener = "recv"
    /\ queue # Empty
    /\ ~ Accepted(queue[1])
    /\ Proc /\ UNCHANGED <<ready, listener, held, queue, cur, replyVars>>

RecvDropped ==
    /\ listener = "recv"
    /\ queue # Empty
    /\ ~ Accepted(queue[1])
    /\ queue' = Empty
    /\ Proc /\ UNCHANGED <<ready, listener, held, cur, replyVars>>

(* The handler awaits the database: the worker is free. *)
RecvPacket ==
    /\ listener = "recv"
    /\ queue # Empty
    /\ Accepted(queue[1])
    /\ \E p \in parse(queue[1].data) : cur' = <<[iface |-> queue[1].iface, packet |-> p]>>
    /\ queue' = Empty
    /\ listener' = "handling"
    /\ held' = held \ {"listener"}
    /\ Proc /\ UNCHANGED <<ready, replyVars>>

(* Mutant: an error of recvmsg is propagated with `?`. *)
RecvErrorReturns ==
    /\ listener = "recv"
    /\ listener' = "ended"
    /\ held' = held \ {"listener"}
    /\ Spend("failures", MaxFailures)
    /\ UNCHANGED <<procVars, files, ready, queue, cur, replyVars>>

(* recvmsg fails: logged, and called again. *)
RecvError ==
    /\ listener = "recv"
    /\ Spend("failures", MaxFailures)
    /\ UNCHANGED <<procVars, files, ready, listener, held, queue, cur, replyVars>>

(* handle_packet has returned and the reply, if any, is sent. *)
HandleReturns ==
    /\ listener = "handling"
    /\ Cardinality(held) < Workers
    /\ \/ UNCHANGED replyVars
       \/ \E r \in Responses(cur[1].packet, config.default_lease_time) :
             SendReply(cur[1].iface, cur[1].packet.fields, r)
    /\ cur' = Empty
    /\ listener' = "sent"
    /\ held' = held \cup {"listener"}
    /\ Proc /\ UNCHANGED <<ready, queue>>

(* The loop is back in recvmsg within the same poll; the reply has left.   *)
CallRecv ==
    /\ listener = "sent"
    /\ listener' = "recv"
    /\ out' = Nothing
    /\ Proc /\ UNCHANGED <<ready, held, queue, cur, bcast_sockets>>

Listen == ListenSetup \/ RecvDropped \/ RecvPacket \/ HandleReturns \/ CallRecv

-----------------------------------------------------------------------------
(* The other tasks: an accept loop or a connection of the API, the RA      *)
(* tasks, the lease cleanup.                                               *)

(* A client connects, or a timer fires. *)
HasTask(t) ==
    CASE t = "unix" -> config.unix_socket /\ sockfile = "mine" /\ pc \in {"tcp", "spawn", "serving"}
      [] t = "tcp" -> pc \in {"spawn", "serving"}
      [] t = "ra" -> Serving /\ config.ra
      [] t = "cleanup" -> Serving

Wake(t) ==
    /\ HasTask(t)
    /\ t \notin ready
    /\ Cardinality(ready) < MaxReady
    /\ ready' = ready \cup {t}
    /\ Proc /\ UNCHANGED <<listener, held, queue, cur, replyVars>>

(* A worker polls the task up to its next await.  A failed accept, query   *)
(* or purge is logged and the task goes on.                                *)
Poll(t) ==
    /\ t \in ready
    /\ Cardinality(held) < Workers
    /\ ready' = ready \ {t}
    /\ Proc /\ UNCHANGED <<listener, held, queue, cur, replyVars>>

-----------------------------------------------------------------------------
(* The surroundings. *)

Arrive ==
    /\ listener \in {"recv", "handling", "sent"}
    /\ queue = Empty
    /\ \E d \in (IF Untroubled THEN Datagrams ELSE LateDatagrams) : queue' = <<d>>
    /\ Proc /\ UNCHANGED <<ready, listener, held, cur, replyVars>>

Crash ==
    /\ pc # "down"
    /\ Spend("crashes", MaxCrashes)
    /\ Dies

(* An edit while the file is being read; any other edit amounts to another *)
(* initial content.                                                        *)
EditFile ==
    /\ pc \in {"first", "second"}
    /\ Spend("edits", MaxEdits)
    /\ \E t \in Texts : files' = [files EXCEPT !.given = t]
    /\ stable' = FALSE
    /\ UNCHANGED <<pc, path, config, sockfile>> /\ TasksSame

(* The program is started once more while it serves: it takes the path of  *)
(* the Unix socket and then fails to bind the TCP address.                 *)
OtherStart ==
    /\ Serving
    /\ config.unix_socket
    /\ Spend("others", MaxOthers)
    /\ sockfile' = "stale"
    /\ UNCHANGED <<pc, files, path, config, stable>> /\ TasksSame

Next ==
    \/ Start \/ StartFails \/ Listen \/ ListenSetupFails \/ RecvError
    \/ \E t \in Tasks : Wake(t) \/ Poll(t)
    \/ Arrive \/ Crash \/ EditFile \/ OtherStart

(***************************************************************************)
(* main and the listener go on when they can.  The wake-up of a listener   *)
(* that awaits the database comes from SQLite's own thread, and no worker  *)
(* is blocked then.  Nothing is promised of datagrams: none may ever       *)
(* arrive.  Nor is anything promised of the other tasks.                   *)
(***************************************************************************)
Fairness ==
    /\ WF_vars(Start)
    /\ WF_vars(Listen)

Spec == Init /\ [][Next]_vars /\ Fairness

(***************************************************************************)
(* A generous runtime: besides, a task with work is polled if a worker is  *)
(* free time and again.  A real one may do less while a worker is blocked  *)
(* (what is in that worker's own slot waits, and so does the I/O driver if *)
(* that worker was the one that last waited for it).                       *)
(***************************************************************************)
GenerousSpec == Spec /\ \A t \in Tasks : SF_vars(Poll(t))

-----------------------------------------------------------------------------
(* Properties. *)

(***************************************************************************)
(* API requests are served, advertisements sent and leases purged whether  *)
(* or not DHCP traffic arrives: the periodic background tasks that         *)
(* DhcpServer::run and main spawn do run.  The receive loop's recvmsg      *)
(* blocks a worker thread; on one worker this is not so, even in a         *)
(* generous runtime.                                                       *)
(***************************************************************************)
TasksProgress == \A t \in Tasks : t \in ready ~> t \notin ready

(***************************************************************************)
(* A datagram that arrives is taken from the socket, malformed ones and    *)
(* ones on other interfaces included: no input stalls the receive loop.    *)
(***************************************************************************)
DatagramsTaken == queue # Empty ~> queue = Empty

Listening == listener \in {"recv", "handling", "sent"}

(***************************************************************************)
(* Once the receive loop runs, only the end of the process ends it: no     *)
(* datagram, failed recvmsg or failed send leaves a daemon without DHCP.   *)
(***************************************************************************)
ListenerSurvives ==
    [][(Listening /\ pc' # "down") => Listening']_vars

(***************************************************************************)
(* A daemon that serves can be reached at the Unix socket it was           *)
(* configured with, also after a crash that left the path behind, unless   *)
(* another start of the program has taken the path away.                   *)
(***************************************************************************)
SocketReachable ==
    Serving /\ config.unix_socket => sockfile = "mine" \/ budget.others > 0

(***************************************************************************)
(* After a crash or a failed start the daemon serves again, whatever the   *)
(* end of the process left behind.                                         *)
(***************************************************************************)
Recovers == pc = "down" ~> Serving

(***************************************************************************)
(* A configuration file that does not change while main reads it twice is  *)
(* honoured: the daemon runs on the file named on the command line, on     *)
(* ./config.yaml only in place of the default path, and on the defaults    *)
(* (without authentication) only if that file is an Err of from_file:      *)
(* missing, not YAML, or without a mandatory section.                      *)
(***************************************************************************)
Wanted(f) ==
    UnwrapOr(from_file(IF f.given = Missing /\ f.default THEN f.local ELSE f.given),
             DefaultConfig)

ConfigHonoured ==
    stable /\ pc \in {"database", "unix", "tcp", "spawn", "serving"} =>
        config = [Wanted(files) EXCEPT !.unix_socket = Wanted(files).unix_socket \/ SocketArg]
=============================================================================
