--------------------------- MODULE RuntimeProofs ---------------------------
(***************************************************************************)
(* Safety of the daemon as a process: for any number of worker threads,    *)
(* any configuration files, datagrams, failures, crashes and starts by     *)
(* hand.                                                                   *)
(***************************************************************************)
EXTENDS Runtime, WireProofs

(* The receive loop keeps a worker exactly while it is in recvmsg or about *)
(* to call it, and is the only task that does.                             *)
HeldInv ==
    /\ held \subseteq {"listener"}
    /\ "listener" \in held <=> listener \in {"recv", "sent"}

(* The receive loop exists only in a process that serves. *)
ListenerInv == listener # "off" => Serving

(* From the bind on, the path is the process's own. *)
SocketInv ==
    /\ budget \in [{"failures", "crashes", "edits", "others"} -> Nat]
    /\ pc \in {"tcp", "spawn", "serving"} /\ config.unix_socket =>
          sockfile = "mine" \/ budget.others > 0

(* What an undisturbed read has given so far. *)
ConfigInv ==
    stable =>
        /\ pc \notin {"down"} => path = resolve(files)
        /\ pc = "second" => config = UnwrapOr(from_file(files[path]), DefaultConfig)
        /\ ConfigHonoured

ProcInv == HeldInv /\ ListenerInv /\ SocketInv /\ ConfigInv

LEMMA ProcInit == Init => ProcInv
  BY DEF Init, ProcInv, HeldInv, ListenerInv, SocketInv, ConfigInv, ConfigHonoured, Serving

(* One case per action; the invariant about the configuration apart. *)
LEMMA TasksStep ==
  ASSUME HeldInv, ListenerInv, [Next]_vars
  PROVE  (HeldInv /\ ListenerInv)'
<1> USE DEF HeldInv, ListenerInv, Serving, TasksSame, TasksDown, Proc, procVars
<1>1. CASE Exec \/ FirstLoad \/ SecondLoad \/ OpenDatabase \/ BindUnix \/ BindTcp
  BY <1>1 DEF Exec, FirstLoad, SecondLoad, OpenDatabase, BindUnix, BindTcp
<1>2. CASE SpawnServers
  BY <1>2 DEF SpawnServers
<1>3. CASE StartFails \/ Crash
  BY <1>3 DEF StartFails, Crash, Dies
<1>4. CASE ListenSetup \/ ListenSetupFails
  BY <1>4 DEF ListenSetup, ListenSetupFails
<1>5. CASE RecvDropped \/ RecvPacket \/ RecvError
  BY <1>5 DEF RecvDropped, RecvPacket, RecvError
<1>6. CASE HandleReturns \/ CallRecv
  BY <1>6 DEF HandleReturns, CallRecv
<1>7. ASSUME NEW t \in Tasks, Wake(t) \/ Poll(t)
      PROVE  (HeldInv /\ ListenerInv)'
  BY <1>7 DEF Wake, Poll
<1>8. CASE Arrive \/ EditFile \/ OtherStart
  BY <1>8 DEF Arrive, EditFile, OtherStart
<1>9. CASE UNCHANGED vars
  BY <1>9 DEF vars
<1> QED
  BY <1>1, <1>2, <1>3, <1>4, <1>5, <1>6, <1>7, <1>8, <1>9 DEF Next, Start, Listen

(* Nothing but main, the end of the process and a second start touches the *)
(* path or the configuration.                                              *)
LEMMA SocketStep ==
  ASSUME SocketInv, [Next]_vars
  PROVE  SocketInv'
<1> USE DEF SocketInv, TasksSame, TasksDown, Proc, procVars, Spend
<1>1. CASE Exec \/ FirstLoad \/ SecondLoad \/ OpenDatabase
  BY <1>1 DEF Exec, FirstLoad, SecondLoad, OpenDatabase
<1>2. CASE BindUnix \/ BindTcp \/ SpawnServers
  BY <1>2 DEF BindUnix, BindTcp, SpawnServers
<1>3. CASE StartFails \/ Crash
  BY <1>3 DEF StartFails, Crash, Dies
<1>4. CASE ListenSetup \/ RecvDropped \/ RecvPacket \/ HandleReturns \/ CallRecv
  BY <1>4 DEF ListenSetup, RecvDropped, RecvPacket, HandleReturns, CallRecv
<1>5. CASE ListenSetupFails \/ RecvError
  BY <1>5 DEF ListenSetupFails, RecvError
<1>6. ASSUME NEW t \in Tasks, Wake(t) \/ Poll(t)
      PROVE  SocketInv'
  BY <1>6 DEF Wake, Poll
<1>7. CASE Arrive \/ EditFile
  BY <1>7 DEF Arrive, EditFile
<1>8. CASE OtherStart
  BY <1>8 DEF OtherStart
<1>9. CASE UNCHANGED vars
  BY <1>9 DEF vars, procVars
<1> QED
  BY <1>1, <1>2, <1>3, <1>4, <1>5, <1>6, <1>7, <1>8, <1>9 DEF Next, Start, Listen
LEMMA ResolvedIsWanted ==
  Wanted(files) = UnwrapOr(from_file(files[resolve(files)]), DefaultConfig)
  BY DEF Wanted, resolve

(* The second read of a file gives what the first one gave. *)
LEMMA ConfigStep ==
  ASSUME ConfigInv, [Next]_vars
  PROVE  ConfigInv'
<1> USE DEF ConfigInv, ConfigHonoured, TasksSame, TasksDown, Proc, procVars
<1>1. CASE Exec
  BY <1>1 DEF Exec
<1>2. CASE FirstLoad
  BY <1>2 DEF FirstLoad
<1>3. CASE SecondLoad
  <2> SUFFICES ASSUME stable PROVE ConfigInv'
    BY <1>3 DEF SecondLoad
  <2> DEFINE c == UnwrapOr(from_file(files[path]), config)
  <2>1. path = resolve(files) /\ config = UnwrapOr(from_file(files[path]), DefaultConfig)
    BY <1>3 DEF SecondLoad
  <2>2. c = UnwrapOr(from_file(files[path]), DefaultConfig)
    BY <2>1 DEF UnwrapOr
  <2>3. c = Wanted(files)
    BY <2>1, <2>2, ResolvedIsWanted
  <2>4. Wanted(files)' = Wanted(files) /\ resolve(files)' = resolve(files)
    BY <1>3 DEF SecondLoad, Wanted, resolve
  <2> QED
    BY <1>3, <2>1, <2>3, <2>4 DEF SecondLoad
<1>4. CASE OpenDatabase \/ BindUnix \/ BindTcp \/ SpawnServers
  BY <1>4 DEF OpenDatabase, BindUnix, BindTcp, SpawnServers, Wanted, resolve
<1>5. CASE StartFails \/ Crash
  BY <1>5 DEF StartFails, Crash, Dies
<1>6. CASE EditFile
  BY <1>6 DEF EditFile
<1>7. ASSUME UNCHANGED <<pc, files, path, config, stable>>
      PROVE  ConfigInv'
  BY <1>7 DEF Wanted, resolve
<1>8. CASE ListenSetup \/ ListenSetupFails \/ RecvDropped \/ RecvPacket \/ RecvError
  BY <1>7, <1>8 DEF ListenSetup, ListenSetupFails, RecvDropped, RecvPacket, RecvError
<1>9. CASE HandleReturns \/ CallRecv \/ Arrive \/ OtherStart \/ UNCHANGED vars
  BY <1>7, <1>9 DEF HandleReturns, CallRecv, Arrive, OtherStart, vars
<1>10. ASSUME NEW t \in Tasks, Wake(t) \/ Poll(t)
       PROVE  ConfigInv'
  BY <1>7, <1>10 DEF Wake, Poll
<1> QED
  BY <1>1, <1>2, <1>3, <1>4, <1>5, <1>6, <1>8, <1>9, <1>10 DEF Next, Start, Listen

LEMMA ProcStep == ProcInv /\ [Next]_vars => ProcInv'
  BY TasksStep, SocketStep, ConfigStep DEF ProcInv

(***************************************************************************)
(* The inductive invariant of the process.                                 *)
(***************************************************************************)
THEOREM ProcessInvariant == Spec => []ProcInv
  BY ProcInit, ProcStep, PTL DEF Spec

(***************************************************************************)
(* A daemon that serves owns the path of its Unix socket, whatever earlier *)
(* processes left behind, unless another start has taken it.               *)
(***************************************************************************)
THEOREM SocketStaysReachable == Spec => []SocketReachable
<1>1. ProcInv => SocketReachable
  BY DEF ProcInv, SocketInv, SocketReachable, Serving
<1> QED
  BY <1>1, ProcessInvariant, PTL

(***************************************************************************)
(* main's two reads of an unchanged configuration file come to the one the *)
(* command line asks for, for every content of the files.                  *)
(***************************************************************************)
THEOREM ConfigurationHonoured == Spec => []ConfigHonoured
<1>1. ProcInv => ConfigHonoured
  BY DEF ProcInv, ConfigInv, ConfigHonoured
<1> QED
  BY <1>1, ProcessInvariant, PTL

(* The step behind ListenerKept: only ends of the process reach the loop. *)
LEMMA ListenerStep ==
  ASSUME ProcInv, Next, Listening, pc' # "down"
  PROVE  Listening'
<1> USE DEF Listening, TasksSame
<1>1. Serving
  BY DEF ProcInv, ListenerInv
<1>2. ~ Start
  BY <1>1 DEF Serving, Start, Exec, FirstLoad, SecondLoad, OpenDatabase, BindUnix, BindTcp,
              SpawnServers
<1>3. ~ (StartFails \/ Crash)
  BY DEF StartFails, Crash, Dies
<1>4. CASE Listen
  BY <1>4 DEF Listen, ListenSetup, RecvDropped, RecvPacket, HandleReturns, CallRecv
<1>5. CASE ListenSetupFails \/ RecvError
  BY <1>5 DEF ListenSetupFails, RecvError
<1>6. ASSUME NEW t \in Tasks, Wake(t) \/ Poll(t) PROVE Listening'
  BY <1>6 DEF Wake, Poll
<1>7. CASE Arrive \/ EditFile \/ OtherStart
  BY <1>7 DEF Arrive, EditFile, OtherStart
<1> QED
  BY <1>2, <1>3, <1>4, <1>5, <1>6, <1>7 DEF Next

(***************************************************************************)
(* No datagram, failed recvmsg or failed send ends the receive loop of a   *)
(* process that lives on.                                                  *)
(***************************************************************************)
THEOREM ListenerKept == Spec => ListenerSurvives
<1>1. ProcInv /\ [Next]_vars => [(Listening /\ pc' # "down") => Listening']_vars
  BY ListenerStep
<1> QED
  BY <1>1, ProcessInvariant, PTL DEF Spec, ListenerSurvives

-----------------------------------------------------------------------------
(* What is on the wire. *)

(* A reply on the wire was built by create_offer or create_ack with the    *)
(* lease time of the configuration in use.                                 *)
ReplyInv ==
    /\ config.default_lease_time \in Nat
    /\ Answered =>
          /\ listener = "sent"
          /\ \E d \in Decisions :
                out.response \in
                    {create_offer(out.request, d.ip, d.subnet, config.default_lease_time),
                     create_ack(out.request, d.ip, d.subnet, config.default_lease_time)}

(* Config::from_file gives a lease time, its own or the default. *)
LEMMA LeaseTimeLoaded ==
  ASSUME NEW text, NEW c \in from_file(text)
  PROVE  c.default_lease_time \in Nat
<1>1. PICK y \in {Yaml[t] : t \in {text} \cap DOMAIN Yaml} :
         /\ Mandatory \subseteq DOMAIN y
         /\ c.default_lease_time = OrDefault(y.dhcp, "default_lease_time")
  BY DEF from_file
<1>2. DefaultConfig["default_lease_time"] \in Nat
  BY DEF DefaultConfig
<1>3. "default_lease_time" \in DOMAIN y.dhcp => y.dhcp["default_lease_time"] \in Nat
  BY <1>1, RuntimeAssumption DEF RuntimeAssumption, Mandatory
<1> QED
  BY <1>1, <1>2, <1>3 DEF OrDefault

LEMMA LeaseTimeUnwrapped ==
  ASSUME NEW text, NEW default, default.default_lease_time \in Nat
  PROVE  UnwrapOr(from_file(text), default).default_lease_time \in Nat
  BY LeaseTimeLoaded DEF UnwrapOr

LEMMA ReplySent ==
  ASSUME NEW iface, NEW packet, NEW lease, NEW r \in Responses(packet, lease),
         SendReply(iface, packet.fields, r), out' # Nothing
  PROVE  \E d \in Decisions :
            out'.response \in {create_offer(out'.request, d.ip, d.subnet, lease),
                               create_ack(out'.request, d.ip, d.subnet, lease)}
<1>1. out'.response = r /\ out'.request = packet.fields
  BY DEF SendReply, SendL2, SendUdp, SendBroadcast, SendFails, Sent
<1>2. \E d \in Decisions :
         r \in {create_offer(packet.fields, d.ip, d.subnet, lease),
                create_ack(packet.fields, d.ip, d.subnet, lease)}
  BY DEF Responses
<1> QED
  BY <1>1, <1>2

LEMMA ReplyStep ==
  ASSUME ListenerInv, ReplyInv, [Next]_vars
  PROVE  ReplyInv'
<1> USE DEF ReplyInv, Answered
<1>1. CASE Exec \/ OpenDatabase \/ BindUnix \/ BindTcp
  BY <1>1 DEF Exec, OpenDatabase, BindUnix, BindTcp, TasksSame, replyVars
<1>2. CASE FirstLoad \/ SecondLoad
  <2>1. out = Nothing /\ out' = Nothing
    BY <1>2 DEF FirstLoad, SecondLoad, TasksSame, replyVars, ListenerInv, Serving
  <2>2. DefaultConfig.default_lease_time \in Nat
    BY DEF DefaultConfig
  <2>3. CASE FirstLoad
    BY <2>1, <2>2, <2>3, LeaseTimeUnwrapped DEF FirstLoad
  <2>4. CASE SecondLoad
    <3> DEFINE c == UnwrapOr(from_file(files[path]), config)
    <3>1. c.default_lease_time \in Nat
      BY LeaseTimeUnwrapped
    <3>2. config' = [c EXCEPT !.unix_socket = c.unix_socket \/ SocketArg]
      BY <2>4 DEF SecondLoad
    <3> HIDE DEF c
    <3>3. config'.default_lease_time = c.default_lease_time
      BY <3>2
    <3> QED
      BY <2>1, <3>1, <3>3
  <2> QED
    BY <1>2, <2>3, <2>4
<1>3. CASE SpawnServers
  BY <1>3 DEF SpawnServers, ListenerInv, Serving, replyVars
<1>4. CASE StartFails \/ Crash
  BY <1>4 DEF StartFails, Crash, Dies, TasksDown
<1>5. CASE ListenSetup \/ ListenSetupFails \/ RecvDropped \/ RecvPacket \/ RecvError
  BY <1>5 DEF ListenSetup, ListenSetupFails, RecvDropped, RecvPacket, RecvError, Proc, procVars,
              replyVars
<1>6. CASE HandleReturns
  <2>1. config' = config /\ listener' = "sent" /\ out = Nothing
    BY <1>6 DEF HandleReturns, Proc, procVars
  <2>2. CASE UNCHANGED replyVars
    BY <2>1, <2>2 DEF replyVars
  <2>3. ASSUME NEW r \in Responses(cur[1].packet, config.default_lease_time),
               SendReply(cur[1].iface, cur[1].packet.fields, r)
        PROVE  ReplyInv'
    BY <2>1, <2>3, ReplySent
  <2> QED
    BY <1>6, <2>2, <2>3 DEF HandleReturns
<1>7. CASE CallRecv
  BY <1>7 DEF CallRecv, Proc, procVars
<1>8. ASSUME NEW t \in Tasks, Wake(t) \/ Poll(t)
      PROVE  ReplyInv'
  BY <1>8 DEF Wake, Poll, Proc, procVars, replyVars
<1>9. CASE Arrive \/ EditFile \/ OtherStart
  BY <1>9 DEF Arrive, EditFile, OtherStart, TasksSame, Proc, procVars, replyVars
<1>10. CASE UNCHANGED vars
  BY <1>10 DEF vars, procVars, replyVars
<1> QED
  BY <1>1, <1>2, <1>3, <1>4, <1>5, <1>6, <1>7, <1>8, <1>9, <1>10 DEF Next, Start, Listen

-----------------------------------------------------------------------------
(* Where replies go. *)

LEMMA ConcatLen ==
  ASSUME NEW S, NEW s \in Seq(S), NEW t \in Seq(S)
  PROVE  s \o t \in Seq(S) /\ Len(s \o t) = Len(s) + Len(t)
  OBVIOUS

LEMMA LastPart ==
  ASSUME NEW S, NEW s \in Seq(S), NEW t \in Seq(S)
  PROVE  SubSeq(s \o t, Len(s) + 1, Len(s) + Len(t)) = t
  OBVIOUS

(* Where the sixth part of six lies. *)
LEMMA SixthPart ==
  ASSUME NEW S, NEW a \in Seq(S), NEW b \in Seq(S), NEW c \in Seq(S), NEW d \in Seq(S),
         NEW e \in Seq(S), NEW f \in Seq(S),
         Len(a) = 2, Len(b) = 2, Len(c) = 6, Len(d) = 2, Len(e) = 4, Len(f) = 4
  PROVE  SubSeq(a \o b \o c \o d \o e \o f, 17, 20) = f
<1> DEFINE p == a \o b \o c \o d \o e
<1>1. p \in Seq(S)
  OBVIOUS
<1>2. Len(p) = Len(a) + Len(b) + Len(c) + Len(d) + Len(e)
  <2>1. Len(a \o b) = Len(a) + Len(b) /\ a \o b \in Seq(S)
    BY ConcatLen
  <2>2. Len(a \o b \o c) = Len(a \o b) + Len(c) /\ a \o b \o c \in Seq(S)
    BY <2>1, ConcatLen
  <2>3. Len(a \o b \o c \o d) = Len(a \o b \o c) + Len(d) /\ a \o b \o c \o d \in Seq(S)
    BY <2>2, ConcatLen
  <2>4. Len(p) = Len(a \o b \o c \o d) + Len(e)
    BY <2>3, ConcatLen
  <2> QED
    BY <2>1, <2>2, <2>3, <2>4
<1> HIDE DEF p
<1>3. Len(p) + 1 = 17 /\ Len(p) + Len(f) = 20
  BY <1>2
<1>4. SubSeq(p \o f, Len(p) + 1, Len(p) + Len(f)) = f
  BY <1>1, LastPart
<1> QED
  BY <1>3, <1>4 DEF p

(* The last four bytes of the header are the destination. *)
LEMMA HeaderDestination ==
  ASSUME NEW len, NEW cksum, NEW src \in Ipv4Addr, NEW dst \in Ipv4Addr
  PROVE  SubSeq(ip_header(len, cksum, src, dst), 17, 20) = dst
<1> DEFINE a == <<69, 0>>
           b == be16(len)
           c == <<0, 0, 64, 0, 128, 17>>
           d == be16(cksum)
           S == (0..255) \cup {b[1], b[2], d[1], d[2]}
<1>1. ip_header(len, cksum, src, dst) = a \o b \o c \o d \o src \o dst
  BY DEF ip_header
<1>2. a \in Seq(S) /\ Len(a) = 2
  OBVIOUS
<1>3. c \in Seq(S) /\ Len(c) = 6
  OBVIOUS
<1>4. b \in Seq(S) /\ Len(b) = 2 /\ d \in Seq(S) /\ Len(d) = 2
  BY DEF be16
<1>5. src \in Seq(S) /\ Len(src) = 4 /\ dst \in Seq(S) /\ Len(dst) = 4
  BY DEF Ipv4Addr
<1> HIDE DEF a, b, c, d, S
<1> QED
  BY <1>1, <1>2, <1>3, <1>4, <1>5, SixthPart

LEMMA FrameDestination ==
  ASSUME NEW src_mac, NEW dst_mac, NEW src_ip \in Ipv4Addr, NEW dst_ip \in Ipv4Addr,
         NEW src_port, NEW dst_port, NEW payload
  PROVE  LET frame == build_l2_udp_frame(src_mac, dst_mac, src_ip, dst_ip, src_port, dst_port,
                                         payload)
         IN  SubSeq(frame.ip, 17, 20) = dst_ip
<1> DEFINE cksum == ip_checksum(ip_header(ip_total_len(payload), 0, src_ip, dst_ip))
           frame == build_l2_udp_frame(src_mac, dst_mac, src_ip, dst_ip, src_port, dst_port,
                                       payload)
<1>1. frame.ip = ip_header(ip_total_len(payload), cksum, src_ip, dst_ip)
  BY DEF build_l2_udp_frame
<1> HIDE DEF cksum, frame
<1>2. SubSeq(frame.ip, 17, 20) = dst_ip
  BY <1>1, HeaderDestination
<1> QED
  BY <1>2 DEF frame

(* The packet in hand came in by an interface of the host. *)
CurInv == listener = "handling" => cur[1].iface \in Iface

LEMMA CurStep ==
  ASSUME CurInv, [Next]_vars
  PROVE  CurInv'
<1> USE DEF CurInv
<1>1. CASE Exec \/ FirstLoad \/ SecondLoad \/ OpenDatabase \/ BindUnix \/ BindTcp
  BY <1>1 DEF Exec, FirstLoad, SecondLoad, OpenDatabase, BindUnix, BindTcp, TasksSame
<1>2. CASE SpawnServers \/ ListenSetup \/ ListenSetupFails \/ RecvDropped \/ RecvError
  BY <1>2 DEF SpawnServers, ListenSetup, ListenSetupFails, RecvDropped, RecvError
<1>3. CASE RecvPacket
  <2>1. queue[1].iface \in Iface
    BY <1>3 DEF RecvPacket, Accepted
  <2>2. PICK p : cur' = <<[iface |-> queue[1].iface, packet |-> p]>>
    BY <1>3 DEF RecvPacket
  <2> QED
    BY <2>1, <2>2
<1>4. CASE HandleReturns \/ CallRecv
  BY <1>4 DEF HandleReturns, CallRecv
<1>5. CASE StartFails \/ Crash
  BY <1>5 DEF StartFails, Crash, Dies, TasksDown
<1>6. ASSUME NEW t \in Tasks, Wake(t) \/ Poll(t)
      PROVE  CurInv'
  BY <1>6 DEF Wake, Poll
<1>7. CASE Arrive \/ EditFile \/ OtherStart \/ UNCHANGED vars
  BY <1>7 DEF Arrive, EditFile, OtherStart, TasksSame, vars
<1> QED
  BY <1>1, <1>2, <1>3, <1>4, <1>5, <1>6, <1>7 DEF Next, Start, Listen

(* A raw frame: the client has no address, and the frame agrees with the   *)
(* destination response_dest has chosen.                                   *)
LEMMA L2Reaches ==
  ASSUME NEW iface \in Iface, NEW request, NEW response, NEW ip \in Ipv4Addr \ {Broadcast},
         response.fields.yiaddr = ip, SendL2(iface, request, response)
  PROVE  ReplyReachesClient'
<1> DEFINE dest == response_dest(request, response.fields)
           dst_ip == IF dest.ip = Broadcast THEN Broadcast ELSE ip
           src_ip == OrElse(IfaceIps[iface], Unspecified)
           frame == L2Frame(iface, dst_ip, to_bytes(response))
<1>1. request.ciaddr = Unspecified /\ request.giaddr = Unspecified
  BY DEF SendL2
<1>2. dest.ip = IF request.broadcast THEN Broadcast ELSE ip
  BY <1>1 DEF response_dest, To
<1>3. dst_ip = dest.ip /\ (dest.ip = Broadcast <=> request.broadcast)
  BY <1>2
<1>4. Broadcast \in Ipv4Addr /\ Unspecified \in Ipv4Addr
  BY DEF Broadcast, Unspecified, Ipv4Addr
<1>5. src_ip \in Ipv4Addr
  BY <1>4, ReplyAssumption DEF ReplyAssumption, OrElse
<1>6. dst_ip \in Ipv4Addr
  BY <1>4
<1> HIDE DEF dest, dst_ip, src_ip
<1>7. SubSeq(frame.ip, 17, 20) = dst_ip
  BY <1>5, <1>6, FrameDestination DEF L2Frame, src_ip
<1>8. frame.dst_mac = "broadcast" /\ frame.udp.dst_port = 68
  BY DEF L2Frame, build_l2_udp_frame, DHCP_CLIENT_PORT
<1> HIDE DEF frame
<1>9. out' = Sent("l2", iface, dest, request, response, frame)
  BY DEF SendL2, dest, dst_ip, frame
<1>10. out'.via = "l2" /\ out'.request = request /\ out'.dest = dest /\ out'.frame = frame
  BY <1>9 DEF Sent
<1> QED
  BY <1>1, <1>3, <1>7, <1>8, <1>10 DEF ReplyReachesClient

(* The other two ways, to a client or relay agent with an address. *)
LEMMA SocketReaches ==
  ASSUME NEW iface, NEW request, NEW response,
         SendUdp(iface, request, response) \/ SendBroadcast(iface, request, response)
  PROVE  ReplyReachesClient'
<1> DEFINE dest == response_dest(request, response.fields)
<1>1. HasAddress(request)
  BY DEF SendUdp, SendBroadcast
<1>2. out'.via # "l2" /\ out'.request = request /\ out'.dest = dest
  BY DEF SendUdp, SendBroadcast, Sent
<1> QED
  BY <1>1, <1>2 DEF ReplyReachesClient, HasAddress, response_dest, To, DHCP_SERVER_PORT,
                    DHCP_CLIENT_PORT

LEMMA DecidedAddress ==
  ASSUME NEW packet, NEW lease, NEW r \in Responses(packet, lease)
  PROVE  r.fields.yiaddr \in Ipv4Addr \ {Broadcast}
<1>1. PICK d \in Decisions :
         r \in {create_offer(packet.fields, d.ip, d.subnet, lease),
                create_ack(packet.fields, d.ip, d.subnet, lease)}
  BY DEF Responses
<1>2. r.fields = ReplyFields(packet.fields, d.ip, d.subnet)
  BY <1>1 DEF create_offer, create_ack
<1>3. r.fields.yiaddr = d.ip
  BY <1>2 DEF ReplyFields
<1> QED
  BY <1>3, ReplyAssumption DEF ReplyAssumption

LEMMA ReachesStep ==
  ASSUME CurInv, ReplyReachesClient, [Next]_vars
  PROVE  ReplyReachesClient'
<1>1. ASSUME out' = out PROVE ReplyReachesClient'
  BY <1>1 DEF ReplyReachesClient, Answered
<1>2. ASSUME out' = Nothing PROVE ReplyReachesClient'
  BY <1>2 DEF ReplyReachesClient, Answered
<1>3. CASE HandleReturns
  <2>1. cur[1].iface \in Iface
    BY <1>3 DEF HandleReturns, CurInv
  <2>2. ASSUME NEW r \in Responses(cur[1].packet, config.default_lease_time),
               SendReply(cur[1].iface, cur[1].packet.fields, r)
        PROVE  ReplyReachesClient'
    <3>1. CASE SendL2(cur[1].iface, cur[1].packet.fields, r)
      BY <2>1, <3>1, DecidedAddress, L2Reaches
    <3>2. CASE SendUdp(cur[1].iface, cur[1].packet.fields, r)
               \/ SendBroadcast(cur[1].iface, cur[1].packet.fields, r)
      BY <3>2, SocketReaches
    <3>3. CASE SendFails(cur[1].iface, cur[1].packet.fields, r)
      BY <1>2, <3>3 DEF SendFails
    <3> QED
      BY <2>2, <3>1, <3>2, <3>3 DEF SendReply
  <2> QED
    BY <1>1, <1>3, <2>2 DEF HandleReturns, replyVars
<1>4. CASE CallRecv \/ StartFails \/ Crash
  BY <1>2, <1>4 DEF CallRecv, StartFails, Crash, Dies, TasksDown
<1>5. CASE Start
  BY <1>1, <1>5 DEF Start, Exec, FirstLoad, SecondLoad, OpenDatabase, BindUnix, BindTcp,
                    SpawnServers, TasksSame, replyVars
<1>6. CASE ListenSetup \/ ListenSetupFails \/ RecvDropped \/ RecvPacket \/ RecvError
  BY <1>1, <1>6 DEF ListenSetup, ListenSetupFails, RecvDropped, RecvPacket, RecvError, replyVars
<1>7. ASSUME NEW t \in Tasks, Wake(t) \/ Poll(t)
      PROVE  ReplyReachesClient'
  BY <1>1, <1>7 DEF Wake, Poll, replyVars
<1>8. CASE Arrive \/ EditFile \/ OtherStart \/ UNCHANGED vars
  BY <1>1, <1>8 DEF Arrive, EditFile, OtherStart, TasksSame, vars, replyVars
<1> QED
  BY <1>3, <1>4, <1>5, <1>6, <1>7, <1>8 DEF Next, Listen

(***************************************************************************)
(* For every datagram and every decision of the handlers, a reply goes to  *)
(* the relay agent, to the address the client has, or as a raw broadcast   *)
(* whose IP destination is the one response_dest has chosen.               *)
(***************************************************************************)
THEOREM RepliesReachClients == Spec => []ReplyReachesClient
<1>1. Init => CurInv /\ ReplyReachesClient
  BY DEF Init, ReplyInit, CurInv, ReplyReachesClient, Answered
<1>2. CurInv /\ ReplyReachesClient /\ [Next]_vars => (CurInv /\ ReplyReachesClient)'
  BY CurStep, ReachesStep
<1> QED
  BY <1>1, <1>2, PTL DEF Spec

-----------------------------------------------------------------------------
(* The raw frame. *)

LEMMA FrameLengths ==
  ASSUME NEW payload, FitsLink(payload)
  PROVE  LET n == Len(payload.bytes)
         IN  /\ n \in Nat
             /\ udp_len(payload) = 248 + n
             /\ ip_total_len(payload) = 20 + (248 + n)
             /\ ip_total_len(payload) \in Nat
             /\ ip_total_len(payload) < 65536
<1> DEFINE n == Len(payload.bytes)
<1>1. n \in Nat /\ n <= Mtu - 268 /\ Mtu \in Nat /\ Mtu < 65536
  BY ReplyAssumption, SMT DEF FitsLink, ReplyAssumption
<1>2. udp_len(payload) = (8 + 240 + n) % 65536
  BY DEF udp_len
<1>3. ip_total_len(payload) = (20 + udp_len(payload)) % 65536
  BY DEF ip_total_len
<1> HIDE DEF n
<1>4. 8 + 240 + n \in Nat /\ 8 + 240 + n < 65536 /\ 8 + 240 + n = 248 + n
  BY <1>1, SMT
<1>5. udp_len(payload) = 248 + n
  BY <1>2, <1>4, SMT
<1>6. ip_total_len(payload) = 20 + (248 + n)
  BY <1>1, <1>3, <1>5, SMT
<1> QED
  BY <1>1, <1>5, <1>6, SMT DEF n

LEMMA L2Accepted ==
  ASSUME NEW iface \in Iface, NEW request, NEW response, response.fields.yiaddr \in Ipv4Addr,
         SendL2(iface, request, response)
  PROVE  FrameAccepted'
<1> DEFINE dest == response_dest(request, response.fields)
           dst_ip == IF dest.ip = Broadcast THEN Broadcast ELSE response.fields.yiaddr
           src_ip == OrElse(IfaceIps[iface], Unspecified)
           payload == to_bytes(response)
           frame == L2Frame(iface, dst_ip, payload)
           len == ip_total_len(payload)
           cksum == ip_checksum(ip_header(len, 0, src_ip, dst_ip))
<1>1. FitsLink(payload)
  BY DEF SendL2
<1>2. out' = Sent("l2", iface, dest, request, response, frame)
  BY DEF SendL2
<1>3. Broadcast \in Ipv4Addr /\ Unspecified \in Ipv4Addr
  BY DEF Broadcast, Unspecified, Ipv4Addr
<1>4. src_ip \in Ipv4Addr
  BY <1>3, ReplyAssumption DEF ReplyAssumption, OrElse
<1>5. dst_ip \in Ipv4Addr
  BY <1>3
<1>6. frame.ip = ip_header(len, cksum, src_ip, dst_ip) /\ frame.udp.len = udp_len(payload)
  BY DEF L2Frame, build_l2_udp_frame
<1> HIDE DEF dest, dst_ip, src_ip, payload, frame
<1>7. out'.frame = frame /\ out'.payload = payload
  BY <1>2 DEF Sent, payload
<1>8. /\ len \in Nat /\ len < 65536 /\ len = 20 + udp_len(payload)
      /\ udp_len(payload) = 248 + Len(payload.bytes)
  BY <1>1, FrameLengths
<1> HIDE DEF len
<1>9. /\ Len(frame.ip) = 20
      /\ WordSum(frame.ip) % 65535 = 0
      /\ SubSeq(frame.ip, 3, 4) = be16(len)
  BY <1>4, <1>5, <1>6, <1>8, ChecksumCloses
<1> HIDE DEF cksum
<1>10. frame.udp.len = 248 + Len(payload.bytes) /\ len = 20 + frame.udp.len
  BY <1>6, <1>8
<1> QED
  BY <1>7, <1>9, <1>10 DEF FrameAccepted

LEMMA AcceptedStep ==
  ASSUME CurInv, FrameAccepted, [Next]_vars
  PROVE  FrameAccepted'
<1>1. ASSUME out' = out PROVE FrameAccepted'
  BY <1>1 DEF FrameAccepted, Answered
<1>2. ASSUME out' = Nothing \/ out'.via # "l2" PROVE FrameAccepted'
  BY <1>2 DEF FrameAccepted, Answered
<1>3. CASE HandleReturns
  <2>1. cur[1].iface \in Iface
    BY <1>3 DEF HandleReturns, CurInv
  <2>2. ASSUME NEW r \in Responses(cur[1].packet, config.default_lease_time),
               SendReply(cur[1].iface, cur[1].packet.fields, r)
        PROVE  FrameAccepted'
    <3>1. CASE SendL2(cur[1].iface, cur[1].packet.fields, r)
      BY <2>1, <3>1, DecidedAddress, L2Accepted
    <3>2. CASE SendUdp(cur[1].iface, cur[1].packet.fields, r)
               \/ SendBroadcast(cur[1].iface, cur[1].packet.fields, r)
      BY <1>2, <3>2 DEF SendUdp, SendBroadcast, Sent
    <3>3. CASE SendFails(cur[1].iface, cur[1].packet.fields, r)
      BY <1>2, <3>3 DEF SendFails
    <3> QED
      BY <2>2, <3>1, <3>2, <3>3 DEF SendReply
  <2> QED
    BY <1>1, <1>3, <2>2 DEF HandleReturns, replyVars
<1>4. CASE CallRecv \/ StartFails \/ Crash
  BY <1>2, <1>4 DEF CallRecv, StartFails, Crash, Dies, TasksDown
<1>5. CASE Start
  BY <1>1, <1>5 DEF Start, Exec, FirstLoad, SecondLoad, OpenDatabase, BindUnix, BindTcp,
                    SpawnServers, TasksSame, replyVars
<1>6. CASE ListenSetup \/ ListenSetupFails \/ RecvDropped \/ RecvPacket \/ RecvError
  BY <1>1, <1>6 DEF ListenSetup, ListenSetupFails, RecvDropped, RecvPacket, RecvError, replyVars
<1>7. ASSUME NEW t \in Tasks, Wake(t) \/ Poll(t)
      PROVE  FrameAccepted'
  BY <1>1, <1>7 DEF Wake, Poll, replyVars
<1>8. CASE Arrive \/ EditFile \/ OtherStart \/ UNCHANGED vars
  BY <1>1, <1>8 DEF Arrive, EditFile, OtherStart, TasksSame, vars, replyVars
<1> QED
  BY <1>3, <1>4, <1>5, <1>6, <1>7, <1>8 DEF Next, Listen

(***************************************************************************)
(* Every raw frame the daemon sends has a header whose words add up to     *)
(* zero, checksum included, and lengths that count the bytes that are      *)
(* there: for any addresses, any options and any link up to 65535 bytes.   *)
(***************************************************************************)
THEOREM FramesAccepted == Spec => []FrameAccepted
<1>1. Init => CurInv /\ FrameAccepted
  BY DEF Init, ReplyInit, CurInv, FrameAccepted, Answered
<1>2. CurInv /\ FrameAccepted /\ [Next]_vars => (CurInv /\ FrameAccepted)'
  BY CurStep, AcceptedStep
<1> QED
  BY <1>1, <1>2, PTL DEF Spec

-----------------------------------------------------------------------------
(* The client reads the reply. *)

LongKinds == {"DnsServer", "DomainName"}

(* Options that are written and read back, none of them too long. *)
Terms(s) == \E O : s \in Seq(O) /\ \A o \in O : Wellformed(o) /\ ~ Overlong(o)

(* Options that are written and read back: the first m are not too long,   *)
(* and the others of the kinds whose length is not bounded.                *)
Mixed(s, m) ==
    /\ \E O : s \in Seq(O) /\ \A o \in O : Wellformed(o)
    /\ m \in 0..Len(s)
    /\ \A i \in Nat : i >= 1 /\ i <= m => ~ Overlong(s[i])
    /\ \A i \in Nat : i >= 1 /\ i <= Len(s) /\ i > m => s[i].kind \in LongKinds

LEMMA TermsFirst ==
  ASSUME NEW h, Terms(h), NEW s, NEW m, Mixed(s, m)
  PROVE  /\ Mixed(h \o s, Len(h) + m)
         /\ Len(h) >= 1 => (h \o s)[1] = h[1]
<1>1. PICK H : h \in Seq(H) /\ \A o \in H : Wellformed(o) /\ ~ Overlong(o)
  BY DEF Terms
<1>2. PICK O : s \in Seq(O) /\ \A o \in O : Wellformed(o)
  BY DEF Mixed
<1> DEFINE U == H \cup O
           r == h \o s
<1>3. h \in Seq(U) /\ s \in Seq(U) /\ \A o \in U : Wellformed(o)
  BY <1>1, <1>2
<1> HIDE DEF U
<1>4. Joined(r, h, s, U)
  BY <1>3, ConcatAt
<1>5. Len(h) \in Nat /\ Len(s) \in Nat /\ m \in Nat /\ m <= Len(s)
  BY <1>1, <1>2 DEF Mixed
<1> HIDE DEF r
<1>6. r \in Seq(U) /\ Len(r) = Len(h) + Len(s)
  BY <1>4 DEF Joined
<1>7. ASSUME NEW i \in Nat, i >= 1, i <= Len(h) + m PROVE ~ Overlong(r[i])
  <2>1. CASE i <= Len(h)
    <3>1. r[i] = h[i]
      BY <1>4, <1>7, <2>1 DEF Joined
    <3>2. h[i] \in H
      BY <1>1, <1>7, <2>1
    <3> QED
      BY <1>1, <3>1, <3>2
  <2>2. CASE i > Len(h)
    <3> DEFINE k == i - Len(h)
    <3>1. k \in Nat /\ k >= 1 /\ k <= m /\ k <= Len(s) /\ Len(h) + k = i
      BY <1>5, <1>7, <2>2
    <3> HIDE DEF k
    <3>2. r[Len(h) + k] = s[k]
      BY <1>4, <3>1 DEF Joined
    <3> QED
      BY <3>1, <3>2 DEF Mixed
  <2> QED
    BY <1>5, <1>7, <2>1, <2>2
<1>8. ASSUME NEW i \in Nat, i >= 1, i <= Len(r), i > Len(h) + m PROVE r[i].kind \in LongKinds
  <2> DEFINE k == i - Len(h)
  <2>1. k \in Nat /\ k >= 1 /\ k > m /\ k <= Len(s) /\ Len(h) + k = i
    BY <1>5, <1>6, <1>8
  <2> HIDE DEF k
  <2>2. r[Len(h) + k] = s[k]
    BY <1>4, <2>1 DEF Joined
  <2> QED
    BY <2>1, <2>2 DEF Mixed
<1>9. Len(h) + m \in 0..Len(r)
  BY <1>5, <1>6
<1>10. Mixed(r, Len(h) + m)
  BY <1>3, <1>6, <1>7, <1>8, <1>9 DEF Mixed
<1>11. Len(h) >= 1 => r[1] = h[1]
  BY <1>4 DEF Joined
<1> QED
  BY <1>10, <1>11 DEF r

(* The other way to put a sequence together: what follows is long. *)
LEMMA LongLast ==
  ASSUME NEW h, NEW m, Mixed(h, m), NEW T, NEW t \in Seq(T),
         \A o \in T : Wellformed(o) /\ o.kind \in LongKinds
  PROVE  Mixed(h \o t, m)
<1>2. PICK O : h \in Seq(O) /\ \A o \in O : Wellformed(o)
  BY DEF Mixed
<1> DEFINE U == T \cup O
           r == h \o t
<1>3. h \in Seq(U) /\ t \in Seq(U) /\ \A o \in U : Wellformed(o)
  BY <1>2
<1> HIDE DEF U
<1>4. Joined(r, h, t, U)
  BY <1>3, ConcatAt
<1>5. Len(h) \in Nat /\ Len(t) \in Nat /\ m \in Nat /\ m <= Len(h)
  BY <1>2 DEF Mixed
<1> HIDE DEF r
<1>6. r \in Seq(U) /\ Len(r) = Len(h) + Len(t)
  BY <1>4 DEF Joined
<1>7. ASSUME NEW i \in Nat, i >= 1, i <= m PROVE ~ Overlong(r[i])
  <2>1. r[i] = h[i]
    BY <1>4, <1>5, <1>7 DEF Joined
  <2> QED
    BY <1>7, <2>1 DEF Mixed
<1>8. ASSUME NEW i \in Nat, i >= 1, i <= Len(r), i > m PROVE r[i].kind \in LongKinds
  <2>1. CASE i <= Len(h)
    <3>1. r[i] = h[i]
      BY <1>4, <1>8, <2>1 DEF Joined
    <3> QED
      BY <1>8, <2>1, <3>1 DEF Mixed
  <2>2. CASE i > Len(h)
    <3> DEFINE k == i - Len(h)
    <3>1. k \in Nat /\ k >= 1 /\ k <= Len(t) /\ Len(h) + k = i
      BY <1>5, <1>6, <1>8, <2>2
    <3> HIDE DEF k
    <3>2. r[Len(h) + k] = t[k]
      BY <1>4, <3>1 DEF Joined
    <3>3. t[k] \in T
      BY <3>1
    <3> QED
      BY <3>1, <3>2, <3>3
  <2> QED
    BY <1>5, <1>8, <2>1, <2>2
<1>9. m \in 0..Len(r)
  BY <1>5, <1>6
<1>10. Mixed(r, m)
  BY <1>3, <1>6, <1>7, <1>8, <1>9 DEF Mixed
<1> QED
  BY <1>10 DEF r

LEMMA LargerSeq ==
  ASSUME NEW S, NEW T, S \subseteq T, NEW s \in Seq(S)
  PROVE  s \in Seq(T)
<1>1. \A i \in 1..Len(s) : s[i] \in T
  OBVIOUS
<1> QED
  BY <1>1

LEMMA TupleSeq ==
  ASSUME NEW S, NEW n \in Nat, NEW f \in [1..n -> S]
  PROVE  f \in Seq(S) /\ Len(f) = n
  OBVIOUS

LEMMA MaskBytes ==
  ASSUME NEW prefix \in Nat, prefix < 256
  PROVE  netmask_from_prefix(prefix) \in Seq(Nat) /\ Len(netmask_from_prefix(prefix)) = 4
<1> DEFINE ones == IF prefix = 0 THEN 0 ELSE 32 - ((288 - prefix) % 32)
           bits(k) == IF ones <= 8 * (k - 1) THEN 0
                      ELSE IF ones >= 8 * k THEN 8 ELSE ones - 8 * (k - 1)
           mask == [k \in 1..4 |-> LeadingOnes[bits(k) + 1]]
<1>1. ones \in Nat
  <2>1. 288 - prefix \in Nat /\ (288 - prefix) % 32 \in Nat /\ (288 - prefix) % 32 < 32
    BY SMT
  <2> HIDE DEF ones
  <2> QED
    BY <2>1, SMT DEF ones
<1> HIDE DEF ones
<1>2. \A k \in 1..4 : bits(k) + 1 \in 1..9
  BY <1>1, SMT
<1>3. \A n \in 1..9 : LeadingOnes[n] \in Nat
  BY DEF LeadingOnes
<1> HIDE DEF bits
<1>4. mask \in [1..4 -> Nat]
  BY <1>2, <1>3
<1>5. netmask_from_prefix(prefix) = mask
  BY DEF netmask_from_prefix, ones, bits
<1>6. 4 \in Nat
  OBVIOUS
<1> HIDE DEF mask
<1>7. mask \in Seq(Nat) /\ Len(mask) = 4
  BY <1>4, <1>6, TupleSeq
<1> QED
  BY <1>5, <1>7

LEMMA AddressBytes ==
  ASSUME NEW a \in Ipv4Addr
  PROVE  a \in Seq(Nat) /\ Len(a) = 4
<1>1. a \in Seq(0..255) /\ Len(a) = 4
  BY DEF Ipv4Addr
<1>2. 0..255 \subseteq Nat
  OBVIOUS
<1> QED
  BY <1>1, <1>2, LargerSeq

LEMMA AddressesBytes ==
  ASSUME NEW addrs \in Seq(Ipv4Addr)
  PROVE  addrs \in Seq(Seq(Nat)) /\ \A i \in 1..Len(addrs) : Len(addrs[i]) = 4
<1>1. Ipv4Addr \subseteq Seq(Nat)
  BY AddressBytes
<1>2. addrs \in Seq(Seq(Nat))
  <2> DEFINE S == Ipv4Addr
             T == Seq(Nat)
  <2>1. S \subseteq T /\ addrs \in Seq(S)
    BY <1>1
  <2> HIDE DEF S, T
  <2>2. addrs \in Seq(T)
    BY <2>1, LargerSeq
  <2> QED
    BY <2>2 DEF T
<1>3. ASSUME NEW i \in 1..Len(addrs) PROVE Len(addrs[i]) = 4
  <2> DEFINE S == Ipv4Addr
  <2>1. addrs \in Seq(S)
    OBVIOUS
  <2> HIDE DEF S
  <2>2. addrs[i] \in S
    BY <2>1, ElementOfSeq
  <2> QED
    BY <2>2, AddressBytes DEF S
<1> QED
  BY <1>2, <1>3

(* The options about the subnet: mask and router come first. *)
LEMMA SubnetMixed ==
  ASSUME NEW d \in Decisions
  PROVE  Mixed(SubnetOptions(d.subnet), 2)
<1> DEFINE m == Option("SubnetMask", netmask_from_prefix(d.subnet.netmask))
           r == Option("Router", <<d.subnet.gateway>>)
           n == Option("DnsServer", d.subnet.dns_servers)
           names == d.subnet.domain_name
           T == {Option("DomainName", names[i]) : i \in DOMAIN names}
           head == <<m, r, n>>
           tail == [i \in DOMAIN names |-> Option("DomainName", names[i])]
<1>1. SubnetOptions(d.subnet) = head \o tail
  BY DEF SubnetOptions
<1>2. /\ d.subnet.netmask \in Nat /\ d.subnet.netmask < 256
      /\ d.subnet.gateway \in Ipv4Addr
      /\ d.subnet.dns_servers \in Seq(Ipv4Addr)
      /\ names \in Seq(Seq(0..255))
  BY ReplyAssumption DEF ReplyAssumption
<1>3. Wellformed(m) /\ ~ Overlong(m)
  <2>1. "SubnetMask" \in AddrKinds
    BY DEF AddrKinds
  <2> QED
    BY <1>2, <2>1, MaskBytes, AddrWellformed
<1>4. Wellformed(r) /\ ~ Overlong(r)
  <2> DEFINE addrs == <<d.subnet.gateway>>
  <2>1. "Router" \in ListKinds
    BY DEF ListKinds
  <2>2. addrs \in Seq(Ipv4Addr) /\ Len(addrs) = 1
    BY <1>2
  <2> HIDE DEF addrs
  <2>3. addrs \in Seq(Seq(Nat)) /\ \A i \in 1..Len(addrs) : Len(addrs[i]) = 4
    BY <2>2, AddressesBytes
  <2>4. Wellformed(Option("Router", addrs)) /\ (4 * Len(addrs) <= 255 => ~ Overlong(Option("Router", addrs)))
    BY <2>1, <2>3, ListWellformed
  <2>5. 4 * Len(addrs) <= 255
    BY <2>2
  <2> QED
    BY <2>4, <2>5 DEF addrs
<1>5. Wellformed(n)
  <2>1. "DnsServer" \in ListKinds
    BY DEF ListKinds
  <2> QED
    BY <1>2, <2>1, AddressesBytes, ListWellformed
<1>6. \A o \in T : Wellformed(o) /\ o.kind \in LongKinds
  <2>1. "DomainName" \in TextKinds
    BY DEF TextKinds
  <2>2. ASSUME NEW i \in DOMAIN names PROVE names[i] \in Seq(Nat)
    <3>1. names[i] \in Seq(0..255)
      BY <1>2
    <3>2. 0..255 \subseteq Nat
      OBVIOUS
    <3> QED
      BY <3>1, <3>2, LargerSeq
  <2>3. \A i \in DOMAIN names : Wellformed(Option("DomainName", names[i]))
    BY <2>1, <2>2, TextWellformed
  <2>4. \A i \in DOMAIN names : Option("DomainName", names[i]).kind \in LongKinds
    BY DEF Option, LongKinds
  <2> QED
    BY <2>3, <2>4
<1>7. tail \in Seq(T)
  <2>2. DOMAIN names = 1..Len(names) /\ Len(names) \in Nat
    BY <1>2
  <2>3. tail \in [1..Len(names) -> T]
    BY <2>2
  <2> QED
    BY <2>2, <2>3
<1>8. n.kind \in LongKinds
  BY DEF Option, LongKinds
<1> HIDE DEF m, r, n, T, tail
<1>9. Mixed(head, 2)
  <2>1. head \in Seq({m, r, n}) /\ Len(head) = 3 /\ head[1] = m /\ head[2] = r /\ head[3] = n
    OBVIOUS
  <2>2. \A o \in {m, r, n} : Wellformed(o)
    BY <1>3, <1>4, <1>5
  <2> HIDE DEF head
  <2>3. 2 \in 0..Len(head)
    BY <2>1
  <2>4. ASSUME NEW i \in Nat, i >= 1, i <= 2 PROVE ~ Overlong(head[i])
    <3>1. i = 1 \/ i = 2
      BY <2>4
    <3> QED
      BY <1>3, <1>4, <2>1, <3>1
  <2>5. ASSUME NEW i \in Nat, i >= 1, i <= Len(head), i > 2 PROVE head[i].kind \in LongKinds
    <3>1. i = 3
      BY <2>1, <2>5
    <3> QED
      BY <1>8, <2>1, <3>1
  <2> QED
    BY <2>1, <2>2, <2>3, <2>4, <2>5 DEF Mixed
<1> HIDE DEF head
<1> QED
  BY <1>1, <1>6, <1>7, <1>9, LongLast

(* What both replies are: a message type first, the terms, and the long    *)
(* options last.                                                           *)
Answer(opts) ==
    /\ opts[1].kind = "MessageType"
    /\ \E m \in Nat : m >= 1 /\ Mixed(opts, m)

LEMMA TimesTyped ==
  ASSUME NEW lease \in Nat
  PROVE  RenewalTime(lease) \in Nat /\ RebindingTime(lease) \in Nat
<1>1. U32 \in Nat \ {0}
  BY ReplyAssumption DEF ReplyAssumption
<1>2. (lease * 7) % U32 \in Nat
  BY <1>1
<1> QED
  BY <1>2 DEF RenewalTime, RebindingTime

LEMMA HeadTerms ==
  ASSUME NEW d \in Decisions, NEW lease \in Nat, NEW mt \in {"Offer", "Ack"}
  PROVE  \A o \in {Option("MessageType", mt), Option("ServerIdentifier", d.subnet.gateway),
                   Option("LeaseTime", lease), Option("RenewalTime", RenewalTime(lease)),
                   Option("RebindingTime", RebindingTime(lease))} :
            Wellformed(o) /\ ~ Overlong(o)
<1> DEFINE Fine(o) == Wellformed(o) /\ ~ Overlong(o)
<1>1. Fine(Option("MessageType", mt))
  BY TypeWellformed
<1>2. Fine(Option("ServerIdentifier", d.subnet.gateway))
  <2>1. d.subnet.gateway \in Ipv4Addr
    BY ReplyAssumption DEF ReplyAssumption
  <2>2. "ServerIdentifier" \in AddrKinds
    BY DEF AddrKinds
  <2> QED
    BY <2>1, <2>2, AddressBytes, AddrWellformed
<1>3. /\ Fine(Option("LeaseTime", lease))
      /\ Fine(Option("RenewalTime", RenewalTime(lease)))
      /\ Fine(Option("RebindingTime", RebindingTime(lease)))
  <2>1. "LeaseTime" \in TimeKinds /\ "RenewalTime" \in TimeKinds /\ "RebindingTime" \in TimeKinds
    BY DEF TimeKinds
  <2> QED
    BY <2>1, TimesTyped, TimeWellformed
<1> QED
  BY <1>1, <1>2, <1>3

LEMMA OfferAnswers ==
  ASSUME NEW d \in Decisions, NEW lease \in Nat, NEW request
  PROVE  Answer(create_offer(request, d.ip, d.subnet, lease).options)
<1> DEFINE a == Option("MessageType", "Offer")
           b == Option("ServerIdentifier", d.subnet.gateway)
           c == Option("LeaseTime", lease)
           head == <<a, b, c>>
           s == SubnetOptions(d.subnet)
<1>1. create_offer(request, d.ip, d.subnet, lease).options = head \o s
  BY DEF create_offer
<1>2. \A o \in {a, b, c} : Wellformed(o) /\ ~ Overlong(o)
  BY HeadTerms
<1>3. a.kind = "MessageType"
  BY DEF Option
<1>4. Mixed(s, 2)
  BY SubnetMixed
<1> HIDE DEF a, b, c, s
<1>5. head \in Seq({a, b, c}) /\ Len(head) = 3 /\ head[1] = a
  OBVIOUS
<1> HIDE DEF head
<1>6. Terms(head)
  BY <1>2, <1>5 DEF Terms
<1>7. Mixed(head \o s, Len(head) + 2) /\ (Len(head) >= 1 => (head \o s)[1] = head[1])
  BY <1>4, <1>6, TermsFirst
<1>8. Len(head) >= 1 /\ Len(head) + 2 \in Nat /\ Len(head) + 2 >= 1
  BY <1>5
<1> QED
  BY <1>1, <1>3, <1>5, <1>7, <1>8 DEF Answer

LEMMA AckAnswers ==
  ASSUME NEW d \in Decisions, NEW lease \in Nat, NEW request
  PROVE  Answer(create_ack(request, d.ip, d.subnet, lease).options)
<1> DEFINE a == Option("MessageType", "Ack")
           b == Option("ServerIdentifier", d.subnet.gateway)
           c == Option("LeaseTime", lease)
           e == Option("RenewalTime", RenewalTime(lease))
           f == Option("RebindingTime", RebindingTime(lease))
           head == <<a, b, c, e, f>>
           s == SubnetOptions(d.subnet)
<1>1. create_ack(request, d.ip, d.subnet, lease).options = head \o s
  BY DEF create_ack
<1>2. \A o \in {a, b, c, e, f} : Wellformed(o) /\ ~ Overlong(o)
  BY HeadTerms
<1>3. a.kind = "MessageType"
  BY DEF Option
<1>4. Mixed(s, 2)
  BY SubnetMixed
<1> HIDE DEF a, b, c, e, f, s
<1>5. head \in Seq({a, b, c, e, f}) /\ Len(head) = 5 /\ head[1] = a
  OBVIOUS
<1> HIDE DEF head
<1>6. Terms(head)
  BY <1>2, <1>5 DEF Terms
<1>7. Mixed(head \o s, Len(head) + 2) /\ (Len(head) >= 1 => (head \o s)[1] = head[1])
  BY <1>4, <1>6, TermsFirst
<1>8. Len(head) >= 1 /\ Len(head) + 2 \in Nat /\ Len(head) + 2 >= 1
  BY <1>5
<1> QED
  BY <1>1, <1>3, <1>5, <1>7, <1>8 DEF Answer

LEMMA SameStart ==
  ASSUME NEW S, NEW s \in Seq(S), NEW U, NEW r \in Seq(U), NEW n \in Nat,
         n <= Len(s), n <= Len(r), \A k \in 1..n : r[k] = s[k]
  PROVE  SubSeq(r, 1, n) = SubSeq(s, 1, n)
<1>1. Len(s) \in Nat /\ Len(r) \in Nat
  OBVIOUS
<1>2. \A k \in 1..n : s[k] \in S /\ r[k] \in S
  BY <1>1
<1>3. 1 \in Int /\ n \in Int /\ n - 1 + 1 = n /\ \A k \in 1..n : 1 + k - 1 = k
  OBVIOUS
<1> DEFINE a == SubSeq(r, 1, n)
           b == SubSeq(s, 1, n)
           len == IF 1 <= n THEN n - 1 + 1 ELSE 0
<1>4. a \in Seq(S) /\ Len(a) = len /\ \A k \in 1..(n - 1 + 1) : a[k] = r[1 + k - 1]
  BY <1>2, <1>3, SubSeqProperties
<1>5. b \in Seq(S) /\ Len(b) = len /\ \A k \in 1..(n - 1 + 1) : b[k] = s[1 + k - 1]
  BY <1>2, <1>3, SubSeqProperties
<1>6. len = n
  OBVIOUS
<1> HIDE DEF a, b, len
<1>7. \A k \in 1..Len(b) : a[k] = b[k]
  BY <1>3, <1>4, <1>5, <1>6
<1>8. a = b
  BY <1>4, <1>5, <1>7, SameSeq
<1> QED
  BY <1>8 DEF a, b

(* The first option is the message type, whatever follows it. *)
LEMMA TypeIsFirst ==
  ASSUME NEW p, NEW S, p.options \in Seq(S), Len(p.options) >= 1,
         p.options[1].kind = "MessageType"
  PROVE  get_message_type(p) = {p.options[1].value}
<1> DEFINE at == {i \in DOMAIN p.options : p.options[i].kind = "MessageType"}
<1>1. DOMAIN p.options = 1..Len(p.options) /\ Len(p.options) \in Nat
  OBVIOUS
<1>2. 1 \in at /\ \A k \in at : 1 <= k /\ k \in Nat
  BY <1>1
<1>3. get_message_type(p) = {p.options[i].value : i \in {j \in at : \A k \in at : j <= k}}
  BY DEF get_message_type
<1> HIDE DEF at
<1>4. {j \in at : \A k \in at : j <= k} = {1}
  BY <1>2
<1> QED
  BY <1>3, <1>4

(* The client understands p as the response. *)
Understood(p, response) ==
    LET sent == response.options
        long == {i \in DOMAIN sent : Overlong(sent[i])}
        good == IF long = {} THEN Len(sent) ELSE (CHOOSE i \in long :
                                      \A j \in long : i <= j) - 1
    IN  /\ p.fields = response.fields
        /\ long = {} => p.options = Append(sent, End)
        /\ Len(p.options) >= good
        /\ SubSeq(p.options, 1, good) = SubSeq(sent, 1, good)
        /\ get_message_type(p) = get_message_type(response)
        /\ \A i \in DOMAIN sent :
              sent[i].kind \notin {"DnsServer", "DomainName"} =>
                  \E j \in 1..good : sent[j] = sent[i]

LEMMA AnswerUnderstood ==
  ASSUME NEW response, Answer(response.options), NEW p \in parse(to_bytes(response))
  PROVE  Understood(p, response)
<1> DEFINE sent == response.options
           long == {i \in DOMAIN sent : Overlong(sent[i])}
           good == IF long = {} THEN Len(sent) ELSE (CHOOSE i \in long :
                                         \A j \in long : i <= j) - 1
           bytes == FlattenSeq([i \in DOMAIN sent |-> option_to_bytes(sent[i])] \o <<<<255>>>>)
<1>1. p.fields = response.fields /\ p.options = parse_options(bytes)
  BY DEF parse, to_bytes, Datagram
<1>2. PICK m \in Nat : m >= 1 /\ Mixed(sent, m)
  BY DEF Answer
<1>3. PICK O : sent \in Seq(O) /\ \A o \in O : Wellformed(o)
  BY <1>2 DEF Mixed
<1> HIDE DEF sent
<1>4. Len(sent) \in Nat /\ DOMAIN sent = 1..Len(sent) /\ \A i \in 1..Len(sent) : Wellformed(sent[i])
  BY <1>3
<1>5. m <= Len(sent)
  BY <1>2 DEF Mixed
<1>6. /\ good \in 0..Len(sent) /\ m <= good /\ \A i \in 1..good : ~ Overlong(sent[i])
      /\ long = {} => good = Len(sent)
  <2>1. CASE long = {}
    BY <1>4, <1>5, <2>1
  <2>2. CASE long # {}
    <3>1. long \subseteq Nat
      BY <1>4
    <3> DEFINE least == CHOOSE i \in long : \A j \in long : i <= j
    <3>2. least \in long /\ \A j \in long : least <= j
      <4> HIDE DEF long
      <4> QED
        BY <2>2, <3>1, LeastNumber
    <3>3. good = least - 1
      BY <2>2
    <3> HIDE DEF least, good
    <3>4. least \in 1..Len(sent) /\ Overlong(sent[least])
      BY <1>4, <3>2
    <3>5. least > m
      BY <1>2, <3>4 DEF Mixed
    <3>6. ASSUME NEW i \in 1..good PROVE ~ Overlong(sent[i])
      <4>1. i \in DOMAIN sent /\ ~ (least <= i)
        BY <1>4, <3>3, <3>4
      <4> QED
        BY <3>2, <4>1
    <3>7. good \in 0..Len(sent) /\ m <= good
      BY <1>4, <3>3, <3>4, <3>5
    <3> QED
      BY <2>2, <3>6, <3>7
  <2> QED
    BY <2>1, <2>2
<1> HIDE DEF good, long
<1>7. ReadBack(p.options, sent, good)
  BY <1>1, <1>3, <1>4, <1>6, ReadsBack
<1>8. PICK U : p.options \in Seq(U)
  BY <1>7 DEF ReadBack
<1>9. good \in Nat /\ good <= Len(sent) /\ good <= Len(p.options) /\ good >= 1
      /\ Len(p.options) >= 1
  <2>1. m \in Nat /\ m >= 1 /\ good \in 0..Len(sent) /\ m <= good
    BY <1>2, <1>6
  <2>2. good \in Nat /\ good <= Len(sent) /\ good >= 1
    BY <1>4, <2>1
  <2>3. good <= Len(p.options)
    BY <1>7 DEF ReadBack
  <2>4. Len(p.options) \in Nat
    BY <1>8
  <2> QED
    BY <2>2, <2>3, <2>4
<1>10. SubSeq(p.options, 1, good) = SubSeq(sent, 1, good)
  <2>1. \A k \in 1..good : p.options[k] = sent[k]
    BY <1>7 DEF ReadBack
  <2> QED
    BY <1>3, <1>8, <1>9, <2>1, SameStart
<1>11. long = {} => p.options = Append(sent, End)
  BY <1>6, <1>7 DEF ReadBack
<1>12. get_message_type(p) = get_message_type(response)
  <2>1. p.options[1] = sent[1]
    BY <1>7, <1>9 DEF ReadBack
  <2>2. sent[1].kind = "MessageType"
    BY DEF Answer, sent
  <2>3. get_message_type(p) = {p.options[1].value}
    BY <1>8, <1>9, <2>1, <2>2, TypeIsFirst
  <2>4. get_message_type(response) = {sent[1].value}
    BY <1>3, <1>4, <1>9, <2>2, TypeIsFirst DEF sent
  <2> QED
    BY <2>1, <2>3, <2>4
<1>13. ASSUME NEW i \in DOMAIN sent, sent[i].kind \notin {"DnsServer", "DomainName"}
       PROVE  \E j \in 1..good : sent[j] = sent[i]
  <2>1. i \in Nat /\ i >= 1 /\ i <= Len(sent)
    BY <1>4
  <2>2. ~ (i > m)
    BY <1>2, <1>13, <2>1 DEF Mixed, LongKinds
  <2>3. i \in 1..good
    BY <1>6, <1>9, <2>1, <2>2
  <2> QED
    BY <2>3
<1> QED
  BY <1>1, <1>9, <1>10, <1>11, <1>12, <1>13 DEF Understood, sent, long, good

(* A reply on the wire is the bytes of its response. *)
PayloadInv == Answered => out.payload = to_bytes(out.response)

LEMMA PayloadStep ==
  ASSUME PayloadInv, [Next]_vars
  PROVE  PayloadInv'
<1> USE DEF PayloadInv
<1>1. ASSUME out' = out PROVE PayloadInv'
  BY <1>1 DEF Answered
<1>2. ASSUME out' = Nothing PROVE PayloadInv'
  BY <1>2 DEF Answered
<1>3. CASE HandleReturns
  <2>1. ASSUME NEW r \in Responses(cur[1].packet, config.default_lease_time),
               SendReply(cur[1].iface, cur[1].packet.fields, r)
        PROVE  PayloadInv'
    <3>1. CASE SendFails(cur[1].iface, cur[1].packet.fields, r)
      BY <1>2, <3>1 DEF SendFails
    <3>2. CASE ~ SendFails(cur[1].iface, cur[1].packet.fields, r)
      <4>1. out'.response = r /\ out'.payload = to_bytes(r)
        BY <2>1, <3>2 DEF SendReply, SendL2, SendUdp, SendBroadcast, Sent
      <4> QED
        BY <4>1
    <3> QED
      BY <3>1, <3>2
  <2> QED
    BY <1>1, <1>3, <2>1 DEF HandleReturns, replyVars
<1>4. CASE CallRecv \/ StartFails \/ Crash
  BY <1>2, <1>4 DEF CallRecv, StartFails, Crash, Dies, TasksDown
<1>5. CASE Start
  BY <1>1, <1>5 DEF Start, Exec, FirstLoad, SecondLoad, OpenDatabase, BindUnix, BindTcp,
                    SpawnServers, TasksSame, replyVars
<1>6. CASE ListenSetup \/ ListenSetupFails \/ RecvDropped \/ RecvPacket \/ RecvError
  BY <1>1, <1>6 DEF ListenSetup, ListenSetupFails, RecvDropped, RecvPacket, RecvError, replyVars
<1>7. ASSUME NEW t \in Tasks, Wake(t) \/ Poll(t)
      PROVE  PayloadInv'
  BY <1>1, <1>7 DEF Wake, Poll, replyVars
<1>8. CASE Arrive \/ EditFile \/ OtherStart \/ UNCHANGED vars
  BY <1>1, <1>8 DEF Arrive, EditFile, OtherStart, TasksSame, vars, replyVars
<1> QED
  BY <1>3, <1>4, <1>5, <1>6, <1>7, <1>8 DEF Next, Listen

LEMMA ReadableFollows == ReplyInv /\ PayloadInv => ReplyReadable
<1> SUFFICES ASSUME ReplyInv, PayloadInv, Answered, NEW p \in parse(out.payload)
             PROVE  Understood(p, out.response)
  BY DEF ReplyReadable, Understood
<1>1. PICK d \in Decisions :
         out.response \in
             {create_offer(out.request, d.ip, d.subnet, config.default_lease_time),
              create_ack(out.request, d.ip, d.subnet, config.default_lease_time)}
  BY DEF ReplyInv
<1>2. config.default_lease_time \in Nat
  BY DEF ReplyInv
<1>3. Answer(out.response.options)
  BY <1>1, <1>2, OfferAnswers, AckAnswers
<1>4. p \in parse(to_bytes(out.response))
  BY DEF PayloadInv
<1> QED
  BY <1>3, <1>4, AnswerUnderstood

(***************************************************************************)
(* A client that parses a reply of the daemon gets its fields and its      *)
(* options back, for every subnet and every lease time: all of them when   *)
(* each fits its length byte, and in any case the message type, the server *)
(* and the terms of the lease, which create_offer and create_ack write     *)
(* before the options of unbounded length.                                 *)
(***************************************************************************)
THEOREM RepliesReadable == Spec => []ReplyReadable
<1>1. Init => ReplyInv /\ PayloadInv
  BY DEF Init, ReplyInit, ReplyInv, PayloadInv, Answered, DefaultConfig
<1>2. ProcInv /\ ReplyInv /\ [Next]_vars => ReplyInv'
  BY ReplyStep DEF ProcInv
<1>3. PayloadInv /\ [Next]_vars => PayloadInv'
  BY PayloadStep
<1> QED
  BY <1>1, <1>2, <1>3, ReadableFollows, ProcessInvariant, PTL DEF Spec
=============================================================================
