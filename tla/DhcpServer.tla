----------------------------- MODULE DhcpServer -----------------------------
(***************************************************************************)
(* The DHCPv4 server (dhcp/server.rs): the receive loop, the three message *)
(* handlers and the lease cleanup task.  One task runs the receive loop    *)
(* and handles one packet at a time, but every database call is an await:  *)
(* the API, the cleanup task and the clock move between any two of them.   *)
(* So a handler is a program counter and a frame of locals, and each       *)
(* action below is the code from one await to the next.                    *)
(***************************************************************************)
EXTENDS Store

CONSTANTS
    Iface,                \* network interfaces
    ListenInterfaces,     \* config.listen_interfaces
    IfaceIps,             \* the addresses getifaddrs reports for each one
    DefaultLeaseTime      \* config.dhcp.default_lease_time

ASSUME ServerAssumption ==
    /\ ListenInterfaces \subseteq Iface
    /\ IfaceIps \in [Iface -> SUBSET Addr]
    /\ DefaultLeaseTime \in Nat

VARIABLES
    pc,           \* the await the receive loop is suspended at
    pkt,          \* the packet being handled
    frame,        \* the handler's locals
    acked,        \* history: the bindings clients hold because of an ACK
    offer         \* history: the last OFFER, while nothing has changed since

serverVars == <<pc, pkt, frame>>
historyVars == <<acked, offer>>

NoAddr == -1

Packet == [type : {"DISCOVER", "REQUEST", "RELEASE", "OTHER"}, mac : Mac,
           iface : Iface, opt50 : Addr \cup {NoAddr}, ciaddr : Addr]

NoPacket == [type |-> "OTHER", mac |-> CHOOSE m \in Mac : TRUE,
             iface |-> CHOOSE i \in Iface : TRUE, opt50 |-> NoAddr,
             ciaddr |-> Unspecified]

(* The part of a static_ips or leases row that later statements use. *)
Row == [id : Nat, ip : Addr, subnet_id : Nat]
NoRow == [id |-> 0, ip |-> 0, subnet_id |-> 0]

Frame == [iface_ips : SUBSET Addr,      \* get_interface_ips, once per packet
          received  : Nat,              \* when the packet was read (history)
          row       : Row,              \* the static assignment or lease found
          subnets   : SUBSET SubnetRow, \* subnets the DISCOVER loop has left
          leased    : SUBSET Addr,      \* leased_ips
          ranges    : SUBSET RangeRow,  \* ranges the REQUEST loop has left
          subnet_id : Nat,              \* matching_range.subnet_id
          now       : Nat]              \* the timestamp read for the new lease

NoFrame == [iface_ips |-> {}, received |-> 0, row |-> NoRow, subnets |-> {},
            leased |-> {}, ranges |-> {}, subnet_id |-> 0, now |-> 0]

(* A binding a client holds: address, interface, and when it must stop.    *)
Binding == [mac : Mac, ip : Addr, iface : Iface, until : Nat, dynamic : BOOLEAN]

NoOffer == [ip |-> NoAddr, mac |-> NoPacket.mac, iface |-> NoPacket.iface]

PC == {"idle",
       "d_static", "d_static_subnet", "d_lease", "d_lease_subnet",
       "d_subnets", "d_leases", "d_ranges",
       "r_static", "r_static_subnet", "r_ranges", "r_subnet",
       "r_leases", "r_expire", "r_create",
       "rel_lease", "rel_expire"}

ServerTypeOK ==
    /\ pc \in PC
    /\ pkt \in Packet
    /\ frame \in Frame
    /\ acked \subseteq Binding
    /\ offer \in [ip : Addr \cup {NoAddr}, mac : Mac, iface : Iface]

ServerInit ==
    /\ pc = "idle"
    /\ pkt = NoPacket
    /\ frame = NoFrame
    /\ acked = {}
    /\ offer = NoOffer

-----------------------------------------------------------------------------
(* Control: where a handler goes next.                                     *)

Goto(next) == pc' = next /\ UNCHANGED <<pkt, frame>>

(* The handler returns; the loop sends the reply, if any, and reads again. *)
Return == pc' = "idle" /\ pkt' = NoPacket /\ frame' = NoFrame

(* A read: the tables are as they were. *)
ReadOnly == UNCHANGED <<subnets, ranges, statics, leases, seq, now>>

NoReply == Return /\ UNCHANGED historyVars

SendOffer(ip) ==
    /\ Return
    /\ offer' = [ip |-> ip, mac |-> pkt.mac, iface |-> pkt.iface]
    /\ UNCHANGED acked

(***************************************************************************)
(* A client measures its lease from the moment it sent the REQUEST, which  *)
(* is no later than the moment the server read it.  The new binding        *)
(* replaces the one the client had on that interface.                      *)
(***************************************************************************)
SendAck(ip, dynamic) ==
    /\ Return
    /\ acked' = {b \in acked : ~(b.mac = pkt.mac /\ b.iface = pkt.iface)}
                \cup {[mac |-> pkt.mac, ip |-> ip, iface |-> pkt.iface,
                       until |-> frame.received + DefaultLeaseTime,
                       dynamic |-> dynamic]}
    /\ offer' = NoOffer

(* Option 50, else ciaddr, else the request is dropped. *)
RequestedIp(p) ==
    IF p.opt50 # NoAddr THEN p.opt50
    ELSE IF p.ciaddr # Unspecified THEN p.ciaddr ELSE NoAddr

(***************************************************************************)
(* Packets that change nothing are dropped where they arrive: on an        *)
(* unmanaged interface, unparsable, without a message type, of another     *)
(* type, or a REQUEST that names no address.                               *)
(***************************************************************************)
Handled(p) ==
    /\ p.iface \in ListenInterfaces
    /\ \/ p.type \in {"DISCOVER", "RELEASE"}
       \/ p.type = "REQUEST" /\ RequestedIp(p) # NoAddr

FirstStep == [DISCOVER |-> "d_static", REQUEST |-> "r_static", RELEASE |-> "rel_lease"]

(* getifaddrs may fail, and then the interface has no addresses. *)
get_interface_ips(i) == {IfaceIps[i], {}}

(***************************************************************************)
(* recvmsg, parse and the head of handle_packet.  A client that sends a    *)
(* RELEASE has stopped using the address it names.                         *)
(***************************************************************************)
RecvPacket(p) ==
    /\ pc = "idle"
    /\ Handled(p)
    /\ pc' = FirstStep[p.type]
    /\ pkt' = p
    /\ \E ips \in get_interface_ips(p.iface) :
          /\ frame' = [NoFrame EXCEPT !.iface_ips = ips, !.received = now]
          /\ offer' = IF ips = IfaceIps[p.iface] THEN offer ELSE NoOffer
    /\ acked' = IF p.type = "RELEASE"
                THEN {b \in acked : ~(b.mac = p.mac /\ b.ip = p.ciaddr /\ b.iface = p.iface)}
                ELSE acked
    /\ UNCHANGED storeVars

-----------------------------------------------------------------------------
(* handle_discover                                                         *)

RowOf(r) == [id |-> 0, ip |-> r.ip, subnet_id |-> r.subnet_id]
LeaseRowOf(l) == [id |-> l.id, ip |-> l.ip, subnet_id |-> l.subnet_id]

DiscoverStatic ==
    /\ pc = "d_static"
    /\ ReadOnly /\ UNCHANGED historyVars
    /\ \/ /\ DbOk
          /\ \E s \in get_static_ip_by_mac(pkt.mac) :
                 frame' = [frame EXCEPT !.row = RowOf(s)]
          /\ pc' = "d_static_subnet" /\ UNCHANGED pkt
       \/ /\ DbOk /\ get_static_ip_by_mac(pkt.mac) = {} /\ Goto("d_lease")
       \/ /\ DbErr /\ Goto("d_lease")

(* `.ok()??`: an error or a missing subnet ends the handler. *)
DiscoverStaticSubnet ==
    /\ pc = "d_static_subnet"
    /\ ReadOnly
    /\ \/ /\ DbOk
          /\ \E s \in get_subnet(frame.row.subnet_id) :
                \/ iface_in_subnet(frame.iface_ips, s) /\ SendOffer(frame.row.ip)
                \/ /\ ~ iface_in_subnet(frame.iface_ips, s)
                   /\ Goto("d_lease") /\ UNCHANGED historyVars
       \/ DbOk /\ get_subnet(frame.row.subnet_id) = {} /\ NoReply
       \/ DbErr /\ NoReply

DiscoverLease ==
    /\ pc = "d_lease"
    /\ ReadOnly /\ UNCHANGED historyVars
    /\ \/ /\ DbOk
          /\ \E l \in get_active_lease(pkt.mac) :
                 frame' = [frame EXCEPT !.row = LeaseRowOf(l)]
          /\ pc' = "d_lease_subnet" /\ UNCHANGED pkt
       \/ DbOk /\ get_active_lease(pkt.mac) = {} /\ Goto("d_subnets")
       \/ DbErr /\ Goto("d_subnets")

DiscoverLeaseSubnet ==
    /\ pc = "d_lease_subnet"
    /\ ReadOnly
    /\ \/ /\ DbOk
          /\ \E s \in get_subnet(frame.row.subnet_id) :
                \/ iface_in_subnet(frame.iface_ips, s) /\ SendOffer(frame.row.ip)
                \/ /\ ~ iface_in_subnet(frame.iface_ips, s)
                   /\ Goto("d_subnets") /\ UNCHANGED historyVars
       \/ DbOk /\ get_subnet(frame.row.subnet_id) = {} /\ NoReply
       \/ DbErr /\ NoReply

(* list_subnets; only the subnets of this interface are visited. *)
DiscoverSubnets ==
    /\ pc = "d_subnets"
    /\ ReadOnly
    /\ \/ /\ DbOk
          /\ pc' = "d_leases"
          /\ frame' = [frame EXCEPT !.subnets =
                         {s \in subnets : iface_in_subnet(frame.iface_ips, s)}]
          /\ UNCHANGED <<pkt, historyVars>>
       \/ DbErr /\ NoReply

(* Mutant: leased_ips is left empty. *)
DiscoverLeasesUnread ==
    /\ pc = "d_leases"
    /\ ReadOnly
    /\ DbOk
    /\ pc' = "d_ranges"
    /\ UNCHANGED <<pkt, frame, historyVars>>

DiscoverLeases ==
    /\ pc = "d_leases"
    /\ ReadOnly
    /\ \/ /\ DbOk
          /\ pc' = "d_ranges"
          /\ frame' = [frame EXCEPT !.leased = {l.ip : l \in list_active_leases}]
          /\ UNCHANGED <<pkt, historyVars>>
       \/ DbErr /\ NoReply

(* The first address of start..=end that is not in leased_ips. *)
FirstFree(r, leased) ==
    {ip \in r.range_start..r.range_end :
        /\ ip \notin leased
        /\ \A k \in r.range_start..r.range_end : k \notin leased => ip <= k}

(***************************************************************************)
(* One round of the DISCOVER loop: list_ranges for the next subnet, then   *)
(* the first enabled range with a free address.  A failing list_ranges     *)
(* skips the subnet; after the last one the client gets no answer.         *)
(***************************************************************************)
DiscoverRanges ==
    /\ pc = "d_ranges"
    /\ ReadOnly
    /\ \/ frame.subnets = {} /\ DbOk /\ NoReply
       \/ \E s \in frame.subnets :
            LET open == {r \in list_ranges(s.id) :
                            r.enabled /\ FirstFree(r, frame.leased) # {}}
                skip == /\ pc' = "d_ranges"
                        /\ frame' = [frame EXCEPT !.subnets = frame.subnets \ {s}]
                        /\ UNCHANGED <<pkt, historyVars>>
            IN \/ DbOk /\ \E r \in open : \E ip \in FirstFree(r, frame.leased) : SendOffer(ip)
               \/ DbOk /\ open = {} /\ skip
               \/ DbErr /\ skip

-----------------------------------------------------------------------------
(* handle_request                                                          *)

(***************************************************************************)
(* A static assignment for another address ends the handler without any    *)
(* reply; a failing lookup falls through to the dynamic path.              *)
(***************************************************************************)
RequestStatic ==
    /\ pc = "r_static"
    /\ ReadOnly /\ UNCHANGED historyVars
    /\ \/ /\ DbOk
          /\ \E s \in get_static_ip_by_mac(pkt.mac) :
                \/ /\ s.ip = RequestedIp(pkt)
                   /\ pc' = "r_static_subnet"
                   /\ frame' = [frame EXCEPT !.row = RowOf(s)]
                   /\ UNCHANGED pkt
                \/ s.ip # RequestedIp(pkt) /\ Return
       \/ DbOk /\ get_static_ip_by_mac(pkt.mac) = {} /\ Goto("r_ranges")
       \/ DbErr /\ Goto("r_ranges")

(* A static assignment is acknowledged without a lease row. *)
RequestStaticSubnet ==
    /\ pc = "r_static_subnet"
    /\ ReadOnly
    /\ \/ /\ DbOk
          /\ \E s \in get_subnet(frame.row.subnet_id) :
                \/ iface_in_subnet(frame.iface_ips, s) /\ SendAck(RequestedIp(pkt), FALSE)
                \/ ~ iface_in_subnet(frame.iface_ips, s) /\ NoReply
       \/ DbOk /\ get_subnet(frame.row.subnet_id) = {} /\ NoReply
       \/ DbErr /\ NoReply

(* Mutant: the end of a range is excluded. *)
CoversHalfOpen(r, ip) == r.enabled /\ r.range_start <= ip /\ ip < r.range_end

Covers(r, ip) == r.enabled /\ r.range_start <= ip /\ ip <= r.range_end

RequestRanges ==
    /\ pc = "r_ranges"
    /\ ReadOnly
    /\ \/ /\ DbOk
          /\ pc' = "r_subnet"
          /\ frame' = [frame EXCEPT !.ranges = {r \in ranges : Covers(r, RequestedIp(pkt))}]
          /\ UNCHANGED <<pkt, historyVars>>
       \/ DbErr /\ NoReply

(***************************************************************************)
(* One round of the REQUEST loop: get_subnet of the next covering range.   *)
(* An error, a missing subnet or another interface's subnet goes on to the *)
(* next range; after the last one the request is dropped.                  *)
(***************************************************************************)
RequestSubnet ==
    /\ pc = "r_subnet"
    /\ ReadOnly
    /\ \/ frame.ranges = {} /\ DbOk /\ NoReply
       \/ \E r \in frame.ranges :
            LET here == {s \in get_subnet(r.subnet_id) : iface_in_subnet(frame.iface_ips, s)}
                skip == /\ pc' = "r_subnet"
                        /\ frame' = [frame EXCEPT !.ranges = frame.ranges \ {r}]
            IN /\ \/ /\ DbOk /\ here # {}
                     /\ pc' = "r_leases"
                     /\ frame' = [frame EXCEPT !.ranges = {}, !.subnet_id = r.subnet_id]
                  \/ DbOk /\ here = {} /\ skip
                  \/ DbErr /\ skip
               /\ UNCHANGED <<pkt, historyVars>>

LeasesOn(ip) == {l \in list_active_leases : l.ip = ip}

(* Mutant: the holder of the address is not compared with the client. *)
RequestLeasesAnyMac ==
    /\ pc = "r_leases"
    /\ ReadOnly
    /\ DbOk
    /\ pc' = "r_create"
    /\ frame' = [frame EXCEPT !.now = now]
    /\ UNCHANGED <<pkt, historyVars>>

(***************************************************************************)
(* list_active_leases and the first lease on the address: another client's *)
(* ends the handler, the client's own is to be expired first.  The         *)
(* timestamp of the new lease is read when nothing is left to await.       *)
(***************************************************************************)
RequestLeases ==
    /\ pc = "r_leases"
    /\ ReadOnly
    /\ \/ /\ DbOk
          /\ \E l \in LeasesOn(RequestedIp(pkt)) :
                \/ l.mac # pkt.mac /\ NoReply
                \/ /\ l.mac = pkt.mac
                   /\ pc' = "r_expire"
                   /\ frame' = [frame EXCEPT !.row = LeaseRowOf(l)]
                   /\ UNCHANGED <<pkt, historyVars>>
       \/ /\ DbOk /\ LeasesOn(RequestedIp(pkt)) = {}
          /\ pc' = "r_create"
          /\ frame' = [frame EXCEPT !.now = now]
          /\ UNCHANGED <<pkt, historyVars>>
       \/ DbErr /\ NoReply

(* `let _ = db.expire_lease(id).await`: a failure is not looked at. *)
RequestExpire ==
    /\ pc = "r_expire"
    /\ \/ DbOk /\ expire_lease(frame.row.id)
       \/ DbErr /\ UNCHANGED <<subnets, ranges, statics, leases, seq>>
    /\ pc' = "r_create"
    /\ frame' = [frame EXCEPT !.now = now]
    /\ UNCHANGED <<now, pkt, historyVars>>

(* The INSERT, which the foreign key refuses if the subnet has gone. *)
RequestCreate ==
    /\ pc = "r_create"
    /\ UNCHANGED now
    /\ \/ /\ DbOk
          /\ frame.subnet_id \in SubnetIds
          /\ create_lease(frame.subnet_id, pkt.mac, RequestedIp(pkt),
                          frame.now + DefaultLeaseTime)
          /\ SendAck(RequestedIp(pkt), TRUE)
       \/ /\ DbErr \/ (DbOk /\ frame.subnet_id \notin SubnetIds)
          /\ UNCHANGED <<subnets, ranges, statics, leases, seq>>
          /\ NoReply

-----------------------------------------------------------------------------
(* handle_release: the latest lease of the client, whatever it names.      *)

ReleaseLease ==
    /\ pc = "rel_lease"
    /\ ReadOnly /\ UNCHANGED historyVars
    /\ \/ /\ DbOk
          /\ \E l \in get_active_lease(pkt.mac) :
                 frame' = [frame EXCEPT !.row = LeaseRowOf(l)]
          /\ pc' = "rel_expire" /\ UNCHANGED pkt
       \/ DbOk /\ get_active_lease(pkt.mac) = {} /\ Return
       \/ DbErr /\ Return

ReleaseExpire ==
    /\ pc = "rel_expire"
    /\ \/ DbOk /\ expire_lease(frame.row.id) /\ offer' = NoOffer
       \/ DbErr /\ UNCHANGED <<subnets, ranges, statics, leases, seq, offer>>
    /\ Return
    /\ UNCHANGED <<now, acked>>

-----------------------------------------------------------------------------
(* The background task that purges expired leases. *)
Cleanup ==
    /\ delete_expired_leases
    /\ DbOk
    /\ UNCHANGED <<now, serverVars, historyVars>>

(* `Err(e) => warn!`: the purge is tried again after the next interval. *)
CleanupFails ==
    /\ DbErr
    /\ UNCHANGED <<subnets, ranges, statics, leases, seq, now, serverVars, historyVars>>

-----------------------------------------------------------------------------
DiscoverStep ==
    \/ DiscoverStatic \/ DiscoverStaticSubnet \/ DiscoverLease \/ DiscoverLeaseSubnet
    \/ DiscoverSubnets \/ DiscoverLeases \/ DiscoverRanges

RequestStep ==
    \/ RequestStatic \/ RequestStaticSubnet \/ RequestRanges \/ RequestSubnet
    \/ RequestLeases \/ RequestExpire \/ RequestCreate

ReleaseStep == ReleaseLease \/ ReleaseExpire

HandlerStep == DiscoverStep \/ RequestStep \/ ReleaseStep
=============================================================================
