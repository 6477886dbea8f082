---------------------------- MODULE NdhcpdProofs ----------------------------
(***************************************************************************)
(* Theorems about Ndhcpd for every value of its constants: any number of   *)
(* clients, interfaces, packets, API calls, failing statements, restarts   *)
(* and clock ticks.                                                        *)
(***************************************************************************)
EXTENDS Ndhcpd, TLAPS

(* The states of handle_request. *)
RequestPC == {"r_static", "r_static_subnet", "r_ranges", "r_subnet",
              "r_leases", "r_expire", "r_create"}

(* handle_request only goes on with a REQUEST that names an address. *)
NamesAddress == pc \in RequestPC => RequestedIp(pkt) # NoAddr

-----------------------------------------------------------------------------
(* Facts about the constants and the operators. *)

LEMMA Constants ==
    /\ NoPacket \in Packet
    /\ NoFrame \in Frame
    /\ NoOffer \in [ip : Addr \cup {NoAddr}, mac : Mac, iface : Iface]
    /\ RequestedIp(NoPacket) = NoAddr
    /\ Unspecified \in Addr
<1>1. Unspecified \in Addr
  BY WidthAssumption, PowerAssumption DEF Unspecified, Addr
<1>2. NoPacket.mac \in Mac /\ NoPacket.iface \in Iface
  BY NdhcpdAssumption DEF NoPacket
<1>3. NoPacket \in Packet
  BY <1>1, <1>2 DEF NoPacket, Packet
<1>4. NoRow \in Row
  BY <1>1 DEF NoRow, Row, Unspecified
<1>5. NoFrame \in Frame
  BY <1>4 DEF NoFrame, Frame
<1>6. NoOffer \in [ip : Addr \cup {NoAddr}, mac : Mac, iface : Iface]
  BY <1>2 DEF NoOffer
<1>7. RequestedIp(NoPacket) = NoAddr
  BY DEF RequestedIp, NoPacket
<1> QED
  BY <1>1, <1>3, <1>5, <1>6, <1>7

LEMMA RequestedType ==
    ASSUME NEW p \in Packet
    PROVE  RequestedIp(p) \in Addr \cup {NoAddr}
BY DEF RequestedIp, Packet

LEMMA RangeAddr ==
    ASSUME NEW r \in RangeRow, NEW ip \in r.range_start..r.range_end
    PROVE  ip \in Addr
BY WidthAssumption, PowerAssumption DEF RangeRow, Addr

-----------------------------------------------------------------------------
(* Type correctness. *)

LEMMA TypeInit == Init => TypeOK /\ NamesAddress
<1> SUFFICES ASSUME Init PROVE TypeOK /\ NamesAddress
  OBVIOUS
<1>1. StoreTypeOK
  <2> PICK c \in InitialTables :
          /\ subnets = c.subnets /\ ranges = c.ranges /\ statics = c.statics
          /\ seq = c.seq
    BY DEF Init
  <2> QED
    BY NdhcpdAssumption DEF Init, StoreTypeOK
<1>2. ServerTypeOK
  BY Constants DEF Init, ServerInit, ServerTypeOK, PC
<1>3. ApiTypeOK /\ crashes \in Nat
  BY DEF Init, ApiInit, ApiTypeOK
<1>4. NamesAddress
  BY DEF Init, ServerInit, NamesAddress, RequestPC
<1> QED
  BY <1>1, <1>2, <1>3, <1>4 DEF TypeOK

LEMMA ReturnType ==
    ASSUME Return
    PROVE  pc' \in PC /\ pkt' \in Packet /\ frame' \in Frame /\ NamesAddress'
BY Constants DEF Return, PC, NamesAddress, RequestPC

LEMMA ReceiveType ==
    ASSUME TypeOK, NEW p \in Packet, RecvPacket(p)
    PROVE  StoreTypeOK' /\ ServerTypeOK' /\ NamesAddress'
<1>1. StoreTypeOK'
  BY DEF TypeOK, StoreTypeOK, RecvPacket, storeVars
<1>2. PICK ips \in {IfaceIps[p.iface], {}} :
          /\ frame' = [NoFrame EXCEPT !.iface_ips = ips, !.received = now]
          /\ offer' = IF ips = IfaceIps[p.iface] THEN offer ELSE NoOffer
  BY DEF RecvPacket, get_interface_ips
<1>3. frame' \in Frame
  BY <1>2, ServerAssumption, Constants DEF Packet, Frame, TypeOK, StoreTypeOK
<1>4. pc' \in PC /\ NamesAddress'
  BY DEF RecvPacket, Handled, FirstStep, PC, NamesAddress, RequestPC
<1>5. offer' \in [ip : Addr \cup {NoAddr}, mac : Mac, iface : Iface]
  BY <1>2, Constants DEF TypeOK, ServerTypeOK
<1>6. acked' \subseteq Binding /\ pkt' \in Packet
  BY DEF RecvPacket, TypeOK, ServerTypeOK
<1> QED
  BY <1>1, <1>3, <1>4, <1>5, <1>6 DEF ServerTypeOK

LEMMA OfferType ==
    ASSUME TypeOK, NEW ip \in Addr, SendOffer(ip)
    PROVE  ServerTypeOK' /\ NamesAddress'
BY ReturnType DEF SendOffer, TypeOK, ServerTypeOK, Packet

LEMMA AckType ==
    ASSUME TypeOK, NEW ip \in Addr, NEW d \in BOOLEAN, SendAck(ip, d)
    PROVE  ServerTypeOK' /\ NamesAddress'
<1>1. [mac |-> pkt.mac, ip |-> ip, iface |-> pkt.iface,
       until |-> frame.received + DefaultLeaseTime, dynamic |-> d] \in Binding
  BY ServerAssumption DEF TypeOK, ServerTypeOK, Packet, Frame, Binding
<1> QED
  BY <1>1, ReturnType, Constants DEF SendAck, TypeOK, ServerTypeOK

LEMMA NoReplyType ==
    ASSUME TypeOK, NoReply
    PROVE  ServerTypeOK' /\ NamesAddress'
BY ReturnType DEF NoReply, historyVars, TypeOK, ServerTypeOK

LEMMA GotoType ==
    ASSUME TypeOK, NEW next \in PC \ RequestPC, Goto(next), UNCHANGED historyVars
    PROVE  ServerTypeOK' /\ NamesAddress'
BY DEF Goto, historyVars, TypeOK, ServerTypeOK, NamesAddress, RequestPC, PC

(* A step of a handler that only moves on and updates its frame. *)
LEMMA FrameType ==
    ASSUME TypeOK, frame' \in Frame, pc' \in PC, NamesAddress',
           UNCHANGED pkt, UNCHANGED historyVars
    PROVE  ServerTypeOK'
BY DEF historyVars, TypeOK, ServerTypeOK

LEMMA ReadType ==
    ASSUME TypeOK, ReadOnly, DbOk \/ DbErr
    PROVE  StoreTypeOK'
BY DEF TypeOK, StoreTypeOK, ReadOnly, DbOk, DbErr

LEMMA DiscoverType ==
    ASSUME TypeOK, NamesAddress, DiscoverStep
    PROVE  StoreTypeOK' /\ ServerTypeOK' /\ NamesAddress'
<1> USE DEF PC, RequestPC
<1>1. CASE DiscoverStatic
  <2>1. StoreTypeOK'
    BY <1>1, ReadType DEF DiscoverStatic
  <2>2. ASSUME NEW s \in get_static_ip_by_mac(pkt.mac),
               frame' = [frame EXCEPT !.row = RowOf(s)],
               pc' = "d_static_subnet", UNCHANGED pkt
        PROVE  ServerTypeOK' /\ NamesAddress'
    <3>1. RowOf(s) \in Row
      BY <2>2 DEF get_static_ip_by_mac, RowOf, Row, TypeOK, StoreTypeOK, StaticRow
    <3>2. frame' \in Frame
      BY <2>2, <3>1 DEF TypeOK, ServerTypeOK, Frame
    <3>3. NamesAddress'
      BY <2>2 DEF NamesAddress
    <3> QED
      BY <1>1, <2>2, <3>2, <3>3, FrameType DEF DiscoverStatic
  <2> QED
    BY <1>1, <2>1, <2>2, GotoType DEF DiscoverStatic
<1>2. CASE DiscoverStaticSubnet
  <2>1. frame.row.ip \in Addr
    BY DEF TypeOK, ServerTypeOK, Frame, Row
  <2> QED
    BY <1>2, <2>1, ReadType, OfferType, GotoType, NoReplyType DEF DiscoverStaticSubnet
<1>3. CASE DiscoverLease
  <2>1. StoreTypeOK'
    BY <1>3, ReadType DEF DiscoverLease
  <2>2. ASSUME NEW l \in get_active_lease(pkt.mac),
               frame' = [frame EXCEPT !.row = LeaseRowOf(l)],
               pc' = "d_lease_subnet", UNCHANGED pkt
        PROVE  ServerTypeOK' /\ NamesAddress'
    <3>1. LeaseRowOf(l) \in Row
      BY <2>2 DEF get_active_lease, list_active_leases, LeaseRowOf, Row, TypeOK,
                  StoreTypeOK, LeaseRow
    <3>2. frame' \in Frame
      BY <2>2, <3>1 DEF TypeOK, ServerTypeOK, Frame
    <3>3. NamesAddress'
      BY <2>2 DEF NamesAddress
    <3> QED
      BY <1>3, <2>2, <3>2, <3>3, FrameType DEF DiscoverLease
  <2> QED
    BY <1>3, <2>1, <2>2, GotoType DEF DiscoverLease
<1>4. CASE DiscoverLeaseSubnet
  <2>1. frame.row.ip \in Addr
    BY DEF TypeOK, ServerTypeOK, Frame, Row
  <2> QED
    BY <1>4, <2>1, ReadType, OfferType, GotoType, NoReplyType DEF DiscoverLeaseSubnet
<1>5. CASE DiscoverSubnets
  <2>1. StoreTypeOK'
    BY <1>5, ReadType DEF DiscoverSubnets
  <2>2. CASE NoReply
    BY <2>1, <2>2, NoReplyType
  <2>3. CASE /\ pc' = "d_leases"
             /\ frame' = [frame EXCEPT !.subnets =
                            {s \in subnets : iface_in_subnet(frame.iface_ips, s)}]
             /\ UNCHANGED <<pkt, historyVars>>
    <3>1. frame' \in Frame
      BY <2>3 DEF TypeOK, ServerTypeOK, StoreTypeOK, Frame
    <3>2. NamesAddress'
      BY <2>3 DEF NamesAddress
    <3> QED
      BY <2>1, <2>3, <3>1, <3>2, FrameType
  <2> QED
    BY <1>5, <2>2, <2>3 DEF DiscoverSubnets
<1>6. CASE DiscoverLeases
  <2>1. StoreTypeOK'
    BY <1>6, ReadType DEF DiscoverLeases
  <2>2. CASE NoReply
    BY <2>1, <2>2, NoReplyType
  <2>3. CASE /\ pc' = "d_ranges"
             /\ frame' = [frame EXCEPT !.leased = {l.ip : l \in list_active_leases}]
             /\ UNCHANGED <<pkt, historyVars>>
    <3>1. {l.ip : l \in list_active_leases} \in SUBSET Addr
      BY DEF list_active_leases, TypeOK, StoreTypeOK, LeaseRow
    <3>2. frame' \in Frame
      BY <2>3, <3>1 DEF TypeOK, ServerTypeOK, Frame
    <3>3. NamesAddress'
      BY <2>3 DEF NamesAddress
    <3> QED
      BY <2>1, <2>3, <3>2, <3>3, FrameType
  <2> QED
    BY <1>6, <2>2, <2>3 DEF DiscoverLeases
<1>7. CASE DiscoverRanges
  <2>1. StoreTypeOK'
    BY <1>7, ReadType DEF DiscoverRanges
  <2>2. CASE NoReply
    BY <2>1, <2>2, NoReplyType
  <2>3. ASSUME NEW s \in frame.subnets, pc' = "d_ranges",
               frame' = [frame EXCEPT !.subnets = frame.subnets \ {s}],
               UNCHANGED <<pkt, historyVars>>
        PROVE  ServerTypeOK' /\ NamesAddress'
    <3>1. frame' \in Frame
      BY <2>3 DEF TypeOK, ServerTypeOK, Frame
    <3>2. NamesAddress'
      BY <2>3 DEF NamesAddress
    <3> QED
      BY <2>3, <3>1, <3>2, FrameType
  <2>4. ASSUME NEW s \in frame.subnets, NEW r \in list_ranges(s.id),
               NEW ip \in FirstFree(r, frame.leased), SendOffer(ip)
        PROVE  ServerTypeOK' /\ NamesAddress'
    <3>1. ip \in Addr
      BY <2>4, RangeAddr DEF FirstFree, list_ranges, TypeOK, StoreTypeOK
    <3> QED
      BY <2>4, <3>1, OfferType
  <2> QED
    BY <1>7, <2>1, <2>2, <2>3, <2>4 DEF DiscoverRanges
<1> QED
  BY <1>1, <1>2, <1>3, <1>4, <1>5, <1>6, <1>7 DEF DiscoverStep

LEMMA RequestType ==
    ASSUME TypeOK, NamesAddress, RequestStep
    PROVE  StoreTypeOK' /\ ServerTypeOK' /\ NamesAddress'
<1> USE DEF PC, RequestPC
<1>0. pc \in RequestPC /\ RequestedIp(pkt) \in Addr
  <2>1. pc \in RequestPC
    BY DEF RequestStep, RequestStatic, RequestStaticSubnet, RequestRanges, RequestSubnet,
           RequestLeases, RequestExpire, RequestCreate
  <2> QED
    BY <2>1, RequestedType DEF NamesAddress, TypeOK, ServerTypeOK
(* A move inside handle_request. *)
<1>a. ASSUME pc' \in RequestPC, frame' \in Frame, UNCHANGED <<pkt, historyVars>>
      PROVE  ServerTypeOK' /\ NamesAddress'
  <2>1. NamesAddress'
    BY <1>0, <1>a DEF NamesAddress, RequestedIp
  <2> QED
    BY <1>a, <2>1, FrameType
<1>1. CASE RequestStatic
  <2>1. StoreTypeOK'
    BY <1>1, ReadType DEF RequestStatic
  <2>2. ASSUME NEW s \in get_static_ip_by_mac(pkt.mac),
               frame' = [frame EXCEPT !.row = RowOf(s)],
               pc' = "r_static_subnet", UNCHANGED pkt, UNCHANGED historyVars
        PROVE  ServerTypeOK' /\ NamesAddress'
    <3>1. RowOf(s) \in Row
      BY <2>2 DEF get_static_ip_by_mac, RowOf, Row, TypeOK, StoreTypeOK, StaticRow
    <3>2. frame' \in Frame
      BY <2>2, <3>1 DEF TypeOK, ServerTypeOK, Frame
    <3> QED
      BY <1>a, <2>2, <3>2
  <2>3. ASSUME Goto("r_ranges"), UNCHANGED historyVars
        PROVE  ServerTypeOK' /\ NamesAddress'
    BY <1>a, <2>3 DEF Goto, TypeOK, ServerTypeOK
  <2>4. ASSUME Return, UNCHANGED historyVars
        PROVE  ServerTypeOK' /\ NamesAddress'
    BY <2>4, NoReplyType DEF NoReply
  <2> QED
    BY <1>1, <2>1, <2>2, <2>3, <2>4 DEF RequestStatic
<1>2. CASE RequestStaticSubnet
  BY <1>0, <1>2, ReadType, AckType, NoReplyType DEF RequestStaticSubnet
<1>3. CASE RequestRanges
  <2>1. StoreTypeOK'
    BY <1>3, ReadType DEF RequestRanges
  <2>2. CASE NoReply
    BY <2>1, <2>2, NoReplyType
  <2>3. CASE /\ pc' = "r_subnet"
             /\ frame' = [frame EXCEPT !.ranges =
                            {r \in ranges : Covers(r, RequestedIp(pkt))}]
             /\ UNCHANGED <<pkt, historyVars>>
    <3>1. frame' \in Frame
      BY <2>3 DEF TypeOK, ServerTypeOK, StoreTypeOK, Frame
    <3> QED
      BY <1>a, <2>1, <2>3, <3>1
  <2> QED
    BY <1>3, <2>2, <2>3 DEF RequestRanges
<1>4. CASE RequestSubnet
  <2>1. StoreTypeOK'
    BY <1>4, ReadType DEF RequestSubnet
  <2>2. CASE NoReply
    BY <2>1, <2>2, NoReplyType
  <2>3. ASSUME NEW r \in frame.ranges, pc' \in {"r_subnet", "r_leases"},
               \/ frame' = [frame EXCEPT !.ranges = frame.ranges \ {r}]
               \/ frame' = [frame EXCEPT !.ranges = {}, !.subnet_id = r.subnet_id],
               UNCHANGED <<pkt, historyVars>>
        PROVE  ServerTypeOK' /\ NamesAddress'
    <3>1. r.subnet_id \in Nat
      BY <2>3 DEF TypeOK, ServerTypeOK, Frame, RangeRow
    <3>2. frame' \in Frame
      BY <2>3, <3>1 DEF TypeOK, ServerTypeOK, Frame
    <3> QED
      BY <1>a, <2>3, <3>2
  <2> QED
    BY <1>4, <2>1, <2>2, <2>3 DEF RequestSubnet
<1>5. CASE RequestLeases
  <2>1. StoreTypeOK'
    BY <1>5, ReadType DEF RequestLeases
  <2>2. CASE NoReply
    BY <2>1, <2>2, NoReplyType
  <2>3. ASSUME NEW l \in LeasesOn(RequestedIp(pkt)), pc' = "r_expire",
               frame' = [frame EXCEPT !.row = LeaseRowOf(l)],
               UNCHANGED <<pkt, historyVars>>
        PROVE  ServerTypeOK' /\ NamesAddress'
    <3>1. LeaseRowOf(l) \in Row
      BY <2>3 DEF LeasesOn, list_active_leases, LeaseRowOf, Row, TypeOK, StoreTypeOK, LeaseRow
    <3>2. frame' \in Frame
      BY <2>3, <3>1 DEF TypeOK, ServerTypeOK, Frame
    <3> QED
      BY <1>a, <2>3, <3>2
  <2>4. ASSUME pc' = "r_create", frame' = [frame EXCEPT !.now = now],
               UNCHANGED <<pkt, historyVars>>
        PROVE  ServerTypeOK' /\ NamesAddress'
    <3>1. frame' \in Frame
      BY <2>4 DEF TypeOK, ServerTypeOK, StoreTypeOK, Frame
    <3> QED
      BY <1>a, <2>4, <3>1
  <2> QED
    BY <1>5, <2>1, <2>2, <2>3, <2>4 DEF RequestLeases
<1>6. CASE RequestExpire
  <2>1. StoreTypeOK'
    BY <1>6 DEF RequestExpire, expire_lease, DbOk, DbErr, TypeOK, StoreTypeOK
  <2>2. frame' \in Frame
    BY <1>6 DEF RequestExpire, TypeOK, ServerTypeOK, StoreTypeOK, Frame
  <2> QED
    BY <1>6, <1>a, <2>1, <2>2 DEF RequestExpire
<1>7. CASE RequestCreate
  <2>1. StoreTypeOK'
    <3>1. \/ create_lease(frame.subnet_id, pkt.mac, RequestedIp(pkt),
                          frame.now + DefaultLeaseTime)
          \/ UNCHANGED <<subnets, ranges, statics, leases, seq>>
      BY <1>7, Zenon DEF RequestCreate
    <3>2. now' = now /\ (DbOk \/ DbErr)
      BY <1>7, Zenon DEF RequestCreate
    <3>3. [id |-> seq.leases + 1, subnet_id |-> frame.subnet_id, mac |-> pkt.mac,
           ip |-> RequestedIp(pkt), lease_end |-> frame.now + DefaultLeaseTime] \in LeaseRow
      BY <1>0, ServerAssumption DEF TypeOK, StoreTypeOK, ServerTypeOK, Frame, Packet, LeaseRow
    <3>4. leases' \subseteq LeaseRow
      BY <3>1, <3>3 DEF create_lease, TypeOK, StoreTypeOK
    <3>5. seq' \in [subnets : Nat, ranges : Nat, leases : Nat]
      BY <3>1 DEF create_lease, TypeOK, StoreTypeOK
    <3> QED
      BY <3>1, <3>2, <3>4, <3>5 DEF create_lease, DbOk, DbErr, TypeOK, StoreTypeOK
  <2> QED
    BY <1>0, <1>7, <2>1, AckType, NoReplyType DEF RequestCreate
<1> QED
  BY <1>1, <1>2, <1>3, <1>4, <1>5, <1>6, <1>7 DEF RequestStep

LEMMA ReleaseType ==
    ASSUME TypeOK, NamesAddress, ReleaseStep
    PROVE  StoreTypeOK' /\ ServerTypeOK' /\ NamesAddress'
<1>1. CASE ReleaseLease
  <2>1. StoreTypeOK'
    BY <1>1, ReadType DEF ReleaseLease
  <2>2. ASSUME NEW l \in get_active_lease(pkt.mac),
               frame' = [frame EXCEPT !.row = LeaseRowOf(l)],
               pc' = "rel_expire", UNCHANGED pkt
        PROVE  ServerTypeOK' /\ NamesAddress'
    <3>1. LeaseRowOf(l) \in Row
      BY <2>2 DEF get_active_lease, list_active_leases, LeaseRowOf, Row, TypeOK,
                  StoreTypeOK, LeaseRow
    <3>2. frame' \in Frame
      BY <2>2, <3>1 DEF TypeOK, ServerTypeOK, Frame
    <3>3. NamesAddress' /\ pc' \in PC
      BY <2>2 DEF NamesAddress, RequestPC, PC
    <3> QED
      BY <1>1, <2>2, <3>2, <3>3, FrameType DEF ReleaseLease
  <2>3. ASSUME Return, UNCHANGED historyVars
        PROVE  ServerTypeOK' /\ NamesAddress'
    BY <2>3, NoReplyType DEF NoReply
  <2> QED
    BY <1>1, <2>1, <2>2, <2>3 DEF ReleaseLease
<1>2. CASE ReleaseExpire
  <2>1. StoreTypeOK'
    BY <1>2 DEF ReleaseExpire, expire_lease, DbOk, DbErr, TypeOK, StoreTypeOK
  <2> QED
    BY <1>2, <2>1, ReturnType, Constants DEF ReleaseExpire, TypeOK, ServerTypeOK
<1> QED
  BY <1>1, <1>2 DEF ReleaseStep

LEMMA ApiType ==
    ASSUME TypeOK, ApiStep
    PROVE  StoreTypeOK' /\ ApiTypeOK'
<1> USE ApiAssumption DEF TypeOK, StoreTypeOK, ApiTypeOK, Call, DbOk, DbErr
<1>1. ASSUME NEW a \in NewSubnets, CheckSubnet(a)
      PROVE  StoreTypeOK' /\ ApiTypeOK'
  BY <1>1 DEF CheckSubnet
<1>2. ASSUME NEW a \in checked, CreateSubnet(a)
      PROVE  StoreTypeOK' /\ ApiTypeOK'
  <2>1. [id |-> seq.subnets + 1, network |-> a.network, netmask |-> a.netmask] \in SubnetRow
    BY <1>2 DEF SubnetRow
  <2> QED
    BY <1>2, <2>1 DEF CreateSubnet, InsertSubnet
<1>3. ASSUME NEW s \in subnets, NEW a \in NewSubnets, PutSubnet(s.id, a)
      PROVE  StoreTypeOK' /\ ApiTypeOK'
  <2>1. [id |-> s.id, network |-> a.network, netmask |-> a.netmask] \in SubnetRow
    BY <1>3 DEF SubnetRow
  <2>2. ApiTypeOK'
    <3>1. s.id \in Nat
      BY <2>1 DEF SubnetRow
    <3>2. checked' = checked /\ calls' = calls + 1 /\ updated' = updated \cup {s.id}
      BY <1>3 DEF PutSubnet
    <3>3. updated' \subseteq Nat
      BY <3>1, <3>2
    <3>4. checked' \subseteq [network : Addr, netmask : 0..255] /\ calls' \in Nat
      BY <3>2
    <3> QED
      BY <3>3, <3>4
  <2>3. StoreTypeOK'
    BY <1>3, <2>1 DEF PutSubnet, UpdateSubnet
  <2> QED
    BY <2>2, <2>3
<1>4. ASSUME NEW s \in subnets, RemoveSubnet(s.id)
      PROVE  StoreTypeOK' /\ ApiTypeOK'
  BY <1>4 DEF RemoveSubnet, DeleteSubnet
<1>5. ASSUME NEW r \in NewRanges, CreateRange(r)
      PROVE  StoreTypeOK' /\ ApiTypeOK'
  <2>1. [id |-> seq.ranges + 1, subnet_id |-> r.subnet_id, range_start |-> r.range_start,
         range_end |-> r.range_end, enabled |-> r.enabled] \in RangeRow
    BY <1>5 DEF RangeRow
  <2> QED
    BY <1>5, <2>1 DEF CreateRange, InsertRange
<1>6. ASSUME NEW r \in ranges, RemoveRange(r.id)
      PROVE  StoreTypeOK' /\ ApiTypeOK'
  BY <1>6 DEF RemoveRange, DeleteRange
<1>7. ASSUME NEW s \in NewStatics, CreateStatic(s)
      PROVE  StoreTypeOK' /\ ApiTypeOK'
  <2>1. [ip |-> s.ip, mac |-> s.mac, subnet_id |-> s.subnet_id] \in StaticRow
    BY <1>7 DEF StaticRow
  <2> QED
    BY <1>7, <2>1 DEF CreateStatic, InsertStatic
<1>8. ASSUME NEW s \in statics, RemoveStatic(s.ip)
      PROVE  StoreTypeOK' /\ ApiTypeOK'
  BY <1>8 DEF RemoveStatic, DeleteStatic
<1> QED
  BY <1>1, <1>2, <1>3, <1>4, <1>5, <1>6, <1>7, <1>8 DEF ApiStep

LEMMA TypeStep == TypeOK /\ NamesAddress /\ [Next]_vars => TypeOK' /\ NamesAddress'
<1> SUFFICES ASSUME TypeOK, NamesAddress, [Next]_vars PROVE TypeOK' /\ NamesAddress'
  OBVIOUS
<1>1. CASE Receive
  BY <1>1, ReceiveType, NdhcpdAssumption DEF Receive, TypeOK, ApiTypeOK, apiVars
<1>2. CASE Handle
  BY <1>2, DiscoverType, RequestType, ReleaseType
     DEF Handle, HandlerStep, TypeOK, ApiTypeOK, apiVars
<1>3. CASE Purge
  BY <1>3 DEF Purge, Cleanup, CleanupFails, delete_expired_leases, DbOk, DbErr,
              serverVars, historyVars, apiVars, TypeOK, StoreTypeOK, ServerTypeOK, ApiTypeOK,
              NamesAddress, RequestedIp
<1>4. CASE Api
  BY <1>4, ApiType, Constants DEF Api, serverVars, TypeOK, ServerTypeOK, NamesAddress, RequestedIp
<1>5. CASE Tick
  BY <1>5, Constants DEF Tick, serverVars, apiVars, TypeOK, StoreTypeOK, ServerTypeOK,
                         ApiTypeOK, NamesAddress, RequestedIp
<1>6. CASE Crash
  BY <1>6, ReturnType, Constants
     DEF Crash, storeVars, TypeOK, StoreTypeOK, ServerTypeOK, ApiTypeOK
<1>7. CASE UNCHANGED vars
  BY <1>7 DEF vars, storeVars, serverVars, historyVars, apiVars, TypeOK, StoreTypeOK,
              ServerTypeOK, ApiTypeOK, NamesAddress, RequestedIp
<1> QED
  BY <1>1, <1>2, <1>3, <1>4, <1>5, <1>6, <1>7 DEF Next

(***************************************************************************)
(* Every reachable state of the daemon is well typed: in particular every  *)
(* lease row handle_request writes carries an address, a client and a      *)
(* subnet id, however its reads were interleaved with API writes.          *)
(***************************************************************************)
THEOREM TypeCorrect == Spec => [](TypeOK /\ NamesAddress)
<1>1. Init => TypeOK /\ NamesAddress
  BY TypeInit
<1>2. TypeOK /\ NamesAddress /\ [Next]_vars => (TypeOK /\ NamesAddress)'
  BY TypeStep
<1> QED
  BY <1>1, <1>2, PTL DEF Spec

-----------------------------------------------------------------------------
(***************************************************************************)
(* The inductive invariant behind lease exclusivity.  LeaseExclusive alone *)
(* is not inductive: the INSERT of handle_request is two awaits away from  *)
(* the check that justifies it.  The other parts say what the handler      *)
(* still knows, at each await, of what it read earlier.                    *)
(***************************************************************************)

(* AUTOINCREMENT ids name one row. *)
UniqueIds ==
    /\ \A l \in leases : l.id <= seq.leases
    /\ \A l, k \in leases : l.id = k.id => l = k

(* Past the check: no other client has a lease in force on the address. *)
ClearAddress ==
    pc \in {"r_expire", "r_create"} =>
        \A l \in list_active_leases : l.ip = RequestedIp(pkt) => l.mac = pkt.mac

(* The row about to be deleted is the client's own, if it is still there. *)
OwnRow ==
    pc \in {"r_expire", "rel_expire"} =>
        \A l \in leases : l.id = frame.row.id => l.mac = pkt.mac

(* leased_ips still contains every address leased. *)
LeasedRead ==
    pc = "d_ranges" => \A l \in list_active_leases : l.ip \in frame.leased

(* The lease found for a DISCOVER is on an address no other client holds. *)
OwnAddress ==
    pc = "d_lease_subnet" =>
        \A l \in list_active_leases : l.ip = frame.row.ip => l.mac = pkt.mac

LeaseInv ==
    /\ LeaseExclusive
    /\ UniqueIds
    /\ ClearAddress
    /\ OwnRow
    /\ LeasedRead
    /\ OwnAddress

(* The states in which the handler relies on what it read. *)
RelyPC == {"r_expire", "r_create", "rel_expire", "d_ranges", "d_lease_subnet"}

(* A step that adds no lease. *)
NoNewLease ==
    /\ leases' \subseteq leases
    /\ seq'.leases = seq.leases
    /\ now' >= now

(* With the handler where it was, removals and the clock break nothing. *)
LEMMA QuietStep ==
    ASSUME TypeOK, TypeOK', LeaseInv, NoNewLease, UNCHANGED serverVars
    PROVE  LeaseInv'
<1>1. list_active_leases' \subseteq list_active_leases
  BY DEF NoNewLease, list_active_leases, TypeOK, StoreTypeOK, LeaseRow
<1>2. UniqueIds' /\ OwnRow'
  BY DEF LeaseInv, NoNewLease, UniqueIds, OwnRow, serverVars
<1>3. LeaseExclusive' /\ ClearAddress' /\ LeasedRead' /\ OwnAddress'
  BY <1>1 DEF LeaseInv, LeaseExclusive, ClearAddress, LeasedRead, OwnAddress, serverVars, RequestedIp
<1> QED
  BY <1>2, <1>3 DEF LeaseInv

(* A handler step that reaches a state relying on nothing. *)
LEMMA AsideStep ==
    ASSUME TypeOK, TypeOK', LeaseInv, NoNewLease, pc' \notin RelyPC
    PROVE  LeaseInv'
<1>1. list_active_leases' \subseteq list_active_leases
  BY DEF NoNewLease, list_active_leases, TypeOK, StoreTypeOK, LeaseRow
<1>2. LeaseExclusive' /\ UniqueIds'
  BY <1>1 DEF LeaseInv, LeaseExclusive, NoNewLease, UniqueIds
<1> QED
  BY <1>2 DEF LeaseInv, RelyPC, ClearAddress, OwnRow, LeasedRead, OwnAddress

LEMMA ReadKeeps ==
    ASSUME TypeOK, ReadOnly
    PROVE  /\ NoNewLease
           /\ list_active_leases' = list_active_leases
BY DEF ReadOnly, NoNewLease, list_active_leases, TypeOK, StoreTypeOK

LEMMA DiscoverLeaseInv ==
    ASSUME TypeOK, TypeOK', LeaseInv, DiscoverStep
    PROVE  LeaseInv'
<1>0. NoNewLease /\ list_active_leases' = list_active_leases /\ UNCHANGED <<leases, seq>>
  BY ReadKeeps DEF DiscoverStep, DiscoverStatic, DiscoverStaticSubnet, DiscoverLease,
       DiscoverLeaseSubnet, DiscoverSubnets, DiscoverLeases, DiscoverRanges, ReadOnly
<1>a. LeaseExclusive' /\ UniqueIds'
  BY <1>0 DEF LeaseInv, LeaseExclusive, UniqueIds
<1>1. CASE pc' \notin RelyPC
  BY <1>0, <1>1, AsideStep
<1>2. CASE pc' = "d_lease_subnet"
  <2>1. DiscoverLease
    BY <1>2 DEF DiscoverStep, DiscoverStatic, DiscoverStaticSubnet, DiscoverLease,
         DiscoverLeaseSubnet, DiscoverSubnets, DiscoverLeases, DiscoverRanges, Goto, Return,
         NoReply, SendOffer
  <2>2. PICK l \in get_active_lease(pkt.mac) :
            frame' = [frame EXCEPT !.row = LeaseRowOf(l)] /\ UNCHANGED pkt
    BY <1>2, <2>1 DEF DiscoverLease, Goto
  <2>3. frame'.row.ip = l.ip /\ l \in list_active_leases /\ l.mac = pkt.mac
    BY <2>2 DEF LeaseRowOf, get_active_lease, TypeOK, ServerTypeOK, Frame
  <2>4. OwnAddress'
    BY <1>0, <2>2, <2>3 DEF OwnAddress, LeaseInv, LeaseExclusive
  <2> QED
    BY <1>2, <1>a, <2>4 DEF LeaseInv, ClearAddress, OwnRow, LeasedRead
<1>3. CASE pc' = "d_ranges"
  <2>1. LeasedRead'
    <3>1. CASE DiscoverLeases
      BY <1>0, <1>3, <3>1 DEF DiscoverLeases, NoReply, Return, LeasedRead, TypeOK, ServerTypeOK, Frame
    <3>2. CASE DiscoverRanges
      <4>1. frame'.leased = frame.leased /\ pc = "d_ranges"
        BY <1>3, <3>2 DEF DiscoverRanges, NoReply, Return, SendOffer, TypeOK, ServerTypeOK, Frame
      <4> QED
        BY <1>0, <4>1 DEF LeaseInv, LeasedRead
    <3> QED
      BY <1>3, <3>1, <3>2 DEF DiscoverStep, DiscoverStatic, DiscoverStaticSubnet,
           DiscoverLease, DiscoverLeaseSubnet, DiscoverSubnets, Goto, Return, NoReply, SendOffer
  <2> QED
    BY <1>3, <1>a, <2>1 DEF LeaseInv, ClearAddress, OwnRow, OwnAddress
<1>4. CASE pc' \in {"r_expire", "r_create", "rel_expire"}
  BY <1>4 DEF DiscoverStep, DiscoverStatic, DiscoverStaticSubnet, DiscoverLease,
       DiscoverLeaseSubnet, DiscoverSubnets, DiscoverLeases, DiscoverRanges, Goto, Return,
       NoReply, SendOffer
<1> QED
  BY <1>1, <1>2, <1>3, <1>4 DEF RelyPC

(* The lease handle_request is about to insert. *)
NewLease ==
    [id |-> seq.leases + 1, subnet_id |-> frame.subnet_id, mac |-> pkt.mac,
     ip |-> RequestedIp(pkt), lease_end |-> frame.now + DefaultLeaseTime]

LEMMA RequestLeaseInv ==
    ASSUME TypeOK, TypeOK', LeaseInv, RequestStep
    PROVE  LeaseInv'
<1>1. CASE RequestStatic \/ RequestStaticSubnet \/ RequestRanges \/ RequestSubnet
  <2>1. NoNewLease
    BY <1>1, ReadKeeps DEF RequestStatic, RequestStaticSubnet, RequestRanges, RequestSubnet
  <2>2. pc' \notin RelyPC
    BY <1>1, Zenon DEF RequestStatic, RequestStaticSubnet, RequestRanges, RequestSubnet, Goto, Return,
              NoReply, SendAck, RelyPC
  <2> QED
    BY <2>1, <2>2, AsideStep
<1>2. CASE RequestLeases
  <2>1. NoNewLease /\ list_active_leases' = list_active_leases /\ UNCHANGED <<leases, seq>>
    BY <1>2, ReadKeeps DEF RequestLeases, ReadOnly
  <2>2. CASE NoReply
    BY <2>1, <2>2, AsideStep DEF NoReply, Return, RelyPC
  <2>3. ASSUME NEW l \in LeasesOn(RequestedIp(pkt)), l.mac = pkt.mac, pc' = "r_expire",
               frame' = [frame EXCEPT !.row = LeaseRowOf(l)],
               UNCHANGED <<pkt, historyVars>>
        PROVE  LeaseInv'
    <3>1. l \in list_active_leases /\ l \in leases /\ l.ip = RequestedIp(pkt)
      BY <2>3 DEF LeasesOn, list_active_leases
    <3>2. ClearAddress'
      BY <2>1, <2>3, <3>1 DEF ClearAddress, LeaseInv, LeaseExclusive, RequestedIp
    <3>3. frame'.row.id = l.id
      BY <2>3 DEF LeaseRowOf, TypeOK, ServerTypeOK, Frame
    <3>4. OwnRow'
      BY <2>1, <2>3, <3>1, <3>3 DEF OwnRow, LeaseInv, UniqueIds
    <3>5. LeaseExclusive' /\ UniqueIds'
      BY <2>1 DEF LeaseInv, LeaseExclusive, UniqueIds
    <3> QED
      BY <2>3, <3>2, <3>4, <3>5 DEF LeaseInv, LeasedRead, OwnAddress
  <2>4. ASSUME LeasesOn(RequestedIp(pkt)) = {}, pc' = "r_create", UNCHANGED pkt
        PROVE  LeaseInv'
    <3>1. ClearAddress'
      BY <2>1, <2>4 DEF ClearAddress, LeasesOn, RequestedIp
    <3>2. LeaseExclusive' /\ UniqueIds'
      BY <2>1 DEF LeaseInv, LeaseExclusive, UniqueIds
    <3> QED
      BY <2>4, <3>1, <3>2 DEF LeaseInv, OwnRow, LeasedRead, OwnAddress
  <2> QED
    BY <1>2, <2>2, <2>3, <2>4 DEF RequestLeases
<1>3. CASE RequestExpire
  <2>1. NoNewLease /\ pc = "r_expire" /\ pc' = "r_create" /\ UNCHANGED pkt
    BY <1>3 DEF RequestExpire, expire_lease, NoNewLease, TypeOK, StoreTypeOK
  <2>2. list_active_leases' \subseteq list_active_leases
    BY <2>1 DEF NoNewLease, list_active_leases, TypeOK, StoreTypeOK, LeaseRow
  <2>3. LeaseExclusive' /\ UniqueIds' /\ ClearAddress'
    BY <2>1, <2>2 DEF LeaseInv, LeaseExclusive, UniqueIds, NoNewLease, ClearAddress, RequestedIp
  <2> QED
    BY <2>1, <2>3 DEF LeaseInv, OwnRow, LeasedRead, OwnAddress
<1>4. CASE RequestCreate
  <2>1. /\ pc = "r_create" /\ pc' = "idle" /\ now' = now
        /\ \/ create_lease(frame.subnet_id, pkt.mac, RequestedIp(pkt),
                            frame.now + DefaultLeaseTime)
           \/ UNCHANGED <<leases, seq>>
    BY <1>4, Zenon DEF RequestCreate, SendAck, NoReply, Return
  <2>2. CASE UNCHANGED <<leases, seq>>
    BY <2>1, <2>2, AsideStep DEF NoNewLease, RelyPC, TypeOK, StoreTypeOK
  <2>3. CASE create_lease(frame.subnet_id, pkt.mac, RequestedIp(pkt),
                          frame.now + DefaultLeaseTime)
    <3>1. leases' = leases \cup {NewLease} /\ seq'.leases = seq.leases + 1
      BY <2>3 DEF create_lease, NewLease, TypeOK, StoreTypeOK
    <3>2. list_active_leases' \subseteq list_active_leases \cup {NewLease}
      BY <2>1, <3>1 DEF list_active_leases
    <3>3. NewLease.ip = RequestedIp(pkt) /\ NewLease.mac = pkt.mac /\ NewLease.id = seq.leases + 1
      BY DEF NewLease
    <3>4. LeaseExclusive'
      BY <2>1, <3>2, <3>3 DEF LeaseInv, LeaseExclusive, ClearAddress
    <3>5. UniqueIds'
      BY <3>1, <3>3 DEF LeaseInv, UniqueIds, TypeOK, StoreTypeOK, LeaseRow
    <3> QED
      BY <2>1, <3>4, <3>5 DEF LeaseInv, ClearAddress, OwnRow, LeasedRead, OwnAddress
  <2> QED
    BY <2>1, <2>2, <2>3
<1> QED
  BY <1>1, <1>2, <1>3, <1>4 DEF RequestStep

LEMMA ReleaseLeaseInv ==
    ASSUME TypeOK, TypeOK', LeaseInv, ReleaseStep
    PROVE  LeaseInv'
<1>1. CASE ReleaseLease
  <2>1. NoNewLease /\ list_active_leases' = list_active_leases /\ UNCHANGED <<leases, seq>>
    BY <1>1, ReadKeeps DEF ReleaseLease, ReadOnly
  <2>2. CASE Return
    BY <2>1, <2>2, AsideStep DEF Return, RelyPC
  <2>3. ASSUME NEW l \in get_active_lease(pkt.mac), pc' = "rel_expire",
               frame' = [frame EXCEPT !.row = LeaseRowOf(l)], UNCHANGED pkt
        PROVE  LeaseInv'
    <3>1. l \in leases /\ l.mac = pkt.mac
      BY <2>3 DEF get_active_lease, list_active_leases
    <3>2. frame'.row.id = l.id
      BY <2>3 DEF LeaseRowOf, TypeOK, ServerTypeOK, Frame
    <3>3. OwnRow'
      BY <2>1, <2>3, <3>1, <3>2 DEF OwnRow, LeaseInv, UniqueIds
    <3>4. LeaseExclusive' /\ UniqueIds'
      BY <2>1 DEF LeaseInv, LeaseExclusive, UniqueIds
    <3> QED
      BY <2>3, <3>3, <3>4 DEF LeaseInv, ClearAddress, LeasedRead, OwnAddress
  <2> QED
    BY <1>1, <2>2, <2>3 DEF ReleaseLease
<1>2. CASE ReleaseExpire
  <2>1. NoNewLease /\ pc' = "idle"
    BY <1>2 DEF ReleaseExpire, expire_lease, NoNewLease, Return, TypeOK, StoreTypeOK
  <2> QED
    BY <2>1, AsideStep DEF RelyPC
<1> QED
  BY <1>1, <1>2 DEF ReleaseStep

(* No API call touches a lease except by deleting its subnet. *)
LEMMA ApiKeeps ==
    ASSUME TypeOK, ApiStep
    PROVE  NoNewLease /\ UNCHANGED now
<1> USE DEF NoNewLease, TypeOK, StoreTypeOK
<1>1. ASSUME NEW a, CheckSubnet(a) PROVE NoNewLease /\ UNCHANGED now
  BY <1>1 DEF CheckSubnet
<1>2. ASSUME NEW a, CreateSubnet(a) PROVE NoNewLease /\ UNCHANGED now
  BY <1>2 DEF CreateSubnet, InsertSubnet
<1>3. ASSUME NEW i, NEW a, PutSubnet(i, a) PROVE NoNewLease /\ UNCHANGED now
  BY <1>3 DEF PutSubnet, UpdateSubnet
<1>4. ASSUME NEW i, RemoveSubnet(i) PROVE NoNewLease /\ UNCHANGED now
  BY <1>4 DEF RemoveSubnet, DeleteSubnet
<1>5. ASSUME NEW r, CreateRange(r) PROVE NoNewLease /\ UNCHANGED now
  BY <1>5 DEF CreateRange, InsertRange
<1>6. ASSUME NEW i, RemoveRange(i) PROVE NoNewLease /\ UNCHANGED now
  BY <1>6 DEF RemoveRange, DeleteRange
<1>7. ASSUME NEW r, CreateStatic(r) PROVE NoNewLease /\ UNCHANGED now
  BY <1>7 DEF CreateStatic, InsertStatic
<1>8. ASSUME NEW i, RemoveStatic(i) PROVE NoNewLease /\ UNCHANGED now
  BY <1>8 DEF RemoveStatic, DeleteStatic
<1> QED
  BY <1>1, <1>2, <1>3, <1>4, <1>5, <1>6, <1>7, <1>8, Zenon DEF ApiStep

LEMMA LeaseInvStep ==
    TypeOK /\ TypeOK' /\ LeaseInv /\ [Next]_vars => LeaseInv'
<1> SUFFICES ASSUME TypeOK, TypeOK', LeaseInv, [Next]_vars PROVE LeaseInv'
  OBVIOUS
<1>1. CASE Receive
  <2> PICK p \in Packets : RecvPacket(p)
    BY <1>1 DEF Receive
  <2>1. NoNewLease
    BY DEF RecvPacket, storeVars, NoNewLease, TypeOK, StoreTypeOK
  <2>2. pc' \notin RelyPC
    BY DEF RecvPacket, Handled, FirstStep, RelyPC
  <2> QED
    BY <2>1, <2>2, AsideStep
<1>2. CASE Handle
  BY <1>2, DiscoverLeaseInv, RequestLeaseInv, ReleaseLeaseInv DEF Handle, HandlerStep
<1>3. CASE Purge
  <2>1. NoNewLease /\ UNCHANGED serverVars
    BY <1>3 DEF Purge, Cleanup, CleanupFails, delete_expired_leases, NoNewLease, TypeOK, StoreTypeOK
  <2> QED
    BY <2>1, QuietStep
<1>4. CASE Api
  BY <1>4, ApiKeeps, QuietStep DEF Api
<1>5. CASE Tick
  <2>1. NoNewLease /\ UNCHANGED serverVars
    BY <1>5 DEF Tick, NoNewLease, TypeOK, StoreTypeOK
  <2> QED
    BY <2>1, QuietStep
<1>6. CASE Crash
  <2>1. NoNewLease /\ pc' \notin RelyPC
    BY <1>6 DEF Crash, storeVars, Return, RelyPC, NoNewLease, TypeOK, StoreTypeOK
  <2> QED
    BY <2>1, AsideStep
<1>7. CASE UNCHANGED vars
  <2>1. NoNewLease /\ UNCHANGED serverVars
    BY <1>7 DEF vars, storeVars, NoNewLease, TypeOK, StoreTypeOK
  <2> QED
    BY <2>1, QuietStep
<1> QED
  BY <1>1, <1>2, <1>3, <1>4, <1>5, <1>6, <1>7 DEF Next

LEMMA LeaseInvInit == Init => LeaseInv
BY DEF Init, ServerInit, LeaseInv, LeaseExclusive, UniqueIds, ClearAddress, OwnRow, LeasedRead,
       OwnAddress, list_active_leases

(***************************************************************************)
(* The inductive invariant holds in every reachable state.                 *)
(***************************************************************************)
THEOREM LeaseInvariant == Spec => []LeaseInv
<1>1. TypeOK /\ TypeOK' /\ LeaseInv /\ [Next]_vars => LeaseInv'
  BY LeaseInvStep
<1> QED
  BY <1>1, LeaseInvInit, TypeCorrect, PTL DEF Spec

(***************************************************************************)
(* Two leases in force for one address always belong to one client, with   *)
(* nothing in the schema to say so: it is handle_request that never writes *)
(* a lease over another client's, whatever API calls, purges, failures and *)
(* restarts come between its reads and its INSERT.                         *)
(***************************************************************************)
THEOREM LeaseExclusivity == Spec => []LeaseExclusive
<1>1. LeaseInv => LeaseExclusive
  BY DEF LeaseInv
<1> QED
  BY <1>1, LeaseInvariant, PTL

-----------------------------------------------------------------------------
(* What a step may never do. *)

LEMMA OfferIsFree ==
    ASSUME TypeOK, LeaseInv, [Next]_vars,
           pc \in {"d_lease_subnet", "d_ranges"}, offer' # offer, offer'.ip # NoAddr,
           NEW l \in list_active_leases, l.ip = offer'.ip
    PROVE  l.mac = offer'.mac
<1>1. CASE DiscoverLeaseSubnet
  <2>1. SendOffer(frame.row.ip) /\ pc = "d_lease_subnet"
    BY <1>1 DEF DiscoverLeaseSubnet, historyVars, NoReply
  <2> QED
    BY <2>1 DEF SendOffer, LeaseInv, OwnAddress
<1>2. CASE DiscoverRanges
  <2>1. PICK ip : SendOffer(ip) /\ ip \notin frame.leased
    BY <1>2 DEF DiscoverRanges, historyVars, NoReply, FirstFree
  <2>2. pc = "d_ranges" /\ l.ip = ip
    BY <1>2, <2>1 DEF DiscoverRanges, SendOffer
  <2> QED
    BY <2>1, <2>2 DEF LeaseInv, LeasedRead
<1>3. CASE Handle
  BY <1>1, <1>2, <1>3
     DEF Handle, HandlerStep, DiscoverStep, DiscoverStatic, DiscoverStaticSubnet, DiscoverLease,
         DiscoverSubnets, DiscoverLeases, RequestStep, RequestStatic, RequestStaticSubnet,
         RequestRanges, RequestSubnet, RequestLeases, RequestExpire, RequestCreate,
         ReleaseStep, ReleaseLease, ReleaseExpire
<1>4. CASE Receive
  BY <1>4 DEF Receive, RecvPacket
<1>5. CASE Purge
  BY <1>5 DEF Purge, Cleanup, CleanupFails, historyVars
<1>6. CASE Api \/ Tick \/ Crash
  BY <1>6 DEF Api, Tick, Crash, NoOffer
<1>7. CASE UNCHANGED vars
  BY <1>7 DEF vars, historyVars
<1> QED
  BY <1>3, <1>4, <1>5, <1>6, <1>7 DEF Next

(***************************************************************************)
(* handle_discover offers no address leased to another client at that      *)
(* moment, however long ago it read the leases: in between, leases can     *)
(* only go away, since the loop that would create one is busy.             *)
(***************************************************************************)
THEOREM OffersAreFree == Spec => OfferNotLeased
<1>1. TypeOK /\ LeaseInv /\ [Next]_vars =>
        [/\ pc \in {"d_lease_subnet", "d_ranges"}
         /\ offer' # offer
         /\ offer'.ip # NoAddr
         => \A l \in list_active_leases : l.ip = offer'.ip => l.mac = offer'.mac]_vars
  BY OfferIsFree
<1> QED
  BY <1>1, LeaseInvariant, TypeCorrect, PTL DEF Spec, OfferNotLeased

(* Of the API calls only the deletion of a subnet takes leases away. *)
LEMMA ApiLeases ==
    ASSUME ApiStep
    PROVE  leases' = leases \/ \E i : DeleteSubnet(i)
<1>1. ASSUME NEW a, CheckSubnet(a) PROVE leases' = leases
  BY <1>1 DEF CheckSubnet
<1>2. ASSUME NEW a, CreateSubnet(a) PROVE leases' = leases
  BY <1>2 DEF CreateSubnet, InsertSubnet
<1>3. ASSUME NEW i, NEW a, PutSubnet(i, a) PROVE leases' = leases
  BY <1>3 DEF PutSubnet, UpdateSubnet
<1>4. ASSUME NEW i, RemoveSubnet(i) PROVE \E j : DeleteSubnet(j)
  BY <1>4 DEF RemoveSubnet
<1>5. ASSUME NEW r, CreateRange(r) PROVE leases' = leases
  BY <1>5 DEF CreateRange, InsertRange
<1>6. ASSUME NEW i, RemoveRange(i) PROVE leases' = leases
  BY <1>6 DEF RemoveRange, DeleteRange
<1>7. ASSUME NEW r, CreateStatic(r) PROVE leases' = leases
  BY <1>7 DEF CreateStatic, InsertStatic
<1>8. ASSUME NEW i, RemoveStatic(i) PROVE leases' = leases
  BY <1>8 DEF RemoveStatic, DeleteStatic
<1> QED
  BY <1>1, <1>2, <1>3, <1>4, <1>5, <1>6, <1>7, <1>8, Zenon DEF ApiStep

LEMMA RemovalByOwner ==
    ASSUME TypeOK, LeaseInv, [Next]_vars, NEW l \in list_active_leases, l \notin leases'
    PROVE  \/ pc \in {"r_expire", "rel_expire"} /\ pkt.mac = l.mac
           \/ l.subnet_id \notin {s.id : s \in subnets'}
<1>0. l \in leases /\ l.lease_end > now /\ l.lease_end \in Nat /\ now \in Nat
  BY DEF list_active_leases, TypeOK, StoreTypeOK, LeaseRow
<1>1. CASE expire_lease(frame.row.id) /\ pc \in {"r_expire", "rel_expire"}
  BY <1>0, <1>1 DEF expire_lease, LeaseInv, OwnRow
<1>2. CASE Handle
  <2>1. CASE DiscoverStep
    BY <1>0, <2>1 DEF DiscoverStep, DiscoverStatic, DiscoverStaticSubnet, DiscoverLease,
       DiscoverLeaseSubnet, DiscoverSubnets, DiscoverLeases, DiscoverRanges, ReadOnly
  <2>2. CASE RequestStep
    BY <1>0, <1>1, <2>2 DEF RequestStep, RequestStatic, RequestStaticSubnet, RequestRanges,
       RequestSubnet, RequestLeases, RequestExpire, RequestCreate, ReadOnly, create_lease
  <2>3. CASE ReleaseStep
    BY <1>0, <1>1, <2>3 DEF ReleaseStep, ReleaseLease, ReleaseExpire, ReadOnly
  <2> QED
    BY <1>2, <2>1, <2>2, <2>3 DEF Handle, HandlerStep
<1>3. CASE Receive
  BY <1>0, <1>3 DEF Receive, RecvPacket, storeVars
<1>4. CASE Purge
  BY <1>0, <1>4 DEF Purge, Cleanup, CleanupFails, delete_expired_leases
<1>5. CASE Api
  BY <1>0, <1>5, ApiLeases DEF Api, DeleteSubnet
<1>6. CASE Tick \/ Crash
  BY <1>0, <1>6 DEF Tick, Crash, storeVars
<1>7. CASE UNCHANGED vars
  BY <1>0, <1>7 DEF vars, storeVars
<1> QED
  BY <1>2, <1>3, <1>4, <1>5, <1>6, <1>7 DEF Next

(***************************************************************************)
(* A lease in force goes away only by its client's own REQUEST or RELEASE, *)
(* or with its subnet: expire_lease in handle_request and handle_release   *)
(* deletes by an id read earlier, and that id still names the client's row.*)
(***************************************************************************)
THEOREM RemovedByOwner == Spec => LeaseRemovedByOwner
<1>1. TypeOK /\ LeaseInv /\ [Next]_vars =>
        [\A l \in list_active_leases :
            l \notin leases' =>
               \/ pc \in {"r_expire", "rel_expire"} /\ pkt.mac = l.mac
               \/ l.subnet_id \notin {s.id : s \in subnets'}]_vars
  BY RemovalByOwner
<1> QED
  BY <1>1, LeaseInvariant, TypeCorrect, PTL DEF Spec, LeaseRemovedByOwner

-----------------------------------------------------------------------------
(* Referential integrity. *)

(* Ranges, static assignments and leases only go away, and no subnet does. *)
RowsFollow ==
    /\ ranges' \subseteq ranges /\ statics' \subseteq statics /\ leases' \subseteq leases
    /\ SubnetIds \subseteq SubnetIds'

LEMMA FollowersKeep ==
    ASSUME ReferentialIntegrity, RowsFollow
    PROVE  ReferentialIntegrity'
BY DEF ReferentialIntegrity, RowsFollow

(* An UPDATE of a subnet leaves its id, and every other row. *)
LEMMA UpdateKeepsIds ==
    ASSUME NEW i, NEW network, NEW netmask, UpdateSubnet(i, network, netmask)
    PROVE  SubnetIds \subseteq SubnetIds'
<1>1. ASSUME NEW s \in subnets PROVE \E t \in subnets' : t.id = s.id
  <2> DEFINE t == IF s.id = i THEN [id |-> i, network |-> network, netmask |-> netmask] ELSE s
  <2>1. t \in subnets' /\ t.id = s.id
    BY DEF UpdateSubnet
  <2> QED
    BY <2>1
<1> QED
  BY <1>1 DEF SubnetIds

LEMMA ApiReferences ==
    ASSUME ReferentialIntegrity, ApiStep
    PROVE  ReferentialIntegrity'
<1>1. ASSUME NEW a, CheckSubnet(a) PROVE ReferentialIntegrity'
  BY <1>1, FollowersKeep DEF CheckSubnet, RowsFollow, SubnetIds
<1>2. ASSUME NEW a, CreateSubnet(a) PROVE ReferentialIntegrity'
  BY <1>2, FollowersKeep DEF CreateSubnet, InsertSubnet, RowsFollow, SubnetIds
<1>3. ASSUME NEW i, NEW a, PutSubnet(i, a) PROVE ReferentialIntegrity'
  <2>1. UpdateSubnet(i, a.network, a.netmask)
    BY <1>3 DEF PutSubnet
  <2>2. SubnetIds \subseteq SubnetIds'
    BY <2>1, UpdateKeepsIds
  <2> QED
    BY <2>1, <2>2, FollowersKeep DEF UpdateSubnet, RowsFollow
<1>4. ASSUME NEW i, RemoveSubnet(i) PROVE ReferentialIntegrity'
  BY <1>4 DEF RemoveSubnet, DeleteSubnet, ReferentialIntegrity, SubnetIds
<1>5. ASSUME NEW r, CreateRange(r) PROVE ReferentialIntegrity'
  BY <1>5 DEF CreateRange, InsertRange, ReferentialIntegrity, SubnetIds
<1>6. ASSUME NEW i, RemoveRange(i) PROVE ReferentialIntegrity'
  BY <1>6, FollowersKeep DEF RemoveRange, DeleteRange, RowsFollow, SubnetIds
<1>7. ASSUME NEW r, CreateStatic(r) PROVE ReferentialIntegrity'
  BY <1>7 DEF CreateStatic, InsertStatic, ReferentialIntegrity, SubnetIds
<1>8. ASSUME NEW i, RemoveStatic(i) PROVE ReferentialIntegrity'
  BY <1>8, FollowersKeep DEF RemoveStatic, DeleteStatic, RowsFollow, SubnetIds
<1> QED
  BY <1>1, <1>2, <1>3, <1>4, <1>5, <1>6, <1>7, <1>8, Zenon DEF ApiStep

LEMMA HandlerReferences ==
    ASSUME ReferentialIntegrity, HandlerStep
    PROVE  ReferentialIntegrity'
<1>1. CASE DiscoverStep
  <2>1. ReadOnly
    BY <1>1 DEF DiscoverStep, DiscoverStatic, DiscoverStaticSubnet, DiscoverLease,
       DiscoverLeaseSubnet, DiscoverSubnets, DiscoverLeases, DiscoverRanges
  <2> QED
    BY <2>1, FollowersKeep DEF ReadOnly, RowsFollow, SubnetIds
<1>2. CASE RequestCreate
  <2>1. CASE /\ frame.subnet_id \in SubnetIds
             /\ create_lease(frame.subnet_id, pkt.mac, RequestedIp(pkt),
                             frame.now + DefaultLeaseTime)
    <3>1. leases' = leases \cup {NewLease} /\ NewLease.subnet_id = frame.subnet_id
      BY <2>1 DEF create_lease, NewLease
    <3>2. SubnetIds' = SubnetIds /\ ranges' = ranges /\ statics' = statics
      BY <2>1 DEF create_lease, SubnetIds
    <3> QED
      BY <2>1, <3>1, <3>2 DEF ReferentialIntegrity
  <2>2. CASE UNCHANGED <<subnets, ranges, statics, leases, seq>>
    BY <2>2, FollowersKeep DEF RowsFollow, SubnetIds
  <2> QED
    BY <1>2, <2>1, <2>2, Zenon DEF RequestCreate
<1>3. CASE RequestStep /\ ~ RequestCreate
  <2>1. ReadOnly \/ RequestExpire
    BY <1>3 DEF RequestStep, RequestStatic, RequestStaticSubnet, RequestRanges,
       RequestSubnet, RequestLeases
  <2> QED
    BY <2>1, FollowersKeep DEF ReadOnly, RequestExpire, expire_lease, RowsFollow, SubnetIds
<1>4. CASE ReleaseStep
  BY <1>4, FollowersKeep DEF ReleaseStep, ReleaseLease, ReleaseExpire, ReadOnly,
     expire_lease, RowsFollow, SubnetIds
<1> QED
  BY <1>1, <1>2, <1>3, <1>4 DEF HandlerStep

LEMMA ReferencesStep == ReferentialIntegrity /\ [Next]_vars => ReferentialIntegrity'
<1> SUFFICES ASSUME ReferentialIntegrity, [Next]_vars PROVE ReferentialIntegrity'
  OBVIOUS
<1>1. CASE Receive \/ Tick \/ Crash \/ UNCHANGED vars
  BY <1>1, FollowersKeep DEF Receive, RecvPacket, Tick, Crash, vars, storeVars, RowsFollow,
     SubnetIds
<1>2. CASE Handle
  BY <1>2, HandlerReferences DEF Handle
<1>3. CASE Purge
  BY <1>3, FollowersKeep DEF Purge, Cleanup, CleanupFails, delete_expired_leases, RowsFollow,
     SubnetIds
<1>4. CASE Api
  BY <1>4, ApiReferences DEF Api
<1> QED
  BY <1>1, <1>2, <1>3, <1>4 DEF Next

LEMMA ReferencesInit == Init => ReferentialIntegrity
<1> SUFFICES ASSUME Init PROVE ReferentialIntegrity
  OBVIOUS
<1> PICK c \in InitialTables :
       subnets = c.subnets /\ ranges = c.ranges /\ statics = c.statics /\ seq = c.seq
  BY DEF Init
<1> QED
  BY NdhcpdAssumption DEF Init, ReferentialIntegrity, SubnetIds

(***************************************************************************)
(* No range, static assignment or lease ever outlives its subnet: a subnet *)
(* deleted between the reads of handle_request and its INSERT takes its    *)
(* rows with it, and the INSERT of the lease is then refused.              *)
(***************************************************************************)
THEOREM NoOrphans == Spec => []ReferentialIntegrity
BY ReferencesInit, ReferencesStep, PTL DEF Spec

-----------------------------------------------------------------------------
(* The refinement: the daemon implements the lease registry. *)

(* By LeaseExclusive the holder is the client of any lease on the address. *)
LEMMA HolderIs ==
    ASSUME LeaseExclusive, NEW ip, NEW l \in LeasesOn(ip)
    PROVE  HolderOf(ip) = l.mac
<1> DEFINE k == CHOOSE k \in LeasesOn(ip) : TRUE
<1>1. k \in LeasesOn(ip)
  OBVIOUS
<1>2. k.mac = l.mac
  BY <1>1 DEF LeaseExclusive, LeasesOn
<1> QED
  BY <1>2 DEF HolderOf

LEMMA HolderType ==
    ASSUME TypeOK, NEW ip
    PROVE  HolderOf(ip) \in Mac \cup {NoMac}
<1>1. CASE LeasesOn(ip) = {}
  BY <1>1 DEF HolderOf
<1>2. CASE LeasesOn(ip) # {}
  <2> DEFINE k == CHOOSE k \in LeasesOn(ip) : TRUE
  <2>1. k \in LeasesOn(ip)
    BY <1>2
  <2>2. k.mac \in Mac
    BY <2>1 DEF LeasesOn, list_active_leases, TypeOK, StoreTypeOK, LeaseRow
  <2> QED
    BY <1>2, <2>2 DEF HolderOf
<1> QED
  BY <1>1, <1>2

LEMMA HolderNext ==
    ASSUME LeaseExclusive', NEW ip, NEW l \in LeasesOn(ip)'
    PROVE  HolderOf(ip)' = l.mac
<1> DEFINE k == CHOOSE k \in LeasesOn(ip)' : TRUE
<1>1. k \in LeasesOn(ip)'
  OBVIOUS
<1>2. k.mac = l.mac
  BY <1>1 DEF LeaseExclusive, LeasesOn
<1> QED
  BY <1>2 DEF HolderOf

LEMMA SameHolder ==
    ASSUME LeaseInv, LeaseInv', NEW ip, LeasesOn(ip)' = LeasesOn(ip)
    PROVE  HolderOf(ip)' = HolderOf(ip)
<1>1. CASE LeasesOn(ip) = {}
  BY <1>1 DEF HolderOf
<1>2. ASSUME NEW l \in LeasesOn(ip) PROVE HolderOf(ip)' = HolderOf(ip)
  <2>1. l \in LeasesOn(ip)'
    OBVIOUS
  <2> QED
    BY <1>2, <2>1, HolderIs, HolderNext DEF LeaseInv
<1> QED
  BY <1>1, <1>2

(* A step that adds no lease takes holders away, and changes none. *)
LEMMA QuietHolders ==
    ASSUME TypeOK, TypeOK', LeaseInv, LeaseInv', NoNewLease, NEW ip
    PROVE  HolderOf(ip)' \in {HolderOf(ip), NoMac}
<1>1. LeasesOn(ip)' \subseteq LeasesOn(ip)
  BY DEF NoNewLease, LeasesOn, list_active_leases, TypeOK, StoreTypeOK, LeaseRow
<1>2. CASE LeasesOn(ip)' = {}
  BY <1>2 DEF HolderOf
<1>3. ASSUME NEW l \in LeasesOn(ip)' PROVE HolderOf(ip)' = HolderOf(ip)
  <2>1. HolderOf(ip) = l.mac
    BY <1>1, <1>3, HolderIs DEF LeaseInv
  <2>2. HolderOf(ip)' = l.mac
    BY <1>3, HolderNext DEF LeaseInv
  <2> QED
    BY <2>1, <2>2
<1> QED
  BY <1>2, <1>3

LEMMA QuietRefines ==
    ASSUME TypeOK, TypeOK', LeaseInv, LeaseInv', NoNewLease
    PROVE  Registry!Lapse
<1>1. \A ip \in Addr : HolderOf(ip)' \in {HolderOf(ip), NoMac}
  BY QuietHolders
<1>2. \A ip \in Addr : HolderOf(ip) \in Mac \cup {NoMac}
  BY HolderType
<1>3. \A ip \in Addr : HolderOf(ip)' \in Mac \cup {NoMac}
  BY <1>1, <1>2
<1> QED
  BY <1>1, <1>3 DEF Registry!Lapse

(* The INSERT of handle_request grants the address to its client. *)
LEMMA CreateRefines ==
    ASSUME TypeOK, TypeOK', NamesAddress, LeaseInv, LeaseInv', pc = "r_create", now' = now,
           create_lease(frame.subnet_id, pkt.mac, RequestedIp(pkt), frame.now + DefaultLeaseTime)
    PROVE  Registry!Next
<1>0. RequestedIp(pkt) \in Addr /\ pkt.mac \in Mac
  BY RequestedType DEF NamesAddress, RequestPC, TypeOK, ServerTypeOK, Packet
<1> SUFFICES ASSUME NEW ip \in Addr, NEW m \in Mac, ip = RequestedIp(pkt), m = pkt.mac
             PROVE  Registry!Next
  BY <1>0
<1>1. leases' = leases \cup {NewLease} /\ NewLease.ip = ip /\ NewLease.mac = m
  BY DEF create_lease, NewLease
<1>2. ASSUME NEW a, a # ip PROVE LeasesOn(a)' = LeasesOn(a)
  BY <1>1, <1>2 DEF LeasesOn, list_active_leases
<1>3. \A a : a # ip => HolderOf(a)' = HolderOf(a)
  BY <1>2, SameHolder
<1>4. HolderOf(ip) \in {NoMac, m}
  <2>1. CASE LeasesOn(ip) = {}
    BY <2>1 DEF HolderOf
  <2>2. ASSUME NEW l \in LeasesOn(ip) PROVE HolderOf(ip) = m
    BY <2>2, HolderIs DEF LeaseInv, ClearAddress, LeasesOn
  <2> QED
    BY <2>1, <2>2
<1>5. CASE NewLease \in list_active_leases'
  <2>1. NewLease \in LeasesOn(ip)'
    BY <1>1, <1>5 DEF LeasesOn
  <2>2. HolderOf(ip)' = m
    BY <1>1, <2>1, HolderNext DEF LeaseInv
  <2>3. Registry!Grant(ip, m)
    BY <1>3, <1>4, <2>2 DEF Registry!Grant
  <2> QED
    BY <2>3 DEF Registry!Next
<1>6. CASE NewLease \notin list_active_leases'
  <2>1. list_active_leases' = list_active_leases
    BY <1>1, <1>6 DEF list_active_leases
  <2>2. \A a : HolderOf(a)' = HolderOf(a)
    BY <2>1, SameHolder DEF LeasesOn
  <2>3. \A a \in Addr : HolderOf(a) \in Mac \cup {NoMac}
    BY HolderType
  <2>4. Registry!Lapse
    BY <2>2, <2>3 DEF Registry!Lapse
  <2> QED
    BY <2>4 DEF Registry!Next
<1> QED
  BY <1>5, <1>6

(* Every step of the daemon but that INSERT adds no lease. *)
LEMMA OneGrant ==
    ASSUME TypeOK, [Next]_vars
    PROVE  \/ NoNewLease
           \/ /\ pc = "r_create" /\ now' = now
              /\ create_lease(frame.subnet_id, pkt.mac, RequestedIp(pkt),
                              frame.now + DefaultLeaseTime)
<1>1. CASE Receive \/ Tick \/ Crash \/ UNCHANGED vars
  <2>1. UNCHANGED <<leases, seq>> /\ now' \in {now, now + 1}
    BY <1>1 DEF Receive, RecvPacket, Tick, Crash, vars, storeVars
  <2> QED
    BY <2>1 DEF NoNewLease, TypeOK, StoreTypeOK
<1>2. CASE DiscoverStep
  BY <1>2, ReadKeeps DEF DiscoverStep, DiscoverStatic, DiscoverStaticSubnet, DiscoverLease,
       DiscoverLeaseSubnet, DiscoverSubnets, DiscoverLeases, DiscoverRanges
<1>3. CASE RequestCreate
  <2>1. now' = now /\ pc = "r_create"
    BY <1>3 DEF RequestCreate
  <2>2. CASE UNCHANGED <<subnets, ranges, statics, leases, seq>>
    BY <2>1, <2>2 DEF NoNewLease, TypeOK, StoreTypeOK
  <2> QED
    BY <1>3, <2>1, <2>2, Zenon DEF RequestCreate
<1>4. CASE RequestExpire \/ ReleaseExpire
  BY <1>4 DEF RequestExpire, ReleaseExpire, expire_lease, NoNewLease, TypeOK, StoreTypeOK
<1>5. CASE RequestStatic \/ RequestStaticSubnet \/ RequestRanges \/ RequestSubnet
           \/ RequestLeases \/ ReleaseLease
  BY <1>5, ReadKeeps DEF RequestStatic, RequestStaticSubnet, RequestRanges, RequestSubnet,
     RequestLeases, ReleaseLease
<1>6. CASE Purge
  BY <1>6 DEF Purge, Cleanup, CleanupFails, delete_expired_leases, NoNewLease, TypeOK, StoreTypeOK
<1>7. CASE Api
  BY <1>7, ApiKeeps DEF Api
<1> QED
  BY <1>1, <1>2, <1>3, <1>4, <1>5, <1>6, <1>7, Zenon
     DEF Next, Handle, HandlerStep, RequestStep, ReleaseStep

LEMMA RefinesStep ==
    /\ TypeOK /\ NamesAddress /\ LeaseInv
    /\ TypeOK' /\ LeaseInv'
    /\ [Next]_vars
    => Registry!Next
BY OneGrant, QuietRefines, CreateRefines DEF Registry!Next

LEMMA RefinesInit == Init => Registry!Init
<1> SUFFICES ASSUME Init PROVE \A ip \in Addr : HolderOf(ip) = NoMac
  BY DEF Registry!Init
<1> QED
  BY DEF Init, HolderOf, LeasesOn, list_active_leases

(***************************************************************************)
(* The daemon implements the lease registry for every value of the         *)
(* constants: an address goes from one client to another only by being     *)
(* free, whatever failures, restarts, purges and API calls come between    *)
(* the statements of handle_request and handle_release.                    *)
(***************************************************************************)
THEOREM RegistryImplemented == Spec => ImplementsRegistry
<1>1. /\ TypeOK /\ NamesAddress /\ LeaseInv
      /\ TypeOK' /\ LeaseInv'
      /\ [Next]_vars
      => [Registry!Next]_([ip \in Addr |-> HolderOf(ip)])
  BY RefinesStep
<1> QED
  BY <1>1, RefinesInit, TypeCorrect, LeaseInvariant, PTL
     DEF Spec, ImplementsRegistry, Registry!Spec
=============================================================================
