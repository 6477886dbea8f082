----------------------------- MODULE ReplyPath -----------------------------
(***************************************************************************)
(* From the decision of a handler to the wire (dhcp/server.rs): the OFFER  *)
(* and ACK packets, where a reply goes, and the socket or the raw Ethernet *)
(* frame it leaves by.  Which address and subnet a handler decides on is   *)
(* the subject of DhcpServer; here it is any of Decisions.                 *)
(***************************************************************************)
EXTENDS Wire

CONSTANTS
    U32,          \* one more than the largest u32; 2^32 in the code
    Iface,        \* interfaces of the host
    IfaceIps,     \* interface -> sequence of its IPv4 addresses, maybe empty
    IfaceMac,     \* interface -> sequence of its MAC, or empty (get_iface_mac is None)
    Mtu,          \* the longest IP packet a link takes
    Decisions     \* [ip, subnet] a handler may decide on

ASSUME ReplyAssumption ==
    /\ U32 \in Nat \ {0}
    /\ IfaceIps \in [Iface -> Seq(Ipv4Addr)]
    /\ Mtu \in Nat
    /\ Mtu < 65536
    /\ \A d \in Decisions :
          /\ d.ip \in Ipv4Addr \ {Broadcast}
          /\ d.subnet.gateway \in Ipv4Addr
          /\ d.subnet.netmask \in Nat /\ d.subnet.netmask < 256
          /\ d.subnet.dns_servers \in Seq(Ipv4Addr)
          /\ d.subnet.domain_name \in Seq(Seq(0..255))

VARIABLES
    out,            \* the reply being put on the wire, or Nothing
    bcast_sockets   \* the HashMap of broadcast sockets: interface -> state

replyVars == <<out, bcast_sockets>>

Nothing == [via |-> "nothing"]

DHCP_SERVER_PORT == 67
DHCP_CLIENT_PORT == 68

ReplyInit ==
    /\ out = Nothing
    /\ bcast_sockets = [i \in Iface |-> "absent"]

-----------------------------------------------------------------------------
(* create_offer and create_ack. *)

(* The octet with n leading ones, at n + 1. *)
LeadingOnes == <<0, 128, 192, 224, 240, 248, 252, 254, 255>>

(* The prefix `prefix` as an address. !0u32 << (32 - prefix) shifts by the *)
(* low five bits of the difference in a release build.                     *)
netmask_from_prefix(prefix) ==
    LET ones == IF prefix = 0 THEN 0 ELSE 32 - ((288 - prefix) % 32)
        bits(k) == IF ones <= 8 * (k - 1) THEN 0
                   ELSE IF ones >= 8 * k THEN 8 ELSE ones - 8 * (k - 1)
    IN  [k \in 1..4 |-> LeadingOnes[bits(k) + 1]]

RenewalTime(lease) == lease \div 2

(* default_lease_time * 7 / 8 in u32, which wraps in a release build. *)
RebindingTime(lease) == ((lease * 7) % U32) \div 8

ReplyFields(request, ip, subnet) ==
    [op |-> 2, xid |-> request.xid, broadcast |-> FALSE, ciaddr |-> Unspecified,
     yiaddr |-> ip, siaddr |-> subnet.gateway, giaddr |-> Unspecified,
     chaddr |-> request.chaddr]

(* What both replies say of the subnet; the domain name is optional. *)
SubnetOptions(subnet) ==
    <<Option("SubnetMask", netmask_from_prefix(subnet.netmask)),
      Option("Router", <<subnet.gateway>>),
      Option("DnsServer", subnet.dns_servers)>>
    \o [i \in DOMAIN subnet.domain_name |-> Option("DomainName", subnet.domain_name[i])]

create_offer(request, ip, subnet, lease) ==
    [fields |-> ReplyFields(request, ip, subnet),
     options |-> <<Option("MessageType", "Offer"),
                   Option("ServerIdentifier", subnet.gateway),
                   Option("LeaseTime", lease)>>
                 \o SubnetOptions(subnet)]

(* Mutant: the timers follow the options of unbounded length. *)
create_ack_late(request, ip, subnet, lease) ==
    [fields |-> ReplyFields(request, ip, subnet),
     options |-> <<Option("MessageType", "Ack"),
                   Option("ServerIdentifier", subnet.gateway)>>
                 \o SubnetOptions(subnet)
                 \o <<Option("LeaseTime", lease),
                      Option("RenewalTime", RenewalTime(lease)),
                      Option("RebindingTime", RebindingTime(lease))>>]

create_ack(request, ip, subnet, lease) ==
    [fields |-> ReplyFields(request, ip, subnet),
     options |-> <<Option("MessageType", "Ack"),
                   Option("ServerIdentifier", subnet.gateway),
                   Option("LeaseTime", lease),
                   Option("RenewalTime", RenewalTime(lease)),
                   Option("RebindingTime", RebindingTime(lease))>>
                 \o SubnetOptions(subnet)]

(* What handle_packet may return for a packet: DISCOVER is answered by an  *)
(* OFFER or not at all, REQUEST by an ACK or not at all, the rest never.   *)
Responses(packet, lease) ==
    UNION {CASE mt = "Discover" -> {create_offer(packet.fields, d.ip, d.subnet, lease)
                                      : d \in Decisions}
             [] mt = "Request" -> {create_ack(packet.fields, d.ip, d.subnet, lease)
                                     : d \in Decisions}
             [] OTHER -> {}
           : mt \in get_message_type(packet)}

-----------------------------------------------------------------------------
(* Where the reply goes, and how. *)

To(ip, port) == [ip |-> ip, port |-> port]

(* Mutant: the client address is preferred to the relay agent. *)
response_dest_client_first(request, response) ==
    CASE request.ciaddr # Unspecified -> To(request.ciaddr, DHCP_CLIENT_PORT)
      [] request.ciaddr = Unspecified /\ request.giaddr # Unspecified ->
            To(request.giaddr, DHCP_SERVER_PORT)
      [] OTHER -> To(response.yiaddr, DHCP_CLIENT_PORT)

response_dest(request, response) ==
    CASE request.giaddr # Unspecified -> To(request.giaddr, DHCP_SERVER_PORT)
      [] request.giaddr = Unspecified /\ request.ciaddr # Unspecified ->
            To(request.ciaddr, DHCP_CLIENT_PORT)
      [] request.giaddr = Unspecified /\ request.ciaddr = Unspecified ->
            To(IF request.broadcast THEN Broadcast ELSE response.yiaddr, DHCP_CLIENT_PORT)

OrElse(seq, default) == IF seq = <<>> THEN default ELSE seq[1]

(* send_dhcp_raw_l2_broadcast; without a MAC the source is all zero. *)
L2Frame(iface, dst_ip, payload) ==
    build_l2_udp_frame(OrElse(IfaceMac[iface], "zero"), "broadcast",
                       OrElse(IfaceIps[iface], Unspecified), dst_ip,
                       DHCP_SERVER_PORT, DHCP_CLIENT_PORT, payload)

Sent(via, iface, dest, request, response, frame) ==
    [via |-> via, iface |-> iface, dest |-> dest, request |-> request,
     response |-> response, payload |-> to_bytes(response), frame |-> frame]

NoFrame == <<>>

(* sendto() takes the frame: with the headers the payload is no longer     *)
(* than the link allows (EMSGSIZE).                                        *)
FitsLink(payload) == Len(payload.bytes) \in 0..(Mtu - 268)

(* The client has no address: a raw frame on its interface. *)
SendL2(iface, request, response) ==
    LET dest == response_dest(request, response.fields)
        dst_ip == IF dest.ip = Broadcast THEN Broadcast ELSE response.fields.yiaddr
    IN  /\ request.ciaddr = Unspecified
        /\ request.giaddr = Unspecified
        /\ FitsLink(to_bytes(response))
        /\ out' = Sent("l2", iface, dest, request, response,
                       L2Frame(iface, dst_ip, to_bytes(response)))
        /\ UNCHANGED bcast_sockets

HasAddress(request) == request.ciaddr # Unspecified \/ request.giaddr # Unspecified

(* The listening socket sends to the client or to the relay agent. *)
SendUdp(iface, request, response) ==
    LET dest == response_dest(request, response.fields)
    IN  /\ HasAddress(request)
        /\ dest.ip # Broadcast
        /\ out' = Sent("socket", iface, dest, request, response, NoFrame)
        /\ UNCHANGED bcast_sockets

(* The socket of the interface for 255.255.255.255 is created on first     *)
(* use, and a failure to create it is remembered.                          *)
OpenBroadcast(iface) ==
    \E made \in {"open", "failed"} :
        bcast_sockets' = [bcast_sockets EXCEPT ![iface] = IF @ = "absent" THEN made ELSE @]

(* To 255.255.255.255, by that socket or, failing that, the listening one. *)
SendBroadcast(iface, request, response) ==
    LET dest == response_dest(request, response.fields)
    IN  /\ HasAddress(request)
        /\ dest.ip = Broadcast
        /\ OpenBroadcast(iface)
        /\ out' = Sent(IF bcast_sockets'[iface] = "open" THEN "bcast_socket" ELSE "socket",
                       iface, dest, request, response, NoFrame)

(* socket(), if_nametoindex() or a send fails: the reply is only logged. A *)
(* broadcast socket made for it stays in the map.                          *)
SendFails(iface, request, response) ==
    /\ out' = Nothing
    /\ IF HasAddress(request) /\ response_dest(request, response.fields).ip = Broadcast
       THEN OpenBroadcast(iface)
       ELSE UNCHANGED bcast_sockets

SendReply(iface, request, response) ==
    \/ SendL2(iface, request, response)
    \/ SendUdp(iface, request, response)
    \/ SendBroadcast(iface, request, response)
    \/ SendFails(iface, request, response)

-----------------------------------------------------------------------------
(* Properties of what is on the wire. *)

Answered == out # Nothing

(***************************************************************************)
(* A reply goes where RFC 2131 4.1 lets its client hear it (the rules over *)
(* response_dest): to the relay agent's server port; to the address the    *)
(* client already has; and to a client without an address as an Ethernet   *)
(* broadcast on the interface it is on, whose IP destination is the        *)
(* all-ones address exactly when it asked for that.  The frame built for   *)
(* the last case must agree with response_dest, which decides separately.  *)
(***************************************************************************)
ReplyReachesClient ==
    Answered =>
        LET r == out.request
        IN  CASE r.giaddr # Unspecified ->
                    out.dest = To(r.giaddr, 67) /\ out.via # "l2"
              [] r.giaddr = Unspecified /\ r.ciaddr # Unspecified ->
                    out.dest = To(r.ciaddr, 68) /\ out.via # "l2"
              [] r.giaddr = Unspecified /\ r.ciaddr = Unspecified ->
                    /\ out.via = "l2"
                    /\ out.frame.dst_mac = "broadcast"
                    /\ out.frame.udp.dst_port = 68
                    /\ SubSeq(out.frame.ip, 17, 20) = out.dest.ip
                    /\ out.dest.ip = Broadcast <=> r.broadcast

(***************************************************************************)
(* The client reads what the server wrote: parsing the bytes of a reply    *)
(* gives its fields and its options, closed by End.  When an option is too *)
(* long for its length byte (a subnet with 64 DNS servers, option.rs), the *)
(* options before it still read back, and they include all the terms of    *)
(* the lease: type, server, times, mask and router.                        *)
(***************************************************************************)
ReplyReadable ==
    Answered =>
        \A p \in parse(out.payload) :
            LET sent == out.response.options
                long == {i \in DOMAIN sent : Overlong(sent[i])}
                good == IF long = {} THEN Len(sent) ELSE (CHOOSE i \in long :
                                              \A j \in long : i <= j) - 1
            IN  /\ p.fields = out.response.fields
                /\ long = {} => p.options = Append(sent, End)
                /\ Len(p.options) >= good
                /\ SubSeq(p.options, 1, good) = SubSeq(sent, 1, good)
                /\ get_message_type(p) = get_message_type(out.response)
                /\ \A i \in DOMAIN sent :
                      sent[i].kind \notin {"DnsServer", "DomainName"} =>
                          \E j \in 1..good : sent[j] = sent[i]

(***************************************************************************)
(* The IP stack of the client accepts the raw frame: the words of the      *)
(* header build_l2_udp_frame wrote, checksum included, add up to zero in   *)
(* one's complement (RFC 1071), and the two length fields count the bytes  *)
(* that are there.                                                         *)
(***************************************************************************)
FrameAccepted ==
    Answered /\ out.via = "l2" =>
        /\ Len(out.frame.ip) = 20
        /\ WordSum(out.frame.ip) % 65535 = 0
        /\ out.frame.udp.len = 248 + Len(out.payload.bytes)
        /\ SubSeq(out.frame.ip, 3, 4) = be16(20 + out.frame.udp.len)
=============================================================================
