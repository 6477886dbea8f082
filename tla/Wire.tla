-------------------------------- MODULE Wire --------------------------------
(***************************************************************************)
(* The dhcp-proto crate: options, packets and message types, to bytes and  *)
(* back.  An address is its four octets and a name its bytes (ASCII, on    *)
(* which from_utf8_lossy changes nothing).  The 240 bytes before the       *)
(* options have a fixed layout and hold no decision, so a datagram is the  *)
(* record of their fields together with the bytes of the options.          *)
(***************************************************************************)
EXTENDS Integers, Sequences, SequencesExt

Ipv4Addr == {a \in Seq(0..255) : Len(a) = 4}
Unspecified == <<0, 0, 0, 0>>               \* Ipv4Addr::UNSPECIFIED
Broadcast == <<255, 255, 255, 255>>         \* Ipv4Addr::BROADCAST

-----------------------------------------------------------------------------
(* u32 and u16 in network byte order. *)

to_be_bytes(n) == <<n \div 16777216, (n \div 65536) % 256, (n \div 256) % 256, n % 256>>

from_be_bytes(b) == 16777216 * b[1] + 65536 * b[2] + 256 * b[3] + b[4]

be16(n) == <<n \div 256, n % 256>>

-----------------------------------------------------------------------------
(* MessageType: the n-th name has the number n. *)

MessageType == <<"Discover", "Offer", "Request", "Decline", "Ack", "Nak", "Release", "Inform">>

to_u8(mt) == CHOOSE n \in 1..8 : MessageType[n] = mt

(* Some(type), as a set of at most one. *)
from_u8(value) == {MessageType[n] : n \in {value} \cap 1..8}

-----------------------------------------------------------------------------
(* DhcpOption: a kind and its value. *)

AddrOption == [SubnetMask |-> 1, RequestedIpAddress |-> 50, ServerIdentifier |-> 54]
ListOption == [Router |-> 3, DnsServer |-> 6]
TextOption == [DomainName |-> 15, Hostname |-> 12]
TimeOption == [LeaseTime |-> 51, RenewalTime |-> 58, RebindingTime |-> 59]

Option(kind, value) == [kind |-> kind, value |-> value]
End == Option("End", <<>>)
Unknown(code, data) == Option("Unknown", <<code, data>>)

KindOf(table, code) == CHOOSE k \in DOMAIN table : table[k] = code
HasCode(table, code) == \E k \in DOMAIN table : table[k] = code

(* chunks_exact(4): a remainder of fewer than four bytes is dropped. *)
chunks_exact(data) == [i \in 1..(Len(data) \div 4) |-> SubSeq(data, 4 * i - 3, 4 * i)]

(* A fixed-size option of the wrong length, and a message type outside     *)
(* 1..8, become Unknown.                                                   *)
parse_option(code, data) ==
    CASE HasCode(AddrOption, code) /\ Len(data) = 4 -> Option(KindOf(AddrOption, code), data)
      [] HasCode(TimeOption, code) /\ Len(data) = 4 ->
            Option(KindOf(TimeOption, code), from_be_bytes(data))
      [] HasCode(ListOption, code) -> Option(KindOf(ListOption, code), chunks_exact(data))
      [] HasCode(TextOption, code) -> Option(KindOf(TextOption, code), data)
      [] code = 53 /\ Len(data) = 1 /\ from_u8(data[1]) # {} ->
            Option("MessageType", CHOOSE mt \in from_u8(data[1]) : TRUE)
      [] OTHER -> Unknown(code, data)

(* The code and the data an option is written with. *)
Encoded(o) ==
    CASE o.kind \in DOMAIN AddrOption -> <<AddrOption[o.kind], o.value>>
      [] o.kind \in DOMAIN TimeOption -> <<TimeOption[o.kind], to_be_bytes(o.value)>>
      [] o.kind \in DOMAIN ListOption -> <<ListOption[o.kind], FlattenSeq(o.value)>>
      [] o.kind \in DOMAIN TextOption -> <<TextOption[o.kind], o.value>>
      [] o.kind = "MessageType" -> <<53, <<to_u8(o.value)>>>>
      [] o.kind = "Unknown" -> o.value

(* The length is written `as u8`. *)
option_to_bytes(o) ==
    IF o.kind = "End" THEN <<>>
    ELSE <<Encoded(o)[1], Len(Encoded(o)[2]) % 256>> \o Encoded(o)[2]

Overlong(o) == o.kind # "End" /\ Len(Encoded(o)[2]) > 255

-----------------------------------------------------------------------------
(* DhcpPacket. *)

(* The loop of DhcpPacket::parse at position i, where from is the options  *)
(* that later positions give: 255 ends the list, 0 is padding, and an      *)
(* option that does not fit in the datagram ends it.                       *)
parse_at(from, data, i) ==
    CASE i > Len(data) -> <<>>
      [] i <= Len(data) /\ data[i] = 255 -> <<End>>
      [] i <= Len(data) /\ data[i] = 0 -> from[i + 1]
      [] i = Len(data) /\ data[i] \notin {0, 255} -> <<>>
      [] i < Len(data) /\ data[i] \notin {0, 255} ->
            LET next == i + 2 + data[i + 1]
            IN  IF next - 1 > Len(data) THEN <<>>
                ELSE <<parse_option(data[i], SubSeq(data, i + 2, next - 1))>> \o from[next]

parse_options(data) ==
    LET from[i \in 1..(Len(data) + 1)] == parse_at(from, data, i)
    IN  from[1]

(* A datagram: `short` of the 240 bytes, or with its fields, whether bytes *)
(* 236 to 239 are the magic cookie, and what follows them.                 *)
Datagram(fields, cookie, bytes) ==
    [short |-> FALSE, fields |-> fields, cookie |-> cookie, bytes |-> bytes]

ShortDatagram == [short |-> TRUE]

(* DhcpPacket::parse: Err, as the empty set, or the packet. *)
parse(d) ==
    {[fields |-> g.fields, options |-> IF g.cookie THEN parse_options(g.bytes) ELSE <<>>]
        : g \in {h \in {d} : ~ h.short}}

(* DhcpPacket::to_bytes *)
to_bytes(p) ==
    Datagram(p.fields, TRUE,
             FlattenSeq([i \in DOMAIN p.options |-> option_to_bytes(p.options[i])] \o <<<<255>>>>))

(* The first message type option. *)
get_message_type(p) ==
    LET at == {i \in DOMAIN p.options : p.options[i].kind = "MessageType"}
    IN  {p.options[i].value : i \in {j \in at : \A k \in at : j <= k}}

-----------------------------------------------------------------------------
(* ip_checksum and build_l2_udp_frame (utils/network.rs). *)

(* while sum >> 16 != 0 { sum = (sum & 0xffff) + (sum >> 16) } *)
Fold[sum \in Nat] ==
    IF sum < 65536 THEN sum ELSE Fold[(sum % 65536) + (sum \div 65536)]

(* The sum of the 16-bit words; an odd byte at the end is a high byte. *)
WordSum(data) ==
    LET Low(i) == IF 2 * i > Len(data) THEN 0 ELSE data[2 * i]
        upto[i \in 0..((Len(data) + 1) \div 2)] ==
            IF i = 0 THEN 0 ELSE upto[i - 1] + 256 * data[2 * i - 1] + Low(i)
    IN  upto[(Len(data) + 1) \div 2]

(* Mutant: the carries are dropped, not folded back. *)
ip_checksum_no_carry(data) == 65535 - (WordSum(data) % 65536)

(* The complement of the one's complement sum. *)
ip_checksum(data) == 65535 - Fold[WordSum(data)]

ip_header(len, cksum, src_ip, dst_ip) ==
    <<69, 0>> \o be16(len) \o <<0, 0, 64, 0, 128, 17>> \o be16(cksum) \o src_ip \o dst_ip

(* The lengths are u16 arithmetic. *)
udp_len(payload) == (8 + 240 + Len(payload.bytes)) % 65536
ip_total_len(payload) == (20 + udp_len(payload)) % 65536

build_l2_udp_frame(src_mac, dst_mac, src_ip, dst_ip, src_port, dst_port, payload) ==
    LET cksum == ip_checksum(ip_header(ip_total_len(payload), 0, src_ip, dst_ip))
    IN  [dst_mac |-> dst_mac, src_mac |-> src_mac,
         ip |-> ip_header(ip_total_len(payload), cksum, src_ip, dst_ip),
         udp |-> [src_port |-> src_port, dst_port |-> dst_port, len |-> udp_len(payload)],
         payload |-> payload]
=============================================================================
