----------------------------- MODULE Addressing -----------------------------
(***************************************************************************)
(* IPv4 prefix arithmetic: utils/network.rs and the two mask computations  *)
(* of dhcp/server.rs.  An address is an integer of Width bits (32 in the   *)
(* code).  Clearing the host bits with `ip & mask` is subtracting the      *)
(* remainder modulo the block size.                                        *)
(***************************************************************************)
EXTENDS Integers

CONSTANT Width

ASSUME WidthAssumption == Width \in Nat \ {0}

(* Powers of two are opaque to the provers: the one fact they need. *)
ASSUME PowerAssumption == \A k \in 0..Width : 2^k \in Nat \ {0}

Addr == 0..(2^Width - 1)

(* Ipv4Addr::UNSPECIFIED *)
Unspecified == 0

(***************************************************************************)
(* The shift amount `32 - prefix`.  A prefix of 0 is special-cased in the  *)
(* code.  The prefix is a u8 that no handler validates: above Width the    *)
(* subtraction and the shift wrap in a release build, which is what the    *)
(* modulus says.                                                           *)
(***************************************************************************)
HostBits(prefix) == IF prefix = 0 THEN Width ELSE (Width - prefix) % Width

BlockSize(prefix) == 2^HostBits(prefix)

(* u32::from(ip) & mask *)
Masked(ip, prefix) == ip - (ip % BlockSize(prefix))

StartOf(net, prefix) == Masked(net, prefix)

(* Mutant: a block end that misses its last address. *)
ShortEndOf(net, prefix) == Masked(net, prefix) + BlockSize(prefix) - 2

(* start | !mask *)
EndOf(net, prefix) == Masked(net, prefix) + BlockSize(prefix) - 1

InSubnet(ip, net, prefix) == Masked(ip, prefix) = Masked(net, prefix)

iface_in_subnet(iface_ips, subnet) ==
    \E ip \in iface_ips : InSubnet(ip, subnet.network, subnet.netmask)

subnets_overlap(net_a, prefix_a, net_b, prefix_b) ==
    /\ StartOf(net_a, prefix_a) <= EndOf(net_b, prefix_b)
    /\ StartOf(net_b, prefix_b) <= EndOf(net_a, prefix_a)
=============================================================================
