------------------------------- MODULE Ndhcpd -------------------------------
(***************************************************************************)
(* The daemon (main.rs): the DHCPv4 server, the API and the clock over one *)
(* database.  The process may be killed and restarted at any point; the    *)
(* database file survives, everything in flight is lost, and the clients   *)
(* keep the bindings they were given.                                      *)
(***************************************************************************)
EXTENDS DhcpServer, AdminApi

CONSTANTS
    InitialTables,   \* configurations the daemon may find in its database
    Packets,         \* packets clients send
    LateReleases,    \* a RELEASE may arrive after the client moved on
    MaxLeaseRows,    \* bound on the leases ever created
    MaxTime,         \* bound on the clock
    MaxCrashes       \* bound on the number of restarts

(* Stands for "no client" in the lease registry. *)
NoMac == "nobody"

ASSUME NdhcpdAssumption ==
    /\ \A c \in InitialTables :
          /\ c.subnets \subseteq SubnetRow
          /\ c.ranges \subseteq RangeRow
          /\ c.statics \subseteq StaticRow
          /\ c.seq \in [subnets : Nat, ranges : Nat, leases : Nat]
          /\ \A s \in c.subnets : s.id <= c.seq.subnets   \* AUTOINCREMENT
          /\ \A r \in c.ranges : \E s \in c.subnets : s.id = r.subnet_id
          /\ \A r \in c.statics : \E s \in c.subnets : s.id = r.subnet_id
    /\ Packets \subseteq Packet
    /\ Mac # {} /\ Iface # {} /\ NoMac \notin Mac
    /\ LateReleases \in BOOLEAN
    /\ MaxLeaseRows \in Nat /\ MaxTime \in Nat /\ MaxCrashes \in Nat

VARIABLE crashes

vars == <<storeVars, serverVars, historyVars, apiVars, crashes>>

TypeOK ==
    /\ StoreTypeOK
    /\ ServerTypeOK
    /\ ApiTypeOK
    /\ crashes \in Nat

Init ==
    /\ \E c \in InitialTables :
          /\ subnets = c.subnets /\ ranges = c.ranges /\ statics = c.statics
          /\ seq = c.seq
    /\ leases = {}
    /\ now = 0 /\ faults = 0 /\ crashes = 0
    /\ ServerInit
    /\ ApiInit

(***************************************************************************)
(* A client sends a RELEASE for an address it holds.  With LateReleases a  *)
(* duplicated or delayed RELEASE also arrives when it no longer does.      *)
(***************************************************************************)
Sendable(p) ==
    \/ p.type # "RELEASE"
    \/ LateReleases
    \/ \E b \in acked : b.mac = p.mac /\ b.ip = p.ciaddr /\ b.iface = p.iface

(* The bound on lease rows leaves the clients what they have to release. *)
Receive ==
    /\ \E p \in Packets :
          /\ p.type # "RELEASE" => seq.leases < MaxLeaseRows
          /\ Sendable(p)
          /\ RecvPacket(p)
    /\ UNCHANGED <<apiVars, crashes>>

Handle == HandlerStep /\ UNCHANGED <<apiVars, crashes>>

Purge == (Cleanup \/ CleanupFails) /\ UNCHANGED <<apiVars, crashes>>

Api ==
    /\ ApiStep
    /\ offer' = NoOffer
    /\ UNCHANGED <<serverVars, acked, crashes>>

Tick ==
    /\ now < MaxTime
    /\ now' = now + 1
    /\ offer' = NoOffer
    /\ UNCHANGED <<subnets, ranges, statics, leases, seq, faults,
                   serverVars, acked, apiVars, crashes>>

Crash ==
    /\ crashes < MaxCrashes
    /\ crashes' = crashes + 1
    /\ Return
    /\ checked' = {}
    /\ offer' = NoOffer
    /\ UNCHANGED <<storeVars, acked, calls, updated>>

Next == Receive \/ Handle \/ Purge \/ Api \/ Tick \/ Crash

Spec == Init /\ [][Next]_vars

(***************************************************************************)
(* The receive loop never stops in the middle of a handler (every await    *)
(* completes or fails), and the cleanup task runs again after every        *)
(* interval.  Clients, administrators and the clock owe nothing.           *)
(***************************************************************************)
FairSpec == Spec /\ WF_vars(Handle) /\ WF_vars(Cleanup /\ UNCHANGED <<apiVars, crashes>>)

-----------------------------------------------------------------------------
(* Safety. *)

Renewing(b) == pc = "r_create" /\ pkt.mac = b.mac /\ RequestedIp(pkt) = b.ip

(***************************************************************************)
(* A dynamic address a client was given by an ACK stays recorded as leased *)
(* to it at least until the client's own lease time is up ("Persistent     *)
(* storage for configuration and leases", README.md), except between the   *)
(* DELETE and the INSERT of its own renewal in handle_request.             *)
(***************************************************************************)
AckBacked ==
    \A b \in acked :
        b.dynamic /\ b.until > now =>
            \/ Renewing(b)
            \/ \E l \in leases : l.mac = b.mac /\ l.ip = b.ip /\ l.lease_end >= b.until

(***************************************************************************)
(* No two clients hold the same dynamic address at the same time, whatever *)
(* the order of DISCOVER, REQUEST, RELEASE, purges and API calls.          *)
(***************************************************************************)
NoDoubleAck ==
    \A b, c \in acked :
        /\ b.dynamic /\ c.dynamic
        /\ b.until > now /\ c.until > now
        /\ b.ip = c.ip
        => b.mac = c.mac

(***************************************************************************)
(* "Reserve IPs for specific MAC addresses" (README.md): an address with a *)
(* static assignment is not held by a client with another MAC address.     *)
(***************************************************************************)
StaticReserved ==
    \A b \in acked, s \in statics :
        b.until > now /\ b.ip = s.ip => b.mac = Lower[s.mac]

-----------------------------------------------------------------------------
(* What a step may never do. *)

(***************************************************************************)
(* A lease in force disappears only because its own client renewed or      *)
(* released it, or because its subnet was deleted: never because of        *)
(* another client's packet, of the purge, or of a restart.                 *)
(***************************************************************************)
LeaseRemovedByOwner ==
    [][\A l \in list_active_leases :
          l \notin leases' =>
             \/ pc \in {"r_expire", "rel_expire"} /\ pkt.mac = l.mac
             \/ l.subnet_id \notin {s.id : s \in subnets'}]_vars

(***************************************************************************)
(* handle_discover never offers, from a range or from the client's lease,  *)
(* an address leased to another client at the moment the OFFER leaves      *)
(* ("Build the set of IPs already in use to avoid double-allocation"),     *)
(* although the leases were read before the ranges.                        *)
(***************************************************************************)
OfferNotLeased ==
    [][/\ pc \in {"d_lease_subnet", "d_ranges"}
       /\ offer' # offer
       /\ offer'.ip # NoAddr
       => \A l \in list_active_leases : l.ip = offer'.ip => l.mac = offer'.mac]_vars

(***************************************************************************)
(* An OFFER is honoured: if the configuration, the leases and the clock    *)
(* have not changed since, the REQUEST for the offered address on the same *)
(* interface ends with an ACK for it, which uses the offer up (a binding   *)
(* of an earlier ACK does not count).  handle_request decides again, with  *)
(* other queries than handle_discover, and the two disagree once a PUT has *)
(* moved a subnet.  The run has no static assignments and deletes no range *)
(* either: an assignment in another interface's subnet, and a lease whose  *)
(* range has gone, are offered what a REQUEST is then refused.             *)
(***************************************************************************)
OfferHonoured ==
    [][/\ pkt.type = "REQUEST" /\ pc # "idle" /\ pc' = "idle"
       /\ offer = [ip |-> RequestedIp(pkt), mac |-> pkt.mac, iface |-> pkt.iface]
       /\ crashes' = crashes
       /\ updated = {}
       => /\ offer' = NoOffer
          /\ [mac |-> pkt.mac, ip |-> offer.ip, iface |-> pkt.iface] \in
                {[mac |-> b.mac, ip |-> b.ip, iface |-> b.iface] : b \in acked'}]_vars

-----------------------------------------------------------------------------
(* The holder of an address is the client of its lease in force.           *)

HolderOf(ip) ==
    IF LeasesOn(ip) = {} THEN NoMac ELSE (CHOOSE l \in LeasesOn(ip) : TRUE).mac

Registry == INSTANCE LeaseRegistry WITH
                Address <- Addr, Client <- Mac, Nobody <- NoMac,
                holder <- [ip \in Addr |-> HolderOf(ip)]

(***************************************************************************)
(* The daemon implements the lease registry: across renewals, releases,    *)
(* purges, subnet deletions, failing calls and restarts, an address never  *)
(* goes from one client to another without having been free.               *)
(***************************************************************************)
ImplementsRegistry == Registry!Spec

-----------------------------------------------------------------------------
(* Liveness. *)

(***************************************************************************)
(* Leases past their end are eventually deleted by the cleanup task.       *)
(***************************************************************************)
ExpiredPurged ==
    \A i \in 1..MaxLeaseRows :
        (\E l \in leases : l.id = i /\ l.lease_end < now) ~> (\A l \in leases : l.id # i)
=============================================================================
