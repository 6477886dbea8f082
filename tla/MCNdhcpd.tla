------------------------------ MODULE MCNdhcpd ------------------------------
(***************************************************************************)
(* Values for the constants of Ndhcpd: three-bit addresses, two clients,   *)
(* and two interfaces, e0 in 0/1 (addresses 0..3) and e1 in 4/2 (4..5).    *)
(***************************************************************************)
EXTENDS Ndhcpd

MCMac == {"aa", "bb"}

(* "AA" is the upper-case spelling an administrator may type for "aa". *)
MCMacText == {"aa", "AA", "bb"}
MCLower == [aa |-> "aa", AA |-> "aa", bb |-> "bb"]

OneIface == {"e0"}
TwoIfaces == {"e0", "e1"}
MCIfaceIps == [i \in Iface |-> IF i = "e0" THEN {1} ELSE {5}]

Net0 == [id |-> 1, network |-> 0, netmask |-> 1]
Net1 == [id |-> 2, network |-> 4, netmask |-> 2]
Pool0 == [id |-> 1, subnet_id |-> 1, range_start |-> 2, range_end |-> 3, enabled |-> TRUE]
Pool1 == [id |-> 2, subnet_id |-> 2, range_start |-> 4, range_end |-> 4, enabled |-> TRUE]
OffPool == [id |-> 3, subnet_id |-> 1, range_start |-> 1, range_end |-> 1, enabled |-> FALSE]
Reserved3 == [ip |-> 3, mac |-> "AA", subnet_id |-> 1]

Tables(sub, ran, sta) ==
    [subnets |-> sub, ranges |-> ran, statics |-> sta,
     seq |-> [subnets |-> 2, ranges |-> 3, leases |-> 0]]

OnePool == {Tables({Net0}, {Pool0, OffPool}, {})}
OnePoolReserved == {Tables({Net0}, {Pool0, OffPool}, {Reserved3})}
TwoPoolsReserved == {Tables({Net0, Net1}, {Pool0, Pool1}, {Reserved3})}

Discover(m, i) == [type |-> "DISCOVER", mac |-> m, iface |-> i, opt50 |-> NoAddr,
                   ciaddr |-> Unspecified]
Select(m, i, ip) == [type |-> "REQUEST", mac |-> m, iface |-> i, opt50 |-> ip,
                     ciaddr |-> Unspecified]
Renew(m, i, ip) == [type |-> "REQUEST", mac |-> m, iface |-> i, opt50 |-> NoAddr,
                    ciaddr |-> ip]
Release(m, i, ip) == [type |-> "RELEASE", mac |-> m, iface |-> i, opt50 |-> NoAddr,
                      ciaddr |-> ip]

Pool(i) == IF i = "e0" THEN {2, 3} ELSE {4}

AllPackets ==
    UNION {{Discover(m, i)} \cup
           UNION {{Select(m, i, ip), Renew(m, i, ip), Release(m, i, ip)} : ip \in Pool(i)}
           : m \in Mac, i \in Iface}

(* Mostly REQUESTs, on both interfaces; "aa" has the reservation. *)
FewPackets ==
    {Select("aa", "e0", 2), Select("bb", "e0", 2), Renew("aa", "e0", 3),
     Release("aa", "e0", 2), Discover("aa", "e0"), Select("bb", "e1", 4)}

MCNewSubnets == {[network |-> 6, netmask |-> 2]}
MCNewRanges == {[subnet_id |-> 1, range_start |-> 3, range_end |-> 3, enabled |-> TRUE]}
MCNewStatics == {Reserved3}

NoRows == {}
=============================================================================
