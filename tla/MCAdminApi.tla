----------------------------- MODULE MCAdminApi -----------------------------
(***************************************************************************)
(* The configuration API alone, from an empty database.                    *)
(***************************************************************************)
EXTENDS AdminApi

MCMac == {"aa", "bb"}
MCMacText == {"aa", "AA", "bb"}
MCLower == [aa |-> "aa", AA |-> "aa", bb |-> "bb"]

(* Two disjoint halves, a quarter inside one of them, the same quarter     *)
(* spelled with host bits set, and everything.                             *)
MCSubnets ==
    {[network |-> 0, netmask |-> 1], [network |-> 4, netmask |-> 1],
     [network |-> 2, netmask |-> 2], [network |-> 3, netmask |-> 2],
     [network |-> 0, netmask |-> 0]}

(* Every network, host bits set or not, and one prefix above the width.    *)
AllSubnets == [network : Addr, netmask : 0..(Width + 1)]

MCRanges == [subnet_id : {1, 2}, range_start : {2}, range_end : {3}, enabled : {TRUE}]

MCStatics == [ip : {2, 3}, mac : {"aa", "AA"}, subnet_id : {1, 2}]
=============================================================================
