---------------------------- MODULE MCDatabases ----------------------------
(***************************************************************************)
(* One client under two spellings, one address for rows, two subnets.      *)
(***************************************************************************)
EXTENDS Databases

MCMac == {"aa"}
MCMacText == {"aa", "AA"}
MCLower == [aa |-> "aa", AA |-> "aa"]
MCNewSubnets == {[network |-> 0, netmask |-> 1], [network |-> 4, netmask |-> 1]}
=============================================================================
