---------------------------- MODULE LeaseRegistry ----------------------------
(***************************************************************************)
(* What the lease table promises, without rows, timestamps, statements or  *)
(* tasks: every address has at most one holder, and it passes from one     *)
(* client to another only by being free in between.                        *)
(***************************************************************************)
CONSTANTS Address, Client, Nobody

VARIABLE holder

Init == holder = [ip \in Address |-> Nobody]

(* A client is given a free address, or keeps the one it has. *)
Grant(ip, m) ==
    /\ holder[ip] \in {Nobody, m}
    /\ holder' = [holder EXCEPT ![ip] = m]

(* Any number of holders lose their address: expiry, release, removal. *)
Lapse ==
    /\ holder' \in [Address -> Client \cup {Nobody}]
    /\ \A ip \in Address : holder'[ip] \in {holder[ip], Nobody}

Next == Lapse \/ \E ip \in Address, m \in Client : Grant(ip, m)

Spec == Init /\ [][Next]_holder
=============================================================================
