------------------------------ MODULE AdminApi ------------------------------
(***************************************************************************)
(* The configuration handlers of the REST API (handlers/subnets.rs,        *)
(* ranges.rs, static_ips.rs).  Requests run concurrently on the runtime.   *)
(* All but create_subnet are one statement; create_subnet first lists the  *)
(* subnets, checks the new one against each of them, and only then inserts *)
(* it.  A failing call returns 500 and changes nothing.                    *)
(***************************************************************************)
EXTENDS Store

CONSTANTS
    ApiOps,        \* the operations administrators use
    NewSubnets,    \* bodies of POST and PUT /api/subnets: [network, netmask]
    NewRanges,     \* bodies of POST /api/ranges
    NewStatics,    \* bodies of POST /api/static-ips
    MaxInFlight,   \* bound on concurrent create_subnet requests
    MaxApiCalls    \* bound on the number of API requests

ASSUME ApiAssumption ==
    /\ NewSubnets \subseteq [network : Addr, netmask : 0..255]
    /\ NewRanges \subseteq [subnet_id : Nat, range_start : Addr, range_end : Addr,
                            enabled : BOOLEAN]
    /\ NewStatics \subseteq StaticRow
    /\ MaxInFlight \in Nat
    /\ MaxApiCalls \in Nat

VARIABLES
    checked,       \* create_subnet requests past the overlap check, before INSERT
    calls,         \* API requests so far
    updated        \* history: subnets whose network was set by a PUT

apiVars == <<checked, calls, updated>>

ApiTypeOK ==
    /\ checked \subseteq [network : Addr, netmask : 0..255]
    /\ calls \in Nat
    /\ updated \subseteq Nat

ApiInit == checked = {} /\ calls = 0 /\ updated = {}

Call(op) ==
    /\ op \in ApiOps
    /\ calls < MaxApiCalls
    /\ calls' = calls + 1

OverlapsExisting(a) ==
    \E s \in subnets : subnets_overlap(a.network, a.netmask, s.network, s.netmask)

(* Mutant: the overlap check compares the request with nothing. *)
CheckSubnetUnchecked(a) ==
    /\ Call("create_subnet")
    /\ Cardinality(checked) < MaxInFlight
    /\ checked' = checked \cup {a}
    /\ DbOk
    /\ UNCHANGED <<subnets, ranges, statics, leases, seq, now, updated>>

(* create_subnet up to the await of the INSERT; an overlap is a 409. *)
CheckSubnet(a) ==
    /\ Call("create_subnet")
    /\ Cardinality(checked) < MaxInFlight
    /\ ~ OverlapsExisting(a)
    /\ checked' = checked \cup {a}
    /\ DbOk
    /\ UNCHANGED <<subnets, ranges, statics, leases, seq, now, updated>>

(* The INSERT; a UNIQUE violation is a 409 and any other error a 500. *)
CreateSubnet(a) ==
    /\ a \in checked
    /\ checked' = checked \ {a}
    /\ \/ DbOk /\ SubnetUnique(a.network, a.netmask) /\ InsertSubnet(a.network, a.netmask)
       \/ /\ DbErr \/ (DbOk /\ ~ SubnetUnique(a.network, a.netmask))
          /\ UNCHANGED <<subnets, ranges, statics, leases, seq>>
    /\ UNCHANGED <<now, calls, updated>>

(* No overlap check, and no look at whether a row was updated. *)
PutSubnet(id, a) ==
    /\ Call("update_subnet")
    /\ DbOk /\ UpdateSubnet(id, a.network, a.netmask)
    /\ updated' = updated \cup {id}
    /\ UNCHANGED <<now, checked>>

RemoveSubnet(id) ==
    /\ Call("delete_subnet")
    /\ DbOk /\ DeleteSubnet(id)
    /\ UNCHANGED <<now, checked, updated>>

CreateRange(r) ==
    /\ Call("create_range")
    /\ DbOk /\ InsertRange(r.subnet_id, r.range_start, r.range_end, r.enabled)
    /\ UNCHANGED <<now, checked, updated>>

RemoveRange(id) ==
    /\ Call("delete_range")
    /\ DbOk /\ DeleteRange(id)
    /\ UNCHANGED <<now, checked, updated>>

CreateStatic(s) ==
    /\ Call("create_static_ip")
    /\ DbOk /\ InsertStatic(s.ip, s.mac, s.subnet_id)
    /\ UNCHANGED <<now, checked, updated>>

RemoveStatic(ip) ==
    /\ Call("delete_static_ip")
    /\ DbOk /\ DeleteStatic(ip)
    /\ UNCHANGED <<now, checked, updated>>

ApiStep ==
    \/ \E a \in NewSubnets : CheckSubnet(a)
    \/ \E a \in checked : CreateSubnet(a)
    \/ \E s \in subnets, a \in NewSubnets : PutSubnet(s.id, a)
    \/ \E s \in subnets : RemoveSubnet(s.id)
    \/ \E r \in NewRanges : CreateRange(r)
    \/ \E r \in ranges : RemoveRange(r.id)
    \/ \E s \in NewStatics : CreateStatic(s)
    \/ \E s \in statics : RemoveStatic(s.ip)

(* The API on its own, from an empty database. *)
AdminInit ==
    /\ subnets = {} /\ ranges = {} /\ statics = {} /\ leases = {}
    /\ seq = [subnets |-> 0, ranges |-> 0, leases |-> 0]
    /\ now = 0 /\ faults = 0
    /\ ApiInit

AdminSpec == AdminInit /\ [][ApiStep]_<<storeVars, apiVars>>

(***************************************************************************)
(* "Check for overlap with existing subnets" (handlers/subnets.rs): no two *)
(* subnets in the table overlap, so that an interface address selects at   *)
(* most one subnet in the DHCP server, unless one of the two was moved by  *)
(* update_subnet, which checks nothing.                                    *)
(***************************************************************************)
NoOverlap ==
    \A s, t \in subnets :
        \/ s.id = t.id
        \/ s.id \in updated \/ t.id \in updated
        \/ ~ subnets_overlap(s.network, s.netmask, t.network, t.netmask)

(* The addresses of a subnet, by the test the DHCP server uses. *)
Members(s) == {ip \in Addr : iface_in_subnet({ip}, s)}

(***************************************************************************)
(* create_subnet refuses a request (subnets_overlap, utils/network.rs)     *)
(* exactly when it shares an address with a stored subnet by the test      *)
(* handle_discover and handle_request use to pick one (iface_in_subnet,    *)
(* dhcp/server.rs): host bits in the network, prefix 0 and a prefix above  *)
(* the address width included.                                             *)
(***************************************************************************)
OverlapIsSharedAddress ==
    \A a \in NewSubnets, s \in subnets :
        subnets_overlap(a.network, a.netmask, s.network, s.netmask)
        <=> Members(a) \cap Members(s) # {}

(***************************************************************************)
(* "Static IP already exists (duplicate MAC or IP)" (handlers/             *)
(* static_ips.rs): one hardware address has at most one static assignment, *)
(* so that the case-insensitive lookup get_static_ip_by_mac, which the     *)
(* DISCOVER and the REQUEST handler each make, finds the same row.         *)
(***************************************************************************)
OneStaticPerClient ==
    \A s, t \in statics : Lower[s.mac] = Lower[t.mac] => s = t
=============================================================================
