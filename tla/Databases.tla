----------------------------- MODULE Databases -----------------------------
(***************************************************************************)
(* The two implementations of the `Database` trait side by side: every     *)
(* call of a trait method (db/mod.rs) is made on SqliteDatabase, the one   *)
(* the daemon runs on, and on InMemoryDatabase, the one the tests run on.  *)
(* Store models the four IPv4 tables of the former and MemoryStore all of  *)
(* the latter; the other SQLite tables and the host name column are here.  *)
(***************************************************************************)
EXTENDS Store, MemoryStore

CONSTANTS
    Hostname,     \* host names of static assignments
    NewSubnets,   \* [network, netmask] of subnets to create or update to
    Body,         \* contents of an IPv6 prefix row
    Interface,    \* interfaces of IPv6 prefixes
    TokenName,    \* names of API tokens
    LeaseIps,     \* addresses the calls use
    LeaseTimes,   \* from now to the lease_end of a lease to create
    Ids,          \* ids the calls name
    MaxCalls,     \* bound on the number of calls
    MaxTime       \* bound on the clock

ASSUME DatabasesAssumption ==
    /\ NewSubnets \subseteq [network : Addr, netmask : 0..255]
    /\ LeaseIps \subseteq Addr
    /\ LeaseTimes \subseteq Nat
    /\ Ids \subseteq Nat

VARIABLES
    hosts,        \* the hostname column of static_ips, by ip_address
    prefixes,     \* rows [id, interface, body] of ia_prefixes
    tokens,       \* rows [id, name, enabled] of api_tokens
    seq6,         \* the AUTOINCREMENT counters of those two tables
    calls,        \* calls made so far
    parted        \* a call had a different effect on the two

sqlVars == <<subnets, ranges, statics, leases, seq, hosts, prefixes, tokens, seq6>>
vars == <<storeVars, memVars, hosts, prefixes, tokens, seq6, calls, parted>>

Init ==
    /\ subnets = {} /\ ranges = {} /\ statics = {} /\ leases = {}
    /\ seq = [subnets |-> 0, ranges |-> 0, leases |-> 0]
    /\ hosts = {} /\ prefixes = {} /\ tokens = {}
    /\ seq6 = [prefixes |-> 0, tokens |-> 0]
    /\ now = 0 /\ faults = 0 /\ calls = 0 /\ parted = FALSE
    /\ MemInit

-----------------------------------------------------------------------------
(* The SQLite statements Store leaves out. *)

RowsIn4 == UNCHANGED <<subnets, ranges, statics, leases, seq, hosts>>

get_ia_prefix(id) == {p \in prefixes : p.id = id}

list_ia_prefixes(interface) == {p \in prefixes : p.interface = interface}

create_ia_prefix(interface, body) ==
    /\ prefixes' = prefixes \cup {[id |-> seq6.prefixes + 1, interface |-> interface,
                                   body |-> body]}
    /\ seq6' = [seq6 EXCEPT !.prefixes = seq6.prefixes + 1]
    /\ UNCHANGED tokens /\ RowsIn4

update_ia_prefix(id, interface, body) ==
    /\ prefixes' = {IF p.id = id THEN [id |-> id, interface |-> interface, body |-> body]
                                 ELSE p : p \in prefixes}
    /\ UNCHANGED <<tokens, seq6>> /\ RowsIn4

delete_ia_prefix(id) ==
    /\ prefixes' = {p \in prefixes : p.id # id}
    /\ UNCHANGED <<tokens, seq6>> /\ RowsIn4

list_api_tokens == tokens

(* UNIQUE(name) *)
create_token(name) ==
    /\ ~ \E t \in tokens : t.name = name
    /\ tokens' = tokens \cup {[id |-> seq6.tokens + 1, name |-> name, enabled |-> TRUE]}
    /\ seq6' = [seq6 EXCEPT !.tokens = seq6.tokens + 1]
    /\ UNCHANGED prefixes /\ RowsIn4

toggle_token(id, e) ==
    /\ tokens' = {IF t.id = id THEN [t EXCEPT !.enabled = e] ELSE t : t \in tokens}
    /\ UNCHANGED <<prefixes, seq6>> /\ RowsIn4

delete_token(id) ==
    /\ tokens' = {t \in tokens : t.id # id}
    /\ UNCHANGED <<prefixes, seq6>> /\ RowsIn4

(* UPDATE static_ips SET hostname = ? WHERE ip_address = ? *)
update_static_ip_hostname(ip, hostname) ==
    /\ hosts' = {IF h.ip = ip THEN [ip |-> ip, hostname |-> hostname] ELSE h : h \in hosts}
    /\ UNCHANGED <<subnets, ranges, statics, leases, seq, prefixes, tokens, seq6>>

(* The hostname column lives and dies with its row. *)
HostsFollow == hosts' = {h \in hosts : \E s \in statics' : s.ip = h.ip}

Aside == UNCHANGED <<prefixes, tokens, seq6>>

-----------------------------------------------------------------------------
(* A call of a trait method. The comparison ends at the first call that    *)
(* SQLite refuses, since InMemoryDatabase refuses none.                    *)

Called(apart) ==
    /\ ~ parted
    /\ calls < MaxCalls
    /\ calls' = calls + 1
    /\ parted' = apart
    /\ UNCHANGED <<now, faults>>

Refused == Called(TRUE) /\ UNCHANGED sqlVars

(* A statement on the four tables that may delete static assignments.      *)
Statement == Called(FALSE) /\ HostsFollow /\ Aside

(* The subnet row of a memory row still exists. *)
Alive(r) == \E i \in DOMAIN mem.subnets : mem.subnets[i].id = r.subnet_id

CallCreateSubnet ==
    \E n \in NewSubnets :
        /\ mem_create_subnet(n.network, n.netmask)
        /\ \/ SubnetUnique(n.network, n.netmask) /\ InsertSubnet(n.network, n.netmask)
              /\ Statement
           \/ ~ SubnetUnique(n.network, n.netmask) /\ Refused

CallUpdateSubnet ==
    \E id \in Ids, n \in NewSubnets :
        /\ mem_update_subnet(id, n.network, n.netmask)
        /\ \/ id \in SubnetIds /\ UpdateSubnet(id, n.network, n.netmask) /\ Statement
           \/ id \notin SubnetIds /\ Called(FALSE) /\ UNCHANGED sqlVars
           \/ /\ id \in SubnetIds
              /\ \E s \in subnets : s.id # id /\ s.network = n.network /\ s.netmask = n.netmask
              /\ Refused

CallDeleteSubnet ==
    \E id \in Ids : mem_delete_subnet(id) /\ DeleteSubnet(id) /\ Statement

CallCreateRange ==
    \E id \in Ids, ip \in LeaseIps :
        /\ mem_create_range(id, ip, ip, TRUE)
        /\ \/ InsertRange(id, ip, ip, TRUE) /\ Statement
           \/ id \notin SubnetIds /\ Refused

CallDeleteRange == \E id \in Ids : mem_delete_range(id) /\ DeleteRange(id) /\ Statement

CallCreateStatic ==
    \E id \in Ids, ip \in LeaseIps, mac \in MacText, h \in Hostname :
        /\ mem_create_static_ip(ip, mac, id, h)
        /\ \/ /\ InsertStatic(ip, mac, id)
              /\ hosts' = hosts \cup {[ip |-> ip, hostname |-> h]}
              /\ Called(FALSE) /\ Aside
           \/ /\ id \notin SubnetIds \/ \E s \in statics : s.ip = ip \/ s.mac = mac
              /\ Refused

(* The memory database renames the first row with the address, which may   *)
(* be one whose subnet is gone.                                            *)
CallUpdateHostname ==
    \E ip \in LeaseIps, h \in Hostname :
        /\ mem_update_static_ip_hostname(ip, h)
        /\ update_static_ip_hostname(ip, h)
        /\ Called(\E s \in First(mem.statics, {r \in Rows("statics") : r.ip = ip}) : ~ Alive(s))

CallDeleteStatic ==
    \E ip \in LeaseIps : mem_delete_static_ip(ip) /\ DeleteStatic(ip) /\ Statement

CallCreateLease ==
    \E id \in Ids, mac \in Mac, ip \in LeaseIps, d \in LeaseTimes :
        /\ mem_create_lease(id, mac, ip, now + d)
        /\ \/ id \in SubnetIds /\ create_lease(id, mac, ip, now + d) /\ Statement
           \/ id \notin SubnetIds /\ Refused

CallExpireLease == \E id \in Ids : mem_expire_lease(id) /\ expire_lease(id) /\ Statement

CallDeleteExpired == mem_delete_expired_leases(now) /\ delete_expired_leases /\ Statement

CallCreatePrefix ==
    \E i \in Interface, b \in Body :
        mem_create_ia_prefix(i, b) /\ create_ia_prefix(i, b) /\ Called(FALSE)

CallUpdatePrefix ==
    \E id \in Ids, i \in Interface, b \in Body :
        mem_update_ia_prefix(id, i, b) /\ update_ia_prefix(id, i, b) /\ Called(FALSE)

CallDeletePrefix ==
    \E id \in Ids : mem_delete_ia_prefix(id) /\ delete_ia_prefix(id) /\ Called(FALSE)

CallCreateToken ==
    \E name \in TokenName :
        /\ mem_create_token(name)
        /\ \/ create_token(name) /\ Called(FALSE)
           \/ (\E t \in tokens : t.name = name) /\ Refused

CallToggleToken ==
    \E id \in Ids, e \in BOOLEAN :
        mem_toggle_token(id, e) /\ toggle_token(id, e) /\ Called(FALSE)

CallDeleteToken ==
    \E id \in Ids : mem_delete_token(id) /\ delete_token(id) /\ Called(FALSE)

(* SQLite writes last_used_at, which nothing reads; memory does nothing.   *)
CallTokenLastUsed == mem_update_token_last_used /\ Called(FALSE) /\ UNCHANGED sqlVars

Tick ==
    /\ now < MaxTime
    /\ now' = now + 1
    /\ UNCHANGED <<sqlVars, memVars, faults, calls, parted>>

(* The bound of the comparison. *)
Done == (parted \/ calls = MaxCalls) /\ UNCHANGED vars

Next ==
    \/ CallCreateSubnet \/ CallUpdateSubnet \/ CallDeleteSubnet
    \/ CallCreateRange \/ CallDeleteRange
    \/ CallCreateStatic \/ CallUpdateHostname \/ CallDeleteStatic
    \/ CallCreateLease \/ CallExpireLease \/ CallDeleteExpired
    \/ CallCreatePrefix \/ CallUpdatePrefix \/ CallDeletePrefix
    \/ CallCreateToken \/ CallToggleToken \/ CallDeleteToken \/ CallTokenLastUsed
    \/ Tick \/ Done

Spec == Init /\ [][Next]_vars

-----------------------------------------------------------------------------
(***************************************************************************)
(* As long as SQLite has refused nothing, the vectors of InMemoryDatabase  *)
(* hold exactly the SQLite rows, ids included, and besides them only the   *)
(* rows of deleted subnets, which the foreign keys would have taken along. *)
(* An id that was given out again would bring those orphans back to life.  *)
(***************************************************************************)
OrphansApart ==
    ~ parted =>
        /\ RowsOf(mem.subnets) = subnets
        /\ {r \in RowsOf(mem.ranges) : Alive(r)} = ranges
        /\ {l \in RowsOf(mem.leases) : Alive(l)} = leases
        /\ {[ip |-> s.ip, mac |-> s.mac, subnet_id |-> s.subnet_id]
              : s \in {t \in RowsOf(mem.statics) : Alive(t)}} = statics
        /\ {[ip |-> s.ip, hostname |-> s.hostname]
              : s \in {t \in RowsOf(mem.statics) : Alive(t)}} = hosts
        /\ RowsOf(mem.prefixes) = prefixes
        /\ RowsOf(mem.tokens) = tokens

(***************************************************************************)
(* A test on InMemoryDatabase sees what the daemon sees, while SQLite has  *)
(* refused nothing.  The lists of a subnet, of an interface and of the     *)
(* tokens that authenticate agree.  list_ranges(None) and                  *)
(* list_active_leases, the look-ups of handle_discover and handle_request  *)
(* (server.rs:638, 735, 776), differ by the orphans alone: a range whose   *)
(* get_subnet finds nothing, which handle_request passes over, and a lease *)
(* of a deleted subnet, which still blocks its address in memory.  For a   *)
(* client without orphaned rows the static assignment found in memory is   *)
(* one SQLite may return, a lease in force is found in both or in neither, *)
(* and it is the same lease unless the client has several.                 *)
(***************************************************************************)
LookupsAgree ==
    ~ parted =>
        /\ RowsOf(mem_list_subnets) = subnets
        /\ \A id \in Ids : mem_get_subnet(id) = get_subnet(id)
                         /\ mem_get_ia_prefix(id) = get_ia_prefix(id)
        /\ \A id \in SubnetIds :
              /\ RowsOf(mem_list_ranges(id)) = list_ranges(id)
              /\ {s.ip : s \in RowsOf(mem_list_static_ips(id))}
                    = {s.ip : s \in {t \in statics : t.subnet_id = id}}
        /\ {r \in RowsOf(mem_list_all_ranges) : mem_get_subnet(r.subnet_id) # {}} = ranges
        /\ {l \in RowsOf(mem_list_active_leases(now)) : Alive(l)} = list_active_leases
        /\ \A i \in Interface : RowsOf(mem_list_ia_prefixes(i)) = list_ia_prefixes(i)
        /\ RowsOf(mem_list_tokens) = {t \in list_api_tokens : t.enabled}
        /\ \A mac \in Mac :
              LET st == mem_get_static_ip_by_mac(mac, Lower)
                  one == mem_get_active_lease(mac, now)
                  mine == {l \in RowsOf(mem_list_active_leases(now)) : l.mac = mac}
              IN  /\ (\A s \in RowsOf(mem.statics) : Lower[s.mac] = mac => Alive(s))
                        => /\ {s.ip : s \in st} \subseteq {s.ip : s \in get_static_ip_by_mac(mac)}
                           /\ st = {} <=> get_static_ip_by_mac(mac) = {}
                  /\ (\A l \in mine : Alive(l))
                        => /\ one = {} <=> get_active_lease(mac) = {}
                           /\ Cardinality(mine) = 1 => one = get_active_lease(mac)
=============================================================================
