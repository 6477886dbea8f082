------------------------------- MODULE Store -------------------------------
(***************************************************************************)
(* The SQLite database behind the `Database` trait (db/mod.rs,             *)
(* db/sqlite.rs, migrations/): the tables the DHCPv4 server and the API    *)
(* share, one operator per query.  Every method is one SQL statement, so   *)
(* each operator is one atomic step; the interleaving between statements   *)
(* is the business of the modules that extend this one.                    *)
(*                                                                         *)
(* Reads return the set of rows the query may yield: where the SQL has no  *)
(* ORDER BY the caller takes any row of the set.  Columns no decision of   *)
(* the server depends on (gateway, DNS servers, host names, lease_start)   *)
(* are left out.                                                           *)
(***************************************************************************)
EXTENDS Addressing, FiniteSets

CONSTANTS
    Mac,          \* hardware addresses, as MacAddress::to_string writes them
    MacText,      \* spellings of a hardware address in a static assignment
    Lower,        \* SQL LOWER(): spelling -> hardware address
    MaxFaults     \* bound on the number of failing database calls

ASSUME StoreAssumption ==
    /\ Lower \in [MacText -> Mac]
    /\ MaxFaults \in Nat

VARIABLES
    subnets,      \* rows [id, network, netmask]
    ranges,       \* rows [id, subnet_id, range_start, range_end, enabled]
    statics,      \* rows [ip, mac, subnet_id]
    leases,       \* rows [id, subnet_id, mac, ip, lease_end]
    seq,          \* the AUTOINCREMENT counter of each table
    now,          \* chrono::Utc::now().timestamp()
    faults        \* database calls that have failed so far

storeVars == <<subnets, ranges, statics, leases, seq, now, faults>>

SubnetRow == [id : Nat, network : Addr, netmask : 0..255]
RangeRow  == [id : Nat, subnet_id : Nat, range_start : Addr, range_end : Addr,
              enabled : BOOLEAN]
StaticRow == [ip : Addr, mac : MacText, subnet_id : Nat]
LeaseRow  == [id : Nat, subnet_id : Nat, mac : Mac, ip : Addr, lease_end : Nat]

StoreTypeOK ==
    /\ subnets \subseteq SubnetRow
    /\ ranges \subseteq RangeRow
    /\ statics \subseteq StaticRow
    /\ leases \subseteq LeaseRow
    /\ seq \in [subnets : Nat, ranges : Nat, leases : Nat]
    /\ now \in Nat
    /\ faults \in Nat

-----------------------------------------------------------------------------
(* The outcome of a database call: it succeeds, or it returns Err.         *)

DbOk  == UNCHANGED faults
DbErr == faults < MaxFaults /\ faults' = faults + 1

-----------------------------------------------------------------------------
(* Reads. *)

SubnetIds == {s.id : s \in subnets}

get_subnet(id) == {s \in subnets : s.id = id}

list_ranges(id) == {r \in ranges : r.subnet_id = id}

(* LOWER(mac_address) = LOWER(?), no ORDER BY *)
get_static_ip_by_mac(mac) == {s \in statics : Lower[s.mac] = mac}

(* WHERE lease_end > now *)
list_active_leases == {l \in leases : l.lease_end > now}

(* ... ORDER BY lease_end DESC LIMIT 1 *)
get_active_lease(mac) ==
    LET mine == {l \in list_active_leases : l.mac = mac}
    IN  {l \in mine : \A k \in mine : k.lease_end <= l.lease_end}

-----------------------------------------------------------------------------
(* Writes.  Each one names the tables it changes; callers keep the rest.   *)

(* UNIQUE(network, netmask) *)
SubnetUnique(network, netmask) ==
    ~ \E s \in subnets : s.network = network /\ s.netmask = netmask

InsertSubnet(network, netmask) ==
    /\ subnets' = subnets \cup {[id |-> seq.subnets + 1, network |-> network,
                                 netmask |-> netmask]}
    /\ seq' = [seq EXCEPT !.subnets = seq.subnets + 1]
    /\ UNCHANGED <<ranges, statics, leases>>

(* The UNIQUE constraint is checked against the other rows. *)
UpdateSubnet(id, network, netmask) ==
    /\ ~ \E s \in subnets : s.id # id /\ s.network = network /\ s.netmask = netmask
    /\ subnets' = {IF s.id = id THEN [id |-> id, network |-> network, netmask |-> netmask]
                                ELSE s : s \in subnets}
    /\ UNCHANGED <<ranges, statics, leases, seq>>

(* Mutant: the foreign keys without ON DELETE CASCADE. *)
DeleteSubnetAlone(id) ==
    /\ subnets' = {s \in subnets : s.id # id}
    /\ UNCHANGED <<ranges, statics, leases, seq>>

(* ON DELETE CASCADE from dynamic_ranges, static_ips and leases *)
DeleteSubnet(id) ==
    /\ subnets' = {s \in subnets : s.id # id}
    /\ ranges'  = {r \in ranges : r.subnet_id # id}
    /\ statics' = {s \in statics : s.subnet_id # id}
    /\ leases'  = {l \in leases : l.subnet_id # id}
    /\ UNCHANGED seq

InsertRange(subnet_id, start, end, enabled) ==
    /\ subnet_id \in SubnetIds
    /\ ranges' = ranges \cup {[id |-> seq.ranges + 1, subnet_id |-> subnet_id,
                               range_start |-> start, range_end |-> end,
                               enabled |-> enabled]}
    /\ seq' = [seq EXCEPT !.ranges = seq.ranges + 1]
    /\ UNCHANGED <<subnets, statics, leases>>

DeleteRange(id) ==
    /\ ranges' = {r \in ranges : r.id # id}
    /\ UNCHANGED <<subnets, statics, leases, seq>>

(* PRIMARY KEY(ip_address), UNIQUE(mac_address): the text, not its case. *)
InsertStatic(ip, mac, subnet_id) ==
    /\ subnet_id \in SubnetIds
    /\ ~ \E s \in statics : s.ip = ip \/ s.mac = mac
    /\ statics' = statics \cup {[ip |-> ip, mac |-> mac, subnet_id |-> subnet_id]}
    /\ UNCHANGED <<subnets, ranges, leases, seq>>

DeleteStatic(ip) ==
    /\ statics' = {s \in statics : s.ip # ip}
    /\ UNCHANGED <<subnets, ranges, leases, seq>>

(* Mutant: the lease ends before it starts. *)
create_lease_backdated(subnet_id, mac, ip, lease_end) ==
    /\ leases' = leases \cup {[id |-> seq.leases + 1, subnet_id |-> subnet_id,
                               mac |-> mac, ip |-> ip, lease_end |-> now - lease_end]}
    /\ seq' = [seq EXCEPT !.leases = seq.leases + 1]
    /\ UNCHANGED <<subnets, ranges, statics>>

(* INSERT INTO leases; the foreign key is the caller's guard. *)
create_lease(subnet_id, mac, ip, lease_end) ==
    /\ leases' = leases \cup {[id |-> seq.leases + 1, subnet_id |-> subnet_id,
                               mac |-> mac, ip |-> ip, lease_end |-> lease_end]}
    /\ seq' = [seq EXCEPT !.leases = seq.leases + 1]
    /\ UNCHANGED <<subnets, ranges, statics>>

(* DELETE FROM leases WHERE id = ? *)
expire_lease(id) ==
    /\ leases' = {l \in leases : l.id # id}
    /\ UNCHANGED <<subnets, ranges, statics, seq>>

(* Mutant: the purge also takes leases in their last second. *)
delete_expired_leases_early ==
    /\ leases' = {l \in leases : l.lease_end > now + 1}
    /\ UNCHANGED <<subnets, ranges, statics, seq>>

(* Mutant: the purge compares with = and misses everything older. *)
delete_expired_leases_now ==
    /\ leases' = {l \in leases : l.lease_end # now}
    /\ UNCHANGED <<subnets, ranges, statics, seq>>

(* DELETE FROM leases WHERE lease_end < now *)
delete_expired_leases ==
    /\ leases' = {l \in leases : ~ l.lease_end < now}
    /\ UNCHANGED <<subnets, ranges, statics, seq>>

-----------------------------------------------------------------------------
(* Properties of the tables. *)

(***************************************************************************)
(* Every range, static assignment and lease belongs to a subnet that       *)
(* exists: deleting a subnet (handlers/subnets.rs) while the DHCP server   *)
(* is between two statements of a REQUEST leaves no orphan rows.           *)
(***************************************************************************)
ReferentialIntegrity ==
    /\ \A r \in ranges : r.subnet_id \in SubnetIds
    /\ \A s \in statics : s.subnet_id \in SubnetIds
    /\ \A l \in leases : l.subnet_id \in SubnetIds

(***************************************************************************)
(* Two leases in force for one address belong to one client.  The schema   *)
(* has no constraint that says so; it rests on the order of the reads and  *)
(* writes of handle_request (dhcp/server.rs).                              *)
(***************************************************************************)
LeaseExclusive ==
    \A l, k \in list_active_leases : l.ip = k.ip => l.mac = k.mac
=============================================================================
