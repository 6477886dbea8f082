----------------------------- MODULE MemoryStore -----------------------------
(***************************************************************************)
(* InMemoryDatabase (db/memory.rs), the implementation of the `Database`   *)
(* trait the tests of the handlers and of the DHCP server run on: a vector *)
(* per table behind a lock, and a counter per numbered table.  A create    *)
(* holds the counter's lock while it takes the table's, every other method *)
(* takes one lock, so each method is one step.  Unlike the SQLite tables   *)
(* the vectors have no UNIQUE constraint, no foreign key and no cascade.   *)
(***************************************************************************)
EXTENDS Naturals, Sequences

VARIABLES
    mem,          \* the vectors, by table
    next_id       \* the five id counters

memVars == <<mem, next_id>>

MemInit ==
    /\ mem = [subnets |-> <<>>, ranges |-> <<>>, statics |-> <<>>, leases |-> <<>>,
              prefixes |-> <<>>, tokens |-> <<>>]
    /\ next_id = [subnets |-> 1, ranges |-> 1, leases |-> 1, prefixes |-> 1, tokens |-> 1]

-----------------------------------------------------------------------------
(* What the methods do to a vector. *)

RowsOf(vec) == {vec[i] : i \in DOMAIN vec}

(* Where in vec the first of the wanted rows is: vec.iter().find(p), with  *)
(* the rows p accepts as a set.                                            *)
FirstAt(vec, wanted) ==
    {i \in DOMAIN vec : vec[i] \in wanted /\ \A k \in 1..(i - 1) : vec[k] \notin wanted}

(* The row found, as a set of at most one row. *)
First(vec, wanted) == {vec[i] : i \in FirstAt(vec, wanted)}

(* vec.iter_mut().find(p), and the row found is overwritten. *)
ReplaceFirst(vec, wanted, Change(_)) ==
    [i \in DOMAIN vec |-> IF i \in FirstAt(vec, wanted) THEN Change(vec[i]) ELSE vec[i]]

(* vec.retain(p), and vec.iter().filter(p): the rows kept, in their order. *)
Retain(vec, kept) ==
    LET upto[i \in 0..Len(vec)] ==
            IF i = 0 THEN <<>>
            ELSE IF vec[i] \in kept THEN Append(upto[i - 1], vec[i]) ELSE upto[i - 1]
    IN  upto[Len(vec)]

(* The rows of a table. *)
Rows(table) == RowsOf(mem[table])

Write(table, vec) == mem' = [mem EXCEPT ![table] = vec] /\ UNCHANGED next_id

Push(table, row) ==
    /\ mem' = [mem EXCEPT ![table] = Append(mem[table], row)]
    /\ next_id' = [next_id EXCEPT ![table] = next_id[table] + 1]

(* vec.retain(|r| r.id != Some(id)) *)
RemoveId(table, id) == Write(table, Retain(mem[table], {r \in Rows(table) : r.id # id}))

-----------------------------------------------------------------------------
(* Subnets and ranges. *)

mem_create_subnet(network, netmask) ==
    Push("subnets", [id |-> next_id.subnets, network |-> network, netmask |-> netmask])

mem_get_subnet(id) == First(mem.subnets, {s \in Rows("subnets") : s.id = id})

mem_list_subnets == mem.subnets

mem_update_subnet(id, network, netmask) ==
    Write("subnets", ReplaceFirst(mem.subnets, {s \in Rows("subnets") : s.id = id},
              LAMBDA s : [id |-> id, network |-> network, netmask |-> netmask]))

(* The ranges, static assignments and leases of the subnet stay. *)
mem_delete_subnet(id) == RemoveId("subnets", id)

mem_create_range(subnet_id, start, end, enabled) ==
    Push("ranges", [id |-> next_id.ranges, subnet_id |-> subnet_id,
                    range_start |-> start, range_end |-> end, enabled |-> enabled])

mem_list_ranges(subnet_id) ==
    Retain(mem.ranges, {r \in Rows("ranges") : r.subnet_id = subnet_id})

(* list_ranges(None): the whole vector *)
mem_list_all_ranges == mem.ranges

mem_delete_range(id) == RemoveId("ranges", id)

-----------------------------------------------------------------------------
(* Static assignments, which have no id.  ToLower is str::to_lowercase.    *)

mem_create_static_ip(ip, mac, subnet_id, hostname) ==
    Write("statics", Append(mem.statics, [ip |-> ip, mac |-> mac, subnet_id |-> subnet_id,
                                          hostname |-> hostname]))

mem_list_static_ips(subnet_id) ==
    Retain(mem.statics, {s \in Rows("statics") : s.subnet_id = subnet_id})

(* Mutant: the stored spelling is compared as typed. *)
mem_get_static_ip_by_mac_exact(mac, ToLower) ==
    First(mem.statics, {s \in Rows("statics") : s.mac = mac})

mem_get_static_ip_by_mac(mac, ToLower) ==
    First(mem.statics, {s \in Rows("statics") : ToLower[s.mac] = mac})

mem_update_static_ip_hostname(ip, hostname) ==
    Write("statics", ReplaceFirst(mem.statics, {s \in Rows("statics") : s.ip = ip},
                                  LAMBDA s : [s EXCEPT !.hostname = hostname]))

mem_delete_static_ip(ip) ==
    Write("statics", Retain(mem.statics, {s \in Rows("statics") : s.ip # ip}))

-----------------------------------------------------------------------------
(* Leases; t is chrono::Utc::now().timestamp() at the call. *)

mem_create_lease(subnet_id, mac, ip, lease_end) ==
    Push("leases", [id |-> next_id.leases, subnet_id |-> subnet_id, mac |-> mac, ip |-> ip,
                    lease_end |-> lease_end])

(* The oldest lease in force, where the SQL asks for the latest to end. *)
mem_get_active_lease(mac, t) ==
    First(mem.leases, {l \in Rows("leases") : l.mac = mac /\ l.lease_end > t})

mem_list_active_leases(t) == Retain(mem.leases, {l \in Rows("leases") : l.lease_end > t})

mem_expire_lease(id) == RemoveId("leases", id)

(* Mutant: the purge also takes the lease that ends this second. *)
mem_delete_expired_leases_early(t) ==
    Write("leases", Retain(mem.leases, {l \in Rows("leases") : l.lease_end > t}))

mem_delete_expired_leases(t) ==
    Write("leases", Retain(mem.leases, {l \in Rows("leases") : l.lease_end >= t}))

-----------------------------------------------------------------------------
(* IPv6 prefixes and API tokens. *)

mem_create_ia_prefix(interface, body) ==
    Push("prefixes", [id |-> next_id.prefixes, interface |-> interface, body |-> body])

mem_get_ia_prefix(id) == First(mem.prefixes, {p \in Rows("prefixes") : p.id = id})

mem_list_ia_prefixes(interface) ==
    Retain(mem.prefixes, {p \in Rows("prefixes") : p.interface = interface})

mem_update_ia_prefix(id, interface, body) ==
    Write("prefixes", ReplaceFirst(mem.prefixes, {p \in Rows("prefixes") : p.id = id},
              LAMBDA p : [id |-> id, interface |-> interface, body |-> body]))

mem_delete_ia_prefix(id) == RemoveId("prefixes", id)

(* Two tokens may have one name here. *)
mem_create_token(name) ==
    Push("tokens", [id |-> next_id.tokens, name |-> name, enabled |-> TRUE])

mem_list_tokens == Retain(mem.tokens, {t \in Rows("tokens") : t.enabled})

mem_toggle_token(id, e) ==
    Write("tokens", ReplaceFirst(mem.tokens, {t \in Rows("tokens") : t.id = id},
                                 LAMBDA t : [t EXCEPT !.enabled = e]))

mem_delete_token(id) == RemoveId("tokens", id)

(* update_token_last_used does nothing. *)
mem_update_token_last_used == UNCHANGED memVars
=============================================================================
