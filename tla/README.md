# Formal models of ndhcpd

`ndhcpd` is a DHCPv4 server and IPv6 router-advertisement daemon in Rust, with
a REST API and an SQLite database. This directory holds TLA+ models of it, the
TLC configurations that check them on small instances, and proofs checked by
TLAPS. `PROJECT.json` is the machine-readable index: which definition models
which lines, which run checks which property, which mutation of the code each
property catches.

## 1. The system

| Part | Source | State it keeps | Operations |
|---|---|---|---|
| SQLite store | `db/sqlite.rs`, `migrations/` | tables `subnets`, `dynamic_ranges`, `static_ips`, `leases`, `api_tokens`, `ia_prefixes` | one SQL statement per method, no transactions |
| DHCPv4 server | `dhcp/server.rs` | one receive loop with the locals of the handler it is in | DISCOVER, REQUEST, RELEASE; everything else is dropped |
| Lease cleanup | `dhcp/server.rs` `run` | a timer | delete expired leases, forever |
| Configuration API | `handlers/subnets.rs`, `ranges.rs`, `static_ips.rs` | requests in flight | create, update, delete |
| Authentication | `auth/`, `handlers/tokens.rs` | requests in flight, `api_tokens` | verify, create, toggle, delete |
| Router advertisements | `ra/`, `handlers/ia_prefixes.rs` | one task per interface, `ia_prefixes` | periodic RA, answer to a solicitation |
| In-memory database | `db/memory.rs` | a vector per table, id counters | the same methods; used by the tests |
| Packet codec | `dhcp-proto` | none | parse, encode |
| Reply path | `dhcp/server.rs` `response_dest`, `utils/network.rs` frames | broadcast sockets, one per interface | build the reply, choose its destination, send |
| Configuration | `config.rs`, `main.rs` | the YAML file | resolve the path, read, apply defaults |
| Daemon | `main.rs` | the sockets, the tasks above, the runtime's worker threads | start, serve, be restarted |
| CLI | `ndhcp-cli` | none | HTTP client |

All tasks share the database and nothing else. The DHCP receive loop handles
one packet at a time, but every database call is an `await`: API requests, the
cleanup task and the clock move between any two statements of a handler. No
handler uses a transaction, so every check-then-write pair is exposed. Any
call may fail, most failures are swallowed (`.ok()??`, `let _ =`, `if let
Ok(..)`), and the process may be killed between two statements while clients
keep believing the ACK they received.

What makes each part correct:

* database: no orphan rows, at most one client per leased address, and the
  implementation the tests use answers like the one the daemon uses;
* DHCP server: an address is never held by two clients, a lease the server
  acknowledged stays recorded until the client's own timer has run out, an
  offered address is granted when asked for, nobody loses a lease to someone
  else's packet;
* API: subnets never overlap, no request passes with a token that is not
  valid, a toggle changes the token it names;
* router advertisements: a solicitation is answered and a change is advertised,
  whatever fails and whatever arrives meanwhile;
* cleanup: never deletes a lease in force, and expired leases do go away;
* reply path and codec: a reply goes where its client can hear it, and the
  client reads in it what the server meant, whatever the length of an option;
* daemon: it runs on the configuration it was given, comes back after a crash,
  no bad datagram stops it, and its tasks run while it waits for one.

## 2. Modules

| Module | Models |
|---|---|
| `Addressing` | prefix arithmetic: `subnets_overlap`, `iface_in_subnet` |
| `Store` | the tables and one operator per SQL statement |
| `DhcpServer` | the receive loop and handlers, one action per `await`, and the cleanup task |
| `AdminApi` | the configuration handlers; `create_subnet` in two steps |
| `Ndhcpd` | the daemon: server, API, clock and restarts over one store; the properties |
| `LeaseRegistry` | the abstract specification: one holder per address |
| `NdhcpdProofs` | theorems about `Ndhcpd` |
| `TokenAuth` | the authentication middleware and the token handlers, several requests at once |
| `TokenAuthProofs` | theorems about `TokenAuth` |
| `RouterAdv` | the router-advertisement tasks and the prefix handlers |
| `RouterAdvProofs` | theorems about `RouterAdv` |
| `BindingProofs` | theorems about `Ndhcpd`: what clients were told against the lease table, and what they were offered against what they get |
| `AdminApiProofs` | theorems about `AdminApi` |
| `MemoryStore` | `InMemoryDatabase`, one operator per method |
| `Databases` | both implementations of the `Database` trait, driven by the same calls |
| `DatabasesProofs` | theorems about `Databases` |
| `Wire` | options, packets and the raw frame as bytes |
| `WireProofs` | what the operators of `Wire` compute, for every input |
| `ReplyPath` | OFFER and ACK, `response_dest`, and the ways a reply is sent |
| `Runtime` | the process: configuration, start-up, sockets, tasks and worker threads, around the reply path |
| `RuntimeProofs` | theorems about `Runtime` |
| `MCAdminApi`, `MCNdhcpd`, `MCTokenAuth`, `MCRouterAdv`, `MCDatabases`, `MCRuntime` | instances for TLC |

`EXTENDS`: `Addressing` < `Store` < `DhcpServer`, `AdminApi` < `Ndhcpd` <
`MCNdhcpd`, `NdhcpdProofs` < `BindingProofs`; `AdminApi` < `AdminApiProofs`.
`Ndhcpd` instantiates `LeaseRegistry` under a refinement mapping. `Store` and
`MemoryStore` < `Databases` < `MCDatabases`, `DatabasesProofs`. `Wire` <
`ReplyPath` < `Runtime` < `MCRuntime`; `Wire` < `WireProofs`, which with
`Runtime` < `RuntimeProofs`. `TokenAuth` and `RouterAdv` use tables of their own, which no
other part of the daemon reads, and stand alone.

`Ndhcpd` and `Runtime` are two views of one daemon. `Ndhcpd` looks at what the
handlers do to the tables, one action per `await`, and takes the process for
granted; `Runtime` looks at the process and the wire, and takes what
`handle_packet` decides as any element of `Decisions`.

### State and actions against the code

**Store.** `subnets`, `ranges`, `statics`, `leases` are sets of rows, `seq` the
AUTOINCREMENT counters, `now` the clock in seconds. Every statement is an
operator; keys, `UNIQUE`, foreign keys and `ON DELETE CASCADE` are part of it.
`DbOk` and `DbErr` are the two outcomes of an `await`; `faults` counts the
failing ones up to `MaxFaults`. `get_active_lease` and the row order of queries
without `ORDER BY` are nondeterministic where SQL leaves them open.

**DhcpServer.** The receive loop has one packet in hand, so one program counter
`pc` and one `frame` of locals stand for it. Between two actions lies exactly
one `await`:

| `pc` | Code |
|---|---|
| `idle` | `recvmsg` in `listen_loop` |
| `d_static`, `d_static_subnet`, `d_lease`, `d_lease_subnet`, `d_subnets`, `d_leases`, `d_ranges` | `handle_discover`, in the order of its queries |
| `r_static`, `r_static_subnet`, `r_ranges`, `r_subnet`, `r_leases`, `r_expire`, `r_create` | `handle_request` |
| `rel_lease`, `rel_expire` | `handle_release` |

The loops over subnets and ranges are a set of elements still to visit, taken
in any order. `RecvPacket` contains the interface lookup, the listen-interface
filter and the early returns. `acked` and `offer` are history variables: what
clients were told, which the code does not keep. A client counts its lease from
the second its REQUEST was received, the server from the `Utc::now()` after its
queries.

**AdminApi.** `CheckSubnet` is `create_subnet` up to the INSERT, `CreateSubnet`
the INSERT; `checked` holds the requests in between. The other handlers are
one statement each. A failing statement of those is a 500 and changes nothing.

**Ndhcpd.** `Receive`, `Handle`, `Purge`, `Api`, `Tick`, `Crash`. A crash drops
everything in flight and keeps the tables and `acked`.

**TokenAuth.** Each request in `Req` is in one of the stages `idle`, `verify`
(before `list_tokens`), `touch` (before `update_token_last_used`), `handler`,
`toggle_write`. A token's text is a number never generated twice; Argon2 is
equality on it. `window[r]` records which texts were enabled at some moment of
request `r`.

**RouterAdv.** One task per listen interface: `start`, `timer` (first
advertisement sent), `select`, `drain` (inside the readable branch), `read` and
`send` (inside `send_ra`, with `back` the place it returns to), `stopped`.
`ready` is the readiness tokio caches and `fresh` says that it was set after
the task took its guard, which is what `clear_ready` compares. `heard` and
`asked` describe the link: the last advertisement, and a solicitation not yet
followed by one.

**Databases.** Each `Call...` action makes one call of the trait on both
implementations. `Store` has the four address tables of SQLite; host names,
prefixes and tokens are here. Where SQLite refuses a call that memory accepts
(a UNIQUE or foreign key), the two part and `parted` ends the comparison.
A memory table is a sequence, because `find` returns its first match.

**Wire, ReplyPath.** A datagram is the record of its fixed header, whether the
cookie is right, and its options as a sequence of bytes. `parse` returns the
empty set for an error, skips padding, keeps unknown and malformed options as
`Unknown`, and stops at an option that does not fit; `parse_at` is the body of its
loop. `to_bytes` writes the length byte modulo 256. The IP header
of a raw frame is its twenty bytes, checksum included. `SendReply` is
`SendL2`, `SendUdp`, `SendBroadcast` or `SendFails`; `out` is the reply being
sent, `bcast_sockets` the cache of sockets. `build_l2_udp_frame` counts in `u16`
without looking whether the payload fits; the kernel does, and `sendto` refuses a
packet above the `Mtu` of the link (`FitsLink`), which leaves `SendFails`.

**Runtime.** `pc` follows `main` from `down` through the two reads of the
configuration, the database, the Unix and the TCP socket to `serving`.
`listener` is the `listen_loop` task: `off`, `bind`, `recv` (blocked in
`recvmsg`), `handling` (awaiting the database), `sent` (reply out, same poll),
`ended`. `held` are the tasks that keep a worker thread, `ready` the other
tasks with work. `sockfile` is what is at the socket's path: nothing, the socket
of this process, or one nobody serves. `Dies` is the end of a process: its
sockets close, the path stays. `EditFile` changes the file between the two
reads, `OtherStart` is a second start of the program by hand. The text of a file is
a record of its sections; `from_file` refuses one without `listen_interfaces`, `api`
or `dhcp`, the fields without a serde default (`Mandatory`), and `main` then goes
on with the defaults, which require no authentication. `Untroubled` (and
with it `LateDatagrams`) only limits how many datagrams arrive after a failure.

**LeaseRegistry.** One variable, `holder`: an address passes from one client to
another only by being free in between. `Ndhcpd!Registry` maps the holder of an
address to the client of its lease in force.

## 3. Runs

Passing runs:

| Run | Instance | Shows |
|---|---|---|
| `admin_api` | API alone, every 3-bit network with prefixes 0 to 4, 3 calls, 1 failing | no overlap unless a PUT moved a subnet (`NoOverlap`); the overlap test and the DHCP server's membership test agree (`OverlapIsSharedAddress`) |
| `lease_table` | two interfaces, pools of two addresses and of one, a static assignment, two clients, one API call of any kind, one failing statement, one restart, late RELEASEs, fairness | `LeaseExclusive`, `ReferentialIntegrity`, `LeaseRemovedByOwner`, the refinement `ImplementsRegistry`, and `ExpiredPurged` |
| `bindings` | one interface and pool, all packets, one API call that creates or changes a subnet or creates a range, three lease rows, no failures, no static assignments | `AckBacked`, `NoDoubleAck`, `OfferNotLeased`, `OfferHonoured` |
| `token_auth` | two concurrent requests, two tokens, one failing call | `AuthorisedInWindow`, `ToggleHitsItsToken` |
| `databases` | one client under two spellings, two subnets, five calls of any method, one clock tick | memory holds the rows of SQLite and, apart from them, orphans of deleted subnets (`OrphansApart`); the look-ups agree, but for those orphans in the lists over all subnets (`LookupsAgree`) |
| `daemon` | two workers, five initial pairs of files, eleven datagrams, one failure, crash, edit and second start each, fairness | `DatagramsTaken`, `ListenerSurvives`, `SocketReachable`, `Recovers`, `ConfigHonoured`, `ReplyReachesClient`, `ReplyReadable`, `FrameAccepted` |
| `router_adv` | one task, bursts of two datagrams, three API calls, two failures, fairness | `NoLostWakeup`, `SolicitationAnswered`, `ChangesAdvertised` |

Runs that find a disagreement between the code and what the repository says of
it (`findings` in `PROJECT.json` quotes the lines):

| Run | What happens |
|---|---|
| `admin_api_race` | two concurrent `create_subnet` requests pass the overlap check and both insert |
| `mac_spelling` | `aa` and `AA` get a static assignment each: the UNIQUE key compares text, the lookup lower case |
| `crash_renewal` | a restart between the DELETE and the INSERT of a renewal forgets an acknowledged lease |
| `static_conflict` | a dynamic range that contains a statically assigned address hands it to somebody else |
| `one_worker` | on one core the blocking `recvmsg` keeps the only worker: no purge, no API request, until a DHCP datagram arrives |

Two more disagreements show in passing runs, where the code does something a
document denies or does without something it names:

* `DHCP_CONFIG` is how `README.md:90` and `:252`, `QUICKSTART.md:52` and
  `ndhcpd.service:10` name the configuration file. `main` reads no such variable:
  it takes `--config`, or the default path, or `./config.yaml` when the default
  path does not exist, which is what `ConfigHonoured` states and `daemon` checks.
* `README.md:213` says that `ndhcpd` does not send Router Advertisements itself.
  With `ra.enabled` it does, and `router_adv` checks how (`SolicitationAnswered`,
  `ChangesAdvertised`).

Why `bindings` and `lease_table` differ: `AckBacked` is false under restarts
(`crash_renewal`), failing statements (the INSERT of a renewal may fail after
its DELETE) and subnet deletion (leases cascade), late RELEASEs and a second interface (a client
with a lease on each loses the later one by releasing the earlier), so it is
checked without them: TLC refutes it with any one of the five. Exclusivity, ownership and the refinement hold with all of them. A
RELEASE deletes only the latest lease of its client and ignores `ciaddr`
(`server.rs:825`); a client with two leases keeps one. No document promises
otherwise, so this is recorded here only.

What the properties leave out on purpose. `NoOverlap` says nothing of subnets a PUT
has moved. `OfferHonoured` is about clients without static assignments, subnets
that no PUT has moved and ranges that still exist. `SocketReachable` exempts a path
that another start of the program has taken, and `ConfigHonoured` a file edited
between the two reads of `main` (`stable`). `NoLostWakeup` exempts a task that saw
`recvfrom` fail, and `SolicitationAnswered` accepts the advertisement of the timer.
With an option too long for its length byte `ReplyReadable` speaks of the options
before it. `LookupsAgree` ends at the first call SQLite refuses.

Other things seen while modelling, which no run is about because no document
promises otherwise, or because the promise and the code are one line apart:

* A client with a static assignment on another interface is offered an address
  from the range and its REQUEST is then dropped (`server.rs:715`).
* A client whose lease lies in no enabled range any more is offered its address
  and its REQUEST is then dropped: DISCOVER looks at the lease only, REQUEST at
  the ranges.
* In memory the lease of a deleted subnet still blocks its address
  (`list_active_leases`); in SQLite it went with the subnet.
* `default_lease_time * 7 / 8` wraps above 613566756 seconds in a release build,
  and T2 is then below T1; nothing bounds the lease time.
* A configuration file without an `api` or a `dhcp` section is ignored as a whole,
  its `require_authentication` included.
* `PUT /api/ia-prefixes` stores a lifetime of 0, which `POST` replaces by the
  default and `README.md` calls "0 = use default".
* `update_subnet` and `update_static_ip_hostname` document a 404 and answer
  with success when there is no such row.
* Replies carry neither `giaddr` nor the flags of the request
  (`ReplyFields`); relay support is listed as future work in `QUICKSTART.md`.
* The broadcast socket of an interface is used only when `ciaddr` or `giaddr` is
  255.255.255.255: a client with the BROADCAST flag gets a raw frame.
* When the second read of the configuration fails, `main` logs that it uses the
  defaults and keeps what the first read gave.
* In memory `get_active_lease` returns the oldest lease of a client, in SQLite
  the one that ends last; `LookupsAgree` says they agree for a client with one.
* Two concurrent toggles of a token may amount to one (`handlers/tokens.rs:137`).
* A static assignment deleted while its REQUEST is handled is still acknowledged.
* An interface without a link-local address at start gets no router
  advertisements until a restart, and a deleted last prefix is not withdrawn.
* A second start of the program takes the path of the Unix socket away from the
  one that serves and then fails on the TCP address (`OtherStart`).

### Bounds

Addresses have 3 bits instead of 32 (`Width`): two disjoint halves, pools of
two addresses, an address outside every pool. Two clients are enough for every
property that speaks of "another client"; two addresses for a client that
changes its mind. `MaxLeaseRows = 3` in `bindings` allows a lease, its renewal and a
competitor; the 2 rows of `lease_table` are a lease and a competitor, or the two rows
a failed DELETE leaves. A RELEASE is received at the bound too. `MaxTime` exceeds the lease time, so that leases reach their end,
the boundary second and the purge. One API call, failure or restart at a time
reaches every window between two statements, since every property concerns
one such window; `admin_api` uses three calls because an overlap needs two
inserts and a PUT. `MaxQueue = 2` is the least at which a datagram can be left
behind.

In `databases` five calls are the shortest history in which a subnet is created,
gets a row, is deleted, a second one is created and gets a row of its own; ids 1 and
2 name an existing row and a missing one, and lease ends 0, 1 and 2 lie on both
sides of the clock. In `daemon` links take 1500 bytes (`Mtu`) and a `u32` has 16 bits (`U32`), so that a lease time can wrap the product by
seven; the theorems have any `U32`. Each of the five initial pairs of files takes
another way through `resolve` and `from_file`; the datagrams take every branch of
`parse` and of `response_dest`, and one of the two subnets has 64 DNS servers, the
least number whose length byte wraps. `MaxReady = 1` suffices because the other
tasks do not wait for each other. After a failure only `LateDatagrams` arrive.

`SYMMETRY` is used for requests in `token_auth` only, with no liveness
property. `admin_api`, `admin_api_race`, `mac_spelling` and `router_adv` run
without the deadlock check, since the API calls are bounded and an RA task may
really end, and `one_worker`, since without datagrams the process comes to rest.

### Fairness

`FairSpec` of `Ndhcpd`: weak fairness of `Handle` (every `await` on the
database completes or fails, and the loop never leaves a handler half way) and
of `Cleanup` (the interval timer of `run` never stops). `RouterAdv`: weak
fairness of each task (the runtime polls whatever can go on) and of each
interval timer. `Runtime`: weak fairness of
`Start` (`main` goes on, and the service manager restarts a process that ended:
`Restart=on-failure` in `ndhcpd.service`) and of `Listen`, which on its thread waits
for nobody. Nothing is assumed of the other tasks, since `#[tokio::main]` starts one
worker per core and `recvmsg` blocks one of them: with one worker they do not run
(`one_worker`, which fails even under `GenerousSpec`, strong fairness of every
`Poll(t)`), and with more a task may still wait in the slot of the blocked worker, from
which others do not steal, or for an I/O driver that worker was in charge of. Of
their progress with several workers nothing is claimed. Clients, hosts, administrators, failures,
restarts, datagrams and the clock owe nothing.

## 4. Proofs

| Theorem | Says |
|---|---|
| `NdhcpdProofs!TypeCorrect` | `Spec => [](TypeOK /\ NamesAddress)` |
| `NdhcpdProofs!LeaseInvariant` | `Spec => []LeaseInv` |
| `NdhcpdProofs!LeaseExclusivity` | `Spec => []LeaseExclusive` |
| `NdhcpdProofs!OffersAreFree` | `Spec => OfferNotLeased` |
| `NdhcpdProofs!RemovedByOwner` | `Spec => LeaseRemovedByOwner` |
| `NdhcpdProofs!NoOrphans` | `Spec => []ReferentialIntegrity` |
| `NdhcpdProofs!RegistryImplemented` | `Spec => ImplementsRegistry`, the refinement |
| `BindingProofs!AcksAreBacked` | `Spec => []AckBacked`, if `Undisturbed` |
| `BindingProofs!NoAddressTwice` | `Spec => []NoDoubleAck`, if `Undisturbed` |
| `BindingProofs!OffersAreHonoured` | `Spec => OfferHonoured`, if `Promising` |
| `AdminApiProofs!SubnetsDisjoint` | `AdminSpec => []NoOverlap`, if `MaxInFlight = 1` |
| `AdminApiProofs!OverlapTestExact` | `AdminSpec => []OverlapIsSharedAddress` |
| `DatabasesProofs!MemoryHoldsTheRows` | `Spec => []OrphansApart` |
| `DatabasesProofs!MemoryAnswersAlike` | `Spec => []LookupsAgree` |
| `TokenAuthProofs!TokenTypeCorrect` | `Spec => []TypeOK` |
| `TokenAuthProofs!TokensAuthorise` | `Spec => []AuthorisedInWindow` |
| `TokenAuthProofs!ToggleIsolation` | `Spec => ToggleHitsItsToken` |
| `RouterAdvProofs!WakeupsKept` | `Spec => []NoLostWakeup` |
| `RouterAdvProofs!RaTypeCorrect` | `Spec => []TypeOK` |
| `RuntimeProofs!ProcessInvariant` | `Spec => []ProcInv` |
| `RuntimeProofs!SocketStaysReachable` | `Spec => []SocketReachable` |
| `RuntimeProofs!ConfigurationHonoured` | `Spec => []ConfigHonoured` |
| `RuntimeProofs!ListenerKept` | `Spec => ListenerSurvives` |
| `RuntimeProofs!RepliesReachClients` | `Spec => []ReplyReachesClient` |
| `RuntimeProofs!FramesAccepted` | `Spec => []FrameAccepted` |
| `RuntimeProofs!RepliesReadable` | `Spec => []ReplyReadable` |
| `WireProofs!ChecksumCloses` | a header with its `ip_checksum` in it sums to zero in one's complement |
| `WireProofs!ReadsBack` | `parse_options` gives back the options whose bytes it reads |

They hold for any number of clients, addresses, interfaces, requests, tokens,
API calls, failures and restarts, under the assumptions named in the modules
(`WidthAssumption`, `PowerAssumption`, `StoreAssumption`, `ServerAssumption`, `ApiAssumption`,
`NdhcpdAssumption`, `AuthAssumption`, `RaAssumption`, `DatabasesAssumption`,
`ReplyAssumption`, `RuntimeAssumption`): the constants have their types, the initial
rows refer to existing subnets and their ids are not above the AUTOINCREMENT
counters, the runtime has a worker, a link takes less than 65536 bytes, and no
handler decides on the address 255.255.255.255. `PowerAssumption` only says that
powers of two are positive naturals, which the provers do not know. TLC evaluates
the assumptions on every run.

*LeaseExclusive* is not inductive: `handle_request` decides in `r_leases` and
inserts up to two awaits later. `LeaseInv` adds what the handlers rely on in
between: ids name one row and stay below the counter (`UniqueIds`); past the
check nobody else has a lease in force on the address (`ClearAddress`); the row
about to be deleted is the client's own, if it is still there (`OwnRow`); the
addresses a DISCOVER has read as leased still include every leased one
(`LeasedRead`); and the lease found for a DISCOVER is on an address nobody else
holds (`OwnAddress`). These survive every interleaved step because nothing but
`r_create` adds a lease, the clock only moves forward and a lease once expired
stays expired. The proof has a lemma for steps that leave the handler alone
(`QuietStep`), one for handler steps outside the critical part (`AsideStep`),
and one per action inside it. `OffersAreFree` and `RemovedByOwner` follow step by
step from `LeaseInv`: `LeasedRead` and `OwnAddress` for the first, `OwnRow` for
the second.

*TokensAuthorise* and *ToggleIsolation* rest on `TokenInv`: ids are unique
(`IdsUnique`) and never above the counter (`IdsBelow`), and a row a toggle has
read is either gone for good or has the text it had (`ReadStands`).

*RegistryImplemented* uses the same invariant. Every step but the INSERT of
`handle_request` adds no lease (`OneGrant`), so holders only disappear (`Lapse`); the
INSERT is a `Grant` because of `ClearAddress`. `HolderOf` is a `CHOOSE` among leases
that `LeaseExclusive` makes agree on the client (`HolderIs`).

*NoOrphans* is inductive as it stands: the foreign keys guard every INSERT and the
cascade every DELETE, whatever the handler has read before.

*AcksAreBacked* assumes `Undisturbed`: no failing statement, restart, late RELEASE or
`delete_subnet`, and one listen interface. `BackInv` adds to `AckBacked` that a client
holds one binding (`OneBinding`), has none left once its RELEASE arrived
(`ReleasedFirst`), that the row about to be deleted is the lease being renewed
(`ExpiresRenewed`), that the subnet of the matching range is still there for the
INSERT (`SubnetStands`), and that the server counts from no earlier than the client
(`CountedLater`). *NoAddressTwice* follows from it and `LeaseInv`.

*OffersAreHonoured* assumes `Promising`: no failing statement, no static assignment
(it overrides an offer), and no `update_subnet` or `delete_range`, which between two
reads of one DISCOVER can leave an offer that was never in one state of the tables.
Restarts, late RELEASEs, purges, new subnets and ranges and the deletion of subnets
are allowed. The proof carries the offer through both handlers: every lease and
every subnet or range in a handler's locals is still backed by the tables, or its
subnet is gone and, because AUTOINCREMENT never gives an id out twice, stays gone
(`TablesServe`, `FrameServes`); an offer that stands is covered by a range of a
subnet of its interface and leased to nobody else (`OfferStands`); and a REQUEST for
it has what it needs for the ACK at each `pc` (`RequestServed`). These make up
`PromiseInv`, which is inductive together with `LeaseInv` and `NoOrphans`.

*OverlapTestExact*: the members of a subnet are the addresses between its masked
network and that plus the block size, and two aligned blocks either share the start
of the smaller or lie apart (`MultiplesApart`, `MaskedBlock`). Prefix 0 and prefixes
above the width, where the shift wraps, are cases of their own.

*MemoryHoldsTheRows* and *MemoryAnswersAlike* rest on `TwinInv`: as long as no call
parted the two (SQLite refused none), the counters agree and are ahead of every row in memory, no vector
holds an id or a static address twice, and each holds the SQLite rows together with
rows of deleted subnets only. Neither property is inductive: without the counters a
new subnet could adopt orphans, and without uniqueness `find` could hit another row
than `WHERE id = ?`. What `find`, `retain`, `push` and the in-place update do to a
vector are lemmas on sequences.

*SubnetsDisjoint* adds that a request past its check is apart from every stored
subnet (`CheckedApart`), which a second request in flight would break
(`OneChecked`, and the run `admin_api_race`).

*ProcessInvariant*: `HeldInv` and `ListenerInv` tie `held` to the listener's state,
`SocketInv` ties the socket's path to `pc`, `ConfigInv` says at each `pc` what has
been read. *RepliesReachClients* goes through `CurInv`: what is on the wire was built by `create_offer` or `create_ack` from
the packet received, and the destination in the frame's bytes is the one
`response_dest` chose (`HeaderDestination`, `FrameDestination`).

*FramesAccepted* and *RepliesReadable* need what recursive functions compute for
every input. The induction theorems of the library cannot be instantiated by the
provers, so each induction is a least counterexample (`LeastNumber`, from the
well-foundedness of `<`): first that the function exists, by extending a partial one,
then its recurrence, then the fact. `Fold` keeps its argument modulo 65535 and ends
in 16 bits (`FoldCongruent`); two headers that differ in their sixth word have sums
that differ by it (`HeaderSums`); hence *ChecksumCloses*. For the codec, `FlattenAt`
says where each option's bytes begin, `ReadStep` that the parser at such a place
reads that option and goes on after it, and the `...Wellformed` lemmas that each
kind of option is read as what was written, whatever its value. *ReadsBack* follows
for every list of options, and *RepliesReadable* because `create_offer` and
`create_ack` put the terms of the lease before the two kinds of unbounded length
(`Answer`, `Mixed`).

*RaTypeCorrect* has two parts that are more than types: past its query `send_ra`
holds at least one row and only rows of its interface (`RowsFit`), whatever the API
does to the table before the send; and the maximum `build_router_advertisement` takes
over them exists and is one of them. Likewise *TokenTypeCorrect* has `InPlace`: the
row a toggle has read is the one its path names.

*WakeupsKept* strengthens `NoLostWakeup` to every place outside the drain loop
(`Waits`), as a task on its way back to `select` must not have lost an event
either; inside the loop nothing is claimed, since it ends on an empty queue.

Only model-checked: liveness under fairness (`ExpiredPurged`,
`SolicitationAnswered`, `ChangesAdvertised`, `DatagramsTaken`, `Recovers`), which the installed provers do not handle. Every invariant and every
action property of a passing run is a theorem. No module uses `RECURSIVE`.

## 5. What is not modelled

* The command-line client: one HTTP request per invocation, without state or
  retry. The lease listing and the health check: they only read.
* Logging and its set-up.
* The layout of the fixed 240 bytes of a DHCP header and the bytes of a router
  advertisement, in which no decision is made; the RDNSS length byte with them.
* The FreeBSD variants of the reply path, which differ in the system calls.
* Columns no decision reads: `last_used_at`, `created_at`, `lease_start`; gateway,
  DNS servers and domain appear in `ReplyPath` only, host names in `Databases` only.
* A wall clock that steps back.
* HTTP parsing and the OpenAPI pages, which are library code.

## 6. Plan

Done: the store in both implementations, the DHCPv4 server, the API, tokens, router
advertisements, the codec, the reply path, the configuration and the process; and
every safety property the runs check, as a theorem. What is left:

1. `OffersAreHonoured` with static assignments, for clients that have none.
2. `AcksAreBacked` on several interfaces, for clients that hold one lease.
3. `DhcpPacket::parse` on any bytes: that it ends, and that what it returns does not
   depend on the bytes after the end of the list.
