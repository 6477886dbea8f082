---------------------------- MODULE BindingProofs ----------------------------
(***************************************************************************)
(* What a client was told against what the server recorded.  The theorems  *)
(* are about the daemon that serves one interface, in the absence of the   *)
(* events that are known to separate the two: failing statements, restarts *)
(* (the run crash_renewal), RELEASEs that arrive late, and the deletion of *)
(* a subnet, which takes its leases away.  The last part is about offers:  *)
(* when the REQUEST of a client gets what its DISCOVER was offered.        *)
(***************************************************************************)
EXTENDS NdhcpdProofs

Undisturbed ==
    /\ MaxFaults = 0 /\ MaxCrashes = 0 /\ ~ LateReleases
    /\ "delete_subnet" \notin ApiOps
    /\ \A i, j \in ListenInterfaces : i = j

-----------------------------------------------------------------------------
(* The inductive invariant. *)

(* A client of one interface holds one binding at most. *)
OneBinding ==
    /\ \A b, c \in acked : b.mac = c.mac => b = c
    /\ \A b \in acked : b.iface \in ListenInterfaces
    /\ pc # "idle" => pkt.iface \in ListenInterfaces

(* A client that sent a RELEASE holds nothing. *)
ReleasedFirst ==
    pc \in {"rel_lease", "rel_expire"} => \A b \in acked : b.mac # pkt.mac

(* The row a REQUEST is about to delete is the lease it renews. *)
ExpiresRenewed ==
    pc = "r_expire" =>
        \A l \in leases : l.id = frame.row.id => l.mac = pkt.mac /\ l.ip = RequestedIp(pkt)

(* The subnet of the matching range is still there for the INSERT. *)
SubnetStands ==
    pc \in {"r_leases", "r_expire", "r_create"} => frame.subnet_id \in SubnetIds

(* The server counts the lease from no earlier than the client. *)
CountedLater ==
    /\ pc # "idle" => frame.received <= now
    /\ pc = "r_create" => frame.received <= frame.now

HandlerKnows ==
    OneBinding /\ ReleasedFirst /\ ExpiresRenewed /\ SubnetStands /\ CountedLater

BackInv == AckBacked /\ HandlerKnows

-----------------------------------------------------------------------------
(* Leases in force stay, unless their client is renewing them. *)
LEMMA KeepsBacking ==
    ASSUME TypeOK, TypeOK', AckBacked, acked' \subseteq acked, now' >= now,
           \A b \in acked' : Renewing(b) => Renewing(b)',
           \A b \in acked', l \in leases :
              l.mac = b.mac /\ l.ip = b.ip /\ l.lease_end > now' => l \in leases' \/ Renewing(b)'
    PROVE  AckBacked'
<1> SUFFICES ASSUME NEW b \in acked', b.dynamic, b.until > now', ~ Renewing(b)'
             PROVE  \E l \in leases' : l.mac = b.mac /\ l.ip = b.ip /\ l.lease_end >= b.until
  BY DEF AckBacked
<1>1. now \in Nat /\ now' \in Nat /\ b.until \in Nat /\ b \in acked
  BY DEF TypeOK, StoreTypeOK, ServerTypeOK, Binding
<1>2. ~ Renewing(b) /\ b.until > now
  BY <1>1
<1>3. PICK l \in leases : l.mac = b.mac /\ l.ip = b.ip /\ l.lease_end >= b.until
  BY <1>1, <1>2 DEF AckBacked
<1>4. l.lease_end \in Nat
  BY DEF TypeOK, StoreTypeOK, LeaseRow
<1>5. l \in leases'
  BY <1>1, <1>3, <1>4
<1> QED
  BY <1>3, <1>5

(* The states in which HandlerKnows says more than of any handler. *)
KnowingPC == {"rel_lease", "rel_expire", "r_leases", "r_expire", "r_create"}

(* A read that ends the handler or takes it where it knows nothing more. *)
LEMMA ReadBack ==
    ASSUME TypeOK, TypeOK', BackInv, ReadOnly, UNCHANGED acked, pc \notin {"idle", "r_create"},
           pc' \notin KnowingPC,
           pc' # "idle" => pkt' = pkt /\ frame'.received = frame.received
    PROVE  BackInv'
<1>1. AckBacked'
  BY KeepsBacking DEF BackInv, ReadOnly, Renewing, TypeOK, StoreTypeOK
<1>2. OneBinding' /\ CountedLater'
  BY DEF BackInv, HandlerKnows, OneBinding, CountedLater, ReadOnly, KnowingPC
<1>3. ReleasedFirst' /\ ExpiresRenewed' /\ SubnetStands'
  BY DEF ReleasedFirst, ExpiresRenewed, SubnetStands, KnowingPC
<1> QED
  BY <1>1, <1>2, <1>3 DEF BackInv, HandlerKnows

(* Nothing moves but the tables around the handler and the clock. *)
LEMMA QuietBack ==
    ASSUME TypeOK, TypeOK', BackInv, UNCHANGED <<serverVars, acked>>, now' >= now,
           leases' \subseteq leases, \A l \in leases : l.lease_end > now' => l \in leases',
           SubnetIds \subseteq SubnetIds'
    PROVE  BackInv'
<1>1. AckBacked'
  BY KeepsBacking DEF BackInv, Renewing, RequestedIp, serverVars
<1>2. OneBinding' /\ ReleasedFirst' /\ SubnetStands'
  BY DEF BackInv, HandlerKnows, OneBinding, ReleasedFirst, SubnetStands, serverVars
<1>3. ExpiresRenewed'
  BY DEF BackInv, HandlerKnows, ExpiresRenewed, RequestedIp, serverVars
<1>4. CountedLater'
  <2>1. frame.received \in Nat /\ now \in Nat /\ now' \in Nat
    BY DEF TypeOK, StoreTypeOK, ServerTypeOK, Frame
  <2> QED
    BY <2>1 DEF BackInv, HandlerKnows, CountedLater, serverVars
<1> QED
  BY <1>1, <1>2, <1>3, <1>4 DEF BackInv, HandlerKnows

LEMMA DiscoverBack ==
    ASSUME TypeOK, TypeOK', BackInv, DiscoverStep
    PROVE  BackInv'
<1> USE DEF DiscoverStep, DiscoverStatic, DiscoverStaticSubnet, DiscoverLease,
        DiscoverLeaseSubnet, DiscoverSubnets, DiscoverLeases, DiscoverRanges
<1>1. ReadOnly /\ UNCHANGED acked /\ pc \notin {"idle", "r_create"}
  BY DEF historyVars, NoReply, SendOffer
<1>2. pc' \notin KnowingPC
  BY DEF NoReply, SendOffer, Return, Goto, KnowingPC
<1>3. pc' # "idle" => pkt' = pkt /\ frame'.received = frame.received
  BY DEF NoReply, SendOffer, Return, Goto, TypeOK, ServerTypeOK, Frame
<1> QED
  BY <1>1, <1>2, <1>3, ReadBack

(* An ACK replaces the client's binding; the others are as they were. *)
LEMMA AckBack ==
    ASSUME TypeOK, TypeOK', BackInv, Undisturbed, pc \notin {"idle"},
           NEW ip \in Addr, NEW d \in BOOLEAN, SendAck(ip, d), now' = now, leases \subseteq leases',
           pc = "r_create" => ip = RequestedIp(pkt),
           d => \E l \in leases' : /\ l.mac = pkt.mac /\ l.ip = ip
                                  /\ l.lease_end >= frame.received + DefaultLeaseTime
    PROVE  BackInv'
<1> DEFINE new == [mac |-> pkt.mac, ip |-> ip, iface |-> pkt.iface,
                   until |-> frame.received + DefaultLeaseTime, dynamic |-> d]
<1>1. /\ acked' = {b \in acked : ~(b.mac = pkt.mac /\ b.iface = pkt.iface)} \cup {new}
      /\ pc' = "idle"
  BY DEF SendAck, Return
<1>2. \A b \in acked : b.mac = pkt.mac => b.iface = pkt.iface
  BY DEF BackInv, HandlerKnows, OneBinding, Undisturbed
<1>3. \A b \in acked' : b = new \/ (b \in acked /\ b.mac # pkt.mac)
  BY <1>1, <1>2
<1>4. AckBacked'
  <2> SUFFICES ASSUME NEW b \in acked', b.dynamic, b.until > now'
               PROVE  \E l \in leases' : l.mac = b.mac /\ l.ip = b.ip /\ l.lease_end >= b.until
    BY DEF AckBacked
  <2>1. CASE b = new
    BY <2>1
  <2>2. CASE b \in acked /\ b.mac # pkt.mac
    BY <2>2 DEF BackInv, AckBacked, Renewing
  <2> QED
    BY <1>3, <2>1, <2>2
<1>5. OneBinding'
  BY <1>1, <1>3 DEF BackInv, HandlerKnows, OneBinding
<1> QED
  BY <1>1, <1>4, <1>5 DEF BackInv, HandlerKnows, ReleasedFirst, ExpiresRenewed, SubnetStands,
                          CountedLater

LEMMA NoFailure ==
    ASSUME TypeOK, Undisturbed
    PROVE  ~ DbErr
BY DEF TypeOK, StoreTypeOK, Undisturbed, DbErr

LEMMA RequestBack ==
    ASSUME TypeOK, TypeOK', NamesAddress, LeaseInv, BackInv, Undisturbed, RequestStep
    PROVE  BackInv'
<1>a. pc \in RequestPC /\ RequestedIp(pkt) \in Addr
  <2>1. pc \in RequestPC
    BY DEF RequestStep, RequestStatic, RequestStaticSubnet, RequestRanges, RequestSubnet,
           RequestLeases, RequestExpire, RequestCreate, RequestPC
  <2> QED
    BY <2>1, RequestedType DEF NamesAddress, TypeOK, ServerTypeOK
<1>b. frame.received \in Nat /\ now \in Nat /\ DefaultLeaseTime \in Nat /\ frame.now \in Nat
  BY ServerAssumption DEF TypeOK, StoreTypeOK, ServerTypeOK, Frame
<1>1. CASE RequestStatic \/ RequestRanges
  <2>1. ReadOnly /\ UNCHANGED acked /\ pc \notin {"idle", "r_create"}
    BY <1>1 DEF RequestStatic, RequestRanges, historyVars, NoReply
  <2>2. pc' \notin KnowingPC
    BY <1>1 DEF RequestStatic, RequestRanges, NoReply, Return, Goto, KnowingPC
  <2>3. pc' # "idle" => pkt' = pkt /\ frame'.received = frame.received
    BY <1>1 DEF RequestStatic, RequestRanges, NoReply, Return, Goto, TypeOK, ServerTypeOK, Frame
  <2> QED
    BY <2>1, <2>2, <2>3, ReadBack
<1>2. CASE RequestStaticSubnet
  <2>1. ReadOnly /\ pc = "r_static_subnet" /\ (NoReply \/ SendAck(RequestedIp(pkt), FALSE))
    BY <1>2 DEF RequestStaticSubnet
  <2>2. CASE NoReply
    BY <2>1, <2>2, ReadBack DEF NoReply, Return, historyVars, KnowingPC
  <2>3. CASE SendAck(RequestedIp(pkt), FALSE)
    BY <1>a, <2>1, <2>3, AckBack DEF ReadOnly
  <2> QED
    BY <2>1, <2>2, <2>3
<1>3. CASE RequestSubnet
  <2>1. ReadOnly /\ UNCHANGED acked /\ pc = "r_subnet"
    BY <1>3 DEF RequestSubnet, historyVars, NoReply
  <2>2. CASE NoReply
    BY <2>1, <2>2, ReadBack DEF NoReply, Return, KnowingPC
  <2>3. CASE pc' = "r_subnet"
    BY <1>3, <2>1, <2>3, ReadBack
       DEF RequestSubnet, NoReply, Return, KnowingPC, TypeOK, ServerTypeOK, Frame
  <2>4. CASE pc' = "r_leases"
    <3>1. PICK r \in frame.ranges :
              /\ get_subnet(r.subnet_id) # {}
              /\ frame' = [frame EXCEPT !.ranges = {}, !.subnet_id = r.subnet_id]
              /\ pkt' = pkt
      BY <1>3, <2>4 DEF RequestSubnet, NoReply, Return
    <3>2. frame'.subnet_id = r.subnet_id /\ frame'.received = frame.received
      BY <3>1 DEF TypeOK, ServerTypeOK, Frame
    <3>3. SubnetStands'
      BY <2>1, <3>1, <3>2 DEF SubnetStands, SubnetIds, get_subnet, ReadOnly
    <3>4. AckBacked'
      BY <2>1, KeepsBacking DEF BackInv, ReadOnly, Renewing, TypeOK, StoreTypeOK
    <3>5. OneBinding' /\ CountedLater'
      BY <2>1, <2>4, <3>1, <3>2
         DEF BackInv, HandlerKnows, OneBinding, CountedLater, ReadOnly
    <3> QED
      BY <2>4, <3>3, <3>4, <3>5 DEF BackInv, HandlerKnows, ReleasedFirst, ExpiresRenewed
  <2> QED
    BY <1>3, <2>2, <2>3, <2>4 DEF RequestSubnet
<1>4. CASE RequestLeases
  <2>1. ReadOnly /\ UNCHANGED acked /\ pc = "r_leases"
    BY <1>4 DEF RequestLeases, historyVars, NoReply
  <2>2. CASE NoReply
    BY <2>1, <2>2, ReadBack DEF NoReply, Return, KnowingPC
  <2>3. AckBacked'
    BY <2>1, KeepsBacking DEF BackInv, ReadOnly, Renewing, TypeOK, StoreTypeOK
  <2>4. ASSUME NEW l \in LeasesOn(RequestedIp(pkt)), l.mac = pkt.mac, pc' = "r_expire",
               frame' = [frame EXCEPT !.row = LeaseRowOf(l)], UNCHANGED pkt
        PROVE  BackInv'
    <3>1. /\ frame'.row.id = l.id /\ frame'.received = frame.received
          /\ frame'.subnet_id = frame.subnet_id
      BY <2>4 DEF LeaseRowOf, TypeOK, ServerTypeOK, Frame
    <3>2. l \in leases /\ l.ip = RequestedIp(pkt)
      BY <2>4 DEF LeasesOn, list_active_leases
    <3>3. ExpiresRenewed'
      BY <2>1, <2>4, <3>1, <3>2 DEF ExpiresRenewed, LeaseInv, UniqueIds, ReadOnly, RequestedIp
    <3>4. OneBinding' /\ CountedLater' /\ SubnetStands'
      BY <2>1, <2>4, <3>1 DEF BackInv, HandlerKnows, OneBinding, CountedLater, SubnetStands,
                              SubnetIds, ReadOnly
    <3> QED
      BY <2>3, <2>4, <3>3, <3>4 DEF BackInv, HandlerKnows, ReleasedFirst
  <2>5. ASSUME pc' = "r_create", frame' = [frame EXCEPT !.now = now], UNCHANGED pkt
        PROVE  BackInv'
    <3>1. /\ frame'.now = now /\ frame'.received = frame.received
          /\ frame'.subnet_id = frame.subnet_id
      BY <2>5 DEF TypeOK, ServerTypeOK, Frame
    <3>2. OneBinding' /\ CountedLater' /\ SubnetStands'
      BY <2>1, <2>5, <3>1 DEF BackInv, HandlerKnows, OneBinding, CountedLater, SubnetStands,
                              SubnetIds, ReadOnly
    <3> QED
      BY <2>3, <2>5, <3>2 DEF BackInv, HandlerKnows, ReleasedFirst, ExpiresRenewed
  <2> QED
    BY <1>4, <2>2, <2>4, <2>5 DEF RequestLeases
<1>5. CASE RequestExpire
  <2>1. /\ pc = "r_expire" /\ pc' = "r_create" /\ UNCHANGED <<now, pkt, acked>>
        /\ frame' = [frame EXCEPT !.now = now] /\ expire_lease(frame.row.id)
    BY <1>5, NoFailure DEF RequestExpire, historyVars
  <2>2. /\ frame'.now = now /\ frame'.received = frame.received
        /\ frame'.subnet_id = frame.subnet_id
    BY <2>1 DEF TypeOK, ServerTypeOK, Frame
  <2>3. AckBacked'
    <3>1. ASSUME NEW b \in acked', NEW l \in leases, l.mac = b.mac, l.ip = b.ip
          PROVE  l \in leases' \/ Renewing(b)'
      BY <2>1, <3>1 DEF expire_lease, Renewing, RequestedIp, BackInv, HandlerKnows, ExpiresRenewed
    <3> QED
      BY <1>b, <2>1, <3>1, KeepsBacking DEF BackInv, Renewing
  <2>4. OneBinding' /\ CountedLater' /\ SubnetStands'
    BY <2>1, <2>2 DEF BackInv, HandlerKnows, OneBinding, CountedLater, SubnetStands,
                      SubnetIds, expire_lease
  <2> QED
    BY <2>1, <2>3, <2>4 DEF BackInv, HandlerKnows, ReleasedFirst, ExpiresRenewed
<1>6. CASE RequestCreate
  <2>1. /\ pc = "r_create" /\ now' = now /\ SendAck(RequestedIp(pkt), TRUE)
        /\ create_lease(frame.subnet_id, pkt.mac, RequestedIp(pkt),
                        frame.now + DefaultLeaseTime)
    <3>1. pc = "r_create" /\ frame.subnet_id \in SubnetIds
      BY <1>6 DEF RequestCreate, BackInv, HandlerKnows, SubnetStands
    <3> QED
      BY <1>6, <3>1, NoFailure, Zenon DEF RequestCreate
  <2>2. /\ leases' = leases \cup {NewLease} /\ NewLease.mac = pkt.mac
        /\ NewLease.ip = RequestedIp(pkt) /\ NewLease.lease_end = frame.now + DefaultLeaseTime
    BY <2>1 DEF create_lease, NewLease
  <2>3. NewLease.lease_end >= frame.received + DefaultLeaseTime
    BY <1>b, <2>1, <2>2 DEF BackInv, HandlerKnows, CountedLater
  <2> QED
    BY <1>a, <2>1, <2>2, <2>3, AckBack
<1> QED
  BY <1>1, <1>2, <1>3, <1>4, <1>5, <1>6 DEF RequestStep

(* The client gave its binding up when it sent the RELEASE. *)
LEMMA ReleaseBack ==
    ASSUME TypeOK, TypeOK', LeaseInv, BackInv, Undisturbed, ReleaseStep
    PROVE  BackInv'
<1>a. now \in Nat
  BY DEF TypeOK, StoreTypeOK
<1>1. CASE ReleaseLease
  <2>1. ReadOnly /\ UNCHANGED acked /\ pc = "rel_lease"
    BY <1>1 DEF ReleaseLease, historyVars
  <2>2. CASE Return
    BY <2>1, <2>2, ReadBack DEF Return, KnowingPC
  <2>3. ASSUME NEW l \in get_active_lease(pkt.mac), pc' = "rel_expire",
               frame' = [frame EXCEPT !.row = LeaseRowOf(l)], UNCHANGED pkt
        PROVE  BackInv'
    <3>1. frame'.received = frame.received
      BY <2>3 DEF TypeOK, ServerTypeOK, Frame
    <3>2. AckBacked'
      BY <1>a, <2>1, KeepsBacking DEF BackInv, ReadOnly, Renewing
    <3>3. OneBinding' /\ CountedLater' /\ ReleasedFirst'
      BY <2>1, <2>3, <3>1 DEF BackInv, HandlerKnows, OneBinding, CountedLater, ReleasedFirst,
                              ReadOnly
    <3> QED
      BY <2>3, <3>2, <3>3 DEF BackInv, HandlerKnows, ExpiresRenewed, SubnetStands
  <2> QED
    BY <1>1, <2>2, <2>3 DEF ReleaseLease
<1>2. CASE ReleaseExpire
  <2>1. /\ pc = "rel_expire" /\ pc' = "idle" /\ UNCHANGED <<now, acked>>
        /\ expire_lease(frame.row.id)
    BY <1>2, NoFailure DEF ReleaseExpire, Return
  <2>2. \A b \in acked : b.mac # pkt.mac
    BY <2>1 DEF BackInv, HandlerKnows, ReleasedFirst
  <2>3. AckBacked'
    <3>1. ASSUME NEW b \in acked', NEW l \in leases, l.mac = b.mac PROVE l \in leases'
      BY <2>1, <2>2, <3>1 DEF expire_lease, LeaseInv, OwnRow
    <3> QED
      BY <1>a, <2>1, <3>1, KeepsBacking DEF BackInv, Renewing
  <2> QED
    BY <2>1, <2>3 DEF BackInv, HandlerKnows, OneBinding, ReleasedFirst, ExpiresRenewed,
                      SubnetStands, CountedLater
<1> QED
  BY <1>1, <1>2 DEF ReleaseStep

LEMMA ReceiveBack ==
    ASSUME TypeOK, TypeOK', BackInv, Undisturbed, Receive
    PROVE  BackInv'
<1> PICK p \in Packets : Sendable(p) /\ RecvPacket(p)
  BY DEF Receive
<1>1. /\ pc = "idle" /\ acked' \subseteq acked /\ UNCHANGED storeVars /\ pkt' = p
      /\ p.iface \in ListenInterfaces /\ pc' \in {"d_static", "r_static", "rel_lease"}
      /\ now \in Nat
  BY DEF RecvPacket, Handled, FirstStep, TypeOK, StoreTypeOK
<1>2. frame'.received = now
  BY DEF RecvPacket, NoFrame
<1>3. AckBacked'
  BY <1>1, KeepsBacking DEF BackInv, Renewing, storeVars
<1>4. OneBinding' /\ CountedLater'
  BY <1>1, <1>2 DEF BackInv, HandlerKnows, OneBinding, CountedLater, storeVars
<1>5. ReleasedFirst'
  <2> SUFFICES ASSUME pc' = "rel_lease" PROVE \A b \in acked' : b.mac # p.mac
    BY <1>1 DEF ReleasedFirst
  <2>1. p.type = "RELEASE"
    BY DEF RecvPacket, Handled, FirstStep
  <2>2. PICK c \in acked : c.mac = p.mac /\ c.ip = p.ciaddr /\ c.iface = p.iface
    BY <2>1 DEF Sendable, Undisturbed
  <2>3. c \notin acked'
    BY <2>1, <2>2 DEF RecvPacket
  <2> QED
    BY <1>1, <2>2, <2>3 DEF BackInv, HandlerKnows, OneBinding
<1> QED
  BY <1>1, <1>3, <1>4, <1>5 DEF BackInv, HandlerKnows, ExpiresRenewed, SubnetStands

(* Without delete_subnet no API call touches a lease or a subnet's id. *)
LEMMA ApiStands ==
    ASSUME ApiStep, Undisturbed
    PROVE  leases' = leases /\ SubnetIds \subseteq SubnetIds'
<1>1. ASSUME NEW a, CheckSubnet(a) PROVE leases' = leases /\ SubnetIds \subseteq SubnetIds'
  BY <1>1 DEF CheckSubnet, SubnetIds
<1>2. ASSUME NEW a, CreateSubnet(a) PROVE leases' = leases /\ SubnetIds \subseteq SubnetIds'
  BY <1>2 DEF CreateSubnet, InsertSubnet, SubnetIds
<1>3. ASSUME NEW i, NEW a, PutSubnet(i, a)
      PROVE  leases' = leases /\ SubnetIds \subseteq SubnetIds'
  <2>1. UpdateSubnet(i, a.network, a.netmask)
    BY <1>3 DEF PutSubnet
  <2>2. SubnetIds \subseteq SubnetIds'
    BY <2>1, UpdateKeepsIds
  <2> QED
    BY <2>1, <2>2 DEF UpdateSubnet
<1>4. ASSUME NEW i, RemoveSubnet(i) PROVE FALSE
  BY <1>4 DEF RemoveSubnet, Call, Undisturbed
<1>5. ASSUME NEW r, CreateRange(r) PROVE leases' = leases /\ SubnetIds \subseteq SubnetIds'
  BY <1>5 DEF CreateRange, InsertRange, SubnetIds
<1>6. ASSUME NEW i, RemoveRange(i) PROVE leases' = leases /\ SubnetIds \subseteq SubnetIds'
  BY <1>6 DEF RemoveRange, DeleteRange, SubnetIds
<1>7. ASSUME NEW r, CreateStatic(r) PROVE leases' = leases /\ SubnetIds \subseteq SubnetIds'
  BY <1>7 DEF CreateStatic, InsertStatic, SubnetIds
<1>8. ASSUME NEW i, RemoveStatic(i) PROVE leases' = leases /\ SubnetIds \subseteq SubnetIds'
  BY <1>8 DEF RemoveStatic, DeleteStatic, SubnetIds
<1> QED
  BY <1>1, <1>2, <1>3, <1>4, <1>5, <1>6, <1>7, <1>8, Zenon DEF ApiStep

LEMMA BackStep ==
    Undisturbed =>
      (/\ TypeOK /\ NamesAddress /\ LeaseInv /\ BackInv
       /\ TypeOK'
       /\ [Next]_vars
       => BackInv')
<1> SUFFICES ASSUME Undisturbed, TypeOK, NamesAddress, LeaseInv, BackInv, TypeOK', [Next]_vars
             PROVE  BackInv'
  OBVIOUS
<1>a. now \in Nat /\ now' \in Nat /\ \A l \in leases : l.lease_end \in Nat
  BY DEF TypeOK, StoreTypeOK, LeaseRow
<1>1. CASE Receive
  BY <1>1, ReceiveBack
<1>2. CASE Handle
  BY <1>2, DiscoverBack, RequestBack, ReleaseBack DEF Handle, HandlerStep
<1>3. CASE Purge
  <2>1. /\ UNCHANGED <<serverVars, acked, now, subnets>>
        /\ delete_expired_leases
    BY <1>3, NoFailure DEF Purge, Cleanup, CleanupFails, historyVars, delete_expired_leases
  <2> QED
    BY <1>a, <2>1, QuietBack DEF delete_expired_leases, SubnetIds
<1>4. CASE Api
  BY <1>4, <1>a, ApiStands, ApiKeeps, QuietBack DEF Api
<1>5. CASE Tick
  <2>1. /\ UNCHANGED <<serverVars, acked, subnets, leases>>
        /\ now' = now + 1
    BY <1>5 DEF Tick
  <2> QED
    BY <1>a, <2>1, QuietBack DEF SubnetIds
<1>6. CASE Crash
  BY <1>6 DEF Crash, Undisturbed, TypeOK
<1>7. CASE UNCHANGED vars
  <2>1. UNCHANGED <<serverVars, acked, subnets, leases, now>>
    BY <1>7 DEF vars, storeVars, historyVars
  <2> QED
    BY <1>a, <2>1, QuietBack DEF SubnetIds
<1> QED
  BY <1>1, <1>2, <1>3, <1>4, <1>5, <1>6, <1>7 DEF Next

LEMMA BackInit == Init => BackInv
BY DEF Init, ServerInit, BackInv, HandlerKnows, AckBacked, OneBinding, ReleasedFirst,
       ExpiresRenewed, SubnetStands, CountedLater

LEMMA BackInvariant == ASSUME Undisturbed PROVE Spec => []BackInv
<1>1. /\ TypeOK /\ NamesAddress /\ LeaseInv /\ BackInv
      /\ TypeOK'
      /\ [Next]_vars
      => BackInv'
  BY BackStep
<1> QED
  BY <1>1, BackInit, TypeCorrect, LeaseInvariant, PTL DEF Spec

(***************************************************************************)
(* An acknowledged lease stays recorded until the client's own timer runs  *)
(* out, for any number of clients, pools, packets, purges and API calls    *)
(* interleaved with handle_request: the assumptions are the ones without   *)
(* which the model checker refutes it.                                     *)
(***************************************************************************)
THEOREM AcksAreBacked == ASSUME Undisturbed PROVE Spec => []AckBacked
<1>1. BackInv => AckBacked
  BY DEF BackInv
<1> QED
  BY <1>1, BackInvariant, PTL

(* Two clients told the same address would both have to be on record. *)
LEMMA BackedAlone ==
    ASSUME TypeOK, LeaseInv, AckBacked
    PROVE  NoDoubleAck
<1> SUFFICES ASSUME NEW b \in acked, NEW c \in acked, b.dynamic, c.dynamic,
                    b.until > now, c.until > now, b.ip = c.ip
             PROVE  b.mac = c.mac
  BY DEF NoDoubleAck
<1>1. /\ now \in Nat /\ b.until \in Nat /\ c.until \in Nat
      /\ \A l \in leases : l.lease_end \in Nat
  BY DEF TypeOK, StoreTypeOK, ServerTypeOK, Binding, LeaseRow
<1>2. Renewing(b) \/ \E l \in list_active_leases : l.mac = b.mac /\ l.ip = b.ip
  BY <1>1 DEF AckBacked, list_active_leases
<1>3. Renewing(c) \/ \E l \in list_active_leases : l.mac = c.mac /\ l.ip = c.ip
  BY <1>1 DEF AckBacked, list_active_leases
<1> QED
  BY <1>2, <1>3 DEF Renewing, LeaseInv, LeaseExclusive, ClearAddress

(***************************************************************************)
(* Under the same assumptions no two clients hold the same dynamic address *)
(* at the same time by what their ACKs told them, not only by the table.   *)
(***************************************************************************)
THEOREM NoAddressTwice == ASSUME Undisturbed PROVE Spec => []NoDoubleAck
<1>1. TypeOK /\ LeaseInv /\ AckBacked => NoDoubleAck
  BY BackedAlone
<1> QED
  BY <1>1, AcksAreBacked, TypeCorrect, LeaseInvariant, PTL
-----------------------------------------------------------------------------
(* OFFERs: what the DISCOVER of a client promised, its REQUEST is given. *)

(***************************************************************************)
(* The conditions under which an OFFER is a promise: statements succeed,   *)
(* nobody moves a subnet or deletes a range between the reads of one       *)
(* DISCOVER, and no static assignment overrides what was offered.          *)
(***************************************************************************)
Promising ==
    /\ MaxFaults = 0
    /\ ApiOps \cap {"update_subnet", "delete_range", "create_static_ip"} = {}
    /\ \A c \in InitialTables : c.statics = {}

DiscoverPC == {"d_static", "d_static_subnet", "d_lease", "d_lease_subnet",
               "d_subnets", "d_leases", "d_ranges"}

(* A range that answers a REQUEST for the address in the given subnet. *)
CoveredIn(ip, id) == \E r \in ranges : Covers(r, ip) /\ r.subnet_id = id

(* A subnet id was handed out, so that no later subnet gets it. *)
Known(id) == id \in Nat /\ id <= seq.subnets

(* The tables. *)
TablesServe ==
    /\ statics = {}
    /\ \A s \in subnets : Known(s.id)
    /\ \A l \in leases : CoveredIn(l.ip, l.subnet_id)

(* What a handler has read still holds, or its subnet has been deleted. *)
FrameServes ==
    /\ pc # "idle" => frame.iface_ips \in {IfaceIps[pkt.iface], {}}
    /\ pc \notin {"d_static_subnet", "r_static_subnet"}
    /\ pc \in {"d_leases", "d_ranges"} =>
          \A s \in frame.subnets :
             /\ Known(s.id)
             /\ iface_in_subnet(frame.iface_ips, s)
             /\ s.id \in SubnetIds => s \in subnets
    /\ pc = "d_lease_subnet" =>
          /\ Known(frame.row.subnet_id)
          /\ frame.row.subnet_id \in SubnetIds => CoveredIn(frame.row.ip, frame.row.subnet_id)
    /\ pc = "r_subnet" =>
          \A r \in frame.ranges :
             /\ Known(r.subnet_id) /\ Covers(r, RequestedIp(pkt))
             /\ r.subnet_id \in SubnetIds => r \in ranges
    /\ pc \in {"r_leases", "r_expire", "r_create"} =>
          /\ Known(frame.subnet_id)
          /\ frame.subnet_id \in SubnetIds => CoveredIn(RequestedIp(pkt), frame.subnet_id)

(* The promise: a REQUEST for the offered address would find a range in a  *)
(* subnet of the interface, and no lease of another client.                *)
OfferStands ==
    offer.ip # NoAddr =>
        /\ \E s \in subnets : CoveredIn(offer.ip, s.id)
                              /\ iface_in_subnet(IfaceIps[offer.iface], s)
        /\ \A l \in list_active_leases : l.ip = offer.ip => l.mac = offer.mac

Redeems == offer = [ip |-> RequestedIp(pkt), mac |-> pkt.mac, iface |-> pkt.iface]

(* The REQUEST that redeems the offer finds all that on its way. *)
RequestServed ==
    pc \in RequestPC /\ Redeems =>
        /\ frame.iface_ips = IfaceIps[pkt.iface]
        /\ pc = "r_subnet" =>
              \E r \in frame.ranges, s \in subnets :
                 r.subnet_id = s.id /\ iface_in_subnet(frame.iface_ips, s)
        /\ pc \in {"r_leases", "r_expire", "r_create"} => frame.subnet_id \in SubnetIds

PacketAtPC ==
    /\ pc \in DiscoverPC => pkt.type = "DISCOVER"
    /\ pc \in RequestPC => pkt.type = "REQUEST"
    /\ pc \in {"rel_lease", "rel_expire"} => pkt.type = "RELEASE"

PromiseInv == TablesServe /\ FrameServes /\ OfferStands /\ RequestServed /\ PacketAtPC

-----------------------------------------------------------------------------
(* How the tables may change under a handler. *)

LEMMA NoFault ==
    ASSUME TypeOK, Promising
    PROVE  ~ DbErr
BY DEF TypeOK, StoreTypeOK, Promising, DbErr

(* New subnets get new ids, and a row goes away only with its subnet. *)
TablesEvolve ==
    /\ statics' = {}
    /\ seq.subnets <= seq'.subnets
    /\ \A s \in subnets' : s.id <= seq'.subnets
    /\ \A s \in subnets' : s \in subnets \/ s.id > seq.subnets
    /\ \A s \in subnets : s.id \in SubnetIds' => s \in subnets'
    /\ \A r \in ranges : r.subnet_id \in SubnetIds' => r \in ranges'

TablesSame == UNCHANGED <<subnets, ranges, statics>> /\ seq'.subnets = seq.subnets

LEMMA SameEvolves ==
    ASSUME TypeOK, TablesServe, TablesSame
    PROVE  TablesEvolve
BY DEF TablesSame, TablesEvolve, TablesServe, Known, SubnetIds, TypeOK, StoreTypeOK

LEMMA EvolveKeeps ==
    ASSUME TypeOK, TypeOK', TablesEvolve, NEW id, Known(id)
    PROVE  /\ id \in Nat /\ id <= seq'.subnets
           /\ id \in SubnetIds' => id \in SubnetIds
           /\ \A ip : id \in SubnetIds' /\ CoveredIn(ip, id) =>
                 \E r \in ranges' : Covers(r, ip) /\ r.subnet_id = id
<1>1. seq.subnets \in Nat /\ seq'.subnets \in Nat
  BY DEF TypeOK, StoreTypeOK
<1>2. id \in Nat /\ id <= seq'.subnets
  BY <1>1 DEF Known, TablesEvolve
<1>3. id \in SubnetIds' => id \in SubnetIds
  BY <1>1 DEF SubnetIds, TablesEvolve, Known
<1>4. ASSUME NEW ip, id \in SubnetIds', CoveredIn(ip, id)
      PROVE  \E r \in ranges' : Covers(r, ip) /\ r.subnet_id = id
  BY <1>4 DEF CoveredIn, TablesEvolve
<1> QED
  BY <1>2, <1>3, <1>4

LEMMA ApiEvolves ==
    ASSUME Promising, TypeOK, TablesServe, ApiStep
    PROVE  TablesEvolve
<1>a. seq.subnets \in Nat /\ statics = {} /\ \A s \in subnets : s.id \in Nat /\ s.id <= seq.subnets
  BY DEF TypeOK, StoreTypeOK, TablesServe, Known
<1>b. DOMAIN seq = {"subnets", "ranges", "leases"}
  BY DEF TypeOK, StoreTypeOK
<1>1. ASSUME NEW a, CheckSubnet(a) PROVE TablesEvolve
  BY <1>1, SameEvolves DEF CheckSubnet, TablesSame
<1>2. ASSUME NEW a, CreateSubnet(a) PROVE TablesEvolve
  <2>1. CASE UNCHANGED <<subnets, ranges, statics, leases, seq>>
    BY <2>1, SameEvolves DEF TablesSame
  <2>2. CASE InsertSubnet(a.network, a.netmask)
    <3> DEFINE new == [id |-> seq.subnets + 1, network |-> a.network, netmask |-> a.netmask]
    <3>1. subnets' = subnets \cup {new} /\ ranges' = ranges /\ statics' = statics
      BY <2>2 DEF InsertSubnet
    <3>2. seq'.subnets = seq.subnets + 1 /\ new.id = seq.subnets + 1
      BY <1>b, <2>2 DEF InsertSubnet, TypeOK, StoreTypeOK
    <3> HIDE DEF new
    <3> QED
      BY <1>a, <3>1, <3>2 DEF TablesEvolve
  <2> QED
    BY <1>2, <2>1, <2>2, Zenon DEF CreateSubnet
<1>3. ASSUME NEW i, NEW a, PutSubnet(i, a) PROVE FALSE
  BY <1>3 DEF PutSubnet, Call, Promising
<1>4. ASSUME NEW i, RemoveSubnet(i) PROVE TablesEvolve
  BY <1>4, <1>a DEF RemoveSubnet, DeleteSubnet, TablesEvolve, SubnetIds
<1>5. ASSUME NEW r, CreateRange(r) PROVE TablesEvolve
  <2>1. subnets' = subnets /\ statics' = statics /\ ranges \subseteq ranges'
    BY <1>5 DEF CreateRange, InsertRange
  <2>2. seq'.subnets = seq.subnets
    BY <1>5 DEF CreateRange, InsertRange, TypeOK, StoreTypeOK
  <2> QED
    BY <1>a, <2>1, <2>2 DEF TablesEvolve
<1>6. ASSUME NEW i, RemoveRange(i) PROVE FALSE
  BY <1>6 DEF RemoveRange, Call, Promising
<1>7. ASSUME NEW r, CreateStatic(r) PROVE FALSE
  BY <1>7 DEF CreateStatic, Call, Promising
<1>8. ASSUME NEW i, RemoveStatic(i) PROVE TablesEvolve
  <2>1. TablesSame
    BY <1>8, <1>a DEF RemoveStatic, DeleteStatic, TablesSame
  <2> QED
    BY <2>1, SameEvolves
<1> QED
  BY <1>1, <1>2, <1>3, <1>4, <1>5, <1>6, <1>7, <1>8, Zenon DEF ApiStep

(* Leases keep their range: it can only go together with the subnet. *)
LEMMA TablesKeepServing ==
    ASSUME TypeOK, TypeOK', ReferentialIntegrity, ReferentialIntegrity', TablesServe, TablesEvolve,
           leases' \subseteq leases
    PROVE  TablesServe'
<1>1. statics' = {} /\ \A s \in subnets' : s.id \in Nat /\ s.id <= seq'.subnets
  BY DEF TablesEvolve, TypeOK, StoreTypeOK, SubnetRow
<1>2. ASSUME NEW l \in leases' PROVE \E r \in ranges' : Covers(r, l.ip) /\ r.subnet_id = l.subnet_id
  <2>1. l \in leases /\ l.subnet_id \in SubnetIds' /\ CoveredIn(l.ip, l.subnet_id)
    BY <1>2 DEF ReferentialIntegrity, TablesServe
  <2> QED
    BY <2>1 DEF CoveredIn, TablesEvolve
<1> QED
  BY <1>1, <1>2 DEF TablesServe, Known, CoveredIn

(* What a suspended handler has read outlives any change of the tables. *)
LEMMA FrameKeepsServing ==
    ASSUME TypeOK, TypeOK', FrameServes, TablesEvolve, UNCHANGED serverVars
    PROVE  FrameServes'
<1>a. pc' = pc /\ pkt' = pkt /\ frame' = frame
  BY DEF serverVars
<1>1. ASSUME pc \in {"d_leases", "d_ranges"}, NEW s \in frame.subnets
      PROVE  /\ s.id \in Nat /\ s.id <= seq'.subnets
             /\ iface_in_subnet(frame.iface_ips, s)
             /\ s.id \in SubnetIds' => s \in subnets'
  <2>1. /\ Known(s.id) /\ iface_in_subnet(frame.iface_ips, s)
        /\ s.id \in SubnetIds => s \in subnets
    BY <1>1 DEF FrameServes
  <2>2. s.id \in Nat /\ s.id <= seq'.subnets /\ (s.id \in SubnetIds' => s.id \in SubnetIds)
    BY <2>1, EvolveKeeps
  <2> QED
    BY <2>1, <2>2 DEF TablesEvolve
<1>2. ASSUME pc = "d_lease_subnet"
      PROVE  /\ frame.row.subnet_id \in Nat /\ frame.row.subnet_id <= seq'.subnets
             /\ frame.row.subnet_id \in SubnetIds' =>
                  \E r \in ranges' : Covers(r, frame.row.ip) /\ r.subnet_id = frame.row.subnet_id
  BY <1>2, EvolveKeeps DEF FrameServes
<1>3. ASSUME pc = "r_subnet", NEW r \in frame.ranges
      PROVE  /\ r.subnet_id \in Nat /\ r.subnet_id <= seq'.subnets
             /\ Covers(r, RequestedIp(pkt))
             /\ r.subnet_id \in SubnetIds' => r \in ranges'
  <2>1. /\ Known(r.subnet_id) /\ Covers(r, RequestedIp(pkt))
        /\ r.subnet_id \in SubnetIds => r \in ranges
    BY <1>3 DEF FrameServes
  <2>2. /\ r.subnet_id \in Nat /\ r.subnet_id <= seq'.subnets
        /\ r.subnet_id \in SubnetIds' => r.subnet_id \in SubnetIds
    BY <2>1, EvolveKeeps
  <2> QED
    BY <2>1, <2>2 DEF TablesEvolve
<1>4. ASSUME pc \in {"r_leases", "r_expire", "r_create"}
      PROVE  /\ frame.subnet_id \in Nat /\ frame.subnet_id <= seq'.subnets
             /\ frame.subnet_id \in SubnetIds' =>
                  \E r \in ranges' : Covers(r, RequestedIp(pkt)) /\ r.subnet_id = frame.subnet_id
  BY <1>4, EvolveKeeps DEF FrameServes
<1> QED
  BY <1>a, <1>1, <1>2, <1>3, <1>4 DEF FrameServes, Known, CoveredIn, RequestedIp

-----------------------------------------------------------------------------
(* The handlers read what the invariant says they have read. *)

(* The states in which a handler relies on a subnet or a range it read. *)
ServePC == {"d_leases", "d_ranges", "d_lease_subnet", "r_subnet", "r_leases", "r_expire", "r_create"}

StaticPC == {"d_static_subnet", "r_static_subnet"}

LEMMA FrameAside ==
    ASSUME FrameServes, pc' \notin ServePC \cup StaticPC,
           \/ pc' = "idle"
           \/ pc # "idle" /\ pkt' = pkt /\ frame'.iface_ips = frame.iface_ips
    PROVE  FrameServes'
BY DEF FrameServes, ServePC, StaticPC

LEMMA DiscoverServes ==
    ASSUME TypeOK, TypeOK', ReferentialIntegrity, TablesServe, FrameServes, DiscoverStep
    PROVE  FrameServes' /\ TablesSame /\ UNCHANGED leases
<1>a. frame \in Frame /\ frame.iface_ips \in {IfaceIps[pkt.iface], {}}
  BY DEF TypeOK, ServerTypeOK, FrameServes, DiscoverStep, DiscoverStatic, DiscoverStaticSubnet,
         DiscoverLease, DiscoverLeaseSubnet, DiscoverSubnets, DiscoverLeases, DiscoverRanges
<1>b. ReadOnly
  BY DEF DiscoverStep, DiscoverStatic, DiscoverStaticSubnet, DiscoverLease, DiscoverLeaseSubnet,
         DiscoverSubnets, DiscoverLeases, DiscoverRanges
<1>c. TablesSame /\ leases' = leases
  BY <1>b DEF ReadOnly, TablesSame
<1> SUFFICES FrameServes'
  BY <1>c
<1>1. CASE NoReply \/ (\E ip : SendOffer(ip))
  BY <1>1, FrameAside DEF NoReply, SendOffer, Return, ServePC, StaticPC
<1>2. CASE DiscoverStatic
  <2>1. Goto("d_lease") /\ pc = "d_static"
    BY <1>2 DEF DiscoverStatic, TablesServe, get_static_ip_by_mac
  <2> QED
    BY <2>1, FrameAside DEF Goto, ServePC, StaticPC
<1>3. CASE DiscoverStaticSubnet
  BY <1>3 DEF DiscoverStaticSubnet, FrameServes
<1>4. CASE DiscoverLease
  <2>1. CASE Goto("d_subnets")
    BY <1>4, <2>1, FrameAside DEF DiscoverLease, Goto, ServePC, StaticPC
  <2>2. ASSUME NEW l \in get_active_lease(pkt.mac), pc' = "d_lease_subnet", pkt' = pkt,
               frame' = [frame EXCEPT !.row = LeaseRowOf(l)]
        PROVE  FrameServes'
    <3>1. l \in leases
      BY <2>2 DEF get_active_lease, list_active_leases
    <3>2. /\ frame'.row.subnet_id = l.subnet_id /\ frame'.row.ip = l.ip
          /\ frame'.iface_ips = frame.iface_ips
      BY <1>a, <2>2 DEF LeaseRowOf, Frame
    <3>3. l.subnet_id \in SubnetIds /\ CoveredIn(l.ip, l.subnet_id)
      BY <3>1 DEF ReferentialIntegrity, TablesServe
    <3>4. Known(l.subnet_id)
      BY <3>3 DEF SubnetIds, TablesServe
    <3> QED
      BY <1>a, <1>c, <2>2, <3>2, <3>3, <3>4 DEF FrameServes, TablesSame, Known, CoveredIn
  <2> QED
    BY <1>4, <2>1, <2>2 DEF DiscoverLease
<1>5. CASE DiscoverLeaseSubnet
  <2>1. CASE Goto("d_subnets")
    BY <1>5, <2>1, FrameAside DEF DiscoverLeaseSubnet, Goto, ServePC, StaticPC
  <2> QED
    BY <1>1, <1>5, <2>1 DEF DiscoverLeaseSubnet
<1>6. CASE DiscoverSubnets
  <2>1. CASE NoReply
    BY <1>1, <2>1
  <2>2. ASSUME pc' = "d_leases", pkt' = pkt,
               frame' = [frame EXCEPT !.subnets =
                           {s \in subnets : iface_in_subnet(frame.iface_ips, s)}]
        PROVE  FrameServes'
    <3>1. /\ frame'.subnets = {s \in subnets : iface_in_subnet(frame.iface_ips, s)}
          /\ frame'.iface_ips = frame.iface_ips
      BY <1>a, <2>2 DEF Frame
    <3> QED
      BY <1>a, <1>c, <2>2, <3>1 DEF FrameServes, TablesSame, TablesServe, Known
  <2> QED
    BY <1>6, <2>1, <2>2 DEF DiscoverSubnets
<1>7. CASE DiscoverLeases
  <2>1. CASE NoReply
    BY <1>1, <2>1
  <2>2. ASSUME pc' = "d_ranges", pkt' = pkt, pc = "d_leases",
               frame' = [frame EXCEPT !.leased = {l.ip : l \in list_active_leases}]
        PROVE  FrameServes'
    <3>1. frame'.subnets = frame.subnets /\ frame'.iface_ips = frame.iface_ips
      BY <1>a, <2>2 DEF Frame
    <3> QED
      BY <1>a, <1>c, <2>2, <3>1 DEF FrameServes, TablesSame, Known, SubnetIds
  <2> QED
    BY <1>7, <2>1, <2>2 DEF DiscoverLeases
<1>8. CASE DiscoverRanges
  <2>1. ASSUME NEW t \in frame.subnets, pc' = "d_ranges", pkt' = pkt, pc = "d_ranges",
               frame' = [frame EXCEPT !.subnets = frame.subnets \ {t}]
        PROVE  FrameServes'
    <3>1. frame'.subnets = frame.subnets \ {t} /\ frame'.iface_ips = frame.iface_ips
      BY <1>a, <2>1 DEF Frame
    <3> QED
      BY <1>a, <1>c, <2>1, <3>1 DEF FrameServes, TablesSame, Known, SubnetIds
  <2> QED
    BY <1>1, <1>8, <2>1 DEF DiscoverRanges
<1> QED
  BY <1>c, <1>2, <1>3, <1>4, <1>5, <1>6, <1>7, <1>8 DEF DiscoverStep

LEMMA RequestServes ==
    ASSUME TypeOK, TypeOK', ReferentialIntegrity, TablesServe, FrameServes, RequestStep
    PROVE  FrameServes' /\ TablesSame
<1>a. frame \in Frame /\ frame.iface_ips \in {IfaceIps[pkt.iface], {}} /\ pc # "idle"
  BY DEF TypeOK, ServerTypeOK, FrameServes, RequestStep, RequestStatic, RequestStaticSubnet,
         RequestRanges, RequestSubnet, RequestLeases, RequestExpire, RequestCreate
<1>b. TablesSame
  BY DEF TypeOK, StoreTypeOK, TablesSame, ReadOnly, RequestStep, RequestStatic,
         RequestStaticSubnet, RequestRanges, RequestSubnet, RequestLeases, RequestExpire,
         expire_lease, RequestCreate, create_lease
<1> SUFFICES FrameServes'
  BY <1>b
<1>c. CASE pc' = "idle"
  BY <1>c, FrameAside DEF ServePC, StaticPC
<1>1. CASE RequestStatic
  <2>1. Goto("r_ranges") /\ pc = "r_static"
    BY <1>1 DEF RequestStatic, TablesServe, get_static_ip_by_mac
  <2> QED
    BY <2>1, FrameAside DEF Goto, ServePC, StaticPC
<1>2. CASE RequestStaticSubnet
  BY <1>2 DEF RequestStaticSubnet, FrameServes
<1>3. CASE RequestRanges
  <2>1. ASSUME pc' = "r_subnet", pkt' = pkt,
               frame' = [frame EXCEPT !.ranges = {r \in ranges : Covers(r, RequestedIp(pkt))}]
        PROVE  FrameServes'
    <3>1. /\ frame'.ranges = {r \in ranges : Covers(r, RequestedIp(pkt))}
          /\ frame'.iface_ips = frame.iface_ips
      BY <1>a, <2>1 DEF Frame
    <3>2. \A r \in ranges : Known(r.subnet_id)
      BY DEF ReferentialIntegrity, SubnetIds, TablesServe
    <3> QED
      BY <1>a, <1>b, <2>1, <3>1, <3>2 DEF FrameServes, TablesSame, Known, RequestedIp
  <2> QED
    BY <1>3, <1>c, <2>1 DEF RequestRanges, NoReply, Return
<1>4. CASE RequestSubnet
  <2>1. ASSUME NEW q \in frame.ranges, pc' = "r_subnet", pkt' = pkt, pc = "r_subnet",
               frame' = [frame EXCEPT !.ranges = frame.ranges \ {q}]
        PROVE  FrameServes'
    <3>1. frame'.ranges = frame.ranges \ {q} /\ frame'.iface_ips = frame.iface_ips
      BY <1>a, <2>1 DEF Frame
    <3> QED
      BY <1>a, <1>b, <2>1, <3>1 DEF FrameServes, TablesSame, Known, SubnetIds, RequestedIp
  <2>2. ASSUME NEW q \in frame.ranges, pc' = "r_leases", pkt' = pkt, pc = "r_subnet",
               frame' = [frame EXCEPT !.ranges = {}, !.subnet_id = q.subnet_id]
        PROVE  FrameServes'
    <3>1. frame'.subnet_id = q.subnet_id /\ frame'.iface_ips = frame.iface_ips
      BY <1>a, <2>2 DEF Frame
    <3>2. /\ Known(q.subnet_id)
          /\ q.subnet_id \in SubnetIds => CoveredIn(RequestedIp(pkt), q.subnet_id)
      BY <2>2 DEF FrameServes, CoveredIn
    <3> QED
      BY <1>a, <1>b, <2>2, <3>1, <3>2
         DEF FrameServes, TablesSame, Known, CoveredIn, SubnetIds, RequestedIp
  <2> QED
    BY <1>4, <1>c, <2>1, <2>2 DEF RequestSubnet, NoReply, Return
<1>5. CASE RequestLeases \/ RequestExpire
  <2>1. ASSUME pc' \in {"r_expire", "r_create"}, pkt' = pkt, pc \in {"r_leases", "r_expire"},
               frame'.subnet_id = frame.subnet_id, frame'.iface_ips = frame.iface_ips
        PROVE  FrameServes'
    BY <1>a, <1>b, <2>1 DEF FrameServes, TablesSame, Known, CoveredIn, SubnetIds, RequestedIp
  <2>2. pc' # "idle" =>
          /\ pc' \in {"r_expire", "r_create"} /\ pkt' = pkt /\ pc \in {"r_leases", "r_expire"}
          /\ frame'.subnet_id = frame.subnet_id /\ frame'.iface_ips = frame.iface_ips
    BY <1>a, <1>5 DEF RequestLeases, RequestExpire, NoReply, Return, Frame
  <2> QED
    BY <1>c, <2>1, <2>2
<1>6. CASE RequestCreate
  BY <1>6, <1>c DEF RequestCreate, NoReply, SendAck, Return
<1> QED
  BY <1>b, <1>1, <1>2, <1>3, <1>4, <1>5, <1>6 DEF RequestStep

LEMMA ReleaseServes ==
    ASSUME TypeOK, TypeOK', FrameServes, ReleaseStep
    PROVE  FrameServes' /\ TablesSame /\ leases' \subseteq leases
<1>1. TablesSame /\ leases' \subseteq leases
  BY DEF TypeOK, StoreTypeOK, TablesSame, ReadOnly, ReleaseStep, ReleaseLease, ReleaseExpire,
         expire_lease
<1>2. \/ pc' = "idle"
      \/ pc' = "rel_expire" /\ pc # "idle" /\ pkt' = pkt /\ frame'.iface_ips = frame.iface_ips
  BY DEF ReleaseStep, ReleaseLease, ReleaseExpire, Return, TypeOK, ServerTypeOK, Frame
<1> QED
  BY <1>1, <1>2, FrameAside DEF ServePC, StaticPC

-----------------------------------------------------------------------------
(* The promise itself. *)

(* Without addresses an interface is in no subnet. *)
LEMMA ServedHere ==
    ASSUME NEW ips, NEW i, NEW s, ips \in {IfaceIps[i], {}}, iface_in_subnet(ips, s)
    PROVE  iface_in_subnet(IfaceIps[i], s)
BY DEF iface_in_subnet

(* An offer that is not withdrawn stands as long as no lease is added. *)
LEMMA OfferKept ==
    ASSUME TypeOK, TypeOK', OfferStands, TablesSame, leases' \subseteq leases, now' = now,
           offer' = offer \/ offer' = NoOffer
    PROVE  OfferStands'
<1>1. CASE offer' = NoOffer
  BY <1>1 DEF OfferStands, NoOffer
<1>2. CASE offer' = offer
  <2>1. list_active_leases' \subseteq list_active_leases
    BY DEF list_active_leases
  <2> QED
    BY <1>2, <2>1 DEF OfferStands, TablesSame, CoveredIn
<1> QED
  BY <1>1, <1>2

(* handle_discover offers what handle_request would give. *)
LEMMA OfferMade ==
    ASSUME TypeOK, TypeOK', ReferentialIntegrity, LeaseInv, TablesServe, FrameServes, OfferStands,
           DiscoverStep, [Next]_vars
    PROVE  OfferStands'
<1>a. ReadOnly
  BY DEF DiscoverStep, DiscoverStatic, DiscoverStaticSubnet, DiscoverLease, DiscoverLeaseSubnet,
         DiscoverSubnets, DiscoverLeases, DiscoverRanges
<1>b. TablesSame /\ leases' = leases /\ now' = now
  BY <1>a DEF ReadOnly, TablesSame
<1>c. pc # "idle"
  BY DEF DiscoverStep, DiscoverStatic, DiscoverStaticSubnet, DiscoverLease, DiscoverLeaseSubnet,
         DiscoverSubnets, DiscoverLeases, DiscoverRanges
<1>1. CASE offer' = offer
  BY <1>1, <1>b, OfferKept
<1>2. CASE offer' # offer
  <2>1. ASSUME NEW ip, SendOffer(ip), NEW s \in subnets, CoveredIn(ip, s.id),
               iface_in_subnet(frame.iface_ips, s),
               pc \in {"d_lease_subnet", "d_ranges"}
        PROVE  OfferStands'
    <3>1. offer'.ip = ip /\ offer'.iface = pkt.iface
      BY <2>1 DEF SendOffer
    <3>2. iface_in_subnet(IfaceIps[pkt.iface], s)
      BY <1>c, <2>1, ServedHere DEF FrameServes
    <3>3. \A l \in list_active_leases : offer'.ip # NoAddr /\ l.ip = offer'.ip => l.mac = offer'.mac
      BY <1>2, <2>1, OfferIsFree
    <3>4. list_active_leases' = list_active_leases
      BY <1>b DEF list_active_leases
    <3>5. (\E t \in subnets : CoveredIn(offer.ip, t.id)
                               /\ iface_in_subnet(IfaceIps[offer.iface], t))'
      BY <1>b, <2>1, <3>1, <3>2 DEF TablesSame, CoveredIn
    <3> QED
      BY <3>3, <3>4, <3>5 DEF OfferStands
  <2>2. CASE DiscoverLeaseSubnet
    <3>1. PICK s \in get_subnet(frame.row.subnet_id) :
              iface_in_subnet(frame.iface_ips, s) /\ SendOffer(frame.row.ip)
      BY <1>2, <2>2 DEF DiscoverLeaseSubnet, NoReply, historyVars
    <3>2. s \in subnets /\ s.id = frame.row.subnet_id /\ pc = "d_lease_subnet"
      BY <2>2, <3>1 DEF get_subnet, DiscoverLeaseSubnet
    <3>3. CoveredIn(frame.row.ip, s.id)
      BY <3>2 DEF FrameServes, SubnetIds
    <3> QED
      BY <2>1, <3>1, <3>2, <3>3
  <2>3. CASE DiscoverRanges
    <3>0. PICK s \in frame.subnets :
              \E r \in list_ranges(s.id) : \E ip \in FirstFree(r, frame.leased) :
                 r.enabled /\ SendOffer(ip)
      BY <1>2, <2>3 DEF DiscoverRanges, NoReply, historyVars
    <3>a. PICK r \in list_ranges(s.id) :
              \E ip \in FirstFree(r, frame.leased) : r.enabled /\ SendOffer(ip)
      BY <3>0
    <3>1. PICK ip \in FirstFree(r, frame.leased) : r.enabled /\ SendOffer(ip)
      BY <3>a
    <3>2. pc = "d_ranges" /\ r \in ranges /\ r.subnet_id = s.id
      BY <2>3, <3>1 DEF DiscoverRanges, list_ranges
    <3>3. s \in subnets /\ iface_in_subnet(frame.iface_ips, s)
      BY <3>1, <3>2 DEF ReferentialIntegrity, FrameServes
    <3>4. Covers(r, ip)
      BY <3>1 DEF FirstFree, Covers
    <3>5. CoveredIn(ip, s.id)
      BY <3>2, <3>4 DEF CoveredIn
    <3> QED
      BY <2>1, <3>1, <3>2, <3>3, <3>5
  <2>4. DiscoverLeaseSubnet \/ DiscoverRanges
    BY <1>2 DEF DiscoverStep, DiscoverStatic, DiscoverStaticSubnet, DiscoverLease,
                DiscoverSubnets, DiscoverLeases, NoReply, historyVars, FrameServes
  <2> QED
    BY <2>2, <2>3, <2>4
<1> QED
  BY <1>1, <1>2

(* The REQUEST that redeems the offer goes all the way. *)
LEMMA OfferRedeemed ==
    ASSUME Promising, TypeOK, TypeOK', NamesAddress, TablesServe, FrameServes, OfferStands,
           RequestServed, RequestStep
    PROVE  RequestServed'
<1>a. /\ frame \in Frame /\ ~ DbErr /\ TablesSame
  <2>1. TablesSame
    BY DEF TypeOK, StoreTypeOK, TablesSame, ReadOnly, RequestStep, RequestStatic,
           RequestStaticSubnet, RequestRanges, RequestSubnet, RequestLeases, RequestExpire,
           expire_lease, RequestCreate, create_lease
  <2> QED
    BY <2>1, NoFault DEF TypeOK, ServerTypeOK
<1>b. pc \in RequestPC
  BY DEF RequestStep, RequestStatic, RequestStaticSubnet, RequestRanges, RequestSubnet,
         RequestLeases, RequestExpire, RequestCreate, RequestPC
<1> SUFFICES ASSUME pc' \in RequestPC, Redeems' PROVE RequestServed'
  BY DEF RequestServed
<1>c. pkt' = pkt /\ offer' = offer
  BY DEF RequestStep, RequestStatic, RequestStaticSubnet, RequestRanges, RequestSubnet,
         RequestLeases, RequestExpire, RequestCreate, NoReply, SendAck, Return, Goto,
         historyVars, RequestPC
<1>d. Redeems /\ RequestedIp(pkt) # NoAddr
  BY <1>b, <1>c DEF Redeems, NamesAddress, RequestedIp
<1>e. frame.iface_ips = IfaceIps[pkt.iface]
  BY <1>b, <1>d DEF RequestServed
<1>1. CASE RequestStatic
  <2>1. Goto("r_ranges")
    BY <1>1, <1>a DEF RequestStatic, TablesServe, get_static_ip_by_mac
  <2> QED
    BY <1>e, <2>1 DEF Goto, RequestServed
<1>2. CASE RequestStaticSubnet
  BY <1>2 DEF RequestStaticSubnet, FrameServes
<1>3. CASE RequestRanges
  <2>1. /\ pc' = "r_subnet"
        /\ frame' = [frame EXCEPT !.ranges = {r \in ranges : Covers(r, RequestedIp(pkt))}]
    BY <1>3, <1>a DEF RequestRanges
  <2>2. /\ frame'.ranges = {r \in ranges : Covers(r, RequestedIp(pkt))}
        /\ frame'.iface_ips = frame.iface_ips
    BY <1>a, <2>1 DEF Frame
  <2>3. offer.ip = RequestedIp(pkt) /\ offer.iface = pkt.iface
    BY <1>d DEF Redeems
  <2>4. PICK s \in subnets : CoveredIn(offer.ip, s.id) /\ iface_in_subnet(IfaceIps[offer.iface], s)
    BY <1>d, <2>3 DEF OfferStands
  <2>5. PICK r \in ranges : Covers(r, offer.ip) /\ r.subnet_id = s.id
    BY <2>4 DEF CoveredIn
  <2>6. r \in frame'.ranges /\ iface_in_subnet(frame'.iface_ips, s) /\ s \in subnets'
    BY <1>a, <1>e, <2>2, <2>3, <2>4, <2>5 DEF TablesSame
  <2> QED
    BY <1>c, <1>e, <2>1, <2>2, <2>5, <2>6 DEF RequestServed
<1>4. CASE RequestSubnet
  <2>1. PICK q \in frame.ranges, s \in subnets :
            q.subnet_id = s.id /\ iface_in_subnet(frame.iface_ips, s)
    BY <1>4, <1>b, <1>d DEF RequestServed, RequestSubnet
  <2>2. ASSUME NEW r \in frame.ranges, pc' = "r_leases",
               NEW t \in get_subnet(r.subnet_id),
               frame' = [frame EXCEPT !.ranges = {}, !.subnet_id = r.subnet_id]
        PROVE  RequestServed'
    <3>1. frame'.subnet_id = r.subnet_id /\ frame'.iface_ips = frame.iface_ips
      BY <1>a, <2>2 DEF Frame
    <3>2. frame'.subnet_id \in SubnetIds'
      BY <1>a, <2>2, <3>1 DEF get_subnet, SubnetIds, TablesSame
    <3> QED
      BY <1>c, <1>e, <2>2, <3>1, <3>2 DEF RequestServed
  <2>3. ASSUME NEW r \in frame.ranges, pc' = "r_subnet",
               {t \in get_subnet(r.subnet_id) : iface_in_subnet(frame.iface_ips, t)} = {},
               frame' = [frame EXCEPT !.ranges = frame.ranges \ {r}]
        PROVE  RequestServed'
    <3>1. frame'.ranges = frame.ranges \ {r} /\ frame'.iface_ips = frame.iface_ips
      BY <1>a, <2>3 DEF Frame
    <3>2. q # r
      BY <2>1, <2>3 DEF get_subnet
    <3> QED
      BY <1>a, <1>c, <1>e, <2>1, <2>3, <3>1, <3>2 DEF RequestServed, TablesSame
  <2>4. \E r \in frame.ranges :
          \/ /\ pc' = "r_leases"
             /\ {t \in get_subnet(r.subnet_id) : iface_in_subnet(frame.iface_ips, t)} # {}
             /\ frame' = [frame EXCEPT !.ranges = {}, !.subnet_id = r.subnet_id]
          \/ /\ pc' = "r_subnet"
             /\ {t \in get_subnet(r.subnet_id) : iface_in_subnet(frame.iface_ips, t)} = {}
             /\ frame' = [frame EXCEPT !.ranges = frame.ranges \ {r}]
    BY <1>4, <1>a, <2>1 DEF RequestSubnet
  <2> QED
    BY <2>2, <2>3, <2>4
<1>5. CASE RequestLeases \/ RequestExpire
  <2>1. /\ pc' \in {"r_expire", "r_create"} /\ pc \in {"r_leases", "r_expire"}
        /\ frame'.subnet_id = frame.subnet_id /\ frame'.iface_ips = frame.iface_ips
    BY <1>a, <1>5 DEF RequestLeases, RequestExpire, NoReply, Return, Frame, RequestPC
  <2> QED
    BY <1>a, <1>b, <1>c, <1>d, <2>1 DEF RequestServed, TablesSame, SubnetIds
<1>6. CASE RequestCreate
  BY <1>6 DEF RequestCreate, NoReply, SendAck, Return, RequestPC
<1> QED
  BY <1>1, <1>2, <1>3, <1>4, <1>5, <1>6 DEF RequestStep

(* Each handler is at its own statements. *)
LEMMA PacketStays ==
    ASSUME PacketAtPC, [Next]_vars
    PROVE  PacketAtPC'
<1> USE DEF PacketAtPC, DiscoverPC, RequestPC
<1>1. CASE Receive
  BY <1>1 DEF Receive, RecvPacket, Handled, FirstStep
<1>2. CASE DiscoverStep
  BY <1>2 DEF DiscoverStep, DiscoverStatic, DiscoverStaticSubnet, DiscoverLease,
     DiscoverLeaseSubnet, DiscoverSubnets, DiscoverLeases, DiscoverRanges, NoReply, SendOffer,
     Return, Goto
<1>3. CASE RequestStep
  BY <1>3 DEF RequestStep, RequestStatic, RequestStaticSubnet, RequestRanges, RequestSubnet,
     RequestLeases, RequestExpire, RequestCreate, NoReply, SendAck, Return, Goto
<1>4. CASE ReleaseStep
  BY <1>4 DEF ReleaseStep, ReleaseLease, ReleaseExpire, Return
<1>5. CASE UNCHANGED serverVars
  BY <1>5 DEF serverVars
<1>6. CASE Crash
  BY <1>6 DEF Crash, Return
<1> QED
  BY <1>1, <1>2, <1>3, <1>4, <1>5, <1>6
     DEF Next, Handle, HandlerStep, Purge, Cleanup, CleanupFails, Api, Tick, vars

(* An offer withdrawn is redeemed by nobody. *)
LEMMA NothingToRedeem ==
    ASSUME NamesAddress', offer' = NoOffer
    PROVE  OfferStands' /\ RequestServed'
<1>1. OfferStands'
  BY DEF OfferStands, NoOffer
<1>2. ASSUME pc' \in RequestPC, Redeems' PROVE FALSE
  BY <1>2 DEF Redeems, NoOffer, NamesAddress
<1> QED
  BY <1>1, <1>2 DEF RequestServed

(* With the handler and the offer where they were. *)
LEMMA ServedStill ==
    ASSUME RequestServed, TablesSame, offer' = offer, UNCHANGED serverVars
    PROVE  RequestServed'
BY DEF RequestServed, Redeems, TablesSame, serverVars, RequestedIp, SubnetIds

LEMMA ReceiveServes ==
    ASSUME TypeOK, TypeOK', NamesAddress', TablesServe, FrameServes, OfferStands, Receive
    PROVE  FrameServes' /\ OfferStands' /\ RequestServed' /\ TablesSame /\ leases' = leases
<1>1. PICK p \in Packets : RecvPacket(p)
  BY DEF Receive
<1>2. TablesSame /\ leases' = leases /\ now' = now
  BY <1>1 DEF RecvPacket, storeVars, TablesSame
<1>3. PICK ips \in {IfaceIps[p.iface], {}} :
          /\ frame' = [NoFrame EXCEPT !.iface_ips = ips, !.received = now]
          /\ offer' = IF ips = IfaceIps[p.iface] THEN offer ELSE NoOffer
  BY <1>1 DEF RecvPacket, get_interface_ips
<1>4. frame'.iface_ips = ips /\ pkt' = p
  BY <1>1, <1>3, Constants DEF Frame, RecvPacket
<1>5. pc' \in {"d_static", "r_static", "rel_lease"}
  BY <1>1 DEF RecvPacket, Handled, FirstStep
<1>6. FrameServes'
  BY <1>3, <1>4, <1>5 DEF FrameServes
<1>7. CASE offer' = NoOffer
  BY <1>2, <1>6, <1>7, NothingToRedeem
<1>8. CASE ips = IfaceIps[p.iface]
  <2>1. OfferStands'
    BY <1>2, <1>3, <1>8, OfferKept
  <2>2. RequestServed'
    BY <1>4, <1>5, <1>8 DEF RequestServed
  <2> QED
    BY <1>2, <1>6, <2>1, <2>2
<1> QED
  BY <1>3, <1>7, <1>8

LEMMA HandlerServes ==
    ASSUME Promising, TypeOK, TypeOK', NamesAddress, NamesAddress', ReferentialIntegrity,
           ReferentialIntegrity', LeaseInv, PromiseInv, Handle
    PROVE  TablesServe' /\ FrameServes' /\ OfferStands' /\ RequestServed'
<1> USE DEF PromiseInv
<1>1. CASE DiscoverStep
  <2>1. FrameServes' /\ TablesSame /\ leases' = leases
    BY <1>1, DiscoverServes
  <2>2. TablesServe'
    BY <2>1, SameEvolves, TablesKeepServing
  <2>3. OfferStands'
    BY <1>1, OfferMade DEF Next
  <2>4. pc' \notin RequestPC
    BY <1>1 DEF DiscoverStep, DiscoverStatic, DiscoverStaticSubnet, DiscoverLease,
       DiscoverLeaseSubnet, DiscoverSubnets, DiscoverLeases, DiscoverRanges, NoReply, SendOffer,
       Return, Goto, RequestPC
  <2> QED
    BY <2>1, <2>2, <2>3, <2>4 DEF RequestServed
<1>2. CASE RequestStep
  <2>1. FrameServes' /\ TablesSame
    BY <1>2, RequestServes
  <2>2. RequestServed'
    BY <1>2, OfferRedeemed
  <2>3. CASE leases' \subseteq leases
    <3>1. TablesServe'
      BY <2>1, <2>3, SameEvolves, TablesKeepServing
    <3>2. (offer' = offer \/ offer' = NoOffer) /\ now' = now
      BY <1>2 DEF RequestStep, RequestStatic, RequestStaticSubnet, RequestRanges, RequestSubnet,
         RequestLeases, RequestExpire, RequestCreate, NoReply, SendAck, historyVars, ReadOnly
    <3>3. OfferStands'
      BY <2>1, <2>3, <3>2, OfferKept
    <3> QED
      BY <2>1, <2>2, <3>1, <3>3
  <2>4. CASE ~ (leases' \subseteq leases)
    <3>1. /\ pc = "r_create" /\ frame.subnet_id \in SubnetIds /\ SendAck(RequestedIp(pkt), TRUE)
          /\ create_lease(frame.subnet_id, pkt.mac, RequestedIp(pkt),
                          frame.now + DefaultLeaseTime)
      BY <1>2, <2>4 DEF RequestStep, RequestStatic, RequestStaticSubnet, RequestRanges,
         RequestSubnet, RequestLeases, RequestExpire, expire_lease, RequestCreate, ReadOnly
    <3>2. /\ leases' = leases \cup {NewLease} /\ NewLease.ip = RequestedIp(pkt)
          /\ NewLease.subnet_id = frame.subnet_id
      BY <3>1 DEF create_lease, NewLease
    <3>3. CoveredIn(NewLease.ip, NewLease.subnet_id)
      BY <3>1, <3>2 DEF FrameServes
    <3>4. TablesServe'
      BY <2>1, <3>2, <3>3 DEF TablesServe, TablesSame, Known, CoveredIn
    <3>5. OfferStands'
      BY <3>1, NothingToRedeem DEF SendAck
    <3> QED
      BY <2>1, <2>2, <3>4, <3>5
  <2> QED
    BY <2>3, <2>4
<1>3. CASE ReleaseStep
  <2>1. FrameServes' /\ TablesSame /\ leases' \subseteq leases
    BY <1>3, ReleaseServes
  <2>2. TablesServe'
    BY <2>1, SameEvolves, TablesKeepServing
  <2>3. /\ offer' = offer \/ offer' = NoOffer
        /\ now' = now /\ pc' \notin RequestPC
    BY <1>3 DEF ReleaseStep, ReleaseLease, ReleaseExpire, Return, historyVars, ReadOnly, RequestPC
  <2>4. OfferStands'
    BY <2>1, <2>3, OfferKept
  <2> QED
    BY <2>1, <2>2, <2>3, <2>4 DEF RequestServed
<1> QED
  BY <1>1, <1>2, <1>3 DEF Handle, HandlerStep

LEMMA PromiseStep ==
    Promising =>
      (/\ TypeOK /\ NamesAddress /\ ReferentialIntegrity /\ LeaseInv /\ PromiseInv
       /\ TypeOK' /\ NamesAddress' /\ ReferentialIntegrity'
       /\ [Next]_vars
       => PromiseInv')
<1> SUFFICES ASSUME Promising, TypeOK, NamesAddress, ReferentialIntegrity, LeaseInv, PromiseInv,
                    TypeOK', NamesAddress', ReferentialIntegrity', [Next]_vars
             PROVE  PromiseInv'
  OBVIOUS
<1>a. TablesServe /\ FrameServes /\ OfferStands /\ RequestServed
  BY DEF PromiseInv
<1>b. PacketAtPC'
  BY PacketStays DEF PromiseInv
<1> SUFFICES TablesServe' /\ FrameServes' /\ OfferStands' /\ RequestServed'
  BY <1>b DEF PromiseInv
<1>1. CASE Receive
  BY <1>a, <1>1, ReceiveServes, SameEvolves, TablesKeepServing
<1>2. CASE Handle
  BY <1>2, HandlerServes
<1>3. CASE Purge \/ UNCHANGED vars
  <2>1. /\ TablesSame /\ leases' \subseteq leases
        /\ UNCHANGED <<serverVars, offer, now>>
    BY <1>3 DEF Purge, Cleanup, CleanupFails, delete_expired_leases, TablesSame, historyVars,
                vars, storeVars
  <2>2. TablesEvolve
    BY <1>a, <2>1, SameEvolves
  <2>3. TablesServe' /\ FrameServes'
    BY <1>a, <2>1, <2>2, TablesKeepServing, FrameKeepsServing
  <2> QED
    BY <1>a, <2>1, <2>3, OfferKept, ServedStill
<1>4. CASE Api
  <2>1. /\ TablesEvolve /\ leases' \subseteq leases
        /\ UNCHANGED serverVars /\ offer' = NoOffer
    BY <1>a, <1>4, ApiEvolves, ApiKeeps DEF Api, NoNewLease
  <2> QED
    BY <1>a, <2>1, TablesKeepServing, FrameKeepsServing, NothingToRedeem
<1>5. CASE Tick
  <2>1. /\ TablesSame /\ leases' \subseteq leases
        /\ UNCHANGED serverVars /\ offer' = NoOffer
    BY <1>5 DEF Tick, TablesSame
  <2> QED
    BY <1>a, <2>1, SameEvolves, TablesKeepServing, FrameKeepsServing, NothingToRedeem
<1>6. CASE Crash
  <2>1. TablesSame /\ leases' \subseteq leases /\ pc' = "idle" /\ offer' = NoOffer
    BY <1>6 DEF Crash, TablesSame, storeVars, Return
  <2>2. FrameServes'
    BY <1>a, <2>1, FrameAside DEF ServePC, StaticPC
  <2> QED
    BY <1>a, <2>1, <2>2, SameEvolves, TablesKeepServing, NothingToRedeem
<1> QED
  BY <1>1, <1>2, <1>3, <1>4, <1>5, <1>6 DEF Next

LEMMA PromiseInit == Promising => (Init => PromiseInv)
<1> SUFFICES ASSUME Promising, Init PROVE PromiseInv
  OBVIOUS
<1>1. PICK c \in InitialTables :
       subnets = c.subnets /\ ranges = c.ranges /\ statics = c.statics /\ seq = c.seq
  BY DEF Init
<1>2. TablesServe
  BY <1>1, NdhcpdAssumption DEF Init, TablesServe, Known, Promising, SubnetRow
<1>3. pc = "idle" /\ offer = NoOffer
  BY DEF Init, ServerInit
<1> QED
  BY <1>2, <1>3 DEF PromiseInv, FrameServes, OfferStands, RequestServed, PacketAtPC, DiscoverPC,
                    RequestPC, NoOffer

LEMMA PromiseInvariant == ASSUME Promising PROVE Spec => []PromiseInv
<1>1. /\ TypeOK /\ NamesAddress /\ ReferentialIntegrity /\ LeaseInv /\ PromiseInv
      /\ TypeOK' /\ NamesAddress' /\ ReferentialIntegrity'
      /\ [Next]_vars
      => PromiseInv'
  BY PromiseStep
<1>2. Init => PromiseInv
  BY PromiseInit
<1> QED
  BY <1>1, <1>2, TypeCorrect, NoOrphans, LeaseInvariant, PTL DEF Spec

(* The last statement of the REQUEST that redeems the offer is the INSERT. *)
LEMMA EndsWithAck ==
    ASSUME Promising, TypeOK, NamesAddress, PromiseInv, [Next]_vars,
           pkt.type = "REQUEST", pc # "idle", pc' = "idle", Redeems, crashes' = crashes
    PROVE  /\ offer' = NoOffer
           /\ [mac |-> pkt.mac, ip |-> offer.ip, iface |-> pkt.iface] \in
                {[mac |-> b.mac, ip |-> b.ip, iface |-> b.iface] : b \in acked'}
<1>a. /\ TablesServe /\ FrameServes /\ OfferStands /\ RequestServed /\ PacketAtPC
      /\ ~ DbErr
  BY NoFault DEF PromiseInv
<1>b. pc \in RequestPC /\ RequestedIp(pkt) # NoAddr
  BY <1>a DEF PacketAtPC, DiscoverPC, RequestPC, NamesAddress, TypeOK, ServerTypeOK, PC
<1>c. offer.ip = RequestedIp(pkt) /\ offer.mac = pkt.mac
  BY DEF Redeems
<1>1. RequestStep
  <2>1. CASE Crash
    BY <2>1 DEF Crash, TypeOK
  <2>2. CASE Receive \/ Purge \/ Api \/ Tick \/ UNCHANGED vars
    BY <2>2 DEF Receive, RecvPacket, Purge, Cleanup, CleanupFails, Api, Tick, vars, serverVars
  <2>3. CASE Handle
    BY <1>b, <2>3 DEF Handle, HandlerStep, DiscoverStep, DiscoverStatic, DiscoverStaticSubnet,
       DiscoverLease, DiscoverLeaseSubnet, DiscoverSubnets, DiscoverLeases, DiscoverRanges,
       ReleaseStep, ReleaseLease, ReleaseExpire, RequestPC
  <2> QED
    BY <2>1, <2>2, <2>3 DEF Next
<1>2. ~ RequestStatic /\ ~ RequestStaticSubnet /\ ~ RequestRanges /\ ~ RequestExpire
  BY <1>a DEF RequestStatic, TablesServe, get_static_ip_by_mac, Goto, RequestStaticSubnet,
     FrameServes, RequestRanges, RequestExpire
<1>3. ~ RequestSubnet
  <2>1. pc = "r_subnet" => frame.ranges # {}
    BY <1>a, <1>b DEF RequestServed
  <2> QED
    BY <1>a, <2>1 DEF RequestSubnet
<1>4. ~ RequestLeases
  <2>1. \A l \in LeasesOn(RequestedIp(pkt)) : l.mac = pkt.mac
    BY <1>a, <1>b, <1>c DEF LeasesOn, OfferStands
  <2> QED
    BY <1>a, <2>1 DEF RequestLeases
<1>5. SendAck(RequestedIp(pkt), TRUE)
  <2>1. RequestCreate
    BY <1>1, <1>2, <1>3, <1>4 DEF RequestStep
  <2>2. frame.subnet_id \in SubnetIds
    BY <1>a, <1>b, <2>1 DEF RequestServed, RequestCreate
  <2> QED
    BY <1>a, <2>1, <2>2, Zenon DEF RequestCreate
<1> DEFINE b == [mac |-> pkt.mac, ip |-> RequestedIp(pkt), iface |-> pkt.iface,
                 until |-> frame.received + DefaultLeaseTime, dynamic |-> TRUE]
<1>6. b \in acked' /\ offer' = NoOffer
  BY <1>5 DEF SendAck
<1>7. [mac |-> b.mac, ip |-> b.ip, iface |-> b.iface]
      = [mac |-> pkt.mac, ip |-> offer.ip, iface |-> pkt.iface]
  BY <1>c
<1> HIDE DEF b
<1> QED
  BY <1>6, <1>7

(***************************************************************************)
(* What handle_discover offers, handle_request gives: if nothing changed   *)
(* since the OFFER, the client's REQUEST for it ends with an ACK, for any  *)
(* clients, interfaces, pools and restarts.  handle_discover takes up to   *)
(* five statements to choose, and handle_request chooses again with other  *)
(* statements; the assumptions are the cases where the two disagree.       *)
(***************************************************************************)
THEOREM OffersAreHonoured == ASSUME Promising PROVE Spec => OfferHonoured
<1>1. TypeOK /\ NamesAddress /\ PromiseInv /\ [Next]_vars =>
        [/\ pkt.type = "REQUEST" /\ pc # "idle" /\ pc' = "idle"
         /\ offer = [ip |-> RequestedIp(pkt), mac |-> pkt.mac, iface |-> pkt.iface]
         /\ crashes' = crashes
         /\ updated = {}
         => /\ offer' = NoOffer
            /\ [mac |-> pkt.mac, ip |-> offer.ip, iface |-> pkt.iface] \in
                  {[mac |-> b.mac, ip |-> b.ip, iface |-> b.iface] : b \in acked'}]_vars
  BY EndsWithAck DEF Redeems
<1> QED
  BY <1>1, PromiseInvariant, TypeCorrect, PTL DEF Spec, OfferHonoured
=============================================================================
