--------------------------- MODULE AdminApiProofs ---------------------------
(***************************************************************************)
(* Theorems about the configuration API on its own, for any bodies, any    *)
(* number of calls and of failing statements.                              *)
(***************************************************************************)
EXTENDS AdminApi, FiniteSetTheorems, TLAPS

apiState == <<storeVars, apiVars>>

(* A request past its overlap check and a stored subnet do not overlap. *)
Apart(a, s) ==
    s.id \in updated \/ ~ subnets_overlap(a.network, a.netmask, s.network, s.netmask)

CheckedApart == \A a \in checked, s \in subnets : Apart(a, s)

OneChecked == checked = {} \/ \E a : checked = {a}

OverlapInv == NoOverlap /\ CheckedApart /\ OneChecked

LEMMA OverlapSymmetric ==
    ASSUME NEW m, NEW p, NEW n, NEW q
    PROVE  subnets_overlap(m, p, n, q) <=> subnets_overlap(n, q, m, p)
BY DEF subnets_overlap

(* Subnets go away and requests end: nothing new to compare. *)
LEMMA FewerSubnets ==
    ASSUME OverlapInv, subnets' \subseteq subnets, updated' = updated, checked' = checked
    PROVE  OverlapInv'
BY DEF OverlapInv, NoOverlap, CheckedApart, OneChecked, Apart

(* With one request at a time the check starts with none in flight. *)
LEMMA CheckAlone ==
    ASSUME MaxInFlight = 1, OverlapInv, NEW a, CheckSubnet(a)
    PROVE  OverlapInv'
<1>1. checked = {}
  <2>1. ASSUME NEW b, checked = {b} PROVE FALSE
    <3>1. Cardinality(checked) = 1
      BY <2>1, FS_Singleton
    <3> QED
      BY <3>1 DEF CheckSubnet
  <2> QED
    BY <2>1 DEF OverlapInv, OneChecked
<1>2. checked' = {a} /\ subnets' = subnets /\ updated' = updated /\ ~ OverlapsExisting(a)
  BY <1>1 DEF CheckSubnet
<1>3. CheckedApart'
  BY <1>2 DEF CheckedApart, Apart, OverlapsExisting
<1> QED
  BY <1>2, <1>3 DEF OverlapInv, NoOverlap, OneChecked

(* The INSERT: what the request was checked against is what is there. *)
LEMMA InsertApart ==
    ASSUME OverlapInv, NEW a \in checked, CreateSubnet(a)
    PROVE  OverlapInv'
<1>1. checked' = {} /\ updated' = updated
  BY DEF CreateSubnet, OverlapInv, OneChecked
<1>2. CheckedApart' /\ OneChecked'
  BY <1>1 DEF CheckedApart, OneChecked
<1>3. CASE subnets' = subnets
  BY <1>1, <1>2, <1>3 DEF OverlapInv, NoOverlap
<1>4. CASE InsertSubnet(a.network, a.netmask)
  <2> DEFINE new == [id |-> seq.subnets + 1, network |-> a.network, netmask |-> a.netmask]
  <2>1. subnets' = subnets \cup {new}
    BY <1>4 DEF InsertSubnet
  <2>2. \A s \in subnets : Apart(new, s)
    BY DEF OverlapInv, CheckedApart, Apart
  <2>3. NoOverlap'
    <3> SUFFICES ASSUME NEW s \in subnets', NEW t \in subnets', s.id # t.id,
                        s.id \notin updated, t.id \notin updated
                 PROVE  ~ subnets_overlap(s.network, s.netmask, t.network, t.netmask)
      BY <1>1 DEF NoOverlap
    <3>1. CASE s \in subnets /\ t \in subnets
      BY <3>1 DEF OverlapInv, NoOverlap
    <3>2. CASE s = new /\ t \in subnets
      BY <2>2, <3>2 DEF Apart
    <3>3. CASE s \in subnets /\ t = new
      BY <2>2, <3>3, OverlapSymmetric DEF Apart
    <3> QED
      BY <2>1, <3>1, <3>2, <3>3
  <2> QED
    BY <1>2, <2>3 DEF OverlapInv
<1> QED
  BY <1>3, <1>4 DEF CreateSubnet

(* A PUT marks the subnet it moves. *)
LEMMA PutApart ==
    ASSUME OverlapInv, NEW i, NEW a, PutSubnet(i, a)
    PROVE  OverlapInv'
<1>1. updated' = updated \cup {i} /\ checked' = checked
  BY DEF PutSubnet
<1>2. \A s \in subnets' : s.id \in updated' \/ s \in subnets
  BY <1>1 DEF PutSubnet, UpdateSubnet
<1>3. NoOverlap'
  BY <1>1, <1>2 DEF OverlapInv, NoOverlap
<1>4. CheckedApart'
  BY <1>1, <1>2 DEF OverlapInv, CheckedApart, Apart
<1> QED
  BY <1>1, <1>3, <1>4 DEF OverlapInv, OneChecked

LEMMA OverlapStep ==
    MaxInFlight = 1 => (OverlapInv /\ [ApiStep]_apiState => OverlapInv')
<1> SUFFICES ASSUME MaxInFlight = 1, OverlapInv, [ApiStep]_apiState PROVE OverlapInv'
  OBVIOUS
<1>1. ASSUME NEW i, RemoveSubnet(i) PROVE OverlapInv'
  BY <1>1, FewerSubnets DEF RemoveSubnet, DeleteSubnet
<1>2. ASSUME NEW r, CreateRange(r) PROVE OverlapInv'
  BY <1>2, FewerSubnets DEF CreateRange, InsertRange
<1>3. ASSUME NEW i, RemoveRange(i) PROVE OverlapInv'
  BY <1>3, FewerSubnets DEF RemoveRange, DeleteRange
<1>4. ASSUME NEW s, CreateStatic(s) PROVE OverlapInv'
  BY <1>4, FewerSubnets DEF CreateStatic, InsertStatic
<1>5. ASSUME NEW ip, RemoveStatic(ip) PROVE OverlapInv'
  BY <1>5, FewerSubnets DEF RemoveStatic, DeleteStatic
<1>6. CASE UNCHANGED apiState
  BY <1>6, FewerSubnets DEF apiState, storeVars, apiVars
<1>7. ASSUME NEW a, CheckSubnet(a) PROVE OverlapInv'
  BY <1>7, CheckAlone
<1>8. ASSUME NEW a \in checked, CreateSubnet(a) PROVE OverlapInv'
  BY <1>8, InsertApart
<1>9. ASSUME NEW i, NEW a, PutSubnet(i, a) PROVE OverlapInv'
  BY <1>9, PutApart
<1> QED
  BY <1>1, <1>2, <1>3, <1>4, <1>5, <1>6, <1>7, <1>8, <1>9, Zenon DEF ApiStep

(***************************************************************************)
(* create_subnet keeps the stored subnets disjoint, for any bodies and any *)
(* other calls in between, as long as no two create_subnet requests run at *)
(* once (two of them is the run admin_api_race) and but for a subnet that  *)
(* update_subnet moved.                                                    *)
(***************************************************************************)
THEOREM SubnetsDisjoint == ASSUME MaxInFlight = 1 PROVE AdminSpec => []NoOverlap
<1>1. AdminInit => OverlapInv
  BY DEF AdminInit, ApiInit, OverlapInv, NoOverlap, CheckedApart, OneChecked
<1>2. OverlapInv /\ [ApiStep]_<<storeVars, apiVars>> => OverlapInv'
  BY OverlapStep DEF apiState
<1>3. OverlapInv => NoOverlap
  BY DEF OverlapInv
<1> QED
  BY <1>1, <1>2, <1>3, PTL DEF AdminSpec
-----------------------------------------------------------------------------
(* The overlap test of create_subnet against the membership test of the    *)
(* DHCP server.                                                            *)

LEMMA BlockSizeType ==
    ASSUME NEW p \in 0..255
    PROVE  BlockSize(p) \in Nat \ {0}
<1>1. HostBits(p) \in 0..Width
  BY WidthAssumption DEF HostBits
<1> QED
  BY <1>1, PowerAssumption DEF BlockSize

(* Two multiples of b less than b apart are one. *)
LEMMA MultiplesApart ==
    ASSUME NEW b \in Nat \ {0}, NEW q \in Int, NEW k \in Int, b * q < b * k + b, b * k < b * q + b
    PROVE  q = k
<1>1. CASE q > k
  <2>1. q - k >= 1
    BY <1>1
  <2>2. b * (q - k) >= b
    BY <2>1
  <2> QED
    BY <2>2
<1>2. CASE q < k
  <2>1. k - q >= 1
    BY <1>2
  <2>2. b * (k - q) >= b
    BY <2>1
  <2> QED
    BY <2>2
<1> QED
  BY <1>1, <1>2

(* Clearing the host bits gives the first address of the block. *)
LEMMA MaskedBlock ==
    ASSUME NEW x \in Nat, NEW b \in Nat \ {0}
    PROVE  /\ x % b \in 0..(b - 1)
           /\ x - (x % b) \in 0..x
           /\ \E q \in Int : x - (x % b) = b * q
<1>1. x % b \in 0..(b - 1) /\ x = b * (x \div b) + (x % b) /\ x \div b \in Int
  OBVIOUS
<1>2. x \div b >= 0
  OBVIOUS
<1>3. b * (x \div b) >= 0 /\ b * (x \div b) \in Int
  BY <1>1, <1>2
<1>4. x - (x % b) = b * (x \div b)
  BY <1>1, <1>3
<1>5. x - (x % b) \in 0..x
  BY <1>1, <1>3, <1>4
<1>6. \E q \in Int : x - (x % b) = b * q
  BY <1>1, <1>4
<1> QED
  BY <1>1, <1>5, <1>6

(* An address is in a subnet exactly when it lies between the ends of it. *)
LEMMA MemberBetween ==
    ASSUME NEW x \in Addr, NEW n \in Addr, NEW p \in 0..255
    PROVE  InSubnet(x, n, p) <=> StartOf(n, p) <= x /\ x <= EndOf(n, p)
<1> DEFINE b == BlockSize(p)
<1>1. b \in Nat \ {0}
  BY BlockSizeType
<1>2. x \in Nat /\ n \in Nat
  BY WidthAssumption, PowerAssumption DEF Addr
<1> HIDE DEF b
<1>3. PICK q \in Int : x - (x % b) = b * q
  BY <1>1, <1>2, MaskedBlock
<1>4. PICK k \in Int : n - (n % b) = b * k
  BY <1>1, <1>2, MaskedBlock
<1>5. x % b \in 0..(b - 1) /\ x = b * q + (x % b)
  BY <1>1, <1>2, <1>3, MaskedBlock
<1>6. b * q = b * k <=> b * k <= x /\ x <= b * k + b - 1
  <2>1. ASSUME b * k <= x, x <= b * k + b - 1 PROVE b * q = b * k
    <3>1. b * q < b * k + b /\ b * k < b * q + b
      BY <1>1, <1>5, <2>1
    <3> QED
      BY <1>1, <3>1, MultiplesApart
  <2> QED
    BY <1>1, <1>5, <2>1
<1>7. Masked(x, p) = b * q /\ Masked(n, p) = b * k
  BY <1>3, <1>4 DEF Masked, b
<1>8. StartOf(n, p) = b * k /\ EndOf(n, p) = b * k + b - 1
  BY <1>7 DEF StartOf, EndOf, b
<1> QED
  BY <1>6, <1>7, <1>8 DEF InSubnet

(* The ends of a subnet: its first address is one of the address space. *)
LEMMA EndsType ==
    ASSUME NEW n \in Addr, NEW p \in 0..255
    PROVE  StartOf(n, p) \in Addr /\ EndOf(n, p) \in Int /\ StartOf(n, p) <= EndOf(n, p)
<1> DEFINE b == BlockSize(p)
<1>1. b \in Nat \ {0}
  BY BlockSizeType
<1>2. n \in Nat /\ n <= 2^Width - 1 /\ 2^Width \in Nat
  BY WidthAssumption, PowerAssumption DEF Addr
<1> HIDE DEF b
<1>3. n - (n % b) \in 0..n
  BY <1>1, <1>2, MaskedBlock
<1>4. StartOf(n, p) = n - (n % b) /\ EndOf(n, p) = n - (n % b) + b - 1
  BY DEF StartOf, EndOf, Masked, b
<1> QED
  BY <1>1, <1>2, <1>3, <1>4 DEF Addr

(* Two intervals of addresses meet exactly when each starts before the end *)
(* of the other: the later start is then common to both.                   *)
LEMMA OverlapMeansShared ==
    ASSUME NEW a \in [network : Addr, netmask : 0..255], NEW s \in SubnetRow
    PROVE  subnets_overlap(a.network, a.netmask, s.network, s.netmask)
           <=> Members(a) \cap Members(s) # {}
<1> DEFINE sa == StartOf(a.network, a.netmask)   ea == EndOf(a.network, a.netmask)
           ss == StartOf(s.network, s.netmask)   es == EndOf(s.network, s.netmask)
<1>1. /\ a.network \in Addr /\ a.netmask \in 0..255
      /\ s.network \in Addr /\ s.netmask \in 0..255
  BY DEF SubnetRow
<1>2. /\ sa \in Addr /\ ea \in Int /\ sa <= ea
      /\ ss \in Addr /\ es \in Int /\ ss <= es
  BY <1>1, EndsType
<1>3. Addr \subseteq Int
  BY WidthAssumption, PowerAssumption DEF Addr
<1>4. \A x \in Addr : /\ x \in Members(a) <=> sa <= x /\ x <= ea
                      /\ x \in Members(s) <=> ss <= x /\ x <= es
  <2> SUFFICES ASSUME NEW x \in Addr
               PROVE  /\ x \in Members(a) <=> sa <= x /\ x <= ea
                      /\ x \in Members(s) <=> ss <= x /\ x <= es
    OBVIOUS
  <2>1. /\ InSubnet(x, a.network, a.netmask) <=> sa <= x /\ x <= ea
        /\ InSubnet(x, s.network, s.netmask) <=> ss <= x /\ x <= es
    BY <1>1, MemberBetween
  <2> HIDE DEF sa, ea, ss, es
  <2> QED
    BY <2>1 DEF Members, iface_in_subnet
<1>5. Members(a) \subseteq Addr
  BY DEF Members
<1>6. subnets_overlap(a.network, a.netmask, s.network, s.netmask) <=> sa <= es /\ ss <= ea
  BY DEF subnets_overlap
<1> HIDE DEF sa, ea, ss, es
<1>7. ASSUME sa <= es, ss <= ea PROVE Members(a) \cap Members(s) # {}
  <2>1. CASE sa <= ss
    BY <1>2, <1>3, <1>4, <1>7, <2>1
  <2>2. CASE ss <= sa
    BY <1>2, <1>3, <1>4, <1>7, <2>2
  <2> QED
    BY <1>2, <1>3, <2>1, <2>2
<1>8. ASSUME NEW x \in Members(a) \cap Members(s) PROVE sa <= es /\ ss <= ea
  <2>1. x \in Addr /\ sa <= x /\ x <= ea /\ ss <= x /\ x <= es
    BY <1>4, <1>5, <1>8
  <2> QED
    BY <1>2, <1>3, <2>1
<1> QED
  BY <1>6, <1>7, <1>8

(* The stored subnets and the requests in flight are well formed. *)
SubnetTypes ==
    /\ subnets \subseteq SubnetRow
    /\ seq \in [subnets : Nat, ranges : Nat, leases : Nat]
    /\ checked \subseteq [network : Addr, netmask : 0..255]

LEMMA SubnetTypesStep == SubnetTypes /\ [ApiStep]_apiState => SubnetTypes'
<1> SUFFICES ASSUME SubnetTypes, [ApiStep]_apiState PROVE SubnetTypes'
  OBVIOUS
<1> USE DEF SubnetTypes
<1>1. ASSUME NEW a \in NewSubnets, CheckSubnet(a) PROVE SubnetTypes'
  BY <1>1, ApiAssumption DEF CheckSubnet
<1>2. ASSUME NEW a \in checked, CreateSubnet(a) PROVE SubnetTypes'
  BY <1>2 DEF CreateSubnet, InsertSubnet, SubnetRow
<1>3. ASSUME NEW s \in subnets, NEW a \in NewSubnets, PutSubnet(s.id, a) PROVE SubnetTypes'
  <2>1. a \in [network : Addr, netmask : 0..255] /\ s \in SubnetRow
    BY ApiAssumption
  <2>2. [id |-> s.id, network |-> a.network, netmask |-> a.netmask] \in SubnetRow
    BY <2>1 DEF SubnetRow
  <2> QED
    BY <1>3, <2>2 DEF PutSubnet, UpdateSubnet
<1>4. ASSUME NEW i, RemoveSubnet(i) PROVE SubnetTypes'
  BY <1>4 DEF RemoveSubnet, DeleteSubnet
<1>5. ASSUME NEW r, CreateRange(r) PROVE SubnetTypes'
  BY <1>5 DEF CreateRange, InsertRange
<1>6. ASSUME NEW i, RemoveRange(i) PROVE SubnetTypes'
  BY <1>6 DEF RemoveRange, DeleteRange
<1>7. ASSUME NEW s, CreateStatic(s) PROVE SubnetTypes'
  BY <1>7 DEF CreateStatic, InsertStatic
<1>8. ASSUME NEW ip, RemoveStatic(ip) PROVE SubnetTypes'
  BY <1>8 DEF RemoveStatic, DeleteStatic
<1>9. CASE UNCHANGED apiState
  BY <1>9 DEF apiState, storeVars, apiVars
<1> QED
  BY <1>1, <1>2, <1>3, <1>4, <1>5, <1>6, <1>7, <1>8, <1>9, Zenon DEF ApiStep

(***************************************************************************)
(* create_subnet's 409 (subnets_overlap) means exactly that some address   *)
(* would belong to both subnets by the test the DHCP handlers use, for     *)
(* every address width, every network with or without host bits and every  *)
(* u8 netmask, those above the width included.                             *)
(***************************************************************************)
THEOREM OverlapTestExact == AdminSpec => []OverlapIsSharedAddress
<1>1. AdminInit => SubnetTypes
  BY DEF AdminInit, ApiInit, SubnetTypes
<1>2. SubnetTypes /\ [ApiStep]_<<storeVars, apiVars>> => SubnetTypes'
  BY SubnetTypesStep DEF apiState
<1>3. SubnetTypes => OverlapIsSharedAddress
  BY ApiAssumption, OverlapMeansShared DEF SubnetTypes, OverlapIsSharedAddress
<1> QED
  BY <1>1, <1>2, <1>3, PTL DEF AdminSpec

=============================================================================
