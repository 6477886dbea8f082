--------------------------- MODULE RouterAdvProofs ---------------------------
(***************************************************************************)
(* The drain loop of run_on_interface loses no wakeup, and send_ra only    *)
(* builds an advertisement from prefixes of its interface, for any number  *)
(* of interfaces, datagrams, prefixes and failing calls.                   *)
(***************************************************************************)
EXTENDS RouterAdv, WellFoundedInduction, TLAPS

(* The part of the type invariant the argument needs. *)
TaskTypes ==
    /\ stage \in [ListenInterfaces -> Stage]
    /\ back \in [ListenInterfaces -> {"timer", "select", "drain"}]
    /\ queue \in [ListenInterfaces -> Seq({"RS", "other"})]
    /\ ready \in [ListenInterfaces -> BOOLEAN]
    /\ fresh \in [ListenInterfaces -> BOOLEAN]
    /\ erred \in [ListenInterfaces -> BOOLEAN]

(* Outside the drain loop, the advertisements it sends included. *)
Waits(i) ==
    \/ stage[i] \in {"start", "timer", "select"}
    \/ stage[i] \in {"read", "send"} /\ back[i] # "drain"

(***************************************************************************)
(* NoLostWakeup is not inductive: a task on its way back to select from an *)
(* advertisement of the timer must not have lost an event either.          *)
(***************************************************************************)
WakeupInv ==
    /\ TaskTypes
    /\ \A i \in ListenInterfaces :
          Waits(i) /\ queue[i] # <<>> => ready[i] \/ erred[i]

LEMMA WakeupInit == Init => WakeupInv
  BY DEF Init, WakeupInv, TaskTypes, Waits, Stage

LEMMA WakeupTask ==
  ASSUME WakeupInv, NEW i \in ListenInterfaces, Task(i)
  PROVE  WakeupInv'
<1> USE DEF WakeupInv, TaskTypes, Waits, Stage, At, Goto, sockVars
<1>1. CASE Start(i)
  BY <1>1 DEF Start, create_ra_socket, CallSendRa
<1>2. CASE ReadPrefixes(i)
  BY <1>2 DEF ReadPrefixes
<1>3. CASE SendRa(i)
  BY <1>3 DEF SendRa
<1>4. CASE StartTimer(i)
  BY <1>4 DEF StartTimer
<1>5. CASE TimerBranch(i)
  BY <1>5 DEF TimerBranch, CallSendRa
<1>6. CASE ReadableBranch(i)
  BY <1>6 DEF ReadableBranch
<1>7. CASE RecvDatagram(i)
  <2>1. Tail(queue[i]) \in Seq({"RS", "other"})
    BY <1>7 DEF RecvDatagram
  <2>2. queue' \in [ListenInterfaces -> Seq({"RS", "other"})]
    BY <1>7, <2>1 DEF RecvDatagram
  <2>3. stage[i] = "drain" /\ UNCHANGED <<ready, fresh, erred>>
    BY <1>7 DEF RecvDatagram
  <2>4. \/ UNCHANGED <<stage, back>>
        \/ /\ stage' = [stage EXCEPT ![i] = "read"]
           /\ back' = [back EXCEPT ![i] = "drain"]
    BY <1>7 DEF RecvDatagram, CallSendRa, taskVars
  <2>5. ASSUME NEW j \in ListenInterfaces, j # i  PROVE queue'[j] = queue[j]
    BY <1>7, <2>5 DEF RecvDatagram
  <2> QED
    BY <2>2, <2>3, <2>4, <2>5
<1>8. CASE StopDrain(i)
  BY <1>8 DEF StopDrain, ClearReady
<1>9. CASE RecvError(i)
  BY <1>9 DEF RecvError, ClearReady
<1> QED
  BY <1>1, <1>2, <1>3, <1>4, <1>5, <1>6, <1>7, <1>8, <1>9 DEF Task

LEMMA WakeupAround ==
  ASSUME WakeupInv,
         \/ \E i \in ListenInterfaces, m \in {"RS", "other"} : Arrive(i, m)
         \/ \E i \in ListenInterfaces : TimerFires(i)
         \/ Api
         \/ UNCHANGED vars
  PROVE  WakeupInv'
<1> USE DEF WakeupInv, TaskTypes, Waits, Stage, taskVars, sockVars
<1>1. ASSUME NEW i \in ListenInterfaces, NEW m \in {"RS", "other"}, Arrive(i, m)
      PROVE  WakeupInv'
  BY <1>1 DEF Arrive
<1>2. ASSUME NEW i \in ListenInterfaces, TimerFires(i)
      PROVE  WakeupInv'
  BY <1>2 DEF TimerFires
<1>3. CASE Api
  BY <1>3 DEF Api, CreatePrefix, UpdatePrefix, DeletePrefix, Respond
<1>4. CASE UNCHANGED vars
  BY <1>4 DEF vars
<1> QED
  BY <1>1, <1>2, <1>3, <1>4

(***************************************************************************)
(* Whatever arrives while run_on_interface drains its socket or sends, a   *)
(* task that waits in select with datagrams pending has a readiness event  *)
(* to wake it, or has seen recvfrom fail.                                  *)
(***************************************************************************)
THEOREM WakeupsKept == Spec => []NoLostWakeup
<1>1. Init => WakeupInv
  BY WakeupInit
<1>2. WakeupInv /\ [Next]_vars => WakeupInv'
  BY WakeupTask, WakeupAround DEF Next
<1>3. WakeupInv => NoLostWakeup
  BY DEF WakeupInv, Waits, NoLostWakeup, At
<1> QED
  BY <1>1, <1>2, <1>3, PTL DEF Spec
-----------------------------------------------------------------------------
(***************************************************************************)
(* Type correctness.  The one part that is not immediate is the RDNSS      *)
(* lifetime, a maximum over the rows read: it exists because the lifetimes *)
(* of a table are bounded, which every statement preserves.                *)
(***************************************************************************)

LEMMA LeastNumber ==
    ASSUME NEW T, T \subseteq Nat, T # {}
    PROVE  \E x \in T : \A y \in T : x <= y
<1>0. \A x, y \in Nat : ~ (y < x) => x <= y
  OBVIOUS
<1> DEFINE R == OpToRel(<, Nat)
<1>1. IsWellFoundedOn(R, Nat)
  BY NatLessThanWellFounded
<1>2. PICK x \in T : \A y \in T : ~ (<<y, x>> \in R)
  <2> HIDE DEF R
  <2> QED
    BY <1>1, WFMin
<1>3. \A y \in T : ~ (y < x)
  BY <1>2 DEF OpToRel
<1> QED
  BY <1>0, <1>3, Zenon

Lifetimes(rs) == {r.body.dns_lifetime : r \in rs}

(* The rows of a table have no unbounded lifetimes. *)
Bounded(rs) == rs \subseteq Row /\ \E n \in Nat : \A k \in Lifetimes(rs) : k <= n

(* The least upper bound of a bounded set of numbers is one of them. *)
LEMMA MaxOfBounded ==
    ASSUME NEW S, S \subseteq Nat, S # {}, NEW n \in Nat, \A k \in S : k <= n
    PROVE  Max(S) \in S
<1> DEFINE Upper == {m \in Nat : \A k \in S : k <= m}
<1>1. PICK m \in Upper : \A y \in Upper : m <= y
  <2>1. Upper \subseteq Nat /\ Upper # {}
    OBVIOUS
  <2> HIDE DEF Upper
  <2> QED
    BY <2>1, LeastNumber
<1>2. m \in S
  <2> SUFFICES ASSUME m \notin S PROVE FALSE
    OBVIOUS
  <2>1. \A k \in S : k \in Nat /\ k <= m /\ k # m
    BY <1>1
  <2>2. \A k \in S : k <= m - 1
    BY <1>1, <2>1
  <2>3. m # 0
    <3>1. PICK k : k \in S
      OBVIOUS
    <3> QED
      BY <2>1, <3>1
  <2>4. m - 1 \in Upper
    BY <1>1, <2>2, <2>3
  <2> QED
    BY <1>1, <2>4
<1>3. \A k \in S : m >= k
  BY <1>1
<1> QED
  BY <1>2, <1>3 DEF Max

LEMMA PayloadType ==
    ASSUME NEW rs, Bounded(rs)
    PROVE  build_router_advertisement(rs) \in Advertisement
<1> DEFINE servers == UNION {r.body.dns : r \in rs}
           prefixes == {[prefix |-> r.body.prefix, valid |-> r.body.valid,
                         preferred |-> r.body.preferred] : r \in rs}
<1>1. \A r \in rs : r.body \in Body
  BY DEF Bounded, Row
<1>2. servers \in SUBSET Server
  BY <1>1 DEF Body
<1>3. prefixes \in SUBSET [prefix : Prefix, valid : Nat, preferred : Nat]
  BY <1>1 DEF Body
<1>4. servers # {} => Max(Lifetimes(rs)) \in Nat
  <2> SUFFICES ASSUME servers # {} PROVE Max(Lifetimes(rs)) \in Nat
    OBVIOUS
  <2>1. Lifetimes(rs) # {}
    BY DEF Lifetimes
  <2>2. Lifetimes(rs) \subseteq Nat
    BY <1>1 DEF Lifetimes, Body
  <2>3. PICK n \in Nat : \A k \in Lifetimes(rs) : k <= n
    BY DEF Bounded
  <2>4. Max(Lifetimes(rs)) \in Lifetimes(rs)
    BY <2>1, <2>2, <2>3, MaxOfBounded
  <2> QED
    BY <2>2, <2>4
<1>5. build_router_advertisement(rs)
      = [prefixes |-> prefixes, servers |-> servers,
         dns_lifetime |-> IF servers = {} THEN 0 ELSE Max(Lifetimes(rs))]
  BY DEF build_router_advertisement, Lifetimes
<1> HIDE DEF servers, prefixes
<1>6. (IF servers = {} THEN 0 ELSE Max(Lifetimes(rs))) \in Nat
  BY <1>4
<1> QED
  BY <1>2, <1>3, <1>5, <1>6 DEF Advertisement

TypeInv ==
    /\ TypeOK
    /\ Bounded(ia_prefixes)
    /\ \A i \in ListenInterfaces : Bounded(rows[i])

LEMMA BoundedSubset ==
    ASSUME NEW rs, NEW qs, Bounded(rs), qs \subseteq rs
    PROVE  Bounded(qs)
BY DEF Bounded, Lifetimes

(* Old rows and one more body: an INSERT and an UPDATE. *)
LEMMA BoundedAdd ==
    ASSUME NEW rs, NEW qs, NEW b \in Body, Bounded(rs), qs \subseteq Row,
           \A q \in qs : q \in rs \/ q.body = b
    PROVE  Bounded(qs)
<1>1. PICK n \in Nat : \A k \in Lifetimes(rs) : k <= n
  BY DEF Bounded
<1>2. b.dns_lifetime \in Nat
  BY DEF Body
<1> DEFINE m == n + b.dns_lifetime
<1>3. \A q \in qs : q.body.dns_lifetime <= m
  <2> SUFFICES ASSUME NEW q \in qs PROVE q.body.dns_lifetime <= m
    OBVIOUS
  <2>1. CASE q \in rs
    <3>1. q.body.dns_lifetime \in Nat /\ q.body.dns_lifetime <= n
      BY <1>1, <2>1 DEF Lifetimes, Row, Body
    <3> QED
      BY <1>2, <3>1
  <2>2. CASE q.body = b
    BY <1>2, <2>2
  <2> QED
    BY <2>1, <2>2
<1>4. m \in Nat
  BY <1>2
<1> HIDE DEF m
<1> QED
  BY <1>3, <1>4 DEF Bounded, Lifetimes

LEMMA TypeInit == Init => TypeInv
<1> SUFFICES ASSUME Init PROVE TypeInv
  OBVIOUS
<1>1. Bounded({})
  BY DEF Bounded, Lifetimes
<1>2. NoAdvertisement \in Advertisement
  BY DEF NoAdvertisement, Advertisement
<1>3. TypeOK
  BY <1>2 DEF Init, TypeOK, Stage, RowsFit
<1> QED
  BY <1>1, <1>3 DEF Init, TypeInv
LEMMA TypeFaults ==
    ASSUME TypeInv, Ok \/ Err
    PROVE  faults' \in Nat
BY DEF TypeInv, TypeOK, Ok, Err

(* What send_ra holds, step by step. *)
LEMMA RowsTask ==
    ASSUME TypeInv, NEW i \in ListenInterfaces, Task(i)
    PROVE  \A j \in ListenInterfaces : RowsFit(j)'
<1>0. /\ stage \in [ListenInterfaces -> Stage] /\ rows \in [ListenInterfaces -> SUBSET Row]
      /\ back \in [ListenInterfaces -> {"timer", "select", "drain"}]
      /\ \A j \in ListenInterfaces : RowsFit(j)
  BY DEF TypeInv, TypeOK
<1> USE <1>0 DEF RowsFit, At, Goto
<1>1. CASE Start(i)
  BY <1>1 DEF Start, create_ra_socket, CallSendRa
<1>2. CASE ReadPrefixes(i)
  BY <1>2 DEF ReadPrefixes, list_ia_prefixes
<1>3. CASE SendRa(i)
  BY <1>3 DEF SendRa
<1>4. CASE StartTimer(i) \/ TimerBranch(i)
  BY <1>4 DEF StartTimer, TimerBranch, CallSendRa
<1>5. CASE ReadableBranch(i)
  BY <1>5 DEF ReadableBranch
<1>6. CASE RecvDatagram(i)
  BY <1>6 DEF RecvDatagram, CallSendRa, taskVars
<1>7. CASE StopDrain(i) \/ RecvError(i)
  BY <1>7 DEF StopDrain, RecvError, ClearReady
<1> QED
  BY <1>1, <1>2, <1>3, <1>4, <1>5, <1>6, <1>7 DEF Task

(* Tasks stay where they are, with what they hold. *)
LEMMA RowsStay ==
    ASSUME TypeInv, UNCHANGED <<stage, rows>>
    PROVE  \A j \in ListenInterfaces : RowsFit(j)'
  BY DEF TypeInv, TypeOK, RowsFit

LEMMA TypeTask ==
    ASSUME TypeInv, NEW i \in ListenInterfaces, Task(i)
    PROVE  TypeInv'
<1>0. faults' \in Nat
  <2>1. Ok \/ Err
    BY DEF Task, Start, create_ra_socket, ReadPrefixes, SendRa, do_send_ra, StartTimer,
           TimerBranch, ReadableBranch, RecvDatagram, StopDrain, RecvError
  <2> QED
    BY <2>1, TypeFaults
<1>a. \A j \in ListenInterfaces : RowsFit(j)'
  BY RowsTask
<1> USE DEF TypeInv, TypeOK, Stage, At, Goto, tableVars, sockVars, linkVars
<1>1. CASE Start(i)
  <2>1. /\ stage' \in [ListenInterfaces -> Stage]
        /\ back' \in [ListenInterfaces -> {"timer", "select", "drain"}]
    BY <1>1 DEF Start, create_ra_socket, CallSendRa
  <2>2. UNCHANGED <<ia_prefixes, seq, rows, queue, ready, fresh, erred, heard, asked, due, calls>>
    BY <1>1 DEF Start, create_ra_socket, CallSendRa
  <2> QED
    BY <1>0, <1>a, <2>1, <2>2
<1>2. CASE ReadPrefixes(i)
  <2>1. Bounded(list_ia_prefixes(i)) /\ list_ia_prefixes(i) \in SUBSET Row
    BY BoundedSubset DEF list_ia_prefixes
  <2>2. /\ rows' \in [ListenInterfaces -> SUBSET Row]
        /\ \A j \in ListenInterfaces : Bounded(rows'[j])
    <3>1. CASE rows' = rows
      BY <3>1
    <3>2. CASE rows' = [rows EXCEPT ![i] = list_ia_prefixes(i)]
      BY <2>1, <3>2
    <3> QED
      BY <1>2, <3>1, <3>2 DEF ReadPrefixes
  <2>3. stage' \in [ListenInterfaces -> Stage]
    BY <1>2 DEF ReadPrefixes
  <2>4. UNCHANGED <<ia_prefixes, seq, back, queue, ready, fresh, erred, heard, asked, due, calls>>
    BY <1>2 DEF ReadPrefixes
  <2> QED
    BY <1>0, <1>a, <2>2, <2>3, <2>4
<1>3. CASE SendRa(i)
  <2>1. build_router_advertisement(rows[i]) \in Advertisement
    BY PayloadType
  <2>2. Bounded({})
    BY DEF Bounded, Lifetimes
  <2>3. /\ rows' \in [ListenInterfaces -> SUBSET Row]
        /\ \A j \in ListenInterfaces : Bounded(rows'[j])
    BY <1>3, <2>2 DEF SendRa
  <2>4. /\ heard' \in [ListenInterfaces -> Advertisement]
        /\ asked' \in [ListenInterfaces -> BOOLEAN]
    BY <1>3, <2>1 DEF SendRa, do_send_ra
  <2>5. stage' \in [ListenInterfaces -> Stage]
    BY <1>3 DEF SendRa
  <2>6. UNCHANGED <<ia_prefixes, seq, back, queue, ready, fresh, erred, due, calls>>
    BY <1>3 DEF SendRa
  <2> QED
    BY <1>0, <1>a, <2>3, <2>4, <2>5, <2>6
<1>4. CASE StartTimer(i)
  BY <1>0, <1>a, <1>4 DEF StartTimer
<1>5. CASE TimerBranch(i)
  BY <1>0, <1>a, <1>5 DEF TimerBranch, CallSendRa
<1>6. CASE ReadableBranch(i)
  <2>1. /\ stage' \in [ListenInterfaces -> Stage]
        /\ fresh' \in [ListenInterfaces -> BOOLEAN]
    BY <1>6 DEF ReadableBranch
  <2>2. UNCHANGED <<ia_prefixes, seq, back, rows, queue, ready, erred, heard, asked, due, calls>>
    BY <1>6 DEF ReadableBranch
  <2> QED
    BY <1>0, <1>a, <2>1, <2>2
<1>7. CASE RecvDatagram(i)
  <2>1. Tail(queue[i]) \in Seq({"RS", "other"})
    BY <1>7 DEF RecvDatagram
  <2>2. queue' \in [ListenInterfaces -> Seq({"RS", "other"})]
    BY <1>7, <2>1 DEF RecvDatagram
  <2>3. UNCHANGED <<ia_prefixes, seq, rows, ready, fresh, erred, heard, asked, due, calls>>
    BY <1>7 DEF RecvDatagram, CallSendRa, taskVars
  <2>4. \/ UNCHANGED <<stage, back>>
        \/ /\ stage' = [stage EXCEPT ![i] = "read"]
           /\ back' = [back EXCEPT ![i] = "drain"]
    BY <1>7 DEF RecvDatagram, CallSendRa, taskVars
  <2> QED
    BY <1>0, <1>a, <2>2, <2>3, <2>4
<1>8. CASE StopDrain(i)
  BY <1>0, <1>a, <1>8 DEF StopDrain, ClearReady
<1>9. CASE RecvError(i)
  BY <1>0, <1>a, <1>9 DEF RecvError, ClearReady
<1> QED
  BY <1>1, <1>2, <1>3, <1>4, <1>5, <1>6, <1>7, <1>8, <1>9 DEF Task

(* A statement that leaves a bounded table. *)
LEMMA TypeRespond ==
    ASSUME TypeInv, NEW rs, NEW n \in Nat, Bounded(rs), Respond(rs, n)
    PROVE  TypeInv'
<1>1. rs \subseteq Row
  BY DEF Bounded
<1>2. Bounded(ia_prefixes)' /\ (ia_prefixes \subseteq Row /\ seq \in Nat)'
  BY <1>1 DEF Respond, tableVars, TypeInv, TypeOK
<1>3. /\ calls' \in Nat /\ faults' \in Nat
      /\ UNCHANGED <<stage, back, rows, queue, ready, fresh, erred, heard, asked, due>>
  BY RaAssumption DEF Respond, TypeInv, TypeOK, Ok, Err, taskVars, sockVars, linkVars
<1> QED
  BY <1>2, <1>3, RowsStay DEF TypeInv, TypeOK

LEMMA TypeApi ==
    ASSUME TypeInv, Api
    PROVE  TypeInv'
<1>0. NewPrefixes \subseteq Body /\ DefaultLifetime \in Nat
  BY RaAssumption
<1>1. ia_prefixes \subseteq Row /\ seq \in Nat /\ Bounded(ia_prefixes)
  BY DEF TypeInv, TypeOK
<1>2. ASSUME NEW b \in NewPrefixes, CreatePrefix(b) PROVE TypeInv'
  <2>1. WithDefaults(b) \in Body
    BY <1>0 DEF WithDefaults, OrDefault, Body
  <2>2. [id |-> seq + 1, body |-> WithDefaults(b)] \in Row
    BY <1>1, <2>1 DEF Row
  <2>3. Bounded(create_ia_prefix(WithDefaults(b)))
    BY <1>1, <2>1, <2>2, BoundedAdd DEF create_ia_prefix
  <2> QED
    BY <1>1, <1>2, <2>3, TypeRespond DEF CreatePrefix
<1>3. ASSUME NEW r \in ia_prefixes, NEW b \in NewPrefixes, UpdatePrefix(r.id, b)
      PROVE  TypeInv'
  <2>1. b \in Body /\ [id |-> r.id, body |-> b] \in Row
    BY <1>0, <1>1 DEF Row
  <2>2. /\ update_ia_prefix(r.id, b) \subseteq Row
        /\ \A q \in update_ia_prefix(r.id, b) : q \in ia_prefixes \/ q.body = b
    BY <1>1, <2>1 DEF update_ia_prefix
  <2>3. Bounded(update_ia_prefix(r.id, b))
    BY <1>1, <2>1, <2>2, BoundedAdd
  <2> QED
    BY <1>1, <1>3, <2>3, TypeRespond DEF UpdatePrefix
<1>4. ASSUME NEW r \in ia_prefixes, DeletePrefix(r.id) PROVE TypeInv'
  <2>1. Bounded(delete_ia_prefix(r.id))
    BY <1>1, BoundedSubset DEF delete_ia_prefix
  <2> QED
    BY <1>1, <1>4, <2>1, TypeRespond DEF DeletePrefix
<1> QED
  BY <1>2, <1>3, <1>4 DEF Api

LEMMA TypeAround ==
    ASSUME TypeInv,
           \/ \E i \in ListenInterfaces, m \in {"RS", "other"} : Arrive(i, m)
           \/ \E i \in ListenInterfaces : TimerFires(i)
           \/ UNCHANGED vars
    PROVE  TypeInv'
<1> USE DEF TypeInv, TypeOK, taskVars, sockVars, linkVars, tableVars
<1>1. ASSUME NEW i \in ListenInterfaces, NEW m \in {"RS", "other"}, Arrive(i, m)
      PROVE  TypeInv'
  <2>1. faults' \in Nat
    BY <1>1, TypeFaults DEF Arrive
  <2>2. Append(queue[i], m) \in Seq({"RS", "other"})
    OBVIOUS
  <2>3. queue' \in [ListenInterfaces -> Seq({"RS", "other"})]
    BY <1>1, <2>2 DEF Arrive
  <2>4. /\ ready' \in [ListenInterfaces -> BOOLEAN]
        /\ fresh' \in [ListenInterfaces -> BOOLEAN]
        /\ asked' \in [ListenInterfaces -> BOOLEAN]
    BY <1>1 DEF Arrive
  <2>5. UNCHANGED <<ia_prefixes, seq, stage, back, rows, erred, heard, due, calls>>
    BY <1>1 DEF Arrive
  <2> QED
    BY <2>1, <2>3, <2>4, <2>5, RowsStay
<1>2. ASSUME NEW i \in ListenInterfaces, TimerFires(i)
      PROVE  TypeInv'
  BY <1>2, RowsStay DEF TimerFires
<1>3. CASE UNCHANGED vars
  BY <1>3, RowsStay DEF vars
<1> QED
  BY <1>1, <1>2, <1>3

(***************************************************************************)
(* Type correctness, for any prefixes, interfaces and API calls.  Two      *)
(* parts take several steps: past its query and across its await send_ra   *)
(* holds at least one prefix and only prefixes of its own interface,       *)
(* whatever the API does to the table meanwhile; and the RDNSS lifetime,   *)
(* a maximum over the rows, is defined for every list that gets there.     *)
(***************************************************************************)
THEOREM RaTypeCorrect == Spec => []TypeOK
<1>1. Init => TypeInv
  BY TypeInit
<1>2. TypeInv /\ [Next]_vars => TypeInv'
  BY TypeTask, TypeApi, TypeAround DEF Next
<1>3. TypeInv => TypeOK
  BY DEF TypeInv
<1> QED
  BY <1>1, <1>2, <1>3, PTL DEF Spec
=============================================================================
