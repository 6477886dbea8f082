------------------------------ MODULE RouterAdv ------------------------------
(***************************************************************************)
(* Router advertisements: the task run_on_interface starts for every       *)
(* interface (ra/server.rs), the payload it sends (ra/packet.rs), and the  *)
(* handlers that change the ia_prefixes table under it                     *)
(* (handlers/ia_prefixes.rs, db/sqlite.rs).  A task waits on a timer and   *)
(* on the readiness of a non-blocking socket; readiness is edge-triggered, *)
(* so a datagram left in the queue raises no second event.                 *)
(***************************************************************************)
EXTENDS Naturals, Sequences, FiniteSetsExt

CONSTANTS
    Iface,           \* interface names
    ListenInterfaces,\* config.ra.ip6_listen_interfaces
    Prefix,          \* IPv6 prefixes
    Server,          \* DNS server addresses
    NewPrefixes,     \* bodies of POST and PUT /api/ia-prefixes
    DefaultLifetime, \* the three defaults of config.ra
    MaxQueue,        \* bound on datagrams waiting in a socket
    MaxApiCalls,     \* bound on the number of API requests
    MaxFaults        \* bound on failing calls and unexpected datagrams

Body == [interface : Iface, prefix : Prefix, preferred : Nat, valid : Nat,
         dns : SUBSET Server, dns_lifetime : Nat]

ASSUME RaAssumption ==
    /\ ListenInterfaces \subseteq Iface
    /\ NewPrefixes \subseteq Body
    /\ DefaultLifetime \in Nat \ {0}
    /\ MaxQueue \in Nat /\ MaxApiCalls \in Nat /\ MaxFaults \in Nat

VARIABLES
    ia_prefixes,     \* rows [id, body]
    seq,             \* the AUTOINCREMENT counter
    stage,           \* where each task is
    back,            \* where send_ra returns to
    rows,            \* the rows send_ra has read
    queue,           \* datagrams waiting in each socket
    ready,           \* the readiness AsyncFd holds for each socket
    fresh,           \* it was set after the task took its guard
    due,             \* the interval has elapsed
    heard,           \* history: the last advertisement on each link
    asked,           \* history: solicited, and no advertisement since
    erred,           \* history: recvfrom has failed
    calls, faults

tableVars == <<ia_prefixes, seq>>
taskVars == <<stage, back, rows>>
sockVars == <<queue, ready, fresh, erred>>
linkVars == <<heard, asked>>
vars == <<tableVars, taskVars, sockVars, linkVars, due, calls, faults>>

Row == [id : Nat, body : Body]

Stage == {"start", "timer", "select", "drain", "read", "send", "stopped"}

Advertisement ==
    [prefixes : SUBSET [prefix : Prefix, valid : Nat, preferred : Nat],
     servers : SUBSET Server, dns_lifetime : Nat]

(* send_ra holds prefixes from its query to its send: some, and only those *)
(* of its own interface.                                                   *)
RowsFit(i) ==
    IF stage[i] = "send"
    THEN rows[i] # {} /\ \A r \in rows[i] : r.body.interface = i
    ELSE rows[i] = {}

(***************************************************************************)
(* The types, and the shape of what send_ra holds across its await: an     *)
(* advertisement is only built from a non-empty list of the interface's    *)
(* own prefixes (the is_empty() return of send_ra).                        *)
(***************************************************************************)
TypeOK ==
    /\ ia_prefixes \subseteq Row
    /\ seq \in Nat
    /\ stage \in [ListenInterfaces -> Stage]
    /\ back \in [ListenInterfaces -> {"timer", "select", "drain"}]
    /\ rows \in [ListenInterfaces -> SUBSET Row]
    /\ \A i \in ListenInterfaces : RowsFit(i)
    /\ queue \in [ListenInterfaces -> Seq({"RS", "other"})]
    /\ ready \in [ListenInterfaces -> BOOLEAN]
    /\ fresh \in [ListenInterfaces -> BOOLEAN]
    /\ due \in [ListenInterfaces -> BOOLEAN]
    /\ heard \in [ListenInterfaces -> Advertisement]
    /\ asked \in [ListenInterfaces -> BOOLEAN]
    /\ erred \in [ListenInterfaces -> BOOLEAN]
    /\ calls \in Nat /\ faults \in Nat

-----------------------------------------------------------------------------
(* The payload. *)

(***************************************************************************)
(* One Prefix Information option per row, and one RDNSS option with every  *)
(* server of every row and the longest DNS lifetime of all rows.           *)
(***************************************************************************)
build_router_advertisement(rs) ==
    LET servers == UNION {r.body.dns : r \in rs}
    IN  [prefixes |-> {[prefix |-> r.body.prefix, valid |-> r.body.valid,
                        preferred |-> r.body.preferred] : r \in rs},
         servers  |-> servers,
         dns_lifetime |-> IF servers = {} THEN 0
                          ELSE Max({r.body.dns_lifetime : r \in rs})]

NoAdvertisement == [prefixes |-> {}, servers |-> {}, dns_lifetime |-> 0]

(* The statements on ia_prefixes; an INSERT takes the next id. *)
create_ia_prefix(b) == ia_prefixes \cup {[id |-> seq + 1, body |-> b]}

update_ia_prefix(id, b) ==
    {IF r.id = id THEN [id |-> id, body |-> b] ELSE r : r \in ia_prefixes}

delete_ia_prefix(id) == {r \in ia_prefixes : r.id # id}

list_ia_prefixes(i) == {r \in ia_prefixes : r.body.interface = i}

Init ==
    /\ ia_prefixes = {} /\ seq = 0
    /\ stage = [i \in ListenInterfaces |-> "start"]
    /\ back = [i \in ListenInterfaces |-> "timer"]
    /\ rows = [i \in ListenInterfaces |-> {}]
    /\ queue = [i \in ListenInterfaces |-> <<>>]
    /\ ready = [i \in ListenInterfaces |-> FALSE]
    /\ fresh = [i \in ListenInterfaces |-> FALSE]
    /\ due = [i \in ListenInterfaces |-> FALSE]
    /\ heard = [i \in ListenInterfaces |-> NoAdvertisement]
    /\ asked = [i \in ListenInterfaces |-> FALSE]
    /\ erred = [i \in ListenInterfaces |-> FALSE]
    /\ calls = 0 /\ faults = 0

Ok  == UNCHANGED faults
Err == faults < MaxFaults /\ faults' = faults + 1

At(i, s) == stage[i] = s
Goto(i, s) == stage' = [stage EXCEPT ![i] = s]

-----------------------------------------------------------------------------
(* One task. *)

CallSendRa(i, from) ==
    /\ Goto(i, "read")
    /\ back' = [back EXCEPT ![i] = from]
    /\ UNCHANGED rows

(* The first socket call that fails closes the socket and ends the task. *)
create_ra_socket(i) ==
    \/ Ok /\ CallSendRa(i, "timer")
    \/ Err /\ Goto(i, "stopped") /\ UNCHANGED <<back, rows>>

(***************************************************************************)
(* No interface index or no link-local address ends the task for good;     *)
(* with a socket it sends a first advertisement.                           *)
(***************************************************************************)
Start(i) ==
    /\ At(i, "start")
    /\ \/ create_ra_socket(i)
       \/ Err /\ Goto(i, "stopped") /\ UNCHANGED <<back, rows>>
    /\ UNCHANGED <<tableVars, sockVars, linkVars, due, calls>>

(* Mutant: an empty list of prefixes is advertised too. *)
ReadPrefixesUnchecked(i) ==
    /\ At(i, "read")
    /\ \/ /\ Ok
          /\ rows' = [rows EXCEPT ![i] = list_ia_prefixes(i)]
          /\ Goto(i, "send")
       \/ /\ Err
          /\ Goto(i, back[i]) /\ UNCHANGED rows
    /\ UNCHANGED <<tableVars, back, sockVars, linkVars, due, calls>>

(* send_ra: the query; an error or an empty list sends nothing. *)
ReadPrefixes(i) ==
    /\ At(i, "read")
    /\ \/ /\ Ok /\ list_ia_prefixes(i) # {}
          /\ rows' = [rows EXCEPT ![i] = list_ia_prefixes(i)]
          /\ Goto(i, "send")
       \/ /\ (Ok /\ list_ia_prefixes(i) = {}) \/ Err
          /\ Goto(i, back[i]) /\ UNCHANGED rows
    /\ UNCHANGED <<tableVars, back, sockVars, linkVars, due, calls>>

(* sendto ff02::1 *)
do_send_ra(i, payload) ==
    /\ Ok
    /\ heard' = [heard EXCEPT ![i] = payload]
    /\ asked' = [asked EXCEPT ![i] = FALSE]

(* send_ra: a failure to send is logged and forgotten. *)
SendRa(i) ==
    /\ At(i, "send")
    /\ \/ do_send_ra(i, build_router_advertisement(rows[i]))
       \/ Err /\ UNCHANGED linkVars
    /\ Goto(i, back[i])
    /\ rows' = [rows EXCEPT ![i] = {}]
    /\ UNCHANGED <<tableVars, back, sockVars, due, calls>>

(* The interval timer starts after the first advertisement. *)
StartTimer(i) ==
    /\ At(i, "timer")
    /\ Goto(i, "select")
    /\ back' = [back EXCEPT ![i] = "select"]
    /\ Ok
    /\ UNCHANGED <<tableVars, rows, sockVars, linkVars, due, calls>>

(* Mutant: the timer branch forgets to send. *)
TimerBranchSilent(i) ==
    /\ At(i, "select") /\ due[i]
    /\ due' = [due EXCEPT ![i] = FALSE]
    /\ Ok
    /\ UNCHANGED <<tableVars, taskVars, sockVars, linkVars, calls>>

TimerBranch(i) ==
    /\ At(i, "select") /\ due[i]
    /\ due' = [due EXCEPT ![i] = FALSE]
    /\ CallSendRa(i, "select")
    /\ Ok
    /\ UNCHANGED <<tableVars, sockVars, linkVars, calls>>

(* readable() returns a guard, or an error that ends the task. *)
ReadableBranch(i) ==
    /\ At(i, "select") /\ ready[i]
    /\ \/ Ok /\ Goto(i, "drain") /\ fresh' = [fresh EXCEPT ![i] = FALSE]
       \/ Err /\ Goto(i, "stopped") /\ UNCHANGED fresh
    /\ UNCHANGED <<tableVars, back, rows, queue, ready, erred, linkVars, due, calls>>

(* try_recv gives a datagram; only a solicitation is answered. *)
RecvDatagram(i) ==
    /\ At(i, "drain") /\ queue[i] # <<>>
    /\ queue' = [queue EXCEPT ![i] = Tail(queue[i])]
    /\ \/ Head(queue[i]) = "RS" /\ CallSendRa(i, "drain")
       \/ Head(queue[i]) # "RS" /\ UNCHANGED taskVars
    /\ Ok
    /\ UNCHANGED <<tableVars, ready, fresh, erred, linkVars, due, calls>>

(* clear_ready keeps an event that came after the guard was taken. *)
ClearReady(i) ==
    /\ ready' = [ready EXCEPT ![i] = fresh[i]]
    /\ Goto(i, "select")
    /\ UNCHANGED <<back, rows, queue, fresh>>

(* Mutant: one datagram per readiness event instead of draining them all. *)
StopDrainEarly(i) ==
    /\ At(i, "drain")
    /\ ClearReady(i)
    /\ Ok
    /\ UNCHANGED <<tableVars, erred, linkVars, due, calls>>

(* WouldBlock ends the drain loop. *)
StopDrain(i) ==
    /\ At(i, "drain") /\ queue[i] = <<>>
    /\ ClearReady(i)
    /\ Ok
    /\ UNCHANGED <<tableVars, erred, linkVars, due, calls>>

(* Any other error of recvfrom ends it too, whatever is still waiting. *)
RecvError(i) ==
    /\ At(i, "drain")
    /\ Err
    /\ ClearReady(i)
    /\ erred' = [erred EXCEPT ![i] = TRUE]
    /\ UNCHANGED <<tableVars, linkVars, due, calls>>

Task(i) ==
    \/ Start(i) \/ ReadPrefixes(i) \/ SendRa(i) \/ StartTimer(i) \/ TimerBranch(i)
    \/ ReadableBranch(i) \/ RecvDatagram(i) \/ StopDrain(i) \/ RecvError(i)

-----------------------------------------------------------------------------
(* Around it: the link, the clock and the API. *)

(* The ICMPv6 filter passes solicitations; anything else is unexpected. *)
Arrive(i, m) ==
    /\ stage[i] \notin {"start", "stopped"}
    /\ Len(queue[i]) < MaxQueue
    /\ queue' = [queue EXCEPT ![i] = Append(queue[i], m)]
    /\ ready' = [ready EXCEPT ![i] = TRUE]
    /\ fresh' = [fresh EXCEPT ![i] = TRUE]
    /\ \/ m = "RS" /\ Ok /\ asked' = [asked EXCEPT ![i] = TRUE]
       \/ m = "other" /\ Err /\ UNCHANGED asked
    /\ UNCHANGED <<tableVars, taskVars, erred, heard, due, calls>>

TimerFires(i) ==
    /\ stage[i] # "stopped" /\ back[i] # "timer"
    /\ ~ due[i]
    /\ due' = [due EXCEPT ![i] = TRUE]
    /\ UNCHANGED <<tableVars, taskVars, sockVars, linkVars, calls, faults>>

(* A handler runs one statement; a failing one is a 500. *)
Respond(rs, n) ==
    /\ calls < MaxApiCalls
    /\ calls' = calls + 1
    /\ \/ Ok /\ ia_prefixes' = rs /\ seq' = n
       \/ Err /\ UNCHANGED tableVars
    /\ UNCHANGED <<taskVars, sockVars, linkVars, due>>

OrDefault(t) == IF t = 0 THEN DefaultLifetime ELSE t

WithDefaults(b) ==
    [b EXCEPT !.preferred = OrDefault(b.preferred), !.valid = OrDefault(b.valid),
              !.dns_lifetime = OrDefault(b.dns_lifetime)]

CreatePrefix(b) ==
    Respond(create_ia_prefix(WithDefaults(b)), seq + 1)

(* The body is stored as it is. *)
UpdatePrefix(id, b) ==
    Respond(update_ia_prefix(id, b), seq)

DeletePrefix(id) ==
    Respond(delete_ia_prefix(id), seq)

Api ==
    \/ \E b \in NewPrefixes : CreatePrefix(b)
    \/ \E r \in ia_prefixes, b \in NewPrefixes : UpdatePrefix(r.id, b)
    \/ \E r \in ia_prefixes : DeletePrefix(r.id)

Next ==
    \/ \E i \in ListenInterfaces : Task(i)
    \/ \E i \in ListenInterfaces, m \in {"RS", "other"} : Arrive(i, m)
    \/ \E i \in ListenInterfaces : TimerFires(i)
    \/ Api

(***************************************************************************)
(* The runtime polls every task that can go on and the interval timer      *)
(* never stops; hosts and administrators owe nothing.                      *)
(***************************************************************************)
Fairness ==
    \A i \in ListenInterfaces : WF_vars(Task(i)) /\ WF_vars(TimerFires(i))

Spec == Init /\ [][Next]_vars

FairSpec == Spec /\ Fairness

-----------------------------------------------------------------------------
(***************************************************************************)
(* No solicitation waits in the socket of a task that waits for an event   *)
(* it has already consumed: the drain loop of run_on_interface stops on    *)
(* WouldBlock and clear_ready loses no later event, unless recvfrom failed *)
(* with another error.                                                     *)
(***************************************************************************)
NoLostWakeup ==
    \A i \in ListenInterfaces :
        At(i, "select") /\ queue[i] # <<>> => ready[i] \/ erred[i]

(***************************************************************************)
(* A solicitation is followed by an advertisement, if there is a prefix to *)
(* advertise and the task lives: a failing query or send, and a datagram   *)
(* stuck after a failing recvfrom, are made up for by the interval timer.  *)
(* An advertisement of the timer counts, so a wakeup that is lost does not *)
(* show here; that is what NoLostWakeup is for.                            *)
(***************************************************************************)
SolicitationAnswered ==
    \A i \in ListenInterfaces :
        asked[i] ~> (~ asked[i] \/ list_ia_prefixes(i) = {} \/ At(i, "stopped"))

(***************************************************************************)
(* "Changes take effect at the next RA without a restart" (ra/server.rs):  *)
(* hosts eventually hear what the table says, unless it has become empty.  *)
(* README.md says that ndhcpd does not send Router Advertisements itself   *)
(* and leaves them to rtadvd; send_ra does send them.                      *)
(***************************************************************************)
ChangesAdvertised ==
    \A i \in ListenInterfaces :
        (list_ia_prefixes(i) # {})
        ~> (\/ heard[i] = build_router_advertisement(list_ia_prefixes(i))
            \/ list_ia_prefixes(i) = {} \/ At(i, "stopped"))
=============================================================================
