----------------------------- MODULE MCRuntime -----------------------------
(***************************************************************************)
(* Interfaces e0 (managed, with an address and a MAC) and e1 (managed by   *)
(* one configuration, with neither), and the datagrams that take every     *)
(* branch of the parser and of the reply path.                             *)
(***************************************************************************)
EXTENDS Runtime

MCIface == {"e0", "e1"}
MCIfaceIps == [i \in MCIface |-> IF i = "e0" THEN <<<<10, 0, 0, 1>>>> ELSE <<>>]
MCIfaceMac == [i \in MCIface |-> IF i = "e0" THEN <<"m0">> ELSE <<>>]

(* "plain" leaves all it may to the defaults; 20000 * 7 exceeds U32;       *)
(* "headless" lacks the interfaces, "partial" has no dhcp section.         *)
MCYaml ==
    [plain |-> [listen_interfaces |-> {"e0"}, api |-> [require_authentication |-> TRUE],
                dhcp |-> [default_lease_time |-> 9001]],
     full |-> [listen_interfaces |-> {"e0", "e1"}, api |-> [unix_socket |-> FALSE],
               dhcp |-> [default_lease_time |-> 20000], ra |-> TRUE],
     headless |-> [api |-> [unix_socket |-> TRUE], dhcp |-> <<>>],
     partial |-> [listen_interfaces |-> {"e0"}, api |-> [require_authentication |-> TRUE]]]

MCInitialFiles ==
    {[given |-> "full", local |-> Missing, default |-> FALSE],
     [given |-> "headless", local |-> Missing, default |-> TRUE],
     [given |-> "partial", local |-> "plain", default |-> TRUE],
     [given |-> Missing, local |-> "plain", default |-> FALSE],
     [given |-> Missing, local |-> "plain", default |-> TRUE]}

Gateway == <<10, 0, 0, 1>>
Short == [gateway |-> Gateway, netmask |-> 23, dns_servers |-> <<<<9, 9, 9, 9>>>>,
          domain_name |-> <<<<108, 97, 110>>>>]
Long == [gateway |-> Gateway, netmask |-> 24, dns_servers |-> [i \in 1..64 |-> <<8, 8, 8, i>>],
         domain_name |-> <<>>]
MCDecisions == {[ip |-> <<10, 0, 0, 200>>, subnet |-> s] : s \in {Short, Long}}

Fields(broadcast, ciaddr, giaddr) ==
    [op |-> 1, xid |-> 7, broadcast |-> broadcast, ciaddr |-> ciaddr, yiaddr |-> Unspecified,
     siaddr |-> Unspecified, giaddr |-> giaddr, chaddr |-> "c1"]

Plain == Fields(FALSE, Unspecified, Unspecified)
Flagged == Fields(TRUE, Unspecified, Unspecified)
Renewing == Fields(FALSE, <<10, 0, 0, 200>>, Unspecified)
Relayed == Fields(FALSE, <<10, 0, 0, 200>>, <<10, 1, 0, 1>>)
AllOnes == Fields(FALSE, Broadcast, Unspecified)

Discover == <<53, 1, 1, 255>>
Request == <<0, 53, 1, 3, 50, 4, 10, 0, 0, 200, 255>>

On(iface, data) == [iface |-> iface, data |-> data]

MCDatagrams ==
    {On("e0", Datagram(Plain, TRUE, Discover)),
     On("e1", Datagram(Flagged, TRUE, Discover)),
     On("e0", Datagram(Renewing, TRUE, Request)),
     On("e0", Datagram(Relayed, TRUE, Request)),
     On("e0", Datagram(AllOnes, TRUE, Request)),
     On("e0", ShortDatagram),
     On("unknown", Datagram(Plain, TRUE, Discover)),
     On("e0", Datagram(Plain, FALSE, Discover)),                \* no cookie
     On("e0", Datagram(Plain, TRUE, <<53, 1>>)),                \* truncated
     On("e0", Datagram(Plain, TRUE, <<12>>)),                   \* no length
     On("e0", Datagram(Plain, TRUE, <<51, 1, 9, 53, 1, 99, 53, 1, 7>>))}  \* RELEASE

MCLateDatagrams ==
    {On("e0", Datagram(Plain, TRUE, Discover)), On("e0", Datagram(AllOnes, TRUE, Request)),
     On("e0", ShortDatagram)}
=============================================================================
