----------------------------- MODULE MCRouterAdv -----------------------------
(***************************************************************************)
(* One task, on e0; e1 is a name a prefix may be moved to.                 *)
(***************************************************************************)
EXTENDS RouterAdv

MCPrefix == {"p", "q"}

PrefixBody(i, p, t, d) ==
    [interface |-> i, prefix |-> p, preferred |-> t, valid |-> t, dns |-> d,
     dns_lifetime |-> t]

MCBodies ==
    {PrefixBody("e0", "p", 0, {"ns"}), PrefixBody("e0", "q", 2, {}),
     PrefixBody("e1", "p", 2, {"ns"})}
=============================================================================
