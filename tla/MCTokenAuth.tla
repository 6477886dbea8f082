----------------------------- MODULE MCTokenAuth -----------------------------
(***************************************************************************)
(* Two concurrent requests; requests are interchangeable.                  *)
(***************************************************************************)
EXTENDS TokenAuth, TLC

CONSTANTS r1, r2

MCReq == {r1, r2}

Symmetry == Permutations(MCReq)
=============================================================================
