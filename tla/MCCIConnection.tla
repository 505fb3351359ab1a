----------------------------- MODULE MCCIConnection -----------------------------
(***************************************************************************)
(* Two requests at work, four in all, for one project of each provider.    *)
(* The requests are interchangeable.                                       *)
(***************************************************************************)
EXTENDS CIConnection, TLC

CONSTANTS r1, r2

MCReq == {r1, r2}
Symmetry == Permutations(MCReq)
=============================================================================
