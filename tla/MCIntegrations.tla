------------------------------ MODULE MCIntegrations ------------------------------
(***************************************************************************)
(* Integrations with two of each actor: requests, applications, processes, *)
(* people and chats.                                                       *)
(***************************************************************************)
EXTENDS Integrations, TLC

CONSTANTS w1, w2, a1, a2, b1, b2, root, none

Workers   == {w1, w2}
Pair      == {a1, a2}
Team      == {root, a1, a2}
Booters   == {b1, b2}
LinkCodes == 1..2

Symmetry == Permutations(Workers) \cup Permutations(Pair) \cup Permutations(Booters)
=============================================================================
