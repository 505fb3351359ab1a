--------------------------- MODULE MCOutboundWebhook ---------------------------
(***************************************************************************)
(* Small instances of OutboundWebhook. Messages are interchangeable, and   *)
(* so are admins, in the runs that check no liveness.                      *)
(***************************************************************************)
EXTENDS OutboundWebhook, TLC

Symmetry == Permutations(Msg) \cup Permutations(Admin)
=============================================================================
