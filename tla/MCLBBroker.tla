----------------------------- MODULE MCLBBroker -----------------------------
(* LBBroker on small sets of threads. *)
EXTENDS LBBroker

=============================================================================
