---------------------------- MODULE MCMDPClient -----------------------------
(* MDPClient with few services, tries and calls. *)
EXTENDS MDPClient

=============================================================================
