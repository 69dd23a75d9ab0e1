----------------------------- MODULE MCPirates ------------------------------
(* Pirates with few processes and the times of the code in half seconds. *)
EXTENDS Pirates

TriesDef == [client : Clients, socket : 0 .. 4,
             sequence : 1 .. MaxSequence]

=============================================================================
