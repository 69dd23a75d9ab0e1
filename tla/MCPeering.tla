----------------------------- MODULE MCPeering -----------------------------
(* Two brokers that are peers, of different sizes. *)
EXTENDS Peering

CONSTANTS b1, b2, c1, c2, c3, w1, w2, w3

BrokersDef == {b1, b2}
ClientsDef == {c1, c2, c3}
WorkersDef == {w1, w2, w3}
HomeDef == [x \in ClientsDef \union WorkersDef |-> IF x \in {c3, w2} THEN b2 ELSE b1]
PeersDef == [b \in BrokersDef |-> BrokersDef \ {b}]

=============================================================================
