--------------------------- MODULE LoadBalancing ---------------------------
(***************************************************************************)
(* What a load-balancing broker promises, whatever sockets it is built     *)
(* from: a request is given to one idle worker, a worker holds one request *)
(* at a time, and the answer goes back to the client that asked.           *)
(* LBBroker (src/src/loadbalance/lbbroker.c) is shown to implement it, and *)
(* so are the brokers of Peering (src/src/cloud/lcflow.c) together.        *)
(***************************************************************************)

CONSTANTS
  Clients, Workers,
  NoClient  \* no member of Clients

VARIABLES
  request,  \* request[c]: how far the request of client c has come
  job,      \* job[w]: the client whose request worker w holds, or NoClient
  idle      \* the workers that have offered themselves and hold no request

vars == <<request, job, idle>>

RequestState == {"none", "waiting", "assigned", "answered"}

Init ==
  /\ request = [c \in Clients |-> "none"]
  /\ job = [w \in Workers |-> NoClient]
  /\ idle = {}

(* A client asks. *)
Ask(c) ==
  /\ request[c] = "none"
  /\ request' = [request EXCEPT ![c] = "waiting"]
  /\ UNCHANGED <<job, idle>>

(* A client takes its answer, and may ask again. *)
Take(c) ==
  /\ request[c] = "answered"
  /\ request' = [request EXCEPT ![c] = "none"]
  /\ UNCHANGED <<job, idle>>

(* A worker offers itself for the first time. *)
Enlist(w) ==
  /\ w \notin idle
  /\ job[w] = NoClient
  /\ idle' = idle \union {w}
  /\ UNCHANGED <<request, job>>

(* A waiting request is given to an idle worker. *)
Assign(c, w) ==
  /\ request[c] = "waiting"
  /\ w \in idle
  /\ request' = [request EXCEPT ![c] = "assigned"]
  /\ job' = [job EXCEPT ![w] = c]
  /\ idle' = idle \ {w}

(* The worker's answer reaches the client, and the worker is idle again. *)
Answer(w) ==
  /\ job[w] # NoClient
  /\ request[job[w]] = "assigned"
  /\ request' = [request EXCEPT ![job[w]] = "answered"]
  /\ job' = [job EXCEPT ![w] = NoClient]
  /\ idle' = idle \union {w}

Next ==
  \/ \E c \in Clients : Ask(c) \/ Take(c)
  \/ \E w \in Workers : Enlist(w) \/ Answer(w)
  \/ \E c \in Clients, w \in Workers : Assign(c, w)

Spec == Init /\ [][Next]_vars

=============================================================================
