------------------------------- MODULE Peering -------------------------------
(***************************************************************************)
(* The local and cloud flow of peering brokers, src/src/cloud/lcflow.c.    *)
(* Each broker routes the requests of its local clients, and those that    *)
(* its peers send it, to local workers, or now and then a local client's   *)
(* request to a peer, and routes the replies back by their envelopes.      *)
(*                                                                         *)
(* Messages are the frames the brokers push, pop and compare: identities   *)
(* and READY, the innermost one last.  Empty delimiters and texts are left *)
(* out.  A socket's messages are a set: no two are alike, since REQ asks   *)
(* once at a time.                                                         *)
(*                                                                         *)
(* The threads of the code use REP sockets, in which a send that nobody    *)
(* asked for fails, so that they wait for ever.  The brokers' endpoints    *)
(* are open to other processes, though: pattern says which of the two      *)
(* kinds the clients and workers are, the code's or external REQ sockets.  *)
(***************************************************************************)
EXTENDS Naturals, Sequences, FiniteSets

CONSTANTS
  Brokers, Clients, Workers,
  Home,          \* Home[x]: the broker to which client or worker x connects
  Peers,         \* Peers[b]: the arguments of broker b, after its own name
  READY          \* WORKER_READY

ASSUME HomeAssumption == Home \in [Clients \union Workers -> Brokers]

(* Who names a peer is named by it: otherwise replies find no way back. *)
ASSUME PeersAssumption ==
  /\ Peers \in [Brokers -> SUBSET Brokers]
  /\ \A a, b \in Brokers : b \in Peers[a] => a # b /\ a \in Peers[b]

ASSUME NamesAssumption ==
  /\ Brokers \intersect Clients = {} /\ Brokers \intersect Workers = {}
  /\ Clients \intersect Workers = {}
  /\ READY \notin Brokers \union Clients \union Workers

VARIABLES
  pattern,       \* "REP" or "REQ"; fixed
  client,        \* client[c]: "send" or "recv"
  worker,        \* worker[w]: "start" or "recv"
  main,          \* main[b]: "enter" until Enter is pressed, then which poll
                 \* is next: "backends" or "frontends"
  workers, capacity,
  localfe, cloudfe, localbe, cloudbe,  \* messages each socket has to read
  toWorker,      \* toWorker[w]: messages worker w has to read
  toClient       \* the clients whose reply has arrived

brokerVars == <<main, workers, capacity>>
threadVars == <<pattern, client, worker>>
socketVars == <<localfe, cloudfe, localbe, cloudbe, toWorker, toClient>>
vars       == <<brokerVars, threadVars, socketVars>>

Init ==
  /\ pattern \in {"REP", "REQ"}
  /\ client = [c \in Clients |-> "send"]
  /\ worker = [w \in Workers |-> "start"]
  /\ main = [b \in Brokers |-> "enter"]
  /\ workers = [b \in Brokers |-> <<>>] /\ capacity = [b \in Brokers |-> 0]
  /\ localfe = [b \in Brokers |-> {}] /\ cloudfe = [b \in Brokers |-> {}]
  /\ localbe = [b \in Brokers |-> {}] /\ cloudbe = [b \in Brokers |-> {}]
  /\ toWorker = [w \in Workers |-> {}] /\ toClient = {}

Put(sockets, s, msg) == [sockets EXCEPT ![s] = @ \union {msg}]
Drop(sockets, s, msg) == [sockets EXCEPT ![s] = @ \ {msg}]

-----------------------------------------------------------------------------
(* _client_task and _worker_task.                                          *)

Started(x) == main[Home[x]] # "enter"

(* A client asks for ever.  The result of the send is not looked at. *)
ClientSend(c) ==
  /\ Started(c) /\ client[c] = "send"
  /\ client' = [client EXCEPT ![c] = "recv"]
  /\ localfe' = IF pattern = "REQ" THEN Put(localfe, Home[c], <<c>>) ELSE localfe
  /\ UNCHANGED <<brokerVars, pattern, worker, cloudfe, localbe, cloudbe,
                 toWorker, toClient>>

ClientRecv(c) ==
  /\ client[c] = "recv" /\ c \in toClient
  /\ toClient' = toClient \ {c}
  /\ client' = [client EXCEPT ![c] = "send"]
  /\ UNCHANGED <<brokerVars, pattern, worker, localfe, cloudfe,
                 localbe, cloudbe, toWorker>>

WorkerReady(w) ==
  /\ Started(w) /\ worker[w] = "start"
  /\ worker' = [worker EXCEPT ![w] = "recv"]
  /\ localbe' = IF pattern = "REQ" THEN Put(localbe, Home[w], <<w, READY>>)
                ELSE localbe
  /\ UNCHANGED <<brokerVars, pattern, client, localfe, cloudfe, cloudbe,
                 toWorker, toClient>>

(* The envelope goes back as it came. *)
WorkerServe(w, msg) ==
  /\ worker[w] = "recv" /\ msg \in toWorker[w]
  /\ toWorker' = Drop(toWorker, w, msg)
  /\ localbe' = Put(localbe, Home[w], <<w>> \o msg)
  /\ UNCHANGED <<brokerVars, threadVars, localfe, cloudfe, cloudbe, toClient>>

-----------------------------------------------------------------------------
(* main: the backends, a message of which has lost its sender's frame when *)
(* it is routed on.                                                        *)

Enter(b) ==
  /\ main[b] = "enter"
  /\ main' = [main EXCEPT ![b] = "backends"]
  /\ UNCHANGED <<workers, capacity, threadVars, socketVars>>

(* What msg on localfe adds to the clients that have been answered: a      *)
(* ROUTER drops what is addressed to an identity it does not know.         *)
Answered(b, msg) == {c \in Clients : c = Head(msg) /\ Home[c] = b}

(* The mistake of sending every reply to a local client. *)
RouteLocally(b, msg, unread) ==
  /\ cloudbe' = unread
  /\ toClient' = toClient \union Answered(b, msg)

(* A reply that begins with a peer's name leaves by cloudfe, for the       *)
(* cloudbe of that peer; any other one by localfe.  unread is what the     *)
(* sockets cloudbe hold besides.                                           *)
Route(b, msg, unread) ==
  IF Head(msg) \in Peers[b]
  THEN /\ cloudbe' = Put(unread, Head(msg), <<b>> \o Tail(msg))
       /\ UNCHANGED toClient
  ELSE /\ cloudbe' = unread
       /\ toClient' = toClient \union Answered(b, msg)

(* A worker has become free, and sends a reply unless it has just started. *)
LocalBackend(b) ==
  /\ main[b] = "backends"
  /\ \E msg \in localbe[b] :
       /\ localbe' = Drop(localbe, b, msg)
       /\ workers' = [workers EXCEPT ![b] = Append(@, Head(msg))]
       /\ IF Head(Tail(msg)) = READY THEN UNCHANGED <<cloudbe, toClient>>
          ELSE Route(b, Tail(msg), cloudbe)
  /\ capacity' = [capacity EXCEPT ![b] = @ + 1]
  /\ main' = [main EXCEPT ![b] = "frontends"]
  /\ UNCHANGED <<threadVars, localfe, cloudfe, toWorker>>

(* A peer's reply, looked at when no worker has sent anything. *)
CloudBackend(b) ==
  /\ main[b] = "backends" /\ localbe[b] = {}
  /\ \E msg \in cloudbe[b] : Route(b, Tail(msg), Drop(cloudbe, b, msg))
  /\ main' = [main EXCEPT ![b] = "frontends"]
  /\ UNCHANGED <<workers, capacity, threadVars, localfe, cloudfe, localbe,
                 toWorker>>

(* The mistake of a poll without a timeout. *)
BackendsSilentNever(b) == FALSE /\ UNCHANGED vars

(* The poll ends after a second when there is capacity, never otherwise. *)
BackendsSilent(b) ==
  /\ main[b] = "backends" /\ localbe[b] = {} /\ cloudbe[b] = {}
  /\ capacity[b] > 0
  /\ main' = [main EXCEPT ![b] = "frontends"]
  /\ UNCHANGED <<workers, capacity, threadVars, socketVars>>

-----------------------------------------------------------------------------
(* main: the frontends, as long as there is capacity.                      *)

(* The next request goes to the worker that has been free for longest.     *)
Assign(b, msg) ==
  LET w == Head(workers[b])
  IN  /\ workers' = [workers EXCEPT ![b] = Tail(@)]
      /\ capacity' = [capacity EXCEPT ![b] = @ - 1]
      /\ toWorker' = Put(toWorker, w, msg)
      /\ UNCHANGED cloudbe

(* Or it goes to a peer, whose cloudfe puts this broker's name before it;  *)
(* the mistake of counting that as work done here.                         *)
RerouteCounted(b, peer, msg, unread) ==
  /\ cloudfe' = Put(unread, peer, <<b>> \o msg)
  /\ capacity' = [capacity EXCEPT ![b] = @ - 1]
  /\ UNCHANGED <<workers, toWorker>>
Reroute(b, peer, msg, unread) ==
  /\ cloudfe' = Put(unread, peer, <<b>> \o msg)
  /\ UNCHANGED <<workers, capacity, toWorker>>

(* A peer's request; the mistake of leaving reroutable set, so that it may *)
(* be sent on.                                                             *)
CloudRequestRerouted(b) ==
  /\ \E msg \in cloudfe[b] :
       \/ cloudfe' = Drop(cloudfe, b, msg) /\ Assign(b, msg)
       \/ \E peer \in Peers[b] :
            Reroute(b, peer, msg, Drop(cloudfe, b, msg)) /\ UNCHANGED cloudbe
  /\ UNCHANGED localfe
CloudRequest(b) ==
  /\ \E msg \in cloudfe[b] :
       cloudfe' = Drop(cloudfe, b, msg) /\ Assign(b, msg)
  /\ UNCHANGED localfe

(* A local request, looked at when no peer has sent one; randof decides. *)
LocalRequest(b) ==
  /\ cloudfe[b] = {}
  /\ \E msg \in localfe[b] :
       /\ localfe' = Drop(localfe, b, msg)
       /\ \/ Assign(b, msg) /\ UNCHANGED cloudfe
          \/ \E peer \in Peers[b] :
               Reroute(b, peer, msg, cloudfe) /\ UNCHANGED cloudbe

Frontends(b) ==
  /\ main[b] = "frontends" /\ capacity[b] > 0
  /\ CloudRequest(b) \/ LocalRequest(b)
  /\ UNCHANGED <<main, threadVars, localbe, toClient>>

FrontendsDone(b) ==
  /\ main[b] = "frontends"
  /\ capacity[b] = 0 \/ (cloudfe[b] = {} /\ localfe[b] = {})
  /\ main' = [main EXCEPT ![b] = "backends"]
  /\ UNCHANGED <<workers, capacity, threadVars, socketVars>>

-----------------------------------------------------------------------------

ClientStep(c) == ClientSend(c) \/ ClientRecv(c)
WorkerStep(w) == WorkerReady(w) \/ \E msg \in toWorker[w] : WorkerServe(w, msg)
BrokerStep(b) ==
  \/ LocalBackend(b) \/ CloudBackend(b) \/ BackendsSilent(b)
  \/ Frontends(b) \/ FrontendsDone(b)

Next ==
  \/ \E c \in Clients : ClientStep(c)
  \/ \E w \in Workers : WorkerStep(w)
  \/ \E b \in Brokers : Enter(b) \/ BrokerStep(b)

Spec == Init /\ [][Next]_vars

(* The messages in the sockets, each with its place. *)
InFlight ==
  (UNION {{<<"localfe", b, msg>> : msg \in localfe[b]}
          \union {<<"cloudfe", b, msg>> : msg \in cloudfe[b]}
          \union {<<"localbe", b, msg>> : msg \in localbe[b]}
          \union {<<"cloudbe", b, msg>> : msg \in cloudbe[b]} : b \in Brokers})
  \union (UNION {{<<"worker", w, msg>> : msg \in toWorker[w]} : w \in Workers})
  \union {<<"client", c, <<c>>>> : c \in toClient}

Asker(place) == place[3][Len(place[3])]

(* What c asked for, or its answer, is read from its socket; or it stays   *)
(* there while another message is read from the same socket.               *)
TurnTaken(c) == \E p \in InFlight : Asker(p) = c /\ p \notin InFlight'
PassedOver(c) ==
  \E p \in InFlight \intersect InFlight' : \E q \in InFlight :
    Asker(p) = c /\ q \notin InFlight' /\ q[1] = p[1] /\ q[2] = p[2]

(* A ROUTER reads its connections in turn, and each of them in order: a    *)
(* message that others are read before again and again is read as well.    *)
FairQueueing ==
  \A c \in Clients :
    []<><<PassedOver(c)>>_vars => []<><<TurnTaken(c)>>_vars

(* Threads are scheduled, polls return; nobody has to press Enter. *)
FairSpec ==
  /\ Spec
  /\ \A c \in Clients : WF_vars(ClientStep(c))
  /\ \A w \in Workers : WF_vars(WorkerStep(w))
  /\ \A b \in Brokers : WF_vars(BrokerStep(b))
  /\ FairQueueing

-----------------------------------------------------------------------------

(* Envelopes, the client innermost. *)
Names == Brokers \union Clients \union Workers \union {READY}
Envelope == {<<a, b>> : a, b \in Names} \union {<<c>> : c \in Clients}
            \union {<<a, b, c>> : a, b, c \in Names}

TypeOK ==
  /\ pattern \in {"REP", "REQ"}
  /\ client \in [Clients -> {"send", "recv"}]
  /\ worker \in [Workers -> {"start", "recv"}]
  /\ main \in [Brokers -> {"enter", "backends", "frontends"}]
  /\ workers \in [Brokers -> Seq(Workers)]
  /\ capacity \in [Brokers -> Nat]
  /\ localfe \in [Brokers -> SUBSET Envelope]
  /\ cloudfe \in [Brokers -> SUBSET Envelope]
  /\ localbe \in [Brokers -> SUBSET Envelope]
  /\ cloudbe \in [Brokers -> SUBSET Envelope]
  /\ toWorker \in [Workers -> SUBSET Envelope]
  /\ toClient \in SUBSET Clients

Quiet(w) ==
  /\ worker[w] = "recv" /\ toWorker[w] = {}
  /\ \A msg \in localbe[Home[w]] : Head(msg) # w

(* capacity is the number of workers on the list, through requests that    *)
(* are kept and requests that are passed on, so that zlist_pop always      *)
(* finds one; and whom it finds is a free worker of this broker, listed    *)
(* once.                                                                   *)
CapacityIsFreeWorkers ==
  \A b \in Brokers :
    LET list == workers[b]
    IN  /\ capacity[b] = Len(list)
        /\ \A k, n \in DOMAIN list : list[k] = list[n] => k = n
        /\ \A k \in DOMAIN list : Home[list[k]] = b /\ Quiet(list[k])

(* Whatever its way through the cloud, the request of a client that waits  *)
(* is in exactly one place, as a request or a reply, and that of any other *)
(* client in none: no ROUTER drops one for want of a way back.             *)
OneCopyInCloud ==
  \A c \in Clients :
    Cardinality({p \in InFlight : Asker(p) = c}) =
      IF pattern = "REQ" /\ client[c] = "recv" THEN 1 ELSE 0

(* A request is passed on once at most: when a worker gets it, its         *)
(* envelope holds the client alone, at home, or the client's broker as     *)
(* well, at a peer of that one.                                            *)
ReroutedOnce ==
  \A w \in Workers : \A msg \in toWorker[w] :
    LET c == msg[Len(msg)]
    IN  IF Home[c] = Home[w] THEN msg = <<c>> ELSE msg = <<Home[c], c>>

(* A poll prefers another socket to the one in which c is waiting:         *)
(* lcflow.c:157 takes a peer's request before a local one, lcflow.c:113 a  *)
(* worker's message before a peer's reply.                                 *)
Preferred(c) ==
  LET b == Home[c]
  IN  \/ <<c>> \in localfe[b] /\ Frontends(b) /\ cloudfe'[b] # cloudfe[b]
      \/ (\E msg \in cloudbe[b] : msg[Len(msg)] = c) /\ LocalBackend(b)

(* Clients ask for ever, and when all brokers run and each has a worker    *)
(* every request is answered, at home or through a peer, although a broker *)
(* hears no request while it has no free worker: capacity and the polls    *)
(* leave a client behind only where the broker's preferences do, that is   *)
(* when its own broker goes on for ever taking requests of peers before    *)
(* it, or messages of workers before its reply from a peer.  lcflow.c      *)
(* excludes neither.                                                       *)
EveryRequestAnswered ==
  \A c \in Clients :
    \/ []<><<Preferred(c)>>_vars
    \/ /\ pattern = "REQ" /\ client[c] = "recv"
       /\ \A b \in Brokers : main[b] # "enter"
       ~> client[c] = "send"

-----------------------------------------------------------------------------
(* What one load balancer would see of this state, whose workers are those *)
(* of all brokers together.                                                *)

Innermost(msg) == msg[Len(msg)]

(* A worker holds a request until its broker has read the reply. *)
WorksFor(w, c) ==
  \/ \E msg \in toWorker[w] : Innermost(msg) = c
  \/ \E msg \in localbe[Home[w]] : Head(msg) = w /\ Innermost(msg) = c

(* A reply may yet have to pass a peer. *)
Replied(c) ==
  c \in toClient \/ \E msg \in cloudbe[Home[c]] : Innermost(msg) = c

Progress(c) ==
  IF client[c] = "send" THEN "none"
  ELSE IF Replied(c) THEN "answered"
  ELSE IF \E w \in Workers : WorksFor(w, c) THEN "assigned"
  ELSE "waiting"
requestBar == [c \in Clients |-> Progress(c)]

NoClient == READY
jobBar ==
  [w \in Workers |-> IF \E c \in Clients : WorksFor(w, c)
                     THEN CHOOSE c \in Clients : WorksFor(w, c)
                     ELSE NoClient]

Listed(w) == \E k \in DOMAIN workers[Home[w]] : workers[Home[w]][k] = w
idleBar == {w \in Workers : Listed(w)}

LB == INSTANCE LoadBalancing
        WITH request <- requestBar, job <- jobBar, idle <- idleBar

(* Peered brokers balance as one: whichever way a request goes, one worker *)
(* on some broker's list gets it, and its answer, not another's, comes     *)
(* back to the client that asked.                                          *)
ImplementsLoadBalancing == LB!Spec

=============================================================================
