------------------------------ MODULE LBBroker ------------------------------
(***************************************************************************)
(* The load-balancing brokers of src/src/loadbalance, lbbroker.c and its   *)
(* version in CZMQ, lbbroker2.c: one process whose main thread runs the    *)
(* broker between two ROUTER sockets, and whose other threads are          *)
(* NBR_CLIENTS clients and NBR_WORKERS workers with a REQ socket each.     *)
(* Threads, sockets, polling and the queue of workers are the same in both *)
(* programs; lbbroker2.c counts no replies and, an interrupt apart, has no *)
(* way out of its loop.                                                    *)
(*                                                                         *)
(* A socket is modelled by the queue of unread messages in each direction, *)
(* one per peer because a ROUTER keeps its peers apart.  A message is what *)
(* the code looks at: on the way from a worker the frame in which the      *)
(* broker finds either the worker's "ready" text or a client's address, on *)
(* the way to a client the worker that wrote the reply.  Identities are    *)
(* taken to be distinct (s_set_id draws 32 random bits per socket).        *)
(***************************************************************************)
EXTENDS Naturals, Sequences, FiniteSets, Functions

CONSTANTS
  Clients,   \* the client threads, named by the identity of their socket
  Workers,   \* the worker threads, likewise
  NoClient   \* stands for "no client address"

ASSUME NoClientAssumption == NoClient \notin Clients
ASSUME ThreadsAssumption ==
  /\ IsFiniteSet(Clients) /\ Clients # {}
  /\ IsFiniteSet(Workers) /\ Workers # {}

NBR_CLIENTS == Cardinality(Clients)
NBR_WORKERS == Cardinality(Workers)

(* A ready message names no client: its third frame starts with 'w'. *)
READY == NoClient

VARIABLES
  program,       \* "lbbroker" or "lbbroker2"; fixed
  client,        \* client[c]: "start", "waiting" in s_recv, or "done"
  worker,        \* worker[w]: "start", or "loop" once ready has been sent
  id,            \* id[w]: the client address the worker is about to answer
  frontIn,       \* the clients whose request the frontend has not read yet
  frontOut,      \* frontOut[c]: replies on their way to client c
  backIn,        \* backIn[w]: messages of worker w the backend has not read
  backOut,       \* backOut[w]: requests on their way to worker w
  broker,        \* where main() is: "poll", "backend", "frontend", "close",
                 \* "exit"
  frontendPolled,\* whether the last poll reported input on the frontend
  worker_queue,  \* the identities in worker_queue[0..available_workers-1]
  client_nbr     \* replies still to be forwarded before main() stops

threadVars == <<client, worker, id>>
wireVars   == <<frontIn, frontOut, backIn, backOut>>
brokerVars == <<program, broker, frontendPolled, worker_queue, client_nbr>>
vars       == <<threadVars, wireVars, brokerVars>>

available_workers == Len(worker_queue)

Init ==
  /\ program \in {"lbbroker", "lbbroker2"}
  /\ client = [c \in Clients |-> "start"]
  /\ worker = [w \in Workers |-> "start"]
  /\ id = [w \in Workers |-> NoClient]
  /\ frontIn = {}
  /\ frontOut = [c \in Clients |-> <<>>]
  /\ backIn = [w \in Workers |-> <<>>]
  /\ backOut = [w \in Workers |-> <<>>]
  /\ broker = "poll"
  /\ frontendPolled = FALSE
  /\ worker_queue = <<>>
  /\ client_nbr = NBR_CLIENTS

-----------------------------------------------------------------------------
(* The threads.  They run until main() returns, which ends the process.    *)

Running == broker # "exit"

ClientSend(c) ==
  /\ Running
  /\ client[c] = "start"
  /\ client' = [client EXCEPT ![c] = "waiting"]
  /\ frontIn' = frontIn \union {c}
  /\ UNCHANGED <<worker, id, frontOut, backIn, backOut, brokerVars>>

ClientRecv(c) ==
  /\ Running
  /\ client[c] = "waiting"
  /\ frontOut[c] # <<>>
  /\ client' = [client EXCEPT ![c] = "done"]
  /\ frontOut' = [frontOut EXCEPT ![c] = Tail(@)]
  /\ UNCHANGED <<worker, id, frontIn, backIn, backOut, brokerVars>>

WorkerReady(w) ==
  /\ Running
  /\ worker[w] = "start"
  /\ worker' = [worker EXCEPT ![w] = "loop"]
  /\ backIn' = [backIn EXCEPT ![w] = Append(@, READY)]
  /\ UNCHANGED <<client, id, frontIn, frontOut, backOut, brokerVars>>

WorkerRecv(w) ==
  /\ Running
  /\ worker[w] = "loop"
  /\ id[w] = NoClient
  /\ backOut[w] # <<>>
  /\ id' = [id EXCEPT ![w] = Head(backOut[w])]
  /\ backOut' = [backOut EXCEPT ![w] = Tail(@)]
  /\ UNCHANGED <<client, worker, frontIn, frontOut, backIn, brokerVars>>

WorkerReply(w) ==
  /\ Running
  /\ id[w] # NoClient
  /\ backIn' = [backIn EXCEPT ![w] = Append(@, id[w])]
  /\ id' = [id EXCEPT ![w] = NoClient]
  /\ UNCHANGED <<client, worker, frontIn, frontOut, backOut, brokerVars>>

-----------------------------------------------------------------------------
(* The broker.                                                             *)

BackendInput  == \E w \in Workers : backIn[w] # <<>>
(* The mistake of polling the frontend while no worker is available. *)
FrontendInputUnguarded == frontIn # {}
FrontendInput == available_workers > 0 /\ frontIn # {}

Poll ==
  /\ broker = "poll"
  /\ BackendInput \/ FrontendInput
  /\ frontendPolled' = FrontendInput
  /\ broker' = IF BackendInput THEN "backend" ELSE "frontend"
  /\ UNCHANGED <<program, threadVars, wireVars, worker_queue, client_nbr>>

AfterBackend == IF frontendPolled THEN "frontend" ELSE "poll"

(* Every message from a worker makes it available, at the end of the queue. *)
(* The assert(available_workers<NBR_WORKERS) on the way is no guard but an  *)
(* invariant, CapacityAssertion below.                                      *)
TakeFromBackend(w) ==
  /\ broker = "backend"
  /\ backIn[w] # <<>>
  /\ worker_queue' = Append(worker_queue, w)
  /\ backIn' = [backIn EXCEPT ![w] = Tail(@)]

(* The mistake of counting a ready message as a reply. *)
BackendReadyCounted(w) ==
  /\ TakeFromBackend(w)
  /\ Head(backIn[w]) = READY
  /\ client_nbr' = client_nbr - 1
  /\ broker' = AfterBackend
  /\ UNCHANGED <<program, threadVars, frontIn, frontOut, backOut, frontendPolled>>

BackendReady(w) ==
  /\ TakeFromBackend(w)
  /\ Head(backIn[w]) = READY
  /\ broker' = AfterBackend
  /\ UNCHANGED <<program, threadVars, frontIn, frontOut, backOut, frontendPolled,
                 client_nbr>>

(* A message that is not a ready message is a reply and is forwarded. *)
Reply(w) ==
  /\ TakeFromBackend(w)
  /\ Head(backIn[w]) # READY
  /\ frontOut' = [frontOut EXCEPT ![Head(backIn[w])] = Append(@, w)]
  /\ UNCHANGED <<program, threadVars, frontIn, backOut, frontendPolled>>

(* The mistake of stopping one reply early (a pre-decrement too many). *)
BackendReplyEarlyStop(w) ==
  /\ program = "lbbroker" /\ Reply(w)
  /\ client_nbr' = client_nbr - 1
  /\ broker' = IF client_nbr' <= 1 THEN "close" ELSE AfterBackend

(* The mistake of counting down, and stopping, before forwarding. *)
BackendReplyStopFirst(w) ==
  /\ program = "lbbroker" /\ TakeFromBackend(w)
  /\ Head(backIn[w]) # READY
  /\ frontOut' = IF client_nbr = 1 THEN frontOut
                 ELSE [frontOut EXCEPT ![Head(backIn[w])] = Append(@, w)]
  /\ client_nbr' = client_nbr - 1
  /\ broker' = IF client_nbr' = 0 THEN "close" ELSE AfterBackend
  /\ UNCHANGED <<program, threadVars, frontIn, backOut, frontendPolled>>

(* lbbroker.c counts its replies. *)
BackendReply(w) ==
  /\ program = "lbbroker" /\ Reply(w)
  /\ client_nbr' = client_nbr - 1
  /\ broker' = IF client_nbr' = 0 THEN "close" ELSE AfterBackend

(* The mistake of enqueueing a worker only when it says it is ready. *)
ForwardReplyOnly(w) ==
  /\ program = "lbbroker2" /\ broker = "backend"
  /\ backIn[w] # <<>> /\ Head(backIn[w]) # READY
  /\ backIn' = [backIn EXCEPT ![w] = Tail(@)]
  /\ frontOut' = [frontOut EXCEPT ![Head(backIn[w])] = Append(@, w)]
  /\ broker' = AfterBackend
  /\ UNCHANGED <<program, threadVars, frontIn, backOut, frontendPolled,
                 worker_queue, client_nbr>>

(* lbbroker2.c goes on. *)
ForwardReply(w) ==
  /\ program = "lbbroker2" /\ Reply(w)
  /\ broker' = AfterBackend
  /\ UNCHANGED client_nbr

(* The mistake of handing out a worker without taking it off the queue. *)
FrontendNoDequeue(c) ==
  /\ broker = "frontend"
  /\ c \in frontIn
  /\ frontIn' = frontIn \ {c}
  /\ backOut' = [backOut EXCEPT ![Head(worker_queue)] = Append(@, c)]
  /\ broker' = "poll"
  /\ UNCHANGED <<program, threadVars, frontOut, backIn, frontendPolled, worker_queue,
                 client_nbr>>

Frontend(c) ==
  /\ broker = "frontend"
  /\ c \in frontIn
  /\ frontIn' = frontIn \ {c}
  /\ backOut' = [backOut EXCEPT ![Head(worker_queue)] = Append(@, c)]
  /\ worker_queue' = Tail(worker_queue)
  /\ broker' = "poll"
  /\ UNCHANGED <<program, threadVars, frontOut, backIn, frontendPolled, client_nbr>>

(* Closing the sockets waits until what was sent has left; then main()     *)
(* returns and takes every other thread with it.                           *)
Exit ==
  /\ broker = "close"
  /\ broker' = "exit"
  /\ UNCHANGED <<program, threadVars, wireVars, frontendPolled, worker_queue,
                 client_nbr>>

-----------------------------------------------------------------------------

ClientStep(c) == ClientSend(c) \/ ClientRecv(c)
WorkerStep(w) == WorkerReady(w) \/ WorkerRecv(w) \/ WorkerReply(w)
BrokerStep ==
  \/ Poll
  \/ \E w \in Workers : BackendReady(w) \/ BackendReply(w)
  \/ \E c \in Clients : Frontend(c)
  \/ Exit
BrokerStep2 ==
  \/ Poll
  \/ \E w \in Workers : BackendReady(w) \/ ForwardReply(w)
  \/ \E c \in Clients : Frontend(c)

Next1 ==
  \/ \E c \in Clients : ClientStep(c)
  \/ \E w \in Workers : WorkerStep(w)
  \/ BrokerStep

Next2 ==
  \/ \E c \in Clients : ClientStep(c)
  \/ \E w \in Workers : WorkerStep(w)
  \/ BrokerStep2

Next ==
  \/ program = "lbbroker" /\ Next1
  \/ program = "lbbroker2" /\ Next2

Spec == Init /\ [][Next]_vars

(* Every thread is scheduled again and again by the operating system. *)
Fairness ==
  /\ \A c \in Clients : WF_vars(ClientStep(c))
  /\ \A w \in Workers : WF_vars(WorkerStep(w))
  /\ WF_vars(BrokerStep \/ BrokerStep2)

FairSpec == Spec /\ Fairness

-----------------------------------------------------------------------------

TypeOK ==
  /\ program \in {"lbbroker", "lbbroker2"}
  /\ client \in [Clients -> {"start", "waiting", "done"}]
  /\ worker \in [Workers -> {"start", "loop"}]
  /\ id \in [Workers -> Clients \union {NoClient}]
  /\ frontIn \in SUBSET Clients
  /\ frontOut \in [Clients -> Seq(Workers)]
  /\ backIn \in [Workers -> Seq(Clients \union {READY})]
  /\ backOut \in [Workers -> Seq(Clients)]
  /\ broker \in {"poll", "backend", "frontend", "close", "exit"}
  /\ frontendPolled \in BOOLEAN
  /\ worker_queue \in Seq(Workers)
  /\ client_nbr \in 0 .. NBR_CLIENTS

(* The assertion of lbbroker.c:149: when a worker's message is read, fewer *)
(* than NBR_WORKERS workers are on the queue, so that the array, which     *)
(* nothing else bounds, never overflows.                                   *)
CapacityAssertion == broker = "backend" => available_workers < NBR_WORKERS

(* main() reads a worker off the queue only when there is one: the poll    *)
(* that reported the frontend saw an available worker, and none was given  *)
(* away since.                                                             *)
FrontendHasWorker == broker = "frontend" => available_workers > 0

(* The worker at the other end of w's connection holds a client address:   *)
(* in the request travelling to it, in its buffer, or in its reply.        *)
Holds(w, c) ==
  \/ c \in Range(backOut[w])
  \/ id[w] = c
  \/ c \in Range(backIn[w])

Answered(c) == client[c] = "done" \/ frontOut[c] # <<>>

(* A worker on the queue is on it once, waits in s_recv and has nothing    *)
(* travelling in either direction, so that a request given to it is the    *)
(* only one it works on (the point of least-recently-used balancing).      *)
QueuedIsIdle ==
  \A i \in DOMAIN worker_queue :
    LET w == worker_queue[i]
    IN  /\ worker[w] = "loop" /\ id[w] = NoClient
        /\ backIn[w] = <<>> /\ backOut[w] = <<>>
        /\ \A j \in DOMAIN worker_queue : worker_queue[j] = w => j = i

(* A request is never lost and never copied: from the send until the reply *)
(* is forwarded it is unread on the frontend or with exactly one worker,   *)
(* and after that with neither.                                            *)
OneCopy ==
  \A c \in Clients :
    LET holders == {w \in Workers : Holds(w, c)}
    IN  /\ client[c] = "start" => c \notin frontIn /\ holders = {}
        /\ Answered(c) => c \notin frontIn /\ holders = {}
        /\ client[c] = "waiting" /\ ~Answered(c) =>
             IF c \in frontIn THEN holders = {} ELSE Cardinality(holders) = 1

(* The broker closes its sockets only after a reply for every client has   *)
(* been handed to the frontend.                                            *)
AllAnsweredAtClose ==
  broker \in {"close", "exit"} => \A c \in Clients : Answered(c)

(* lbbroker.c ends, which it does only by forwarding its last reply.  Since*)
(* lbbroker2.c goes on, every client prints its reply.  Which worker takes *)
(* a request, and when workers enlist, does not matter.                    *)
EveryClientServed ==
  IF program = "lbbroker" THEN <>(broker = "exit")
  ELSE \A c \in Clients : <>(client[c] = "done")

(* lbbroker2.c:55-56 claims "the identical functionality to the previous   *)
(* lbbroker broker example"; that example ends once it has served its      *)
(* clients (lbbroker.c:164).                                               *)
TerminatesLikeLBBroker == program = "lbbroker2" => <>(broker = "exit")

-----------------------------------------------------------------------------
(* The inductive invariant behind the properties above.                    *)

Quiet(w) == id[w] = NoClient /\ backIn[w] = <<>> /\ backOut[w] = <<>>

(* The phases of a worker that is not on the queue: not started, offered,  *)
(* given the request of c, working on it, done with it.                    *)
Fresh(w)      == worker[w] = "start" /\ Quiet(w)
Offered(w)    == id[w] = NoClient /\ backIn[w] = <<READY>> /\ backOut[w] = <<>>
Given(w, c)   == id[w] = NoClient /\ backIn[w] = <<>> /\ backOut[w] = <<c>>
Working(w, c) == id[w] = c /\ backIn[w] = <<>> /\ backOut[w] = <<>>
Replied(w, c) == id[w] = NoClient /\ backIn[w] = <<c>> /\ backOut[w] = <<>>
Has(w, c)     == Given(w, c) \/ Working(w, c) \/ Replied(w, c)

Queued(w) == \E i \in DOMAIN worker_queue : worker_queue[i] = w

WorkerPhases ==
  \A w \in Workers :
    IF Queued(w) THEN worker[w] = "loop" /\ Quiet(w)
    ELSE \/ Fresh(w)
         \/ /\ worker[w] = "loop"
            /\ Offered(w) \/ \E c \in Clients : Has(w, c)

QueueInjective ==
  \A i, j \in DOMAIN worker_queue : worker_queue[i] = worker_queue[j] => i = j

Unanswered == {c \in Clients : ~Answered(c)}

ClientPhases ==
  \A c \in Clients :
    /\ frontOut[c] # <<>> => client[c] = "waiting" /\ Tail(frontOut[c]) = <<>>
    /\ c \in frontIn => client[c] = "waiting" /\ frontOut[c] = <<>>
    /\ \A w \in Workers : Has(w, c) =>
         client[c] = "waiting" /\ frontOut[c] = <<>> /\ c \notin frontIn
    /\ \A v, w \in Workers : Has(v, c) /\ Has(w, c) => v = w
    /\ client[c] = "waiting" /\ frontOut[c] = <<>> /\ c \notin frontIn =>
         \E w \in Workers : Has(w, c)

BrokerPhases ==
  /\ broker = "backend" => \E w \in Workers : backIn[w] # <<>>
  /\ broker = "backend" /\ frontendPolled => worker_queue # <<>>
  /\ broker = "frontend" => worker_queue # <<>>
  /\ broker \in {"close", "exit"} => program = "lbbroker" /\ client_nbr = 0

RepliesCounted ==
  program = "lbbroker" => client_nbr = Cardinality(Unanswered)

IInv ==
  /\ TypeOK /\ WorkerPhases /\ QueueInjective /\ ClientPhases
  /\ BrokerPhases /\ RepliesCounted

-----------------------------------------------------------------------------
(* What the abstract broker sees of this state.                            *)

requestBar ==
  [c \in Clients |->
     IF client[c] = "start" THEN "none"
     ELSE IF c \in frontIn THEN "waiting"
     ELSE IF Answered(c) THEN "answered"
     ELSE "assigned"]

jobBar ==
  [w \in Workers |->
     IF backOut[w] # <<>> THEN Head(backOut[w])
     ELSE IF backIn[w] # <<>> THEN Head(backIn[w])
     ELSE id[w]]

LB == INSTANCE LoadBalancing
        WITH request <- requestBar, job <- jobBar, idle <- Range(worker_queue)

(* Every step is a step of the abstract load balancer or invisible to it. *)
ImplementsLoadBalancing == LB!Spec

=============================================================================
