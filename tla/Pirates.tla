------------------------------ MODULE Pirates -------------------------------
(***************************************************************************)
(* The Lazy Pirate clients of src/src/lpp/client.c in front of the queue   *)
(* and workers of src/src/ppq: the queue binds the port the clients        *)
(* connect to (queue.c:70, client.c:6), and the retries that it does       *)
(* without come from them.                                                 *)
(*                                                                         *)
(* The clients are those of LazyPirateClient, with the queue for a server; *)
(* the queue and the workers are those of ParanoidPirate, whose requests   *)
(* are the tries of the clients.  Time is kept, for clients too, and       *)
(* passes only while every process waits.  The queue stays up, clients     *)
(* start when all workers are listed, and workers fail MaxFaults times.    *)
(***************************************************************************)
EXTENDS ParanoidPirate

CONSTANTS
  Clients, REQUEST_TIMEOUT, REQUEST_RETRIES,
  MaxSequence,  \* bound: requests per client
  MaxFaults     \* bound: failures of workers

(* The tries of the clients are requests of the queue: a client renews its *)
(* socket once per retry.                                                  *)
ASSUME TriesAssumption ==
  /\ REQUEST_RETRIES \in Nat \ {0} /\ MaxSequence \in Nat
  /\ [client : Clients, socket : 0 .. MaxSequence * (REQUEST_RETRIES - 1),
      sequence : 1 .. MaxSequence] \subseteq Requests

VARIABLES
  state, sequence, retries_left, socket, poll, reply,  \* of the clients
  faults        \* how often a worker has been stopped, crashed or fallen ill

clientVars == <<state, sequence, retries_left, socket, poll, reply>>
pirateVars == <<vars, clientVars, faults>>

C == INSTANCE LazyPirateClient
       WITH healthy <- TRUE, wire <- front, server <- queue

PiratesInit == Init /\ C!ClientInit /\ faults = 0

Ready(c) == sequence[c] > 0 \/ Len(workers) = Cardinality(Workers)

ClientTurn(c) ==
  /\ Ready(c)
  /\ C!ClientLoop(c)
  /\ UNCHANGED <<faults, queueVars, toQueue, toWorker, workerVars>>

(* A reply read from connection b reaches the socket that asked, if that   *)
(* still exists.  The mistake: a client takes replies to its earlier ones. *)
DeliveredAnyway(b) ==
  [c \in Clients |->
     IF b # None /\ \E r \in Requests : Head(toQueue[b]) = r /\ r.client = c
     THEN Head(toQueue[b]).sequence ELSE reply[c]]
Delivered(b) ==
  [c \in Clients |->
     IF b # None /\ \E r \in Requests : /\ Head(toQueue[b]) = r
                                        /\ r.client = c /\ r.socket = socket[c]
     THEN Head(toQueue[b]).sequence ELSE reply[c]]

QueueServes ==
  /\ \E b \in Readable(BackendInput), f \in Readable(FrontendInput) :
       /\ b # None \/ f # None \/ queue_poll = 0
       /\ QueueTurn(b, f)
       /\ reply' = Delivered(b)
  /\ UNCHANGED <<faults, state, sequence, retries_left, socket, poll>>

WorkerTurn(w) ==
  /\ \/ WorkerReply(w) \/ WorkerWake(w) \/ WorkerHeard(w)
     \/ WorkerTimeout(w) \/ WorkerGiveUp(w) \/ WorkerReconnect(w)
  /\ UNCHANGED <<clientVars, faults>>

WorkerBegins(w) == WorkerStart(w) /\ UNCHANGED <<clientVars, faults>>

WorkerFails(w) ==
  /\ faults < MaxFaults /\ faults' = faults + 1
  /\ WorkerCrash(w) \/ WorkerOverload(w) \/ WorkerStop(w)
  /\ UNCHANGED clientVars

TimePasses ==
  /\ \A c \in Clients : Ready(c) => ~C!ClientRunnable(c)
  /\ Tick
  /\ poll' = [c \in Clients |-> C!Lower(poll[c])]
  /\ UNCHANGED <<faults, state, sequence, retries_left, socket, reply>>

GoesOn ==
  \/ \E c \in Clients : ClientTurn(c)
  \/ QueueServes
  \/ \E w \in Workers : WorkerTurn(w)
  \/ TimePasses

PiratesNext ==
  GoesOn \/ \E w \in Workers : WorkerBegins(w) \/ WorkerFails(w)

PiratesSpec == PiratesInit /\ [][PiratesNext]_pirateVars

(* Something goes on as long as anything can, apart from failures and      *)
(* workers that might be started again: time cannot stand still for ever.  *)
FairPirates == PiratesSpec /\ WF_pirateVars(GoesOn)

-----------------------------------------------------------------------------

(* The clients' retries make up for what the queue loses: with a worker    *)
(* left after one of them has failed, and although the queue may go on     *)
(* listing the one that has, no client runs out of tries.                  *)
SurvivesOneFault ==
  faults <= 1 => \A c \in Clients : retries_left[c] > 0

(* Nor can a late reply, to an earlier try that a worker still had when    *)
(* the client gave up on it, be taken for the reply to the present one.    *)
NoStaleReplyThroughQueue == C!NoStaleReply

(* The wires, by the end they lead to, and the request q on them: whether  *)
(* it sits anywhere unread, and that it does so in one place only.         *)
Places == {"toQueue", "toWorker"} \X Ids
On(p) == IF p[1] = "toQueue" THEN toQueue[p[2]] ELSE toWorker[p[2]]

Occurs(q, mail) == \E k \in DOMAIN mail : mail[k] = q
Once(q, mail) == \A k, n \in DOMAIN mail : mail[k] = q /\ mail[n] = q => k = n

Sits(q) == q \in front \/ \E p \in Places : Occurs(q, On(p))
Single(q) ==
  \A p \in Places : Occurs(q, On(p)) =>
    /\ Once(q, On(p)) /\ q \notin front
    /\ \A r \in Places : Occurs(q, On(r)) => r = p

(* Queue and workers make no copies: routing, failing, reconnecting under  *)
(* another name and answering, they have each try in one place at most,    *)
(* and of one request no more tries than its client has made.              *)
Tries(c) ==
  {q \in Requests : Sits(q) /\ q.client = c /\ q.sequence = sequence[c]}
NoCopiesMade ==
  /\ \A q \in Requests : Single(q)
  /\ \A c \in Clients : state[c] = "expect_reply" =>
       Cardinality(Tries(c)) + retries_left[c] <= REQUEST_RETRIES + 1

(* Every request is answered in the end, whichever worker fails meanwhile. *)
EveryTryPaysOff ==
  \A c \in Clients : state[c] = "expect_reply" ~>
                     state[c] = "ask" \/ faults > 1

=============================================================================
