--------------------------- MODULE ParanoidPirate ---------------------------
(***************************************************************************)
(* The heartbeating queue and workers of src/src/ppq: queue.c routes the   *)
(* requests of its frontend ROUTER to the least recently used worker of    *)
(* its backend ROUTER, worker.c is a DEALER that answers, falls ill or     *)
(* crashes, and each side takes the other for dead when it stays silent.   *)
(*                                                                         *)
(* Time.  A deadline the code keeps as an absolute time (expiry,           *)
(* heartbeat_at, the end of a poll or a sleep) is kept here as the time    *)
(* left until it, which Tick shortens, down to 0 ("reached") or, for the   *)
(* worker's heartbeat_at, which is compared with ">", to -1 ("passed").    *)
(* What a process does between two blocking calls is one step: only the    *)
(* poll and the sleeps let other processes in, the sockets do the rest.    *)
(*                                                                         *)
(* Identities.  The backend ROUTER generates one for every connection.     *)
(* Names are taken from a finite pool, and a name is used again only when  *)
(* no trace of its last use is left anywhere.                              *)
(*                                                                         *)
(* Wires.  toQueue[i] and toWorker[i] hold what was sent on connection i   *)
(* and not read.  When an end goes away, CZMQ closes its sockets with      *)
(* linger 0: messages that have not crossed yet may be lost.  A ROUTER     *)
(* drops what is addressed to a connection that no longer exists.          *)
(***************************************************************************)
EXTENDS Integers, Sequences, FiniteSets

CONSTANTS
  Workers,             \* worker processes
  Ids,                 \* routing identities of backend connections
  Requests,            \* requests, each from a client socket of its own
  None,                \* no identity, no request
  READY, HEARTBEAT,    \* PPP_READY and PPP_HEARTBEAT
  HEARTBEAT_LIVENESS, HEARTBEAT_INTERVAL,
  INTERVAL_INIT, INTERVAL_MAX,
  WORK, OVERLOAD,      \* the sleep(1) and sleep(3) of the worker
  GRACE,               \* requests a worker serves before it may misbehave
  Modes,               \* the values of prompt below
  Interrupts,          \* TRUE: processes may be stopped from outside
  MaxLag,              \* bound: without promptness, time stops while a wire
                       \* holds more messages
  MaxWire              \* bound: the longest wire a stop of the queue cuts

ASSUME TimesAssumption ==
  /\ HEARTBEAT_LIVENESS \in Nat \ {0} /\ HEARTBEAT_INTERVAL \in Nat \ {0}
  /\ INTERVAL_INIT \in Nat \ {0} /\ INTERVAL_MAX \in Nat
  /\ INTERVAL_INIT <= INTERVAL_MAX
  /\ WORK \in Nat /\ OVERLOAD \in Nat /\ GRACE \in Nat /\ MaxLag \in Nat
  /\ MaxWire \in Nat
ASSUME NamesAssumption ==
  /\ None \notin Ids /\ None \notin Requests
  /\ READY \notin Requests /\ HEARTBEAT \notin Requests
ASSUME ModesAssumption == Modes \subseteq BOOLEAN /\ Interrupts \in BOOLEAN

VARIABLES
  prompt,       \* whether time passes only while every process waits: if not,
                \* every race of a deadline with a message can occur; fixed
  queue,        \* "up" or "down"
  workers,      \* the queue's list of workers believed ready
  queue_beat,   \* heartbeat_at of the queue
  queue_poll,   \* time left of the queue's poll
  front,        \* requests the frontend has not read
  toQueue, toWorker,
  pc,           \* pc[w]: "down", "poll", "sleep" in a request, or "backoff"
  conn,         \* conn[w]: identity of the worker's connection
  timer,        \* timer[w]: time left of the poll or the sleep
  liveness, interval, heartbeat_at, cycles

queueVars  == <<prompt, queue, workers, queue_beat, queue_poll>>
wireVars   == <<front, toQueue, toWorker>>
workerVars == <<pc, conn, timer, liveness, interval, heartbeat_at, cycles>>
vars       == <<queueVars, wireVars, workerVars>>

(* The term of a worker, and the mistake of one interval only. *)
ExpiryOneInterval == HEARTBEAT_INTERVAL
EXPIRY == HEARTBEAT_INTERVAL * HEARTBEAT_LIVENESS

Entry == [identity : Ids, expiry : 0 .. EXPIRY]

Listed(list) == {list[k].identity : k \in DOMAIN list}
Connected(i) == \E w \in Workers : conn[w] = i

(* No process and no message refers to identity i. *)
Unused(i) ==
  /\ ~Connected(i) /\ i \notin Listed(workers)
  /\ toQueue[i] = <<>> /\ toWorker[i] = <<>>

Init ==
  /\ prompt \in Modes
  /\ queue = "up" /\ workers = <<>>
  /\ queue_beat = HEARTBEAT_INTERVAL /\ queue_poll = HEARTBEAT_INTERVAL
  /\ front = {}
  /\ toQueue = [i \in Ids |-> <<>>] /\ toWorker = [i \in Ids |-> <<>>]
  /\ pc = [w \in Workers |-> "down"]
  /\ conn = [w \in Workers |-> None]
  /\ timer = [w \in Workers |-> 0]
  /\ liveness = [w \in Workers |-> HEARTBEAT_LIVENESS]
  /\ interval = [w \in Workers |-> INTERVAL_INIT]
  /\ heartbeat_at = [w \in Workers |-> HEARTBEAT_INTERVAL]
  /\ cycles = [w \in Workers |-> 0]

-----------------------------------------------------------------------------
(* queue.c.  The list is kept in order of expiry, the oldest first.        *)

(* The list without its first entry for identity i. *)
Without(list, i) ==
  IF i \notin Listed(list) THEN list
  ELSE LET k == CHOOSE n \in DOMAIN list :
                  /\ list[n].identity = i
                  /\ \A m \in 1 .. n - 1 : list[m].identity # i
       IN  SubSeq(list, 1, k - 1) \o SubSeq(list, k + 1, Len(list))

(* Mistakes: adding without removing; renewing the entry where it is;      *)
(* renewing known workers only.                                            *)
WorkerReadyAdded(list, i) == Append(list, [identity |-> i, expiry |-> EXPIRY])
WorkerReadyInPlace(list, i) ==
  IF i \in Listed(list)
  THEN [k \in DOMAIN list |-> IF list[k].identity = i
                              THEN [identity |-> i, expiry |-> EXPIRY]
                              ELSE list[k]]
  ELSE WorkerReadyAdded(list, i)
WorkerReadyKnown(list, i) ==
  IF i \in Listed(list) THEN WorkerReadyAdded(Without(list, i), i) ELSE list

(* _worker_new and _worker_ready: any message of worker i puts it at the   *)
(* end of the list with a full term, in place of the entry it had.         *)
WorkerReady(list, i) ==
  Append(Without(list, i), [identity |-> i, expiry |-> EXPIRY])

(* The mistake of leaving the call out. *)
PurgeOmitted(list) == list

(* _worker_purge: drop entries from the front until one has not expired. *)
Purge(list) ==
  IF \A k \in DOMAIN list : list[k].expiry = 0 THEN <<>>
  ELSE LET k == CHOOSE n \in DOMAIN list :
                  /\ list[n].expiry > 0
                  /\ \A m \in 1 .. n - 1 : list[m].expiry = 0
       IN  SubSeq(list, k, Len(list))

BackendInput  == {i \in Ids : toQueue[i] # <<>>}
FrontendInput == IF workers # <<>> THEN front ELSE {}
QueueRunnable ==
  queue = "up" /\ (BackendInput # {} \/ FrontendInput # {} \/ queue_poll = 0)

(* What one poll may report of a socket: a message to read, or nothing,    *)
(* which a message sent just now justifies unless everything is prompt.    *)
Readable(input) == IF prompt /\ input # {} THEN input ELSE input \union {None}

(* One turn of the loop that reads the next message of connection b and    *)
(* the request f, where None stands for a socket without input.  A worker's*)
(* control message ends here, its reply goes out on the frontend.          *)
QueueTurn(b, f) ==
  LET heard == IF b = None THEN workers ELSE WorkerReady(workers, b)
      rest  == IF f = None THEN heard ELSE Tail(heard)
      beat  == queue_beat = 0
      Sent(i) ==
        (IF f # None /\ Head(heard).identity = i THEN <<f>> ELSE <<>>)
        \o (IF beat /\ i \in Listed(rest) THEN <<HEARTBEAT>> ELSE <<>>)
  IN  /\ workers' = Purge(rest)
      /\ queue_beat' = IF beat THEN HEARTBEAT_INTERVAL ELSE queue_beat
      /\ queue_poll' = HEARTBEAT_INTERVAL
      /\ front' = front \ {f}
      /\ toQueue' = [i \in Ids |-> IF i = b THEN Tail(toQueue[i])
                                   ELSE toQueue[i]]
      /\ toWorker' = [i \in Ids |-> IF Connected(i)
                                    THEN toWorker[i] \o Sent(i)
                                    ELSE toWorker[i]]
      /\ UNCHANGED <<prompt, queue, workerVars>>

QueueLoop ==
  /\ queue = "up"
  /\ \E b \in Readable(BackendInput), f \in Readable(FrontendInput) :
       /\ b # None \/ f # None \/ queue_poll = 0
       /\ QueueTurn(b, f)

(* A request from a socket that has no other request under way. *)
Submit(r) ==
  /\ r \notin front
  /\ \A i \in Ids : /\ \A k \in DOMAIN toQueue[i] : toQueue[i][k] # r
                    /\ \A k \in DOMAIN toWorker[i] : toWorker[i][k] # r
  /\ front' = front \union {r}
  /\ UNCHANGED <<queueVars, toQueue, toWorker, workerVars>>

(* Ways to cut every connection's wire in two. *)
Cuts(wire) ==
  {n \in [Ids -> 0 .. MaxWire] : \A i \in Ids : n[i] <= Len(wire[i])}

(* The queue ends.  What it has received and not read, or not yet sent, is *)
(* gone: of each wire stays what is still on the side of a live peer.      *)
QueueStop ==
  /\ Interrupts /\ queue = "up"
  /\ queue' = "down" /\ workers' = <<>>
  /\ queue_beat' = 0 /\ queue_poll' = 0
  /\ front' \in SUBSET front
  /\ \E lost \in Cuts(toQueue) :
       /\ \A i \in Ids : Connected(i) \/ lost[i] = Len(toQueue[i])
       /\ toQueue' = [i \in Ids |->
                        SubSeq(toQueue[i], lost[i] + 1, Len(toQueue[i]))]
  /\ \E got \in Cuts(toWorker) :
       toWorker' = [i \in Ids |-> SubSeq(toWorker[i], 1, got[i])]
  /\ UNCHANGED <<prompt, workerVars>>

QueueStart ==
  /\ queue = "down"
  /\ queue' = "up"
  /\ queue_beat' = HEARTBEAT_INTERVAL /\ queue_poll' = HEARTBEAT_INTERVAL
  /\ UNCHANGED <<prompt, workers, wireVars, workerVars>>

-----------------------------------------------------------------------------
(* worker.c.                                                               *)

Rest(w, state, time) ==
  /\ pc' = [pc EXCEPT ![w] = state]
  /\ timer' = [timer EXCEPT ![w] = time]

(* The end of the loop: a heartbeat when it is more than due, then a poll. *)
(* sent is what the worker has sent in this turn already.                  *)
PollAgain(w, i, sent) ==
  LET due == heartbeat_at[w] < 0
  IN  /\ Rest(w, "poll", HEARTBEAT_INTERVAL)
      /\ heartbeat_at' =
           [heartbeat_at EXCEPT ![w] = IF due THEN HEARTBEAT_INTERVAL ELSE @]
      /\ toQueue' = [toQueue EXCEPT ![i] =
           @ \o sent \o (IF due THEN <<HEARTBEAT>> ELSE <<>>)]

(* A new process: _worker_socket and the variables of main.  A second      *)
(* unused identity is left for a process that reconnects (a bound).        *)
WorkerStart(w) ==
  /\ pc[w] = "down"
  /\ Rest(w, "poll", HEARTBEAT_INTERVAL)
  /\ \E i, spare \in Ids :
       /\ Unused(i) /\ Unused(spare) /\ i # spare
       /\ conn' = [conn EXCEPT ![w] = i]
       /\ toQueue' = [toQueue EXCEPT ![i] = <<READY>>]
  /\ UNCHANGED <<queueVars, front, toWorker, liveness, interval, heartbeat_at,
                 cycles>>

(* How much of what was sent on connection i survives its closing.         *)
Arrived(i) == IF queue = "up" THEN 0 .. Len(toQueue[i]) ELSE {0}

(* The process ends.  Of what it has sent, the first n messages arrive. *)
WorkerExit(w) ==
  /\ Rest(w, "down", 0)
  /\ conn' = [conn EXCEPT ![w] = None]
  /\ liveness' = [liveness EXCEPT ![w] = HEARTBEAT_LIVENESS]
  /\ interval' = [interval EXCEPT ![w] = INTERVAL_INIT]
  /\ heartbeat_at' = [heartbeat_at EXCEPT ![w] = HEARTBEAT_INTERVAL]
  /\ cycles' = [cycles EXCEPT ![w] = 0]
  /\ \E n \in Arrived(conn[w]) :
       toQueue' = [toQueue EXCEPT ![conn[w]] = SubSeq(@, 1, n)]
  /\ toWorker' = [toWorker EXCEPT ![conn[w]] = <<>>]
  /\ UNCHANGED <<queueVars, front>>

WorkerStop(w) == Interrupts /\ pc[w] # "down" /\ WorkerExit(w)

(* The poll reports message m. *)
Polled(w, m) ==
  pc[w] = "poll" /\ toWorker[conn[w]] # <<>> /\ m = Head(toWorker[conn[w]])

(* The mistake of looking at a message without taking it. *)
ReadLeft(w) == UNCHANGED toWorker
Read(w) == toWorker' = [toWorker EXCEPT ![conn[w]] = Tail(@)]

(* ++cycles, of which the code only asks whether it exceeds GRACE. *)
Count(w) ==
  cycles' = [cycles EXCEPT ![w] = IF @ > GRACE THEN @ ELSE @ + 1]

WorkerCrash(w) ==
  /\ \E r \in Requests : Polled(w, r)
  /\ cycles[w] >= GRACE
  /\ WorkerExit(w)

(* The request is gone without a reply when the worker wakes up. *)
WorkerOverload(w) ==
  /\ \E r \in Requests : Polled(w, r)
  /\ cycles[w] >= GRACE
  /\ Count(w) /\ Read(w) /\ Rest(w, "sleep", OVERLOAD)
  /\ UNCHANGED <<queueVars, front, toQueue, conn, liveness, interval,
                 heartbeat_at>>

WorkerReply(w) ==
  \E r \in Requests :
    /\ Polled(w, r)
    /\ Count(w) /\ Read(w) /\ Rest(w, "sleep", WORK)
    /\ toQueue' = [toQueue EXCEPT ![conn[w]] = Append(@, r)]
    /\ UNCHANGED <<queueVars, front, conn, liveness, interval, heartbeat_at>>

(* The sleep is over: interval is reset, liveness is not. *)
WorkerWake(w) ==
  /\ pc[w] = "sleep" /\ timer[w] = 0
  /\ interval' = [interval EXCEPT ![w] = INTERVAL_INIT]
  /\ PollAgain(w, conn[w], <<>>)
  /\ UNCHANGED <<queueVars, front, toWorker, conn, liveness, cycles>>

WorkerHeard(w) ==
  /\ Polled(w, HEARTBEAT)
  /\ Read(w)
  /\ liveness' = [liveness EXCEPT ![w] = HEARTBEAT_LIVENESS]
  /\ interval' = [interval EXCEPT ![w] = INTERVAL_INIT]
  /\ PollAgain(w, conn[w], <<>>)
  /\ UNCHANGED <<queueVars, front, conn, cycles>>

(* The poll reports nothing. *)
PolledNothing(w) ==
  pc[w] = "poll" /\ timer[w] = 0 /\ (prompt => toWorker[conn[w]] = <<>>)

WorkerTimeout(w) ==
  /\ PolledNothing(w)
  /\ liveness[w] > 1
  /\ liveness' = [liveness EXCEPT ![w] = @ - 1]
  /\ PollAgain(w, conn[w], <<>>)
  /\ UNCHANGED <<queueVars, front, toWorker, conn, interval, cycles>>

(* --liveness==0: sleep before reconnecting. *)
WorkerGiveUp(w) ==
  /\ PolledNothing(w)
  /\ liveness[w] = 1
  /\ Rest(w, "backoff", interval[w])
  /\ UNCHANGED <<queueVars, wireVars, conn, liveness, interval, heartbeat_at,
                 cycles>>

(* The interval before the reconnection after this one, and the mistake of *)
(* doubling it without limit.                                              *)
DoubledAlways(t) == 2 * t
Doubled(t) == IF t < INTERVAL_MAX THEN 2 * t ELSE t

(* The new socket's identity is fresh; the old one's mail is lost, apart   *)
(* from a prefix of what it sent.                                          *)
WorkerReconnect(w) ==
  /\ pc[w] = "backoff" /\ timer[w] = 0
  /\ interval' = [interval EXCEPT ![w] = Doubled(@)]
  /\ liveness' = [liveness EXCEPT ![w] = HEARTBEAT_LIVENESS]
  /\ Rest(w, "poll", HEARTBEAT_INTERVAL)
  /\ toWorker' = [toWorker EXCEPT ![conn[w]] = <<>>]
  /\ LET due == heartbeat_at[w] < 0
     IN  /\ heartbeat_at' =
              [heartbeat_at EXCEPT ![w] = IF due THEN HEARTBEAT_INTERVAL ELSE @]
         /\ \E i \in Ids, n \in Arrived(conn[w]) :
              /\ Unused(i)
              /\ conn' = [conn EXCEPT ![w] = i]
              /\ toQueue' = [toQueue EXCEPT
                   ![conn[w]] = SubSeq(@, 1, n),
                   ![i] = <<READY>> \o (IF due THEN <<HEARTBEAT>> ELSE <<>>)]
  /\ UNCHANGED <<queueVars, front, cycles>>

-----------------------------------------------------------------------------
(* Time.                                                                   *)

WorkerRunnable(w) ==
  \/ pc[w] # "down" /\ timer[w] = 0
  \/ pc[w] = "poll" /\ toWorker[conn[w]] # <<>>

Lower(t, floor) == IF t > floor THEN t - 1 ELSE t

Tick ==
  /\ IF prompt THEN ~QueueRunnable /\ \A w \in Workers : ~WorkerRunnable(w)
     ELSE \A i \in Ids : Len(toQueue[i]) <= MaxLag /\ Len(toWorker[i]) <= MaxLag
  /\ workers' = [k \in DOMAIN workers |->
                   [workers[k] EXCEPT !.expiry = Lower(@, 0)]]
  /\ queue_beat' = Lower(queue_beat, 0)
  /\ queue_poll' = Lower(queue_poll, 0)
  /\ timer' = [w \in Workers |-> Lower(timer[w], 0)]
  /\ heartbeat_at' = [w \in Workers |->
       IF pc[w] = "down" THEN heartbeat_at[w] ELSE Lower(heartbeat_at[w], -1)]
  /\ UNCHANGED <<prompt, queue, wireVars, pc, conn, liveness, interval, cycles>>

-----------------------------------------------------------------------------

WorkerLoop(w) ==
  \/ WorkerReply(w) \/ WorkerCrash(w) \/ WorkerOverload(w) \/ WorkerWake(w)
  \/ WorkerHeard(w) \/ WorkerTimeout(w) \/ WorkerGiveUp(w)
  \/ WorkerReconnect(w)

Next ==
  \/ QueueLoop \/ QueueStop \/ QueueStart
  \/ \E r \in Requests : Submit(r)
  \/ \E w \in Workers : WorkerStart(w) \/ WorkerStop(w) \/ WorkerLoop(w)
  \/ Tick

Spec == Init /\ [][Next]_vars

(* The operating system keeps running the processes, and time passes. *)
FairSpec ==
  /\ Spec
  /\ WF_vars(QueueLoop)
  /\ \A w \in Workers : WF_vars(WorkerLoop(w))
  /\ SF_vars(Tick)

-----------------------------------------------------------------------------

Messages == Requests \union {READY, HEARTBEAT}

TypeOK ==
  /\ prompt \in BOOLEAN
  /\ queue \in {"up", "down"}
  /\ workers \in Seq(Entry)
  /\ queue_beat \in 0 .. HEARTBEAT_INTERVAL
  /\ queue_poll \in 0 .. HEARTBEAT_INTERVAL
  /\ front \in SUBSET Requests
  /\ toQueue \in [Ids -> Seq(Messages)]
  /\ toWorker \in [Ids -> Seq(Requests \union {HEARTBEAT})]
  /\ pc \in [Workers -> {"down", "poll", "sleep", "backoff"}]
  /\ conn \in [Workers -> Ids \union {None}]
  /\ timer \in [Workers -> Nat]
  /\ liveness \in [Workers -> 1 .. HEARTBEAT_LIVENESS]
  /\ interval \in [Workers -> INTERVAL_INIT .. 2 * INTERVAL_MAX - 1]
  /\ heartbeat_at \in [Workers -> -1 .. HEARTBEAT_INTERVAL]
  /\ cycles \in [Workers -> 0 .. GRACE + 1]

(* Every identity is on the list once, and the list is in order of expiry: *)
(* the search of _worker_ready may stop at its first match, _worker_purge  *)
(* at the first entry that has not expired (queue.c:31-37, :55-57).        *)
RegistryOrdered ==
  \A k, n \in DOMAIN workers : k < n =>
    /\ workers[k].identity # workers[n].identity
    /\ workers[k].expiry <= workers[n].expiry

(* A turn of the loop leaves no worker on the list whose term is over, so  *)
(* that the queue neither polls its frontend on behalf of dead workers     *)
(* only, nor sends them heartbeats again.                                  *)
PurgeComplete ==
  [][queue_poll' > queue_poll =>
       \A k \in DOMAIN workers' : workers'[k].expiry > 0]_vars

(* The terms are long enough: while time only passes when everyone waits,  *)
(* a worker that is polling and has nothing under way to the queue is      *)
(* never listed beyond its expiry, whatever work and overload cost it.     *)
PollingNeverExpires ==
  \A w \in Workers, k \in DOMAIN workers :
    /\ prompt /\ pc[w] = "poll" /\ conn[w] = workers[k].identity
    /\ toQueue[conn[w]] = <<>>
    => workers[k].expiry > 0

(* Nor does a worker lose faith in a queue that is up, although the queue  *)
(* sends heartbeats only to the workers on its list, from which a worker   *)
(* is missing while it has a request and after it has been purged.         *)
NoFalseAlarm == prompt => \A w \in Workers : pc[w] # "backoff"

(* A worker that is gone, or has gone on under a new identity, does not    *)
(* stay listed: its term ends, or a request that it will never see is      *)
(* spent on it.                                                            *)
GoneIsForgotten ==
  \A i \in Ids : prompt /\ i \in Listed(workers) /\ ~Connected(i)
                  ~> i \notin Listed(workers) \/ Connected(i)

(* Whatever ended before, the queue or a worker: as long as both are up,   *)
(* the worker gets (back) on the list under its present identity.          *)
WorkerRejoins ==
  \A w \in Workers :
    prompt /\ queue = "up" /\ pc[w] # "down"
    ~> queue = "down" \/ pc[w] = "down" \/ conn[w] \in Listed(workers)

=============================================================================
