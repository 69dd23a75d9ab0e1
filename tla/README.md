# Verification of the ZeroMQ exercises

The repository is a collection of small distributed programs built on ZeroMQ
and CZMQ. Each is an exercise in one messaging pattern; the interesting ones
are brokers, queues and clients that have to survive interleavings, timeouts,
crashes and late messages. This directory models the ones with logic of their
own in TLA+, checks them with TLC and proves the central results with TLAPS.

`tlc -config X.cfg M` runs a configuration, `tlapm M.tla` checks a module of
proofs. `PROJECT.json` lists the runs, the lines each definition models, the
hazards, the findings and the theorems.

## Inventory

| Component | State | Operations and interaction | What is hard | What makes it correct |
|---|---|---|---|---|
| **Load-balancing broker** `src/loadbalance/lbbroker.c` | `worker_queue`, `available_workers`, `client_nbr`; the phase of each thread; two ROUTER sockets | 10 client threads ask once (REQ), 3 worker threads enlist and answer (REQ), the main thread polls, enqueues, forwards, dequeues, and ends the process after the last reply | all messages of all workers through one socket; revents of one poll used after the queue has changed; an array bounded by an assertion; an end by counting | the queue neither over- nor underflows and holds idle workers once; no request is lost, copied or misrouted; nobody is left at the end; it ends |
| **The same in CZMQ** `src/loadbalance/lbbroker2.c` | a `zlist` of workers | as above, without an end | as above | as above; every client is served |
| **Paranoid Pirate** `src/ppq/{queue,worker}.c` | list of workers with expiries, two heartbeat timers; liveness, reconnect interval, cycles | queue: list, purge, route, heartbeat; worker: answer, fall ill, crash, heartbeat, reconnect | timers on both sides, new identities after reconnecting, restarts, lost wires, busy peers that look dead | list ordered, unique and purged; the dead go, the living come back; nobody who is alive is taken for dead |
| **Lazy Pirate** `src/lpp/{client,server}.c` | sequence, retries, the socket; cycles of the server | client: ask, wait, retry on a new socket, abandon; server: answer, answer late, crash | timeouts racing late replies, duplicates, restarts | no stale reply is accepted; retries are bounded; nobody waits for ever |
| **Majordomo client API** `api/MDP/mdcliapi.c`, `src/MDP/client.c` | the session: socket, retries | `mdcli_new`, `_set_*`, `_send`, `_destroy` | a REQ socket that is kept after a failure; send errors nobody looks at | the reply belongs to the call |
| **Task pipeline** `src/task/*.c` | batch, workers, count of the sink | PUSH tasks, PUSH results, PUB KILL | result and signal on different connections, KILL published once, workers that die | KILL only after all the work; it ends whoever has subscribed and has nothing left to send; a batch is finished |
| **Majordomo worker API** `api/MDP/mdwrkapi.c`, `src/MDP/worker.c` | session: socket, liveness, `expect_reply`, `reply_to` | connect, READY, REPLY; the receive loop is unfinished | falls off its end after an error | each call is answered once |
| **Peering broker** `src/cloud/lcflow.c` | `workers`, `capacity` | requests from local clients or peers to local workers or peers; replies back | routing loops, capacity, names of peers in envelopes, polls that prefer one socket | a request is rerouted once at most, and answered where no preference starves it |
| **State flow** `src/cloud/stateflow.c` | none but the poll | publish free workers after a silent second, print news | silence that never comes | peers hear of one another |
| **Full simulation** `src/cloud/full.c` | the client's burst | unfinished: the main loop is empty | a reply after the client has left | a task is answered or reported lost |
| **Asynchronous server** `src/async/cs.c` | requests in the proxy and with 5 workers | 0 to 4 replies per request | replies end the polls by which a client counts time | a client asks about as often as it means to |
| **ROUTER to REQ** `src/loadbalance/rtreq.c` | `workers_exited`, end time | workers ask for work until told to exit | ends by counting | each worker is told once |
| **Request-reply broker** `src/rrb/*.c`, **multithreaded server** `src/mt/server.c` | messages between ROUTER and DEALER | forwarding | requests dealt to workers in turn, busy or dying; a send that blocks with replies behind it | a call returns unless its request dies with a worker |
| **Relay** `src/mt/relay.c` | three threads in a chain | READY from one to the next | a thread that binds too late | the chain completes |
| **Hello world** `src/helloworld/*.c` | `S_INTERRUPTED` | REQ-REP, a signal | a signal between test and receive | it stops |
| **Erlang servers** `src/erl/*.c`, `esrc/*.erl` | children to reap, the buffer | fork per message | stale buffer after EINTR, zombies | one child per message |
| **Publish-subscribe** `src/envelope/*.c`, `src/weather/*.c` | an average | print what comes | nothing an interleaving upsets | – |
| **Demonstrations** `src/router/id_check.c`, `src/mt/duff.c`, `src/ucontext/test.c` | – | straight-line code | – | – |
| **Helpers** `src/base.{c,h}` | `S_INTERRUPTED` | one library call each | errors are logged and ignored | – |

Paths in this table are relative to the repository's root, as the `Makefile`'s
are; `PROJECT.json` gives the status of each component.

## Modules

| Module | Models | Checked and proved in |
|---|---|---|
| `LoadBalancing` | the abstract promise: a request is given to one idle worker, a worker has one request, the answer goes back to its client | refined by `LBBroker` and by `Peering` |
| `LBBroker` | `lbbroker.c` and `lbbroker2.c`: threads, sockets, main loop; `program` says which of the two a behaviour is one of | `MCLBBroker`, `LBBroker_proofs` |
| `ParanoidPirate` | `ppq/queue.c` and `ppq/worker.c` composed, with time | `MCParanoidPirate`, `Pirates_proofs` |
| `LazyPirateClient` | `lpp/client.c`; what serves the clients is left to the module that uses it | through the next two |
| `LazyPirate` | `LazyPirateClient` with `lpp/server.c`, with time | `MCLazyPirate`, `LazyPirate_proofs` |
| `Pirates` | the composition: `LazyPirateClient` in front of `ParanoidPirate` | `MCPirates`, `Pirates_proofs` |
| `MDPClient` | the client API and its application; the broker is external | `MCMDPClient`, `MDPClient_proofs` |
| `TaskPipeline` | ventilator, workers and sink composed | `MCTaskPipeline`, `TaskPipeline_proofs` |
| `Peering` | `lcflow.c`: brokers that are peers, their clients and workers | `MCPeering`, `Peering_proofs` |
| `Forking` | `erl/server2.c` with the signal handler and `s_recv` of `base.c` | `Examples`, `Examples_proofs` |
| `HelloWorld` | `helloworld/*.c`: clients, the server, signals | `Examples`, `Examples_proofs` |
| `RouterToReq` | `rtreq.c`: workers, main, its time limit | `Examples`, `Examples_proofs` |
| `Proxy` | `rrb/*.c` and `mt/server.c`: clients, ROUTER and DEALER, workers | `Examples` |
| `Async` | `async/cs.c`: clients that count polls, the proxy, workers with several replies | `Examples`, `Examples_proofs` |
| `Relay` | `mt/relay.c`: the chain of threads | `Examples` |
| `Examples` | the last six side by side, one per behaviour, so that one run checks them; it adds nothing to them | itself, `Examples_proofs` |
| `QueueLemmas` | nothing; lemmas on queues without repetition | extended by `LBBroker_proofs` and `Peering_proofs` |

### How state and steps correspond to the code

*Sockets.* A connection is a queue of unread messages per direction and peer
(a set where REQ lets only one be outstanding, or where order does not
matter). A message is what the receiving code looks at: the frame in which
`lbbroker.c` finds a ready text or a client address; READY, HEARTBEAT or a
request in `ppq`; a sequence number in `lpp`; call and service in `mdcliapi`.
A ROUTER drops what it cannot route. A socket that is closed with linger 0
(CZMQ's default) loses what has not crossed; the models choose how much. The plain
ZeroMQ programs of `task` linger for ever: `zmq_ctx_destroy` waits until everything
has left, for a worker told KILL in the state `closing`, which `Exit` leaves when
the sink takes the results. What a process had not read when it closes is lost.

*Steps.* A process is cut where it can block: at polls, receives and sleeps.
What it does between two of these is one step, since sends do not block at
the traffic these programs have and other processes see only the messages. In
`lbbroker.c`, where the order inside a turn of the loop is what the assertion
depends on, `broker` names the places "poll", "backend", "frontend", "close" and
"exit", with the poll's revents kept in `frontendPolled`. A turn of `queue.c`'s
loop is `QueueTurn`: receive from the backend and enlist, receive from the
frontend and route, heartbeats when due, purge, in that order. A turn of
`worker.c`'s loop ends with `PollAgain`; the sleeps inside it are states of
their own (`sleep`, `backoff`).

*Time.* `ParanoidPirate` and `LazyPirate` keep each deadline as the time left.
`Tick` lowers all of them. `ParanoidPirate` has a variable `prompt` that never
changes: if it is TRUE, time passes only when every process waits, so that the
numbers of the code are compared; if not, time passes at any moment and a poll
may report nothing although a message has just arrived, so that every race of a
timeout with a message occurs. `Modes` says which of the two a run covers.
`LazyPirate` has `healthy` in its place: a behaviour is either healthy, with the
times of the code and a server that never misbehaves, or every poll and sleep in
it may be over at once (`Lasting`), with crashes and interrupts; its run covers
both. `careful` in `MDPClient` is the same device for two kinds of application.

*One of several programs.* Programs that share what they do have one module
and a variable that never changes and says which of them a behaviour is one of:
`program` in `LBBroker` (the brokers differ in the step that forwards a reply),
`proxy` in `Proxy` (in `mt` workers are threads, which do not die). `example` in
`Examples` does the same for programs that share nothing: all but one keep their
initial values.

*Composition.* `Pirates` is `ParanoidPirate` with its requests taken from the
clients of `LazyPirateClient`, which is instantiated with the queue for its
server: `client.c` connects to the port that `queue.c` binds, and neither knows
what is on the other side. A step of a client changes the wire to the queue; a
turn of the queue that reads a worker's reply hands it to the socket that asked,
or drops it if that socket has been closed.

*Signals* (`Forking`, `HelloWorld`). A handler sets `S_INTERRUPTED`. A signal
that finds the program waiting in a receive ends the wait; one that comes
between the test of `S_INTERRUPTED` and the wait does not. `s_recv` leaves the
caller's buffer as it was when the receive fails, which is what `buffer` is for.

*Threads that cannot talk.* The clients and workers of `lcflow.c` have REP
sockets, in which a send that answers nothing fails; the result is not looked
at, and every thread waits for ever. `Peering` has these behaviours, and beside
them those in which external REQ clients and workers use the brokers' endpoints
(`pattern`), which are what its properties are about.

*Randomness.* `randof` is a choice; "only after three cycles" is kept (`GRACE`).

*Assertions of the code* are never guards of the models but invariants.
Messages that no program of the repository sends (the "invalid message"
branches) do not occur.

## Runs

| Run | Question | Result | Bounds |
|---|---|---|---|
| `lbbroker` | both brokers: queue capacity, idle workers, one copy of each request, nobody left behind, every client served and the end of `lbbroker.c`, the abstract load balancer | holds | 4 clients, 2 workers (10 and 3 in the code) |
| `lbbroker2_stops` | does `lbbroker2.c` end as `lbbroker.c` does? | **no** (finding 1) | 2 clients, 1 worker |
| `ppq_faults` | the list under every fault: in order, unique, purged | holds | not prompt; 1 worker process with stops and restarts under 3 identities, 1 recurring request, liveness 2, `MaxLag` 1, `MaxWire` 4, symmetric |
| `ppq_live` | a polling worker does not expire; the dead are forgotten, the living rejoin | holds | prompt; 1 worker, 3 identities, 1 recurring request, liveness 3, stops and restarts of both sides; units of one heartbeat interval, `INTERVAL_MAX` 4 |
| `ppq_alarm` | no false alarm with requests | **violated** (finding 2) | prompt; 2 workers, 1 request, no stops; half-second units; every time of the code, but `GRACE` 1 where a worker is sound for three cycles |
| `lpp` | no stale reply; nobody waits for ever; nobody asks twice of a healthy server | holds | 2 clients, 2 requests each, 2 tries; half-second units: timeout 5, work 2, overload 4 |
| `pirates` | the clients' retries make up for one failing worker; no stale reply through the queue; no copies but by retries; every request answered | holds | 2 clients, 2 requests each, 3 tries; 2 workers, 3 identities; 1 crash, stop or illness at any moment; half-second units: every time of the code |
| `peering` | capacity is the free workers; no request lost, copied or passed on twice; every one is answered, unless a broker goes on for ever preferring other messages; the brokers together are one abstract load balancer | holds | 2 brokers, one with 2 clients and 2 workers, one with 1 and 1; clients ask for ever |
| `mdp_calls` | own replies of the repository's application; replies late at worst of any other; calls return | holds | 4 calls, 0, 1 or 3 tries, changed between calls |
| `mdp_assert` | the assertion on the service | **violated** (finding 3) | 2 services, 2 calls, 1 try |
| `task` | KILL only after all the work; a batch completes; KILL ends its subscribers, unless a later batch leaves one with a result nobody takes | holds | 2 workers that may be killed, two batches of 2 tasks |
| `examples` | children are reaped; a stale buffer is used once; signals end servers, and requests read after one get no reply; no worker is left untold; a client asks early by little; calls return unless their request dies; the relay completes | holds | 2 clients, 2 workers; 4 messages and 3 processes; 2 requests per client; 2 deaths of workers; 9 polls' time, 3 polls per request, 1 reply per request; 3 stages |

Why the bounds are enough. The brokers treat threads alike, and the hazards
need more clients than workers, so that requests wait, and two workers in the
queue, so that its order matters. In `ppq` an identity is named again only when
no trace of it is left, so that three names are a present, a past and a next
connection. `MaxLag` (time waits while a wire is longer; it applies without
promptness only) excludes only ever longer backlogs of the same messages;
`MaxWire` bounds the wires a stop cuts, and every wire of the runs is shorter.
`ppq_live` needs the liveness of 3 that the code has: a worker sends a heartbeat
only when more than an interval has passed (`>` at `worker.c:92`), which costs it
a second turn of its poll. In `lpp` stale messages need an earlier request and an
earlier try. The calls of `mdcliapi` interact through one socket, which remembers
one request, so that four calls contain every pattern of success and failure
that matters; the proofs cover any number. In `task` a second batch meets the
sink of the first one, and two workers are one that is told and one that is not;
the sink runs once, so that nobody takes the results of a batch begun too late.
In `peering` a broker forwards to a peer that has less capacity than itself and
to one that has more; a longer way than there and back would show with two
brokers already, as the mutant of `ReroutedOnce` does. Nothing bounds the
requests: the clients of `lcflow.c` ask for ever, and so do the model's.

`EveryRequestAnswered` has two exceptions, and both are needed: without either TLC
finds a client that waits for ever. `lcflow.c:157` takes a peer's request
before a local one, so that two clients of a peer whose requests are passed on
in turn may keep the only worker of this broker from its own client. And
`lcflow.c:113` takes a worker's message before a peer's reply, so that a broker
whose workers are always busy with local requests may never read the reply to a
request it has passed on. `Preferred(c)` are these two steps; the property says that
nothing else leaves a client behind. The pause of a second after each reply
(line 27) makes an endless series of either unlikely; nothing excludes it.

In `pirates` the times are those of the code, because the property compares
them: a client tries three times for 2.5 seconds each, the queue lists a dead
worker for up to three seconds, and an ill worker sleeps for three. `GRACE` is 0: a
worker may fail at once, not only after three cycles. Two requests per
client make a late reply to an earlier one possible, two workers are the failing
one and the one that has to make up for it. The queue does not stop in this
run: with the queue down for long enough any number of tries runs out. The
clients start only when all workers are on the list, so that the tries are not
spent on waiting for the first of them.

The bound of one fault is the result. With two faults, or with three clients for
the two workers, `SurvivesOneFault` fails: the tries of the clients that
fall on the listed dead worker, and the waiting behind the others' seconds of
work, may together use up three tries. One worker and two clients are enough for
a client to ask twice with no fault at all. Nothing in the repository promises
more, so these are limits and not findings.

In `examples` the numbers of `Async` keep the proportions that matter: `LIFE` is
three times `TICKS`, so that a client asks up to three times, twice after replies,
and `REPLIES` is less than `TICKS`. With 500, 100 and 5, the code's own, the
inequality of `NeverMuchTooEarly` says five requests per client at most. In
`Forking` three processes are enough for two children and a zombie at the limit;
in `Proxy` two deaths leave both workers dead and back.

With **three** clients of a healthy server `NobodyAsksTwice` fails: each request
takes a second, the third client in the queue waits for three, and its timeout
is 2.5 seconds. Nothing in the repository promises more than one client, so
this is a limit and not a finding. It holds up to the number of clients whose
work, one request each, takes less than the timeout: that is a theorem, and the
limit is exact (with three clients and a work of 2, TLC finds `NobodyAsksTwice`
true with a timeout of 7 and false with one of 6).

Every property has a mutant in `PROJECT.json`: a definition of the model changed
as a plausible mistake in the code would change it (the operators named
`...Early`, `...Always`, `...Omitted` and so on beside the definitions they
replace), under which the run must find the property violated.

### Findings

1. `lbbroker2.c:55-56` claims "the identical functionality to the previous
   lbbroker broker example"; that one ends with its last client, this one
   never does.
2. `worker.c` takes a queue that is up for dead: requests do not reset
   `liveness`, and a worker gets no heartbeat while it is off the list.
3. `mdcli_send` keeps a REQ socket after its last timeout; the next call can
   receive the reply to the failed one, and an assertion ends the program when
   that call was for another service. The repository's own client never gets
   there, as the proofs show, because it ends with the first failure.

## Fairness

* `LBBroker`: weak fairness for each thread. The operating system schedules
  them; `zmq_poll` and `s_recv` return when there is input.
* `ParanoidPirate`: weak fairness for the queue and each worker's loop, strong
  fairness for `Tick`. Time goes on: `Tick` is disabled again and again when a
  process has to react first, and strong fairness excludes infinitely many
  reactions, stops and starts in one instant. Neither stops nor starts are fair:
  nobody has to restart a process.
* `LazyPirate`: weak fairness for clients, server and `Tick`; none for `Restart`,
  so that `NobodyWaitsForever` covers a server that never comes back.
* `MDPClient`: weak fairness for the end of the poll, which has a timeout. The
  broker is not fair: it may never answer.
* `Peering`: weak fairness for each thread and each broker's loop; none for
  pressing Enter. `FairQueueing` assumes what ZeroMQ says of a ROUTER: it reads its
  connections in turn, so that a message before which others of the same socket
  are read again and again is read itself. (Strong fairness of reading it would be
  too much: it would exclude that another *socket* is preferred for ever, which
  the code does not.) Nothing is assumed of the random choice between a local
  worker and a peer, nor of which of two sockets has input.
* `TaskPipeline`: weak fairness for running processes, for connections coming
  about and for results crossing to a sink that is there; none for starting a process or pressing Enter.
* `Pirates`: weak fairness for anything going on at all (`GoesOn`): time is
  kept and passes only while every process waits, and each process takes finitely
  many steps in one instant. None for failures and for starting workers.
* `Examples`: weak fairness for each thread of the example that a behaviour is
  one of (`Only`), and for the end of the time limit of `rtreq.c`. None for signals,
  messages that arrive, children that end, workers of `rrb` that connect or die:
  `EveryCallReturns` therefore asks that from some time on one is connected.

## Proofs

`LBBroker_proofs` holds for both brokers and any finite nonempty sets of clients and workers. The
properties are not inductive: that the queue does not overflow depends on its
entries being distinct, that on a worker in the queue having nothing under way,
that on each worker being in one phase. `IInv` says

* `WorkerPhases`: a worker is on the queue and quiet, or off it and in exactly one
  of five phases: not started, offered, given a request, working, replied;
* `QueueInjective`: the queue has no duplicates;
* `ClientPhases`: a waiting client's request is on the frontend, with exactly one
  worker, or answered;
* `BrokerPhases`: what the main thread knows at each place of its loop;
* `RepliesCounted`: `client_nbr` is the number of clients not yet answered, in
  `lbbroker.c`; `lbbroker2.c` does not count and does not end.

`Invariance` proves `Spec => []IInv` with a lemma per action. From it follow
`TypeCorrect`, `CapacityNeverExceeded` (an injective sequence of workers that
misses the one just heard is shorter than the number of workers),
`WorkerForEveryRequest`, `QueueHoldsIdleWorkers`, `NobodyLeftBehind`,
`ExactlyOneCopy`, and `Refinement`: every step is a step of `LoadBalancing` or
leaves its variables alone, under the mapping `requestBar`, `jobBar` and the range
of the queue.

`MDPClient_proofs` holds for any services, numbers of tries and of calls.
`LateInv` says what is under way: one request at most, of a call since which
nothing has been returned; `RepliesAreLateAtWorst` and `TypeCorrect` follow.
`PromptInv` strengthens it for an application that ends on the first failure
(`careful`): between calls the socket is clean, in a call only its own request
is under way; `EveryReplyIsOwn` follows.

`LazyPirate_proofs` holds for any clients, numbers of tries and requests, and any
times. `NoStaleReply` is not inductive, since it does not say which of the requests
on the wire will be answered into `reply`. `IInv` adds

* `NoFutureSocket`: no request is under way from a socket that does not exist yet,
  so that a new socket starts clean;
* `WireOutstanding`, `RequestOutstanding`: what is under way from the present
  socket of a client, unread or in the server's hand, is the request it waits
  for, once, and it has no reply to it.

It follows that the branch of `client.c` for a malformed reply is never taken:
the reason is the new socket per try, which the mutant of `NoStaleReply` leaves
out.

`NobodyAsksAHealthyServerTwice` is about time, for any finite number of clients
and any times. Its hypothesis is `LongTimeout`: `REQUEST_TIMEOUT` is longer than
`WORK` times the number of clients. `TimelyInv` says of a healthy server and a
client that waits that its poll has more time left than `LongestWait`: what is
left of the work in hand and, unless that is on its own request, the work on its
own and on one request of each client that may be served before it
(`MayPrecede`). Who has been served since the client asked comes after it, since the REP
socket reads its connections in turn (`passed`, and `HasPassed` for whoever has been
read last). Each step lowers both sides alike or the right one only: a request that is
taken has one client less before the others, a tick takes one unit from the
poll and from the work, a new request finds at most all the others before it
(`NewcomersWait`).

Such a theorem would be empty if time could stand still because the turns left
nobody to be served: `Tick` waits for a server that has something to read.
`ThereIsAlwaysANext` excludes it. `TurnInv` says that the connections with unread
requests are ordered by who has passed whom (`InOrder`; it needs `NoTrace`, that
no pair names a connection before its request or after it has been read), so
that the one that has passed the fewest has passed nobody (`SomebodysTurn`).

`Peering_proofs` holds for any brokers, whichever of them are peers, and any
clients and workers. That a broker's capacity is the number of its free workers
depends on the envelopes: who is listed is read off the first frame, where a
reply goes off the next. `IInv` is `Shape`, `FreeWorkers` and `OneCopy`:

* `Envelopes`, in `Shape` with the types, says which frames a message has in each
  kind of socket: a request at home is its client's name, at a peer that of the
  client's broker as well, and what a worker or a peer sends starts with its own;
* `ListsFree`, `OneTask`: a list holds workers of its broker that are quiet, each
  once, and a worker has one message, in one socket;
* `OneCopy`: a request that is not answered is one envelope in one socket.

From `Envelopes` a lemma per handler (`LocalBackendRoutes`, `CloudBackendRoutes`,
`FrontendsRoute`) says what the handler does in terms of one worker and one client;
the preservation lemmas work on these. `OneCopy` is shown by moves: each step
takes one envelope away, puts one down, or leaves the set of them alone
(`Leaves`, `Moved`, `CopiesUnchanged`). `CapacityCountsFreeWorkers`,
`ExactlyOneCopyInCloud` and `RequestsPassedOnOnce` follow. Both `pattern`s are
covered; with REP sockets nothing is ever sent.

`Refinement` says that all the brokers together are one `LoadBalancing`. A request
is assigned while a worker has it or the worker's reply waits for the worker's
broker, and answered from then on, also while the reply still has to pass a peer,
until its client takes it (`Take`) and may ask again; the idle workers are those
on any broker's list. Passing a request on, passing its reply back and delivering
it are stutters, so that the theorem says that a detour changes nothing: nobody
gets another's answer, and no worker two requests. `OneCopy` is what the proof
needs: a request that is with one worker is with no other (`OneWorker`, `Jobs`). A
step moves the abstract request of one client at most (`OneAdvances`).

`TaskPipeline_proofs` holds for any number of workers, tasks and batches, with
workers killed at any moment. The sink counts messages, not tasks, and one of
them is the ventilator's signal: that KILL comes last is an argument about a
balance. `Balance` says that what the sink has read in the first batch, with what
it can still read, is no more than was sent: one signal and a message per task. It
needs `OnePlace` (a task is in one place at most, so that a step moves it and does
not double it), and for the end `Counted` and `Signalled`. A worker that is killed,
and a sink that closes its sockets, only lower the balance. With the count reached, nothing is left outstanding.

`Pirates_proofs` has two parts. The first is about `ParanoidPirate`, for any
workers, identities and times, with every fault. `RegistryOrdered` is inductive
with the types and three facts on who has which connection (`Named`, `Stopped`,
`OneSocket`); the work is in lemmas on the operators of the queue's list:
`PurgeFacts` (purging takes a prefix, and all whose term is over),
`WithoutFacts`, `WorkerReadyFacts` (moving a worker to the end keeps the order,
because its new term is the longest). `PurgeTakesAll` is the action property.
`PollersAreNotPurged` compares the timers of worker and queue: `PromptTerms` says
that the term of a worker with nothing under way is running down no faster than the
worker's own `heartbeat_at`, with one interval for the poll it may be in. It has
the hypothesis `HEARTBEAT_LIVENESS >= 3`: the code's 3 is the least for which it
holds, and with 2 TLC finds it violated.

The second part is about `Pirates`, for any clients, workers, tries and failures.
`NoStaleReplyThroughQueue` says nothing of the tries from which replies come.
`PiratesInv` adds

* `Single`: a try is in one place at most: unread by the queue, or on one wire to a
  worker, with it, or on one wire back;
* `Awaited`: a try that is anywhere is of no later socket than its client's, of the
  present socket only if it is what the client waits for, and of the present
  request only if it comes from one of the sockets used for it;
* `SocketsCounted`: how many sockets a client has used at most.

`QueueMoves`, `WorkerMoves` and the lemmas `...Keeps` show once per step of the
queue and of the workers that it moves tries and copies none, whatever their
sequences of messages are; with that the clients' part is as in
`LazyPirate_proofs`. `OnlyRetriesCopy` counts: tries of the present request are as
many sockets, at most (`TriesCounted`).

`Examples_proofs` proves about the small programs where the run checks them, with an
invariant for each that its own steps preserve and that the others, which leave its
variables alone, cannot disturb.

* `ForkingInv`, for any number of messages and processes: `ZombiesBounded` is
  inductive with the types: a fork raises the number of children only when no
  zombie is there to be reaped, and then all of them run and are counted by
  `peak`. `TurnsCounted` says at each place of the loop how many turns were not
  caused by a message: one at most, and only after a signal.
* `RouterInv`, for any finite set of workers: `OneAnswer` says that a worker that
  has asked has no answer yet, so that no worker is told anything twice and the
  count of exits is the number of workers told.
* `HelloInv`, for any clients and requests: `OneRequest` says that a client's
  request is in one place, so that what the server sends answers nothing but
  `current`, and `LateEndsServer` that it ends once it has read a request after
  a signal.
* `AsyncInv`, for any clients, workers and numbers of polls and replies. That a
  client asks early by little when it asks says nothing of the polls that replies
  will still cut short. `Reckoned` is a balance of these: what a client has
  asked for and counted, in polls, with `Saved`, the replies that may still end one
  of its polls, is no more than the time at its last poll and `REPLIES` per request.
  `Saved` counts the replies on their way, those its workers have left (`Due`),
  and `REPLIES` for each request that no worker has taken (`Queued`, a set of
  places in pipes: taking a request moves the others up, which `TailQueued`
  shows to lose one). A step of proxy or worker never raises it (`ServerKeeps`).

Assumptions: those named in the modules of the components, which TLC evaluates
in the runs. `ThreadsAssumption` of `LBBroker` (threads are finite in number, and
there are some); `BatchAssumption` of `TaskPipeline`, `TimesAssumption` and
`ModesAssumption` of `ParanoidPirate`, `ConstantsAssumption` of `MDPClient`,
`LazyPirate` and `Examples` (ranges of numbers and kinds of constants);
`TriesAssumption` of `Pirates` (the clients' tries are among the queue's
requests); `HomeAssumption` and `PeersAssumption` of `Peering` (every thread
connects to a broker; who names a peer is named by it, for otherwise replies
find no way back); `NamesAssumption` of `Peering` and `ParanoidPirate`,
`NoClientAssumption` and the `NoneAssumption`s (names are not taken for other
names).

Model-checked only: all liveness properties (out of the prover's reach under
fairness), and one safety property, `SurvivesOneFault` of `Pirates`. That three
tries are enough compares sums of all the times of three programs: the timeout
of the client, the term of a dead worker on the list, the work and the illness
of the other one, and what else it has to do. It holds for some of these times
and for some numbers of clients and workers only (see the bounds above), and no
hypothesis weaker than the code's own numbers is known that would make it a
theorem of its own.

## Not modelled, and why

* `cloud/stateflow.c`: its loop keeps nothing from one turn to the next; it
  publishes a random number when a poll of a second was silent and prints what it
  hears otherwise. A property of it would restate the poll's timeout.
* `cloud/full.c`: unfinished. Its main loop is empty and spins, its sockets are
  never read, so that nothing but waiting can be observed.
* `api/MDP/mdwrkapi.c` and its worker: unfinished. `mdwrk_recv` drops every
  message without looking at it and never returns one.
* `erl/server1.c` and the Erlang clients: hello world with other data.
* Publish-subscribe, the identity check, the demonstrations of coroutines: no
  state that an interleaving could upset.
* `base.{c,h}`: one library call each, part of their callers' steps. What matters
  of them is in the models: the signal handler, a receive that leaves its buffer
  alone, and `randof(n)`, which computes in float and may return `n`
  (`REPLIES` is therefore 5 in the code, not 4).
* ZeroMQ itself beyond what is said above: high-water marks (1000 messages,
  which no program reaches but `weather/server.c`), connection errors, handover
  of messages between threads of the library.
* Memory: buffer sizes, leaks, the short `malloc` at `lbbroker.c:151`.
* Identities that collide, and a wall clock that is set back (`ppq`).
* A reply that is printed or not while the process of `lbbroker.c` ends.

## Plan

All programs with a logic of their own are modelled, and the safety properties
that hold whatever the constants are proved, with the hypothesis on the times
where they compare times. What is left:

1. Which relations between the times of `Pirates`, and between the numbers of its
   clients and workers, make `SurvivesOneFault` true: a theorem needs them as a
   hypothesis, where the run checks the code's own values.
2. What the queue of `ppq` promises to its clients, as the abstract load
   balancer says it of the brokers: the same with requests that may be lost with
   their worker.
3. `mdwrkapi.c`, `stateflow.c` and `full.c`, when they are finished.
