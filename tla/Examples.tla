------------------------------ MODULE Examples ------------------------------
(***************************************************************************)
(* The small programs of the repository, which do not interact, side by    *)
(* side: a behaviour picks one of them, and the variables of the others    *)
(* keep their initial values.  One run checks them all.                    *)
(***************************************************************************)
EXTENDS Naturals, FiniteSets

CONSTANTS
  Clients, Workers, None,
  MaxMessages, MaxProcesses,    \* Forking
  NBR_REQUESTS,                 \* HelloWorld, Proxy
  MaxDeaths,                    \* Proxy
  TICKS, LIFE, REPLIES,         \* Async
  LAST                          \* Relay

(* There are finitely many workers, and None is not an answer of rtreq.c.  *)
ASSUME ConstantsAssumption ==
  /\ IsFiniteSet(Workers) /\ None \notin {"ok", "exit"}
  /\ TICKS \in Nat /\ REPLIES \in Nat

VARIABLES
  example,       \* the program that this behaviour is one of
  loop, buffer, interrupted, mail, running, zombies, received, handled, peak,
  nbr, asking, requests, server, current, replies, signalled, late,
  phase, asks, answers, time_up, workers_exited, router,
  proxy, answered, waiting, frontend, revents, turn, dealt, backend, delivered,
  lost, deaths,
  clock, poll_began, centitick, request_nbr, unrouted, pipe, next_worker,
  identity, left, arriving,
  stage, bound, ready

forkingVars == <<loop, buffer, interrupted, mail, running, zombies, received,
                 handled, peak>>
helloVars == <<nbr, asking, requests, server, current, replies, signalled, late>>
rtreqVars == <<phase, asks, answers, time_up, workers_exited, router>>
proxyVars == <<proxy, answered, waiting, frontend, revents, turn, dealt, backend,
               delivered, lost, deaths>>
asyncVars == <<clock, poll_began, centitick, request_nbr, unrouted, pipe,
               next_worker, identity, left, arriving>>
relayVars == <<stage, bound, ready>>
vars == <<example, forkingVars, helloVars, rtreqVars, proxyVars, asyncVars,
          relayVars>>

F == INSTANCE Forking
H == INSTANCE HelloWorld
R == INSTANCE RouterToReq
P == INSTANCE Proxy
A == INSTANCE Async
Y == INSTANCE Relay

Init ==
  /\ example \in {"forking", "helloworld", "rtreq", "proxy", "async",
                 "relay"}
  /\ F!Init /\ H!Init /\ R!Init /\ P!Init /\ A!Init /\ Y!Init
  /\ example # "forking" => buffer = "other"   \* choices of the others
  /\ example # "proxy" => proxy = "rrb"        \* do not matter

Only(e) ==
  /\ example = e /\ UNCHANGED example
  /\ IF e = "forking" THEN TRUE ELSE UNCHANGED forkingVars
  /\ IF e = "helloworld" THEN TRUE ELSE UNCHANGED helloVars
  /\ IF e = "rtreq" THEN TRUE ELSE UNCHANGED rtreqVars
  /\ IF e = "proxy" THEN TRUE ELSE UNCHANGED proxyVars
  /\ IF e = "async" THEN TRUE ELSE UNCHANGED asyncVars
  /\ IF e = "relay" THEN TRUE ELSE UNCHANGED relayVars

Next ==
  \/ Only("forking") /\ F!Next
  \/ Only("helloworld") /\ H!Next
  \/ Only("rtreq") /\ R!Next
  \/ Only("proxy") /\ P!Next
  \/ Only("async") /\ A!Next
  \/ Only("relay") /\ Y!Next

Spec == Init /\ [][Next]_vars

(* The fairness of each example, which binds it only when it is picked. *)
FairSpec ==
  /\ Spec
  /\ WF_vars(Only("forking") /\ F!ServerStep)
  /\ WF_vars(Only("helloworld") /\ H!ServerStep)
  /\ \A c \in Clients : WF_vars(Only("helloworld") /\ H!ClientStep(c))
  /\ WF_vars(Only("rtreq") /\ R!MainStep)
  /\ WF_vars(Only("rtreq") /\ R!TimeIsUp)
  /\ \A w \in Workers : WF_vars(Only("rtreq") /\ R!WorkerStep(w))
  /\ WF_vars(Only("proxy") /\ P!ProxyStep)
  /\ \A c \in Clients : WF_vars(Only("proxy") /\ P!ClientStep(c))
  /\ \A w \in Workers : WF_vars(Only("proxy") /\ P!Work(w))
  /\ \A k \in 1..LAST : WF_vars(Only("relay") /\ Y!ThreadStep(k))

-----------------------------------------------------------------------------

(* Stated in the examples' own modules, where their comments are. *)

(* server2.c: unreaped children never pile up beyond those that once ran.  *)
ZombiesBounded == F!ZombiesBounded

(* server2.c: the stale buffer of an interrupted receive is used once.     *)
StaleBufferOnce == F!StaleBufferOnce

(* helloworld/server.c: a request read after a signal gets no reply.       *)
NoReplyAfterSignal == H!NoReplyAfterSignal

(* Both servers that catch signals: a signal ends them, if need be with    *)
(* the message they get next; rtreq.c ends when its time is up, the relay  *)
(* when READY has come through.                                            *)
ProgramsEnd ==
  /\ H!SignalEnds /\ F!EndsWithNextMessage
  /\ example = "rtreq" => R!MainEnds
  /\ example = "relay" => Y!ChainCompletes

(* rtreq.c: main leaves no worker behind that it has not told to exit.     *)
AllToldToExit == R!AllToldToExit

(* rrb and mt: whoever dies, calls return unless their request died, too.  *)
EveryCallReturns == P!EveryCallReturns

(* async/cs.c: replies make a client ask early, but never by much.         *)
NeverMuchTooEarly == A!NeverMuchTooEarly

=============================================================================
