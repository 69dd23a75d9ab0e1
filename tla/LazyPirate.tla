----------------------------- MODULE LazyPirate -----------------------------
(***************************************************************************)
(* Reliable request-reply from the client side, src/src/lpp: the clients   *)
(* of LazyPirateClient and server.c, a REP socket that answers, answers    *)
(* late or crashes.  Several clients may run.  The REP socket reads its    *)
(* connections in turn, never one twice while another has a request.       *)
(*                                                                         *)
(* Time is the time left of each poll and sleep, as in ParanoidPirate.  It *)
(* passes while every process waits, when things are healthy; otherwise    *)
(* every poll and sleep may be over at once, so that every race of a       *)
(* timeout with a reply can occur.                                         *)
(***************************************************************************)
EXTENDS LazyPirateClient

CONSTANTS
  WORK, OVERLOAD,   \* the sleep(1) of every request, the sleep(2) of some
  GRACE             \* requests the server answers before it may misbehave

ASSUME ConstantsAssumption ==
  /\ REQUEST_TIMEOUT \in Nat \ {0} /\ REQUEST_RETRIES \in Nat \ {0}
  /\ WORK \in Nat /\ OVERLOAD \in Nat /\ GRACE \in Nat /\ MaxSequence \in Nat
ASSUME NoneAssumption == None \notin Nat \union [client : Clients, socket : Nat,
                                                 sequence : Nat]
                                     \union (Clients \X Nat)

VARIABLES
  last,           \* the connection the server has read last
  passed,         \* pairs of connections: the first one has been read since
                  \* the second one has had a request to be read
  cycles,
  request,        \* the request the server works on
  sleep           \* time left until it is done

serverVars == <<healthy, last, passed, server, cycles, request, sleep>>
vars       == <<clientVars, wire, serverVars>>

Request == [client : Clients, socket : Nat, sequence : Nat]

Init ==
  /\ healthy \in BOOLEAN
  /\ ClientInit
  /\ last = None /\ passed = {} /\ server = "up" /\ cycles = 0
  /\ request = None /\ sleep = 0

-----------------------------------------------------------------------------
(* server.c.                                                               *)

Count == cycles' = IF cycles > GRACE THEN cycles ELSE cycles + 1

Connection(q) == <<q.client, q.socket>>
Connections(requests) == {Connection(q) : q \in requests}

(* Whoever has been read last comes after those who ask meanwhile. *)
HasPassed ==
  passed \union (({last} \ {None}) \X (Connections(wire) \ {last}))

InTurn(q) ==
  \A r \in wire \ {q} : <<Connection(q), Connection(r)>> \notin HasPassed

Recv(q) == server = "up" /\ request = None /\ q \in wire /\ InTurn(q)

Serve(q, time) ==
  /\ Recv(q)
  /\ wire' = wire \ {q}
  /\ last' = Connection(q)
  /\ passed' = {p \in HasPassed : p[2] \in Connections(wire')}
  /\ Count
  /\ request' = q /\ sleep' = Lasting(time)
  /\ UNCHANGED <<healthy, clientVars, server>>

NormalSlow(q) == Serve(q, OVERLOAD + WORK)  \* the mistake of an early brace
Normal(q) == Serve(q, WORK)
Overload(q) == ~healthy /\ cycles >= GRACE /\ Serve(q, OVERLOAD + WORK)

(* The requests that had reached the server are lost with it; those of     *)
(* clients that are gone have nowhere else to be.                          *)
Crash(q) ==
  /\ ~healthy /\ Recv(q) /\ cycles >= GRACE
  /\ wire' \in SUBSET {r \in wire \ {q} : r.socket = socket[r.client]}
  /\ server' = "down" /\ cycles' = 0 /\ last' = None /\ passed' = {}
  /\ UNCHANGED <<healthy, clientVars, request, sleep>>

Send ==
  /\ server = "up" /\ request # None /\ sleep = 0
  /\ reply' = [c \in Clients |->
       IF c = request.client /\ request.socket = socket[c]
       THEN request.sequence ELSE reply[c]]
  /\ request' = None
  /\ UNCHANGED <<healthy, state, sequence, retries_left, socket, poll, wire,
                 last, passed, server, cycles, sleep>>

Restart ==
  /\ server = "down"
  /\ server' = "up"
  /\ UNCHANGED <<healthy, clientVars, wire, last, passed, cycles, request, sleep>>

-----------------------------------------------------------------------------

ServerRunnable ==
  server = "up" /\ IF request = None THEN wire # {} ELSE sleep = 0
Tick ==
  /\ ~ServerRunnable /\ \A c \in Clients : ~ClientRunnable(c)
  /\ sleep > 0 \/ \E c \in Clients : poll[c] > 0
  /\ poll' = [c \in Clients |-> Lower(poll[c])]
  /\ sleep' = Lower(sleep)
  /\ UNCHANGED <<healthy, state, sequence, retries_left, socket, reply, wire,
                 last, passed, server, cycles, request>>

ClientStep(c) == ClientLoop(c) /\ UNCHANGED serverVars
ServerStep ==
  \/ \E q \in wire : Normal(q) \/ Overload(q) \/ Crash(q)
  \/ Send

Next ==
  \/ \E c \in Clients : ClientStep(c)
  \/ \E c \in Clients : Interrupt(c) /\ UNCHANGED serverVars
  \/ ServerStep \/ Restart
  \/ Tick

Spec == Init /\ [][Next]_vars

(* The processes are scheduled and time passes; nobody has to restart a    *)
(* server that has crashed.                                                *)
FairSpec ==
  Spec /\ (\A c \in Clients : WF_vars(ClientStep(c))) /\ WF_vars(ServerStep)
       /\ WF_vars(Tick)

-----------------------------------------------------------------------------

TypeOK ==
  /\ healthy \in BOOLEAN
  /\ state \in [Clients -> {"ask", "expect_reply", "done"}]
  /\ sequence \in [Clients -> 0 .. MaxSequence]
  /\ retries_left \in [Clients -> 0 .. REQUEST_RETRIES]
  /\ socket \in [Clients -> Nat]
  /\ poll \in [Clients -> 0 .. REQUEST_TIMEOUT]
  /\ reply \in [Clients -> Nat \union {None}]
  /\ wire \in SUBSET Request
  /\ last \in (Clients \X Nat) \union {None}
  /\ passed \in SUBSET ((Clients \X Nat) \X (Clients \X Nat))
  /\ server \in {"up", "down"}
  /\ cycles \in 0 .. GRACE + 1
  /\ request \in Request \union {None}
  /\ sleep \in 0 .. OVERLOAD + WORK

(* A server that neither falls ill nor crashes is fast enough for as many  *)
(* clients as run: none has to ask twice.                                  *)
NobodyAsksTwice ==
  healthy => \A c \in Clients : retries_left[c] = REQUEST_RETRIES

=============================================================================
