-------------------------------- MODULE Proxy -------------------------------
(***************************************************************************)
(* src/src/rrb (client, broker and worker programs) and src/src/mt/server.c*)
(* with the same clients: REQ clients, a ROUTER and a DEALER with a loop   *)
(* that forwards between them, and REP workers.  In rrb the workers are    *)
(* processes that may die and be started again; in mt they are threads.    *)
(* The DEALER deals requests to the workers in turn, busy or not, and a    *)
(* send blocks while no worker is connected.                               *)
(***************************************************************************)
EXTENDS Naturals, FiniteSets, SequencesExt

CONSTANTS
  Clients, Workers,
  NBR_REQUESTS,
  MaxDeaths       \* bound: workers of rrb that die

VARIABLES
  proxy,          \* "rrb" or "mt"; never changes
  answered,       \* answered[c]: replies the client has got
  waiting,        \* clients in s_recv
  frontend,       \* clients whose request the proxy has not read
  revents,        \* sides that the last poll found readable, not yet handled
  turn,           \* connected workers, the next to be given a request first
  dealt,          \* dealt[w]: requests at the worker, the one in hand first
  backend,        \* clients whose reply the proxy has not read
  delivered,      \* clients whose reply is on its way to them
  lost,           \* history: clients whose request was lost with a worker
  deaths

messages == <<frontend, dealt, backend, delivered>>
vars == <<proxy, answered, waiting, revents, turn, lost, deaths, messages>>

Init ==
  /\ proxy \in {"rrb", "mt"}
  /\ answered = [c \in Clients |-> 0] /\ waiting = {}
  /\ frontend = {} /\ backend = {} /\ delivered = {} /\ revents = {}
  /\ turn = <<>> /\ dealt = [w \in Workers |-> <<>>]
  /\ lost = {} /\ deaths = 0

Send(c) ==
  /\ c \notin waiting /\ answered[c] < NBR_REQUESTS
  /\ waiting' = waiting \union {c} /\ frontend' = frontend \union {c}
  /\ UNCHANGED <<proxy, answered, revents, turn, dealt, backend, delivered,
                 lost, deaths>>

Recv(c) ==
  /\ c \in delivered
  /\ delivered' = delivered \ {c} /\ waiting' = waiting \ {c}
  /\ answered' = [answered EXCEPT ![c] = @ + 1]
  /\ UNCHANGED <<proxy, revents, turn, frontend, dealt, backend, lost, deaths>>

Connect(w) ==
  /\ w \notin ToSet(turn)
  /\ turn' = Append(turn, w)
  /\ UNCHANGED <<proxy, answered, waiting, revents, lost, deaths, messages>>

(* What a dying worker had sent may be cut off: Work stands for the arrival*)
(* of its reply.                                                           *)
Work(w) ==
  /\ dealt[w] # <<>>
  /\ backend' = backend \union {Head(dealt[w])}
  /\ dealt' = [dealt EXCEPT ![w] = Tail(@)]
  /\ UNCHANGED <<proxy, answered, waiting, revents, turn, frontend, delivered,
                 lost, deaths>>

Die(w) ==
  /\ proxy = "rrb" /\ deaths < MaxDeaths /\ w \in ToSet(turn)
  /\ turn' = Remove(turn, w)
  /\ dealt' = [dealt EXCEPT ![w] = <<>>] /\ lost' = lost \union ToSet(dealt[w])
  /\ deaths' = deaths + 1
  /\ UNCHANGED <<proxy, answered, waiting, revents, frontend, backend,
                 delivered>>

(* Polling both sides, and the mistake of polling the first only. *)
ReadableFirst == IF frontend # {} THEN {"frontend"} ELSE {}
Readable ==
  ReadableFirst \union (IF backend # {} THEN {"backend"} ELSE {})

Poll ==
  /\ revents = {} /\ Readable # {}
  /\ revents' = Readable
  /\ UNCHANGED <<proxy, answered, waiting, turn, lost, deaths, messages>>

(* Blocks while nobody is connected; replies wait meanwhile. *)
ForwardRequest(c) ==
  /\ "frontend" \in revents /\ c \in frontend /\ turn # <<>>
  /\ frontend' = frontend \ {c}
  /\ dealt' = [dealt EXCEPT ![Head(turn)] = Append(@, c)]
  /\ turn' = Append(Tail(turn), Head(turn))
  /\ revents' = revents \ {"frontend"}
  /\ UNCHANGED <<proxy, answered, waiting, backend, delivered, lost, deaths>>

ForwardReply(c) ==
  /\ revents = {"backend"} /\ c \in backend
  /\ backend' = backend \ {c} /\ delivered' = delivered \union {c}
  /\ revents' = {}
  /\ UNCHANGED <<proxy, answered, waiting, frontend, turn, dealt, lost, deaths>>

ClientStep(c) == Send(c) \/ Recv(c)
ProxyStep == Poll \/ \E c \in Clients : ForwardRequest(c) \/ ForwardReply(c)
Next ==
  \/ ProxyStep
  \/ \E c \in Clients : ClientStep(c)
  \/ \E w \in Workers : Connect(w) \/ Work(w) \/ Die(w)

Spec == Init /\ [][Next]_vars
FairSpec ==
  /\ Spec /\ WF_vars(ProxyStep)
  /\ \A c \in Clients : WF_vars(ClientStep(c))
  /\ \A w \in Workers : WF_vars(Work(w))

-----------------------------------------------------------------------------

TypeOK ==
  /\ proxy \in {"rrb", "mt"}
  /\ answered \in [Clients -> 0..NBR_REQUESTS] /\ deaths \in 0..MaxDeaths
  /\ UNION {waiting, frontend, backend, delivered, lost} \subseteq Clients
  /\ revents \subseteq {"frontend", "backend"}
  /\ turn \in Seq(Workers) /\ dealt \in [Workers -> Seq(Clients)]

(* If from some time on a worker is connected, every call returns, except  *)
(* those whose request has died with a worker, whoever was connected when  *)
(* the request was sent and however the loads of the workers differ.       *)
EveryCallReturns ==
  <>[](turn # <<>>) =>
    \A c \in Clients : c \in waiting ~> c \notin waiting \/ c \in lost

=============================================================================
