-------------------------------- MODULE Async -------------------------------
(***************************************************************************)
(* src/src/async/cs.c: clients that ask, by their own reckoning, once in a *)
(* hundred polls of 10 ms, and a server that deals the requests in turn to *)
(* workers, which send any number of replies to each, up to a limit.  main *)
(* ends the process after some seconds.  A poll that finds a reply does not*)
(* last its 10 ms.                                                         *)
(***************************************************************************)
EXTENDS Naturals, SequencesExt

CONSTANTS
  Clients, Workers, None,
  TICKS,         \* polls between two requests: 100 in the code
  LIFE,          \* polls' worth of time until the process ends: 500
  REPLIES        \* the code's randof(5) is 5 at most: see base.h

VARIABLES
  clock,         \* time passed, in units of a poll that times out
  poll_began,    \* poll_began[c]: when the present poll of client c began
  centitick,
  request_nbr,
  unrouted,      \* unrouted[c]: requests the proxy has not forwarded
  pipe,          \* pipe[w]: clients whose requests wait for the worker
  next_worker,   \* the order in which workers are given requests
  identity,      \* identity[w]: the client whose request w answers, or None
  left,          \* left[w]: replies w has still to send
  arriving       \* arriving[c]: replies on their way to the client

proxyVars == <<unrouted, next_worker>>
workerVars == <<pipe, identity, left>>
vars == <<clock, poll_began, centitick, request_nbr, arriving, proxyVars,
          workerVars>>

(* Workers that do not differ may as well connect in any given order. *)
Ring == SetToSeq(Workers)

Init ==
  /\ clock = 0 /\ next_worker = Ring
  /\ poll_began = [c \in Clients |-> 0] /\ centitick = [c \in Clients |-> 0]
  /\ request_nbr = [c \in Clients |-> 0] /\ unrouted = [c \in Clients |-> 0]
  /\ arriving = [c \in Clients |-> 0]
  /\ pipe = [w \in Workers |-> <<>>] /\ identity = [w \in Workers |-> None]
  /\ left = [w \in Workers |-> 0]

Running == clock < LIFE

Elapse ==
  /\ Running /\ clock' = clock + 1
  /\ UNCHANGED <<poll_began, centitick, request_nbr, arriving, proxyVars,
                 workerVars>>

(* A poll returns with a reply, or when its time is over. *)
PollOver(c) ==
  /\ Running /\ centitick[c] < TICKS
  /\ \/ arriving[c] > 0 /\ arriving' = [arriving EXCEPT ![c] = @ - 1]
     \/ clock > poll_began[c] /\ UNCHANGED arriving
  /\ centitick' = [centitick EXCEPT ![c] = @ + 1]
  /\ poll_began' = [poll_began EXCEPT ![c] = clock]
  /\ UNCHANGED <<clock, request_nbr, proxyVars, workerVars>>

Request(c) ==
  /\ Running /\ centitick[c] = TICKS
  /\ centitick' = [centitick EXCEPT ![c] = 0]
  /\ request_nbr' = [request_nbr EXCEPT ![c] = @ + 1]
  /\ unrouted' = [unrouted EXCEPT ![c] = @ + 1]
  /\ poll_began' = [poll_began EXCEPT ![c] = clock]
  /\ UNCHANGED <<clock, arriving, next_worker, workerVars>>

Route(c) ==
  /\ Running /\ unrouted[c] > 0
  /\ unrouted' = [unrouted EXCEPT ![c] = @ - 1]
  /\ pipe' = [pipe EXCEPT ![Head(next_worker)] = Append(@, c)]
  /\ next_worker' = Append(Tail(next_worker), Head(next_worker))
  /\ UNCHANGED <<clock, poll_began, centitick, request_nbr, arriving, identity,
                 left>>

(* The number of replies, and the mistake of one more. *)
SomeRepliesAndOne == 0..(REPLIES + 1)
SomeReplies == 0..REPLIES

Take(w) ==
  /\ Running /\ pipe[w] # <<>> /\ left[w] = 0
  /\ \E n \in SomeReplies :
       /\ left' = [left EXCEPT ![w] = n]
       /\ identity' = [identity EXCEPT ![w] = IF n > 0 THEN Head(pipe[w])
                                               ELSE None]
  /\ pipe' = [pipe EXCEPT ![w] = Tail(@)]
  /\ UNCHANGED <<clock, poll_began, centitick, request_nbr, arriving,
                 proxyVars>>

Reply(w) ==
  /\ Running /\ left[w] > 0
  /\ left' = [left EXCEPT ![w] = @ - 1]
  /\ arriving' = [arriving EXCEPT ![identity[w]] = @ + 1]
  /\ identity' = [identity EXCEPT ![w] = IF left[w] > 1 THEN @ ELSE None]
  /\ UNCHANGED <<clock, poll_began, centitick, request_nbr, proxyVars, pipe>>

Next ==
  \/ Elapse
  \/ \E c \in Clients : PollOver(c) \/ Request(c) \/ Route(c)
  \/ \E w \in Workers : Take(w) \/ Reply(w)

Spec == Init /\ [][Next]_vars

-----------------------------------------------------------------------------

TypeOK ==
  /\ clock \in 0..LIFE /\ poll_began \in [Clients -> 0..LIFE]
  /\ centitick \in [Clients -> 0..TICKS] /\ request_nbr \in [Clients -> Nat]
  /\ unrouted \in [Clients -> Nat] /\ arriving \in [Clients -> Nat]
  /\ pipe \in [Workers -> Seq(Clients)] /\ next_worker \in Seq(Workers)
  /\ identity \in [Workers -> Clients \union {None}]
  /\ left \in [Workers -> 0..REPLIES]

(* A client counts polls, not time, and each reply makes a poll shorter.   *)
(* The replies to a request cost the client no more than as many polls: it *)
(* asks at most that much too early, however replies pile up.  With the    *)
(* numbers of the code, a process that lives five seconds asks five times  *)
(* per client at most.                                                     *)
NeverMuchTooEarly ==
  \A c \in Clients :
    request_nbr[c] > 0 =>
      request_nbr[c] * TICKS <= clock + REPLIES * (request_nbr[c] - 1)

=============================================================================
