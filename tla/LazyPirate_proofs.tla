-------------------------- MODULE LazyPirate_proofs -------------------------
(***************************************************************************)
(* The safety of src/src/lpp for any number of clients, tries and requests *)
(* and any times.                                                          *)
(***************************************************************************)
EXTENDS LazyPirate, FiniteSets, FiniteSetTheorems, WellFoundedInduction, TLAPS

(* Whether request q was sent by the present socket of client c, and what  *)
(* such a request can be while c has no reply to it.                       *)
Current(q, c) == q.client = c /\ q.socket = socket[c]
Outstanding(q, c) ==
  state[c] = "expect_reply" /\ q.sequence = sequence[c] /\ reply[c] = None

(* Sockets are not reused; a REQ socket has one request at most under way, *)
(* the one its client waits for, and none once the reply is there.         *)
NoFutureSocket ==
  /\ \A q \in wire : q.socket <= socket[q.client]
  /\ request # None => request.socket <= socket[request.client]
WireOutstanding ==
  \A c \in Clients, q \in wire : Current(q, c) => Outstanding(q, c)
RequestOutstanding ==
  \A c \in Clients : request # None /\ Current(request, c) =>
    /\ Outstanding(request, c)
    /\ \A q \in wire : ~Current(q, c)

IInv ==
  /\ TypeOK /\ NoStaleReply
  /\ NoFutureSocket /\ WireOutstanding /\ RequestOutstanding

LEMMA NoneIsNoNumber == None \notin Nat /\ None \notin Request
  BY NoneAssumption DEF Request

LEMMA LastingType ==
  ASSUME TypeOK, NEW n \in Nat PROVE Lasting(n) \in 0 .. n
  BY DEF TypeOK, Lasting

LEMMA InitIInv == Init => IInv
<1> SUFFICES ASSUME Init PROVE IInv
  OBVIOUS
<1>1. TypeOK
  BY ConstantsAssumption DEF Init, ClientInit, TypeOK
<1>2. wire = {} /\ request = None /\ \A c \in Clients : reply[c] = None
  BY DEF Init, ClientInit
<1> QED
  BY <1>1, <1>2 DEF IInv, NoStaleReply, NoFutureSocket, WireOutstanding,
     RequestOutstanding

(* The wire after a socket has been closed: nothing new is on it. *)
LEMMA ClosedLoses ==
  ASSUME NEW c \in Clients, NEW rest \in Closed(c) PROVE rest \subseteq wire
  BY DEF Closed

-----------------------------------------------------------------------------
(* Types.                                                                  *)

LEMMA ClientType ==
  ASSUME TypeOK, NEW c \in Clients, UNCHANGED serverVars,
         ClientLoop(c) \/ Interrupt(c)
  PROVE  TypeOK'
<1> USE ConstantsAssumption DEF TypeOK
<1>1. /\ Asked(c) \in Request
      /\ RequestOf(c, socket[c] + 1, sequence[c]) \in Request
      /\ RequestOf(c, socket[c], sequence[c] + 1) \in Request
  BY DEF Asked, RequestOf, Request
<1>2. UNCHANGED <<healthy, last, passed, server, cycles, request, sleep>>
  BY DEF serverVars
<1>3. Lasting(REQUEST_TIMEOUT) \in 0 .. REQUEST_TIMEOUT
  BY LastingType
<1>4. CASE Ask(c)
  BY <1>1, <1>2, <1>3, <1>4 DEF Ask, NextSequence
<1>5. CASE Receive(c)
  BY <1>2, <1>3, <1>5 DEF Receive
<1>6. CASE Retry(c)
  <2>1. wire' \subseteq Request
    BY <1>1, <1>6, ClosedLoses DEF Retry, NewSocket
  <2> QED
    BY <1>2, <1>3, <1>6, <2>1 DEF Retry, NewSocket, MayRetry, Silence
<1>7. CASE End(c) /\ retries_left' \in [Clients -> 0 .. REQUEST_RETRIES]
  <2>1. wire' \subseteq Request
    BY <1>7, ClosedLoses DEF End
  <2> QED
    BY <1>2, <1>7, <2>1 DEF End
<1>8. CASE Abandon(c)
  BY <1>7, <1>8 DEF Abandon
<1>9. CASE Interrupt(c)
  BY <1>7, <1>9 DEF Interrupt
<1> QED
  BY <1>4, <1>5, <1>6, <1>8, <1>9 DEF ClientLoop

LEMMA ServerType ==
  ASSUME TypeOK, ServerStep \/ Restart \/ Tick \/ UNCHANGED vars
  PROVE  TypeOK'
<1> USE ConstantsAssumption DEF TypeOK
<1>1. ASSUME NEW q \in wire, NEW time \in 0 .. OVERLOAD + WORK, Serve(q, time)
      PROVE  TypeOK'
  <2>1. Connection(q) \in Clients \X Nat
    BY DEF Connection, Request
  <2>2. Lasting(time) \in 0 .. OVERLOAD + WORK
    BY DEF Lasting
  <2>3. cycles' \in 0 .. GRACE + 1
    BY <1>1 DEF Serve, Count
  <2>4. Connections(wire) \subseteq Clients \X Nat
    BY DEF Connections, Connection, Request
  <2>5. passed' \in SUBSET ((Clients \X Nat) \X (Clients \X Nat))
    BY <1>1, <2>4 DEF Serve, HasPassed
  <2> QED
    BY <1>1, <2>1, <2>2, <2>3, <2>5 DEF Serve, clientVars
<1>2. CASE \E q \in wire : Normal(q) \/ Overload(q)
  BY <1>1, <1>2 DEF Normal, Overload
<1>3. CASE \E q \in wire : Crash(q)
  <2>1. wire' \in SUBSET Request
    BY <1>3 DEF Crash
  <2>2. cycles' \in 0 .. GRACE + 1
    BY <1>3 DEF Crash
  <2> QED
    BY <1>3, <2>1, <2>2 DEF Crash, clientVars
<1>4. CASE Send
  <2>1. reply' \in [Clients -> Nat \union {None}]
    BY <1>4 DEF Send, Request
  <2> QED
    BY <1>4, <2>1 DEF Send
<1>5. CASE Restart
  BY <1>5 DEF Restart, clientVars
<1>6. CASE Tick
  BY <1>6 DEF Tick, Lower
<1>7. CASE UNCHANGED vars
  BY <1>7 DEF vars, clientVars, serverVars
<1> QED
  BY <1>2, <1>3, <1>4, <1>5, <1>6, <1>7 DEF ServerStep

LEMMA TypeStep == TypeOK /\ [Next]_vars => TypeOK'
  BY ClientType, ServerType DEF Next, ClientStep

-----------------------------------------------------------------------------
(* What is under way.                                                      *)

Underway ==
  NoStaleReply /\ NoFutureSocket /\ WireOutstanding /\ RequestOutstanding

(* A client that throws its socket away has nothing under way with the next*)
(* one, but for what it sends itself.                                      *)
LEMMA FreshSocket ==
  ASSUME IInv, NEW c \in Clients,
         socket' = [socket EXCEPT ![c] = @ + 1],
         reply' = [reply EXCEPT ![c] = None],
         \A d \in Clients \ {c} : state'[d] = state[d],
         UNCHANGED <<sequence, request>>,
         \A q \in wire' : \/ q \in wire
                          \/ /\ q = RequestOf(c, socket[c] + 1, sequence[c])
                             /\ state'[c] = "expect_reply"
  PROVE  Underway'
<1> USE NoneIsNoNumber DEF IInv, TypeOK
<1>1. \A q \in wire : /\ q.client \in Clients /\ q.socket \in Nat
                      /\ ~Current(q, c)'
  BY DEF NoFutureSocket, Current, Request
<1>2. request # None => /\ request.client \in Clients /\ request.socket \in Nat
                        /\ ~Current(request, c)'
  BY DEF NoFutureSocket, Current, Request
<1>3. \A q \in wire' : q \notin wire =>
        Current(q, c)' /\ Outstanding(q, c)' /\ q.client = c
                       /\ q.socket = socket[c] + 1
  BY DEF RequestOf, Current, Outstanding
<1>4. NoStaleReply'
  BY DEF NoStaleReply
<1>5. NoFutureSocket'
  BY <1>1, <1>2, <1>3 DEF NoFutureSocket
<1>6. \A d \in Clients \ {c} : UNCHANGED <<socket[d], reply[d], state[d],
                                           sequence[d]>>
  OBVIOUS
<1>7. WireOutstanding'
  <2> SUFFICES ASSUME NEW d \in Clients, NEW q \in wire', Current(q, d)'
               PROVE  Outstanding(q, d)'
    BY DEF WireOutstanding
  <2>1. CASE d = c
    BY <1>1, <1>3, <2>1
  <2>2. CASE d # c
    BY <1>3, <1>6, <2>2 DEF WireOutstanding, Current, Outstanding
  <2> QED
    BY <2>1, <2>2
<1>8. RequestOutstanding'
  <2> SUFFICES ASSUME NEW d \in Clients, request # None, Current(request, d)'
               PROVE  /\ Outstanding(request, d)'
                      /\ \A q \in wire' : ~Current(q, d)'
    BY DEF RequestOutstanding
  <2>1. d # c
    BY <1>2
  <2>2. Current(request, d)
    BY <1>6, <2>1 DEF Current
  <2>3. Outstanding(request, d)'
    BY <1>6, <2>1, <2>2 DEF RequestOutstanding, Outstanding
  <2>4. \A q \in wire' : ~Current(q, d)'
    BY <1>3, <1>6, <2>1, <2>2 DEF RequestOutstanding, Current
  <2> QED
    BY <2>3, <2>4
<1> QED
  BY <1>4, <1>5, <1>7, <1>8 DEF Underway

LEMMA ClientUnderway ==
  ASSUME IInv, NEW c \in Clients, UNCHANGED serverVars,
         ClientLoop(c) \/ Interrupt(c)
  PROVE  Underway'
<1> USE NoneIsNoNumber DEF IInv, TypeOK
<1>1. UNCHANGED request
  BY DEF serverVars
<1>2. CASE Ask(c)
  <2> DEFINE new == RequestOf(c, socket[c], sequence[c] + 1)
  <2>1. /\ state[c] = "ask" /\ reply[c] = None
        /\ \A q \in wire : ~Current(q, c)
        /\ request # None => ~Current(request, c)
    BY <1>2 DEF Ask, NoStaleReply, WireOutstanding, RequestOutstanding,
       Outstanding
  <2>2. /\ UNCHANGED <<socket, reply>> /\ wire' = wire \union {new}
        /\ sequence' = [sequence EXCEPT ![c] = @ + 1]
        /\ state' = [state EXCEPT ![c] = "expect_reply"]
    BY <1>2 DEF Ask, NextSequence
  <2>3. new.client = c /\ new.socket = socket[c] /\ new.sequence = sequence'[c]
    BY <2>2 DEF RequestOf
  <2> HIDE DEF new
  <2>4. NoStaleReply'
    BY <2>1, <2>2 DEF NoStaleReply
  <2>5. NoFutureSocket'
    BY <1>1, <2>2, <2>3 DEF NoFutureSocket
  <2>6. WireOutstanding'
    BY <2>1, <2>2, <2>3 DEF WireOutstanding, Current, Outstanding
  <2>7. RequestOutstanding'
    BY <1>1, <2>1, <2>2, <2>3 DEF RequestOutstanding, Current, Outstanding
  <2> QED
    BY <2>4, <2>5, <2>6, <2>7 DEF Underway
<1>3. CASE Receive(c)
  <2>1. /\ reply[c] = sequence[c]
        /\ \A q \in wire : ~Current(q, c)
        /\ request # None => ~Current(request, c)
    BY <1>3 DEF Receive, NoStaleReply, WireOutstanding, RequestOutstanding,
       Outstanding
  <2>2. /\ UNCHANGED <<socket, sequence, wire>>
        /\ reply' = [reply EXCEPT ![c] = None]
        /\ state' = [state EXCEPT ![c] = "ask"]
    BY <1>3, <2>1 DEF Receive
  <2>3. NoStaleReply' /\ NoFutureSocket'
    BY <1>1, <2>2 DEF NoStaleReply, NoFutureSocket
  <2>4. WireOutstanding'
    BY <2>1, <2>2 DEF WireOutstanding, Current, Outstanding
  <2>5. RequestOutstanding'
    BY <1>1, <2>1, <2>2 DEF RequestOutstanding, Current, Outstanding
  <2> QED
    BY <2>3, <2>4, <2>5 DEF Underway
<1>4. CASE Retry(c)
  <2>1. state[c] = "expect_reply" /\ UNCHANGED state
    BY <1>4 DEF Retry, Silence
  <2> QED
    BY <1>1, <1>4, <2>1, FreshSocket, ClosedLoses DEF Retry, NewSocket
<1>5. CASE End(c)
  <2>1. \A q \in wire' : q \in wire
    BY <1>5, ClosedLoses DEF End
  <2> QED
    BY <1>1, <1>5, <2>1, FreshSocket DEF End
<1> QED
  BY <1>2, <1>3, <1>4, <1>5 DEF ClientLoop, Abandon, Interrupt

(* Steps that change nothing for the clients and lose requests at most. *)
LEMMA OnlyLoses ==
  ASSUME IInv, UNCHANGED <<state, sequence, socket, reply>>,
         wire' \subseteq wire, UNCHANGED request
  PROVE  Underway'
  BY DEF IInv, Underway, NoStaleReply, NoFutureSocket, WireOutstanding,
     RequestOutstanding, Current, Outstanding

LEMMA ServerUnderway ==
  ASSUME IInv, ServerStep \/ Restart \/ Tick \/ UNCHANGED vars
  PROVE  Underway'
<1> USE NoneIsNoNumber DEF IInv, TypeOK
<1>1. ASSUME NEW q \in wire, NEW time, Serve(q, time) PROVE Underway'
  <2>1. /\ UNCHANGED <<state, sequence, socket, reply>>
        /\ wire' = wire \ {q} /\ request' = q /\ q \in Request /\ q # None
    BY <1>1 DEF Serve, clientVars
  <2>2. \A r \in wire', c \in Clients : ~(Current(q, c) /\ Current(r, c))
    <3> SUFFICES ASSUME NEW r \in wire', NEW c \in Clients,
                        Current(q, c), Current(r, c)
                 PROVE  FALSE
      OBVIOUS
    <3>1. r \in Request /\ r.sequence = q.sequence
      BY <2>1 DEF WireOutstanding, Outstanding
    <3>2. r = q
      BY <2>1, <3>1 DEF Request, Current
    <3> QED
      BY <2>1, <3>2
  <2>3. NoStaleReply' /\ NoFutureSocket' /\ WireOutstanding'
    BY <2>1 DEF NoStaleReply, NoFutureSocket, WireOutstanding, Current,
       Outstanding
  <2>4. RequestOutstanding'
    BY <2>1, <2>2 DEF RequestOutstanding, WireOutstanding, Current, Outstanding
  <2> QED
    BY <2>3, <2>4 DEF Underway
<1>2. CASE \E q \in wire : Normal(q) \/ Overload(q)
  BY <1>1, <1>2 DEF Normal, Overload
<1>3. CASE \E q \in wire : Crash(q)
  BY <1>3, OnlyLoses DEF Crash, clientVars
<1>4. CASE Send
  <2>1. /\ UNCHANGED <<state, sequence, socket, wire>>
        /\ request # None /\ request' = None
        /\ \A c \in Clients : reply'[c] = IF Current(request, c)
                                          THEN request.sequence ELSE reply[c]
    BY <1>4 DEF Send, Current
  <2>2. NoStaleReply'
    BY <2>1 DEF NoStaleReply, RequestOutstanding, Outstanding
  <2>3. NoFutureSocket' /\ RequestOutstanding'
    BY <2>1 DEF NoFutureSocket, RequestOutstanding
  <2>4. WireOutstanding'
    BY <2>1 DEF WireOutstanding, RequestOutstanding, Current, Outstanding
  <2> QED
    BY <2>2, <2>3, <2>4 DEF Underway
<1>5. CASE Restart \/ Tick \/ UNCHANGED vars
  BY <1>5, OnlyLoses DEF Restart, Tick, vars, clientVars, serverVars
<1> QED
  BY <1>2, <1>3, <1>4, <1>5 DEF ServerStep

-----------------------------------------------------------------------------

LEMMA StepIInv == IInv /\ [Next]_vars => IInv'
  BY TypeStep, ClientUnderway, ServerUnderway
     DEF IInv, Underway, Next, ClientStep

LEMMA Invariance == Spec => []IInv
  BY InitIInv, StepIInv, PTL DEF Spec

(* Every variable keeps its type, whatever the numbers of the code are set *)
(* to: tries and times stay within their limits.                           *)
THEOREM TypeCorrect == Spec => []TypeOK
<1>1. IInv => TypeOK
  BY DEF IInv
<1> QED
  BY Invariance, <1>1, PTL

(* client.c:31-43: with timeouts, retries, late replies, crashes and       *)
(* restarts in any order, the reply that a client reads is the reply to    *)
(* the request that it waits for.                                          *)
THEOREM RepliesAreNeverStale == Spec => []NoStaleReply
<1>1. IInv => NoStaleReply
  BY DEF IInv
<1> QED
  BY Invariance, <1>1, PTL

-----------------------------------------------------------------------------
(* Time.  With a healthy server a client waits for the request the server  *)
(* works on and for one of each client that may come before it.            *)

Waits(c) == state[c] = "expect_reply" /\ reply[c] = None

Own(c) == <<c, socket[c]>>
MayPrecede(c) == {d \in Clients \ {c} : <<Own(d), Own(c)>> \notin HasPassed}
TimeAhead(c) == WORK * (Cardinality(MayPrecede(c)) + 1)
LongestWait(c) ==
  IF request = Asked(c) THEN sleep
  ELSE (IF request = None THEN 0 ELSE sleep) + TimeAhead(c)

FirstTry(c) ==
  retries_left[c] = REQUEST_RETRIES /\ socket[c] = 0 /\ state[c] # "done"
AnsweredInTime(c) ==
  Waits(c) => /\ Asked(c) \in wire \/ request = Asked(c)
              /\ poll[c] > LongestWait(c)
ServerAtWork ==
  server = "up" /\ (request # None => last = Connection(request) /\ sleep <= WORK)

TimelyInv ==
  healthy =>
    ServerAtWork /\ \A c \in Clients : FirstTry(c) /\ AnsweredInTime(c)

(* The timeout is longer than the work on one request of every client. *)
LongTimeout ==
  IsFiniteSet(Clients) /\ WORK * Cardinality(Clients) < REQUEST_TIMEOUT

LEMMA Products ==
  /\ \A w, m \in Nat : w * m \in Nat /\ w * (m + 1) = w * m + w
  /\ \A w, m, n \in Nat : m <= n => w * m <= w * n
<1>1. \A w, m \in Nat : w * m \in Nat /\ w * (m + 1) = w * m + w
  OBVIOUS
<1>2. ASSUME NEW w \in Nat, NEW m \in Nat, NEW n \in Nat, m <= n
      PROVE  w * m <= w * n
  <2>1. n - m \in Nat /\ n = m + (n - m)
    BY <1>2
  <2>2. w * n = w * m + w * (n - m) /\ w * (n - m) \in Nat
    BY <2>1
  <2> QED
    BY <2>2
<1> QED
  BY <1>1, <1>2

LEMMA InitTimely == Init => TimelyInv
  BY DEF Init, ClientInit, TimelyInv, ServerAtWork, FirstTry, AnsweredInTime,
     Waits

(* While all is well, what is under way was sent by the first sockets. *)
LEMMA UnderwayIsAsked ==
  ASSUME IInv, TimelyInv, healthy
  PROVE  /\ \A q \in wire : q.client \in Clients /\ q = Asked(q.client)
                            /\ Waits(q.client)
         /\ request # None => /\ request.client \in Clients
                              /\ request = Asked(request.client)
                              /\ Waits(request.client)
                              /\ request \notin wire
<1> USE DEF IInv, TypeOK, TimelyInv, FirstTry
<1>1. ASSUME NEW q \in Request, q.socket <= socket[q.client],
             Current(q, q.client) => Outstanding(q, q.client)
      PROVE  q.client \in Clients /\ q = Asked(q.client) /\ Waits(q.client)
             /\ Current(q, q.client)
  <2>1. q.client \in Clients /\ q.socket = 0
    BY <1>1 DEF Request
  <2> QED
    BY <1>1, <2>1 DEF Current, Outstanding, Asked, RequestOf, Request, Waits
<1>2. \A q \in wire : q.client \in Clients /\ q = Asked(q.client)
                      /\ Waits(q.client)
  BY <1>1 DEF NoFutureSocket, WireOutstanding, Request
<1>3. ASSUME request # None
      PROVE  /\ request.client \in Clients /\ request = Asked(request.client)
             /\ Waits(request.client) /\ request \notin wire
  <2>1. request \in Request /\ request.client \in Clients
    BY <1>3 DEF Request
  <2> QED
    BY <1>1, <1>3, <2>1 DEF NoFutureSocket, RequestOutstanding
<1> QED
  BY <1>2, <1>3

LEMMA AskedType ==
  ASSUME IInv, NEW c \in Clients
  PROVE  /\ Asked(c) \in Request /\ Asked(c) # None
         /\ Connection(Asked(c)) = Own(c) /\ Own(c) # None
  BY NoneIsNoNumber, NoneAssumption
     DEF IInv, TypeOK, Asked, RequestOf, Request, Connection, Own

LEMMA WaitType ==
  ASSUME IInv, IsFiniteSet(Clients), NEW c \in Clients
  PROVE  /\ LongestWait(c) \in Nat /\ poll[c] \in Nat /\ sleep \in Nat
         /\ WORK \in Nat /\ REQUEST_TIMEOUT \in Nat
         /\ TimeAhead(c) \in Nat /\ TimeAhead(c) >= WORK
         /\ IsFiniteSet(MayPrecede(c)) /\ Cardinality(MayPrecede(c)) \in Nat
<1>1. MayPrecede(c) \subseteq Clients
  BY DEF MayPrecede
<1>2. IsFiniteSet(MayPrecede(c)) /\ Cardinality(MayPrecede(c)) \in Nat
  BY <1>1, FS_Subset, FS_CardinalityType
<1>3. poll[c] \in Nat /\ sleep \in Nat /\ WORK \in Nat /\ REQUEST_TIMEOUT \in Nat
  BY ConstantsAssumption DEF IInv, TypeOK
<1>4. /\ TimeAhead(c) = WORK * Cardinality(MayPrecede(c)) + WORK
      /\ WORK * Cardinality(MayPrecede(c)) \in Nat
  BY <1>2, <1>3, Products DEF TimeAhead
<1>5. TimeAhead(c) \in Nat /\ TimeAhead(c) >= WORK
  BY <1>3, <1>4
<1>6. LongestWait(c) \in Nat
  BY <1>3, <1>5 DEF LongestWait
<1> QED
  BY <1>2, <1>3, <1>5, <1>6

(* A client that asks only now comes after the one whose request the       *)
(* server works on, so that each client is served once at most before it.  *)
LEMMA NewcomersWait ==
  ASSUME IInv, TimelyInv, healthy, LongTimeout, NEW c \in Clients, ~Waits(c),
         UNCHANGED <<socket, last, passed, request, sleep>>,
         Own(c) \in Connections(wire)', Asked(c)' # None
  PROVE  LongestWait(c)' \in Nat /\ LongestWait(c)' <= WORK * Cardinality(Clients)
<1> DEFINE ahead == MayPrecede(c)'
           n == Cardinality(ahead)
           N == Cardinality(Clients)
<1>1. WORK \in Nat /\ sleep \in Nat /\ N \in Nat
  BY WaitType, FS_CardinalityType DEF LongTimeout
<1>2. ahead \subseteq Clients \ {c}
  BY DEF MayPrecede
<1>3. IsFiniteSet(Clients \ {c}) /\ Cardinality(Clients \ {c}) = N - 1
  BY FS_RemoveElement DEF LongTimeout
<1>4. n \in Nat /\ n + 1 <= N
  <2>1. n \in Nat /\ n <= Cardinality(Clients \ {c})
    BY <1>2, <1>3, FS_Subset, FS_CardinalityType
  <2> HIDE DEF n, N
  <2> QED
    BY <1>1, <1>3, <2>1
<1>5. TimeAhead(c)' = WORK * (n + 1)
  BY DEF TimeAhead
<1>6. WORK * (n + 1) \in Nat /\ WORK * (n + 1) <= WORK * N
  <2> HIDE DEF n, N
  <2> QED
    BY <1>1, <1>4, Products
<1>7. CASE request = None
  <2>1. LongestWait(c)' = 0 + WORK * (n + 1)
    BY <1>5, <1>7 DEF LongestWait
  <2> HIDE DEF n, N
  <2> QED
    BY <1>6, <2>1 DEF N
<1>8. CASE request # None
  <2>1. sleep <= WORK /\ last = Connection(request)
    BY <1>8 DEF TimelyInv, ServerAtWork
  <2>2. PICK e \in Clients : e # c /\ request = Asked(e)
    BY <1>8, UnderwayIsAsked
  <2>3. last = Own(e) /\ last # None /\ Own(c) # Own(e)
    BY <2>1, <2>2, AskedType DEF Own
  <2>4. <<Own(e), Own(c)>>' \in HasPassed'
    BY <2>3 DEF HasPassed, Own
  <2>5. ahead \subseteq (Clients \ {c}) \ {e}
    BY <1>2, <2>4 DEF MayPrecede
  <2>6. IsFiniteSet((Clients \ {c}) \ {e})
        /\ Cardinality((Clients \ {c}) \ {e}) = N - 1 - 1
    BY <1>3, <2>2, FS_RemoveElement
  <2>7. n <= Cardinality((Clients \ {c}) \ {e})
    BY <2>5, <2>6, FS_Subset
  <2>8. LongestWait(c)' \in {sleep, sleep + WORK * (n + 1)}
    BY <1>5, <1>8 DEF LongestWait
  <2> HIDE DEF n, N, ahead
  <2>9. n + 1 + 1 <= N /\ n + 1 \in Nat
    BY <1>1, <1>4, <2>6, <2>7
  <2>10. WORK * (n + 1) + WORK <= WORK * N
    BY <1>1, <2>9, Products
  <2> QED
    BY <1>1, <1>6, <2>1, <2>8, <2>10 DEF N
<1> QED
  BY <1>7, <1>8

LEMMA ClientTimely ==
  ASSUME IInv, IInv', TimelyInv, LongTimeout, NEW c \in Clients,
         ClientStep(c) \/ (Interrupt(c) /\ UNCHANGED serverVars)
  PROVE  TimelyInv'
<1> SUFFICES ASSUME healthy PROVE TimelyInv'
  BY DEF TimelyInv, serverVars, ClientStep
<1> USE DEF IInv, TypeOK
<1>1. UNCHANGED <<healthy, last, passed, server, request, sleep>> /\ healthy'
  BY DEF serverVars, ClientStep
<1>2. ServerAtWork'
  BY <1>1 DEF TimelyInv, ServerAtWork
<1>3. ~Silence(c) /\ ~Interrupt(c)
  BY WaitType DEF Silence, Interrupt, TimelyInv, AnsweredInTime, Waits, LongTimeout
<1>4. ASSUME NEW d \in Clients, Asked(d)' = Asked(d), poll'[d] = poll[d],
             Waits(d)' = Waits(d), wire \subseteq wire', UNCHANGED socket,
             Own(d) \in Connections(wire)' => Own(d) \in Connections(wire)
      PROVE  AnsweredInTime(d)'
  <2>1. Connections(wire) \subseteq Connections(wire')
    BY <1>4 DEF Connections
  <2>2. \A e \in Clients : <<Own(e), Own(d)>>' \in HasPassed' <=>
                             <<Own(e), Own(d)>> \in HasPassed
    BY <1>1, <1>4, <2>1 DEF HasPassed, Own
  <2>3. MayPrecede(d)' = MayPrecede(d)
    BY <2>2 DEF MayPrecede
  <2>4. LongestWait(d)' = LongestWait(d)
    BY <1>1, <1>4, <2>3 DEF LongestWait, TimeAhead
  <2> QED
    BY <1>1, <1>4, <2>4 DEF TimelyInv, AnsweredInTime
<1>5. CASE Ask(c)
  <2>1. /\ sequence' = [sequence EXCEPT ![c] = sequence[c] + 1]
        /\ state' = [state EXCEPT ![c] = "expect_reply"]
        /\ poll' = [poll EXCEPT ![c] = REQUEST_TIMEOUT]
        /\ wire' = wire \union {RequestOf(c, socket[c], sequence[c] + 1)}
        /\ UNCHANGED <<retries_left, socket, reply>>
        /\ ~Waits(c)
    BY <1>5, <1>1 DEF Ask, NextSequence, Lasting, TimelyInv, Waits
  <2>2. /\ wire' = wire \union {Asked(c)'} /\ Asked(c)' # None
        /\ Connection(Asked(c)') = Own(c)
    <3>1. Asked(c)' # None
      BY IInv', NoneIsNoNumber DEF Asked, RequestOf, Request
    <3>2. Asked(c)' = RequestOf(c, socket[c], sequence[c] + 1)
      BY <2>1 DEF Asked
    <3>3. Connection(Asked(c)') = Own(c)
      BY ONLY <3>2 DEF Connection, RequestOf, Own
    <3> QED
      BY ONLY <2>1, <3>1, <3>2, <3>3
  <2>3. Connections(wire') = Connections(wire) \union {Own(c)}
    BY <2>2 DEF Connections
  <2>4. AnsweredInTime(c)'
    <3>1. LongestWait(c)' < REQUEST_TIMEOUT /\ LongestWait(c)' \in Nat
      <4>1. LongestWait(c)' \in Nat
            /\ LongestWait(c)' <= WORK * Cardinality(Clients)
        BY <1>1, <2>1, <2>2, <2>3, NewcomersWait
      <4>2. /\ Cardinality(Clients) \in Nat
            /\ WORK * Cardinality(Clients) < REQUEST_TIMEOUT
        BY FS_CardinalityType DEF LongTimeout
      <4>3. WORK * Cardinality(Clients) \in Nat /\ REQUEST_TIMEOUT \in Nat
        BY <4>2, Products, ConstantsAssumption
      <4> QED
        BY ONLY <4>1, <4>2, <4>3
    <3>2. poll'[c] = REQUEST_TIMEOUT
      BY <2>1
    <3> QED
      BY <2>2, <3>1, <3>2 DEF AnsweredInTime
  <2>5. ASSUME NEW d \in Clients \ {c} PROVE AnsweredInTime(d)'
    <3>1. Asked(d)' = Asked(d) /\ poll'[d] = poll[d] /\ Waits(d)' = Waits(d)
      BY <2>1 DEF Asked, Waits
    <3>2. Own(d) # Own(c)
      BY DEF Own
    <3> QED
      BY <1>4, <2>1, <2>2, <2>3, <3>1, <3>2
  <2>6. \A d \in Clients : FirstTry(d)'
    BY <2>1 DEF TimelyInv, FirstTry
  <2> QED
    BY <1>2, <2>4, <2>5, <2>6 DEF TimelyInv
<1>6. CASE Receive(c)
  <2>1. reply[c] = sequence[c]
    BY <1>6 DEF Receive, NoStaleReply
  <2>2. /\ state' = [state EXCEPT ![c] = "ask"]
        /\ retries_left' = [retries_left EXCEPT ![c] = REQUEST_RETRIES]
        /\ poll' = [poll EXCEPT ![c] = 0]
        /\ reply' = [reply EXCEPT ![c] = None]
        /\ UNCHANGED <<sequence, socket, wire>>
    BY <1>6, <2>1 DEF Receive
  <2>3. AnsweredInTime(c)'
    BY <2>2 DEF AnsweredInTime, Waits
  <2>4. ASSUME NEW d \in Clients \ {c} PROVE AnsweredInTime(d)'
    <3>1. Asked(d)' = Asked(d) /\ poll'[d] = poll[d] /\ Waits(d)' = Waits(d)
      BY <2>2 DEF Asked, Waits
    <3> QED
      BY <1>4, <2>2, <3>1
  <2>5. \A d \in Clients : FirstTry(d)'
    BY <2>2 DEF TimelyInv, FirstTry
  <2> QED
    BY <1>2, <2>3, <2>4, <2>5 DEF TimelyInv
<1> QED
  BY <1>3, <1>5, <1>6 DEF ClientStep, ClientLoop, Retry, Abandon

(* A client whose request is read has passed those whose requests are not. *)
LEMMA ServePasses ==
  ASSUME IInv, NEW a \in Clients, NEW d \in Clients, d # a,
         Asked(d) \in wire', wire' \subseteq wire, UNCHANGED socket,
         last' = Own(a),
         passed' = {p \in HasPassed : p[2] \in Connections(wire')}
  PROVE  MayPrecede(d)' = MayPrecede(d) \ {a}
<1>1. Own(d) \in Connections(wire')
  BY AskedType DEF Connections
<1>2. Own(a) # None /\ \A e \in Clients : Own(e)' = Own(e)
  BY AskedType DEF Own
<1>3. Own(d) # Own(a)
  BY DEF Own
<1>4. \A e \in Clients : <<Own(e), Own(d)>> \in passed'
                           <=> <<Own(e), Own(d)>> \in HasPassed
  BY <1>1
<1>5. \A e \in Clients : <<Own(e), Own(d)>> \in HasPassed'
                           <=> <<Own(e), Own(d)>> \in HasPassed \/ e = a
  <2> TAKE e \in Clients
  <2>1. HasPassed' = passed' \union
                     (({Own(a)} \ {None}) \X (Connections(wire') \ {Own(a)}))
    BY DEF HasPassed, Connections
  <2>2. Own(e) = Own(a) <=> e = a
    BY DEF Own
  <2> HIDE DEF Own, Connections, HasPassed
  <2> QED
    BY <1>1, <1>2, <1>3, <1>4, <2>1, <2>2
<1>6. \A e \in Clients : <<Own(e), Own(d)>>' = <<Own(e), Own(d)>>
  BY <1>2
<1> QED
  BY <1>5, <1>6 DEF MayPrecede

(* The server takes a request: its client waits for the work on it, and    *)
(* for each other client there is one less that may come before it.        *)
LEMMA ServeTimely ==
  ASSUME IInv, TimelyInv, IsFiniteSet(Clients), NEW q \in wire, Serve(q, WORK)
  PROVE  TimelyInv'
<1> SUFFICES ASSUME healthy PROVE TimelyInv'
  BY DEF TimelyInv, Serve
<1>1. /\ UNCHANGED <<healthy, state, sequence, retries_left, socket, poll, reply,
                     server>>
      /\ request = None /\ request' = q /\ sleep' = WORK
      /\ last' = Connection(q) /\ wire' = wire \ {q}
      /\ passed' = {p \in HasPassed : p[2] \in Connections(wire')}
      /\ \A r \in wire \ {q} : <<Connection(q), Connection(r)>> \notin HasPassed
  BY DEF Serve, Recv, InTurn, clientVars, Lasting
<1>2. PICK a \in Clients : a = q.client /\ q = Asked(a)
  BY UnderwayIsAsked
<1>3. q # None /\ Connection(q) = Own(a) /\ Own(a) # None
  BY <1>2, AskedType
<1>4. ServerAtWork'
  <2>1. last' = Connection(request)' /\ sleep' <= WORK
    BY <1>1, WaitType DEF Connection
  <2> QED
    BY <1>1, <2>1 DEF TimelyInv, ServerAtWork
<1>5. ASSUME NEW d \in Clients, Waits(d)
      PROVE  /\ Asked(d) \in wire' \/ request' = Asked(d)
             /\ poll[d] > LongestWait(d)'
  <2>1. Asked(d)' = Asked(d)
    BY <1>1 DEF Asked
  <2>2. Asked(d) \in wire /\ Asked(d) # None /\ poll[d] > LongestWait(d)
    BY <1>1, <1>5, AskedType DEF TimelyInv, AnsweredInTime
  <2>3. LongestWait(d) = TimeAhead(d)
    BY <1>1, <2>2, WaitType DEF LongestWait
  <2>4. CASE q = Asked(d)
    <3>1. LongestWait(d)' = WORK
      BY <1>1, <2>1, <2>4 DEF LongestWait
    <3> QED
      BY <1>1, <2>2, <2>3, <2>4, <3>1, WaitType
  <2>5. CASE q # Asked(d)
    <3>1. d # a /\ Asked(d) \in wire'
      BY <1>1, <1>2, <2>2, <2>5
    <3>2. a \in MayPrecede(d)
      BY <1>1, <1>3, <2>2, <3>1, AskedType DEF MayPrecede
    <3>3. MayPrecede(d)' = MayPrecede(d) \ {a}
      BY <1>1, <1>3, <2>2, <3>1, ServePasses
    <3>4. TimeAhead(d) = TimeAhead(d)' + WORK /\ TimeAhead(d)' \in Nat
      <4>1. /\ IsFiniteSet(MayPrecede(d)) /\ IsFiniteSet(MayPrecede(d) \ {a})
            /\ Cardinality(MayPrecede(d) \ {a}) = Cardinality(MayPrecede(d)) - 1
        BY <3>2, WaitType, FS_RemoveElement
      <4>2. Cardinality(MayPrecede(d)') + 1 = Cardinality(MayPrecede(d))
            /\ Cardinality(MayPrecede(d)') \in Nat
        BY <3>3, <4>1, WaitType, FS_CardinalityType
      <4>3. TimeAhead(d)' = WORK * Cardinality(MayPrecede(d))
        BY <4>2 DEF TimeAhead
      <4> QED
        BY <4>3, WaitType, Products DEF TimeAhead
    <3>5. LongestWait(d)' = WORK + TimeAhead(d)'
      BY <1>1, <1>3, <2>1, <2>5 DEF LongestWait
    <3> QED
      BY <2>2, <2>3, <3>1, <3>4, <3>5, WaitType
  <2> QED
    BY <2>4, <2>5
<1>6. \A d \in Clients : FirstTry(d)' /\ AnsweredInTime(d)'
  <2> TAKE d \in Clients
  <2>1. Waits(d)' = Waits(d) /\ Asked(d)' = Asked(d) /\ FirstTry(d)'
    BY <1>1 DEF Waits, Asked, TimelyInv, FirstTry
  <2> QED
    BY <1>1, <1>5, <2>1 DEF AnsweredInTime
<1> QED
  BY <1>4, <1>6 DEF TimelyInv

LEMMA SameTimeAhead ==
  ASSUME UNCHANGED <<last, passed, wire, socket>>, NEW d \in Clients
  PROVE  TimeAhead(d)' = TimeAhead(d)
<1>1. HasPassed' = HasPassed /\ \A e \in Clients : Own(e)' = Own(e)
  BY DEF HasPassed, Connections, Connection, Own
<1>2. MayPrecede(d)' = MayPrecede(d)
  BY <1>1 DEF MayPrecede
<1> QED
  BY <1>2 DEF TimeAhead

(* The reply is there; the others wait for what was ahead of them. *)
LEMMA SendTimely ==
  ASSUME IInv, TimelyInv, IsFiniteSet(Clients), Send
  PROVE  TimelyInv'
<1> SUFFICES ASSUME healthy PROVE TimelyInv'
  BY DEF TimelyInv, Send
<1>1. /\ UNCHANGED <<healthy, state, sequence, retries_left, socket, poll, wire,
                     last, passed, server, sleep>>
      /\ request # None /\ request' = None /\ sleep = 0
      /\ reply' = [c \in Clients |->
           IF c = request.client /\ request.socket = socket[c]
           THEN request.sequence ELSE reply[c]]
  BY DEF Send
<1>2. PICK a \in Clients :
        a = request.client /\ request = Asked(a) /\ Waits(a)
  BY <1>1, UnderwayIsAsked
<1>3. request.socket = socket[a] /\ request.sequence = sequence[a]
  BY <1>2 DEF Asked, RequestOf
<1>4. ~Waits(a)'
  <2>1. reply'[a] = sequence[a]
    BY ONLY <1>1, <1>2, <1>3
  <2>2. sequence[a] \in Nat
    BY ConstantsAssumption DEF IInv, TypeOK
  <2> QED
    BY <2>1, <2>2, NoneIsNoNumber DEF Waits
<1>5. ASSUME NEW d \in Clients, Waits(d)' PROVE AnsweredInTime(d)'
  <2>1. d # a /\ Waits(d) /\ Asked(d)' = Asked(d) /\ poll'[d] = poll[d]
    BY <1>1, <1>2, <1>4, <1>5 DEF Waits, Asked
  <2>2. request # Asked(d)
    BY <1>2, <2>1 DEF Asked, RequestOf
  <2>3. Asked(d) \in wire /\ poll[d] > LongestWait(d) /\ Asked(d) # None
    BY <2>1, <2>2, AskedType DEF TimelyInv, AnsweredInTime
  <2>4. LongestWait(d) = 0 + TimeAhead(d)
    BY <1>1, <2>2 DEF LongestWait
  <2>5. TimeAhead(d)' = TimeAhead(d)
    BY <1>1, SameTimeAhead
  <2>6. LongestWait(d)' = 0 + TimeAhead(d)
    BY <1>1, <2>1, <2>3, <2>5 DEF LongestWait
  <2> QED
    BY <1>1, <2>1, <2>3, <2>4, <2>6 DEF AnsweredInTime
<1>6. \A d \in Clients : FirstTry(d)'
  BY <1>1 DEF TimelyInv, FirstTry
<1>7. ServerAtWork'
  BY <1>1 DEF TimelyInv, ServerAtWork
<1> QED
  BY <1>5, <1>6, <1>7 DEF TimelyInv, AnsweredInTime

(* Time passes for the client and for the work it waits for alike. *)
LEMMA TickTimely ==
  ASSUME IInv, TimelyInv, IsFiniteSet(Clients), Tick
  PROVE  TimelyInv'
<1> SUFFICES ASSUME healthy PROVE TimelyInv'
  BY DEF TimelyInv, Tick
<1>1. /\ UNCHANGED <<healthy, state, sequence, retries_left, socket, reply, wire,
                     last, passed, server, request>>
      /\ poll' = [c \in Clients |-> Lower(poll[c])] /\ sleep' = Lower(sleep)
      /\ ~ServerRunnable
  BY DEF Tick
<1>2. server = "up"
  BY DEF TimelyInv, ServerAtWork
<1>3. sleep' <= sleep /\ sleep' \in Nat /\ sleep \in Nat /\ WORK \in Nat
  BY <1>1, ConstantsAssumption DEF Lower, IInv, TypeOK
<1>4. ASSUME NEW d \in Clients, Waits(d) PROVE AnsweredInTime(d)'
  <2>1. Asked(d)' = Asked(d)
    BY <1>1 DEF Asked
  <2>2. request # None /\ sleep > 0
    <3>1. request # None
      BY <1>1, <1>2, <1>4, AskedType
         DEF ServerRunnable, TimelyInv, AnsweredInTime
    <3> QED
      BY <1>1, <1>2, <1>3, <3>1 DEF ServerRunnable
  <2>3. sleep' = sleep - 1
    BY <1>1, <2>2 DEF Lower
  <2>4. TimeAhead(d)' = TimeAhead(d)
    BY <1>1, SameTimeAhead
  <2>5. LongestWait(d)' = LongestWait(d) - 1
    BY <1>1, <1>3, <2>1, <2>2, <2>3, <2>4, WaitType DEF LongestWait
  <2>6. poll[d] > LongestWait(d) /\ (Asked(d) \in wire \/ request = Asked(d))
    BY <1>4 DEF TimelyInv, AnsweredInTime
  <2>7. poll'[d] = poll[d] - 1
    BY <1>1, <2>6, WaitType DEF Lower
  <2>8. poll'[d] > LongestWait(d)'
    BY <2>5, <2>6, <2>7, WaitType
  <2> QED
    BY <1>1, <2>1, <2>6, <2>8 DEF AnsweredInTime
<1>5. \A d \in Clients : FirstTry(d)' /\ (Waits(d)' => Waits(d))
  BY <1>1 DEF TimelyInv, FirstTry, Waits
<1>6. ServerAtWork'
  BY <1>1, <1>3 DEF TimelyInv, ServerAtWork
<1> QED
  BY <1>4, <1>5, <1>6 DEF TimelyInv, AnsweredInTime

LEMMA TimelyStep ==
  ASSUME LongTimeout, IInv, TimelyInv, [Next]_vars
  PROVE  TimelyInv'
<1> IsFiniteSet(Clients)
  BY DEF LongTimeout
<1>1. CASE ServerStep
  <2>1. \A q : Overload(q) \/ Crash(q) => ~healthy /\ UNCHANGED healthy
    BY DEF Overload, Crash, Serve
  <2> QED
    BY <1>1, <2>1, ServeTimely, SendTimely DEF ServerStep, Normal, TimelyInv
<1>2. CASE Restart
  BY <1>2 DEF Restart, TimelyInv, ServerAtWork
<1>3. CASE UNCHANGED vars
  <2>1. UNCHANGED <<healthy, clientVars, wire, last, passed, server, request, sleep>>
    BY <1>3 DEF vars, serverVars
  <2>2. \A d \in Clients : TimeAhead(d)' = TimeAhead(d)
    BY <2>1, SameTimeAhead DEF clientVars
  <2> QED
    BY <2>1, <2>2 DEF clientVars, TimelyInv, ServerAtWork, FirstTry,
       AnsweredInTime, Waits, LongestWait, Asked, RequestOf, Connection
<1>4. CASE \E c \in Clients : ClientStep(c)
  BY <1>4, StepIInv, ClientTimely
<1>5. CASE \E c \in Clients : Interrupt(c) /\ UNCHANGED serverVars
  BY <1>5, StepIInv, ClientTimely
<1> QED
  BY <1>1, <1>2, <1>3, <1>4, <1>5, TickTimely DEF Next

(* client.c:56-63 and server.c:40: while the timeout is longer than the    *)
(* work on one request of every client, no client asks a healthy server    *)
(* twice, whatever the times and however many clients there are.           *)
THEOREM NobodyAsksAHealthyServerTwice ==
  ASSUME LongTimeout
  PROVE  Spec => []NobodyAsksTwice
<1>1. IInv /\ TimelyInv /\ [Next]_vars => TimelyInv'
  BY TimelyStep
<1>2. TimelyInv => NobodyAsksTwice
  BY DEF TimelyInv, FirstTry, NobodyAsksTwice
<1> QED
  BY Invariance, InitTimely, <1>1, <1>2, PTL DEF Spec

-----------------------------------------------------------------------------
(* Turns.  Whom a connection has passed, those have passed too that it has *)
(* been passed by: among the unread requests there is always one whose     *)
(* turn it is.                                                             *)

Conns == Clients \X Nat
Unread == Connections(wire)

Alone ==
  IsFiniteSet(wire)
  /\ \A q, r \in wire : Connection(q) = Connection(r) => q = r
NoTrace ==
  \A p \in passed :
    /\ p[1] # p[2] /\ p[2] # last
    /\ p[2] \in Unread \/ p[2][2] < socket[p[2][1]]
InOrder ==
  \A x \in Conns, y, z \in Unread :
    <<x, y>> \in HasPassed /\ <<y, z>> \in HasPassed => <<x, z>> \in HasPassed

TurnInv == Alone /\ NoTrace /\ InOrder

LEMMA Passing ==
  ASSUME IInv
  PROVE  /\ Unread \subseteq Conns /\ passed \subseteq Conns \X Conns
         /\ \A x, y \in Conns :
              <<x, y>> \in HasPassed <=>
                \/ <<x, y>> \in passed
                \/ x = last /\ y \in Unread /\ y # last
<1>1. Unread \subseteq Conns /\ passed \subseteq Conns \X Conns
  BY DEF IInv, TypeOK, Unread, Connections, Connection, Request, Conns
<1>2. None \notin Conns
  BY NoneAssumption DEF Conns
<1> QED
  BY <1>1, <1>2 DEF HasPassed, Unread

(* No new request but one of a connection that nobody has passed. *)
LEMMA Arrival ==
  ASSUME IInv, IInv', TurnInv, UNCHANGED <<last, passed>>, NEW y \in Conns,
         Unread' \subseteq Unread \union {y}, \A p \in passed : p[2] # y
  PROVE  InOrder'
<1> SUFFICES ASSUME NEW a \in Conns, NEW b \in Unread', NEW d \in Unread',
                    <<a, b>> \in HasPassed', <<b, d>> \in HasPassed'
             PROVE  <<a, d>> \in HasPassed'
  BY DEF InOrder, Conns
<1>1. b \in Conns /\ d \in Conns
  BY Passing
<1>2. /\ \A u, v \in Conns : <<u, v>> \in HasPassed' <=>
             <<u, v>> \in passed \/ (u = last /\ v \in Unread' /\ v # last)
      /\ \A u, v \in Conns : <<u, v>> \in HasPassed <=>
             <<u, v>> \in passed \/ (u = last /\ v \in Unread /\ v # last)
  <2>1. None \notin Conns
    BY NoneAssumption DEF Conns
  <2> QED
    BY <2>1 DEF HasPassed, Unread
<1>3. \A u, v \in Conns : <<u, v>> \in passed => v # y /\ v # last
  BY DEF TurnInv, NoTrace
<1>4. CASE a = last
  BY <1>1, <1>2, <1>3, <1>4
<1>5. CASE a # last
  <2>1. <<a, b>> \in passed /\ b # y /\ b # last /\ b \in Unread
    BY <1>1, <1>2, <1>3, <1>5
  <2>2. <<b, d>> \in passed /\ d # y /\ d \in Unread
    BY <1>1, <1>2, <1>3, <2>1
  <2>3. <<a, d>> \in HasPassed
    BY <1>1, <1>2, <2>1, <2>2 DEF TurnInv, InOrder
  <2> QED
    BY <1>1, <1>2, <1>5, <2>3
<1> QED
  BY <1>4, <1>5

(* Nobody knows of a socket that a client has not opened yet.              *)
LEMMA SocketsKnown ==
  ASSUME IInv, TurnInv, NEW c \in Clients
  PROVE  /\ <<c, socket[c] + 1>> \notin Unread
         /\ \A p \in passed : p[2] # <<c, socket[c] + 1>>
<1>1. socket[c] \in Nat
  BY DEF IInv, TypeOK
<1>2. <<c, socket[c] + 1>> \notin Unread
  <2> SUFFICES ASSUME NEW q \in wire, q.client = c, q.socket = socket[c] + 1
               PROVE  FALSE
    BY DEF Unread, Connections, Connection
  <2> QED
    BY <1>1 DEF IInv, NoFutureSocket
<1>3. ASSUME NEW p \in passed, p[2] = <<c, socket[c] + 1>> PROVE FALSE
  <2>1. p[2][1] = c /\ p[2][2] = socket[c] + 1
    BY <1>3
  <2> QED
    BY <1>1, <1>2, <1>3, <2>1 DEF TurnInv, NoTrace
<1> QED
  BY <1>2, <1>3

LEMMA ClientTurns ==
  ASSUME IInv, IInv', TurnInv, NEW c \in Clients,
         ClientStep(c) \/ (Interrupt(c) /\ UNCHANGED serverVars)
  PROVE  TurnInv'
<1> USE DEF Alone, NoTrace
<1>1. UNCHANGED <<last, passed>>
  BY DEF ClientStep, serverVars
<1>2. /\ Unread \subseteq Conns /\ passed \subseteq Conns \X Conns
      /\ socket \in [Clients -> Nat] /\ wire \in SUBSET Request
      /\ \A q \in Request : /\ q.client \in Clients /\ q.socket \in Nat
                            /\ Connection(q) = <<q.client, q.socket>>
  BY Passing DEF IInv, TypeOK, Request, Connection
(* A request q is sent, and at most the one with connection d is lost.     *)
<1>3. ASSUME NEW left \in SUBSET wire, NEW q \in Request,
             wire' = left \union {q}, Connection(q) \notin Unread,
             \A p \in passed : p[2] # Connection(q),
             \A p \in passed : p[2] \in Connections(left)
                               \/ p[2][2] < socket'[p[2][1]]
      PROVE  TurnInv'
  <2>1. Unread' = Connections(left) \union {Connection(q)}
        /\ Connections(left) \subseteq Unread
    BY <1>3 DEF Unread, Connections
  <2>2. IsFiniteSet(wire')
    BY <1>3, FS_Subset, FS_AddElement DEF TurnInv
  <2>3. \A r, s \in wire' : Connection(r) = Connection(s) => r = s
    BY <1>3 DEF TurnInv, Unread, Connections
  <2>4. NoTrace'
    BY <1>1, <1>3, <2>1 DEF TurnInv
  <2>5. InOrder'
    <3>1. Connection(q) \in Conns /\ Unread' \subseteq Unread \union {Connection(q)}
      BY <1>2, <2>1 DEF Conns
    <3> QED
      BY <1>1, <1>3, <3>1, Arrival
  <2> QED
    BY <2>2, <2>3, <2>4, <2>5 DEF TurnInv, Connection
<1>4. ASSUME wire' \subseteq wire,
             \A p \in passed : p[2] \in Unread'
                               \/ p[2][2] < socket'[p[2][1]]
      PROVE  TurnInv'
  <2>1. Unread' \subseteq Unread
    BY <1>4 DEF Unread, Connections
  <2>2. Alone'
    BY <1>4, FS_Subset DEF TurnInv, Connection
  <2>3. NoTrace'
    BY <1>1, <1>4 DEF TurnInv
  <2>4. InOrder'
    <3> DEFINE y == <<c, socket[c] + 1>>
    <3>1. y \in Conns /\ \A p \in passed : p[2] # y
      BY <1>2, SocketsKnown DEF Conns
    <3> HIDE DEF y
    <3> QED
      BY <1>1, <2>1, <3>1, Arrival
  <2> QED
    BY <2>2, <2>3, <2>4 DEF TurnInv
<1>5. CASE Ask(c)
  <2> DEFINE q == RequestOf(c, socket[c], sequence[c] + 1)
  <2>1. /\ q \in Request /\ wire' = wire \union {q} /\ UNCHANGED socket
        /\ state[c] = "ask" /\ Connection(q) = Own(c)
    BY <1>5, IInv' DEF Ask, NextSequence, RequestOf, Connection, Own, IInv,
       TypeOK
  <2>2. Own(c) \notin Unread
    BY <1>2, <2>1
       DEF IInv, WireOutstanding, Current, Outstanding, Unread, Connections, Own
  <2>3. \A p \in passed : p[2] # Own(c)
    <3> SUFFICES ASSUME NEW p \in passed, p[2] = Own(c) PROVE FALSE
      OBVIOUS
    <3>1. p[2][1] = c /\ p[2][2] = socket[c] /\ socket[c] \in Nat
      BY <1>2 DEF Own
    <3> QED
      BY <2>2, <3>1 DEF TurnInv
  <2> HIDE DEF q
  <2> QED
    BY <1>3, <2>1, <2>2, <2>3 DEF TurnInv, Unread
<1>6. ASSUME socket' = [socket EXCEPT ![c] = @ + 1],
             NEW left \in Closed(c)
      PROVE  \A p \in passed : p[2] \in Connections(left)
                               \/ p[2][2] < socket'[p[2][1]]
  <2> TAKE p \in passed
  <2>1. p[2][1] \in Clients /\ p[2][2] \in Nat
    BY <1>2 DEF Conns
  <2>2. CASE p[2][2] < socket[p[2][1]]
    BY <1>2, <1>6, <2>1, <2>2
  <2>3. CASE p[2] \in Unread
    <3>1. PICK q \in wire : p[2] = Connection(q)
      BY <2>3 DEF Unread, Connections
    <3>2. CASE q \in left
      BY <3>1, <3>2 DEF Connections
    <3>3. CASE q \notin left
      <4>1. q = Asked(c)
        BY <1>6, <3>3 DEF Closed
      <4>2. p[2] = <<c, socket[c]>>
        BY <3>1, <4>1 DEF Asked, RequestOf, Connection
      <4> QED
        BY <1>2, <1>6, <4>2
    <3> QED
      BY <3>2, <3>3
  <2> QED
    BY <2>2, <2>3 DEF TurnInv
<1>7. CASE Retry(c)
  <2> DEFINE q == RequestOf(c, socket[c] + 1, sequence[c])
  <2>1. PICK left \in Closed(c) : wire' = left \union {q}
    BY <1>7 DEF Retry, NewSocket
  <2>2. q \in Request /\ Connection(q) = <<c, socket[c] + 1>>
    BY <2>1, IInv' DEF RequestOf, Connection, IInv, TypeOK
  <2>3. left \subseteq wire /\ socket' = [socket EXCEPT ![c] = @ + 1]
    BY <1>7, ClosedLoses DEF Retry, NewSocket
  <2>4. Connection(q) \notin Unread /\ \A p \in passed : p[2] # Connection(q)
    BY <2>2, SocketsKnown
  <2> HIDE DEF q
  <2> QED
    BY <1>3, <1>6, <2>1, <2>2, <2>3, <2>4
<1>8. CASE End(c)
  <2>1. wire' \in Closed(c) /\ socket' = [socket EXCEPT ![c] = @ + 1]
    BY <1>8 DEF End
  <2>2. Unread' = Connections(wire')
    BY DEF Unread, Connections, Connection
  <2> QED
    BY <1>4, <1>6, <2>1, <2>2, ClosedLoses
<1>9. CASE Receive(c)
  <2>1. UNCHANGED <<wire, socket>>
    BY <1>9 DEF Receive
  <2>2. Unread' = Unread
    BY <2>1 DEF Unread, Connections, Connection
  <2> QED
    BY <1>4, <2>1, <2>2 DEF TurnInv
<1> QED
  BY <1>5, <1>7, <1>8, <1>9
     DEF ClientStep, ClientLoop, Abandon, Interrupt

LEMMA ServeTurns ==
  ASSUME IInv, TurnInv, NEW q \in wire, NEW time, Serve(q, time)
  PROVE  TurnInv'
<1> DEFINE a == Connection(q)
<1>1. /\ UNCHANGED socket /\ last' = a /\ wire' = wire \ {q}
      /\ passed' = {p \in HasPassed : p[2] \in Connections(wire')}
  BY DEF Serve, clientVars
<1>2. /\ Unread \subseteq Conns /\ passed \subseteq Conns \X Conns
      /\ \A x, y \in Conns :
           <<x, y>> \in HasPassed <=>
             <<x, y>> \in passed \/ (x = last /\ y \in Unread /\ y # last)
      /\ HasPassed \subseteq Conns \X Conns
  <2>1. last \in Conns \union {None}
    BY DEF IInv, TypeOK, Conns
  <2> QED
    BY <2>1, Passing DEF HasPassed, Unread
<1>3. a \in Unread /\ a \in Conns /\ a # None
  BY <1>2, NoneAssumption DEF Unread, Connections, Conns
<1>4. Unread' = Unread \ {a} /\ Connections(wire') = Unread'
  BY <1>1 DEF TurnInv, Alone, Unread, Connections, Connection
<1>5. Alone'
  BY <1>1, FS_RemoveElement DEF TurnInv, Alone, Connection
<1>6. \A x, y \in Conns :
        <<x, y>> \in passed' <=> <<x, y>> \in HasPassed /\ y \in Unread'
  BY <1>1, <1>4
<1>7. \A x, y \in Conns :
        <<x, y>> \in HasPassed' <=>
          y \in Unread' /\ (<<x, y>> \in HasPassed \/ x = a)
  <2>1. HasPassed' = passed' \union (({a} \ {None}) \X (Unread' \ {a}))
    BY <1>1, <1>4 DEF HasPassed, Unread
  <2> HIDE DEF a
  <2> QED
    BY <1>3, <1>4, <1>6, <2>1
<1>8. NoTrace'
  <2> SUFFICES ASSUME NEW p \in passed'
               PROVE  p[1] # p[2] /\ p[2] # last' /\ p[2] \in Unread'
    BY DEF NoTrace
  <2>1. p \in HasPassed /\ p[2] \in Unread'
    BY <1>1, <1>4
  <2>2. PICK x \in Conns, y \in Conns : p = <<x, y>>
    BY <1>2, <2>1
  <2>3. p[1] = x /\ p[2] = y
    BY <2>2
  <2>4. x # y
    BY <1>2, <2>1, <2>2, <2>3 DEF TurnInv, NoTrace
  <2> QED
    BY <1>1, <1>4, <2>1, <2>3, <2>4
<1>9. InOrder'
  <2> SUFFICES ASSUME NEW x \in Conns, NEW y \in Unread', NEW z \in Unread',
                      <<x, y>> \in HasPassed', <<y, z>> \in HasPassed'
               PROVE  <<x, z>> \in HasPassed'
    BY DEF InOrder, Conns
  <2> HIDE DEF a
  <2>1. y \in Conns /\ z \in Conns /\ y # a /\ y \in Unread /\ z \in Unread
    BY <1>2, <1>4
  <2>2. <<y, z>> \in HasPassed
    BY <1>7, <2>1
  <2>3. CASE x = a
    BY <1>7, <2>1, <2>3
  <2>4. CASE x # a
    <3>1. <<x, y>> \in HasPassed
      BY <1>7, <2>1, <2>4
    <3>2. <<x, z>> \in HasPassed
      BY <2>1, <2>2, <3>1 DEF TurnInv, InOrder
    <3> QED
      BY <1>7, <2>1, <3>2
  <2> QED
    BY <2>3, <2>4
<1> QED
  BY <1>5, <1>8, <1>9 DEF TurnInv

LEMMA TurnStep == IInv /\ TurnInv /\ [Next]_vars => TurnInv'
<1> SUFFICES ASSUME IInv, TurnInv, [Next]_vars PROVE TurnInv'
  OBVIOUS
<1>1. IInv'
  BY StepIInv
<1>2. CASE UNCHANGED <<last, passed, wire, socket>>
  <2>1. Unread' = Unread /\ HasPassed' = HasPassed
    BY <1>2 DEF Unread, HasPassed, Connections, Connection
  <2> QED
    BY <1>2, <2>1 DEF TurnInv, Alone, NoTrace, InOrder, Connection
<1>3. ASSUME NEW q \in wire, Crash(q) PROVE TurnInv'
  <2>1. wire' \subseteq wire /\ passed' = {} /\ last' = None
    BY <1>3 DEF Crash
  <2>2. HasPassed' = {}
    BY <2>1 DEF HasPassed
  <2> QED
    BY <2>1, <2>2, FS_Subset DEF TurnInv, Alone, NoTrace, InOrder, Connection
<1>4. CASE ServerStep
  BY <1>2, <1>3, <1>4, ServeTurns DEF ServerStep, Normal, Overload, Send
<1>5. CASE Restart \/ Tick \/ UNCHANGED vars
  BY <1>2, <1>5 DEF Restart, Tick, vars, clientVars, serverVars
<1>6. CASE \E c \in Clients : ClientStep(c) \/ (Interrupt(c) /\ UNCHANGED serverVars)
  BY <1>1, <1>6, ClientTurns
<1> QED
  BY <1>4, <1>5, <1>6 DEF Next

LEMMA LeastNumber ==
  ASSUME NEW T, T \subseteq Nat, T # {}
  PROVE  \E x \in T : \A y \in T : x <= y
<1>1. PICK x \in T : \A y \in T : ~(<<y, x>> \in OpToRel(<, Nat))
  BY NatLessThanWellFounded, WFMin
<1>2. \A y \in T : ~(y < x)
  BY <1>1 DEF OpToRel
<1> QED
  BY <1>2

(* Who has passed the fewest has passed nobody. *)
LEMMA SomebodysTurn ==
  ASSUME IInv, TurnInv, wire # {}
  PROVE  \E q \in wire : InTurn(q)
<1> DEFINE After(q) == {r \in wire : <<Connection(q), Connection(r)>> \in HasPassed}
           T == {Cardinality(After(q)) : q \in wire}
<1>1. \A q \in wire : /\ IsFiniteSet(After(q)) /\ Cardinality(After(q)) \in Nat
                      /\ Connection(q) \in Unread /\ Connection(q) \in Conns
  BY Passing, FS_Subset, FS_CardinalityType DEF TurnInv, Alone, Unread, Connections
<1>2. PICK q \in wire : \A r \in wire : Cardinality(After(q)) <= Cardinality(After(r))
  <2> HIDE DEF After
  <2>1. T \subseteq Nat /\ T # {}
    BY <1>1
  <2>2. PICK x \in T : \A y \in T : x <= y
    <3> HIDE DEF T
    <3> QED
      BY <2>1, LeastNumber
  <2> QED
    BY <2>2
<1>3. ASSUME NEW r \in wire, <<Connection(q), Connection(r)>> \in HasPassed
      PROVE  FALSE
  <2>1. After(r) \subseteq After(q)
    BY <1>1, <1>3 DEF TurnInv, InOrder
  <2>2. r \in After(q) /\ r \notin After(r)
    <3>1. <<Connection(r), Connection(r)>> \notin HasPassed
      BY <1>1, Passing DEF TurnInv, NoTrace
    <3> QED
      BY <1>3, <3>1
  <2>3. Cardinality(After(r)) < Cardinality(After(q))
    <3> HIDE DEF After
    <3>1. IsFiniteSet(After(q)) /\ After(r) # After(q)
      BY <1>1, <2>2
    <3>2. /\ Cardinality(After(r)) <= Cardinality(After(q))
          /\ Cardinality(After(r)) = Cardinality(After(q)) => After(r) = After(q)
      BY <2>1, <3>1, FS_Subset
    <3> QED
      BY <1>1, <3>1, <3>2
  <2> HIDE DEF After
  <2> QED
    BY <1>1, <1>2, <2>3
<1> QED
  BY <1>2, <1>3 DEF InTurn

(* server.c:13: however many clients ask and whoever has been served, the  *)
(* turns of the REP socket always leave a request that may be read, so     *)
(* that a server with nothing to do is never kept from its work.           *)
THEOREM ThereIsAlwaysANext == Spec => [](wire # {} => \E q \in wire : InTurn(q))
<1>1. Init => TurnInv
  BY FS_EmptySet DEF Init, ClientInit, TurnInv, Alone, NoTrace, InOrder, Unread,
     Connections
<1>2. IInv /\ TurnInv => (wire # {} => \E q \in wire : InTurn(q))
  BY SomebodysTurn
<1> QED
  BY <1>1, <1>2, TurnStep, Invariance, PTL DEF Spec

=============================================================================
