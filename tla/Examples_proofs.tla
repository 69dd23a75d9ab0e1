--------------------------- MODULE Examples_proofs --------------------------
(***************************************************************************)
(* The safety of the small programs.  Each part names the inductive        *)
(* invariant of one example: its own steps preserve it, and those of the   *)
(* others leave its variables alone.                                       *)
(***************************************************************************)
EXTENDS Examples, SequenceTheorems, FunctionTheorems, FiniteSetTheorems, TLAPS

-----------------------------------------------------------------------------
(* Forking: any number of messages, and whatever limit the system sets to  *)
(* the number of processes.                                                *)

(* Each turn of the loop belongs to one message, but for a last one. *)
TurnsCounted ==
  /\ loop \in {"recv", "sleep"} => handled = received
  /\ loop = "handle" =>
       handled + 1 = received \/ (handled = received /\ interrupted)
  /\ loop = "done" => handled <= received + 1

ForkingInv == F!TypeOK /\ F!ZombiesBounded /\ TurnsCounted

LEMMA InitForkingInv == Init => ForkingInv
<1> SUFFICES ASSUME Init PROVE ForkingInv
  OBVIOUS
<1>1. F!TypeOK
  <2>1. mail \in Seq(F!Kinds)
    BY DEF Init, F!Init
  <2>2. interrupted \in BOOLEAN
    BY DEF Init, F!Init
  <2>3. /\ loop \in {"recv", "handle", "sleep", "done"} /\ buffer \in F!Kinds
        /\ running \in Nat /\ zombies \in Nat /\ peak \in Nat
        /\ received \in Nat /\ handled \in Nat
    BY DEF Init, F!Init
  <2> QED
    BY <2>1, <2>2, <2>3 DEF F!TypeOK
<1>2. F!ZombiesBounded /\ TurnsCounted
  BY DEF Init, F!Init, F!ZombiesBounded, TurnsCounted
<1> QED
  BY <1>1, <1>2 DEF ForkingInv

(* The conjuncts are preserved one by one: types by every action.          *)
LEMMA ForkingTypes == ForkingInv /\ [F!Next]_forkingVars => F!TypeOK'
<1> SUFFICES ASSUME ForkingInv, [F!Next]_forkingVars PROVE F!TypeOK'
  OBVIOUS
<1> USE DEF ForkingInv, F!TypeOK
<1>1. CASE F!Arrive
  BY <1>1 DEF F!Arrive
<1>2. CASE F!Recv
  BY <1>2 DEF F!Recv
<1>3. CASE F!Signal
  BY <1>3 DEF F!Signal
<1>4. CASE F!Fork
  BY <1>4 DEF F!Fork, F!Reap, F!AfterTurn
<1>5. CASE F!Ignore
  BY <1>5 DEF F!Ignore, F!AfterTurn
<1>6. CASE F!Wake
  BY <1>6 DEF F!Wake
<1>7. CASE F!ChildEnds
  BY <1>7 DEF F!ChildEnds
<1>8. CASE UNCHANGED forkingVars
  BY <1>8 DEF forkingVars
<1> QED
  BY <1>1, <1>2, <1>3, <1>4, <1>5, <1>6, <1>7, <1>8 DEF F!Next, F!ServerStep

(* A fork raises the number of children only when no zombie is reaped with *)
(* it, and then all of them run.                                           *)
LEMMA ZombieStep == ForkingInv /\ [F!Next]_forkingVars => F!ZombiesBounded'
<1> SUFFICES ASSUME ForkingInv, [F!Next]_forkingVars PROVE F!ZombiesBounded'
  OBVIOUS
<1> USE DEF ForkingInv, F!TypeOK, F!ZombiesBounded
<1>1. CASE F!Fork
  BY <1>1 DEF F!Fork, F!Reap
<1>2. CASE F!ChildEnds
  BY <1>2 DEF F!ChildEnds
<1>3. CASE UNCHANGED <<running, zombies, peak>>
  BY <1>3
<1> QED
  BY <1>1, <1>2, <1>3 DEF F!Next, F!ServerStep, F!Arrive, F!Recv, F!Signal, F!Ignore,
     F!Wake, forkingVars

LEMMA TurnStep == ForkingInv /\ [F!Next]_forkingVars => TurnsCounted'
<1> SUFFICES ASSUME ForkingInv, [F!Next]_forkingVars PROVE TurnsCounted'
  OBVIOUS
<1> USE DEF ForkingInv, F!TypeOK, TurnsCounted
<1>1. CASE F!Recv
  BY <1>1 DEF F!Recv
<1>2. CASE F!Signal
  BY <1>2 DEF F!Signal
<1>3. CASE F!Fork \/ F!Ignore
  BY <1>3 DEF F!Fork, F!Ignore, F!AfterTurn
<1>4. CASE F!Wake
  BY <1>4 DEF F!Wake
<1>5. CASE UNCHANGED <<loop, handled, received, interrupted>>
  BY <1>5
<1> QED
  BY <1>1, <1>2, <1>3, <1>4, <1>5 DEF F!Next, F!ServerStep, F!Arrive, F!ChildEnds,
     forkingVars

LEMMA ForkingSteps == [Next]_vars => [F!Next]_forkingVars
BY DEF Next, Only, vars

LEMMA ForkingInvariance == Spec => []ForkingInv
<1>1. ForkingInv /\ [Next]_vars => ForkingInv'
  BY ForkingSteps, ForkingTypes, ZombieStep, TurnStep DEF ForkingInv
<1> QED
  BY InitForkingInv, <1>1, PTL DEF Spec

(* server2.c:60: although a turn of the loop reaps one child at most and   *)
(* turns without an integer reap none, the children that have not been     *)
(* reaped are never more than have once run at the same time.              *)
THEOREM ZombiesNeverPileUp == Spec => []ZombiesBounded
<1>1. ForkingInv => ZombiesBounded
  BY DEF ForkingInv, ZombiesBounded
<1> QED
  BY ForkingInvariance, <1>1, PTL

(* base.c:25: the buffer that an interrupted receive leaves behind is acted*)
(* on in the last turn of server2.c only.                                  *)
THEOREM StaleBufferEndsServer == Spec => []StaleBufferOnce
<1>1. ForkingInv => StaleBufferOnce
  BY DEF ForkingInv, F!TypeOK, TurnsCounted, StaleBufferOnce, F!StaleBufferOnce
<1> QED
  BY ForkingInvariance, <1>1, PTL

-----------------------------------------------------------------------------
(* RouterToReq, for any finite set of workers.                             *)

(* A worker that has asked has no answer yet, one that has an answer waits *)
(* for it: so no worker is told anything twice.                            *)
OneAnswer ==
  /\ \A w \in asks : phase[w] = "wait" /\ answers[w] = None
  /\ \A w \in Workers : answers[w] # None => phase[w] = "wait"

RouterTypes ==
  /\ phase \in [Workers -> {"ask", "wait", "work", "done"}]
  /\ asks \subseteq Workers
  /\ answers \in [Workers -> {"ok", "exit", None}]
  /\ workers_exited \in Nat

RouterInv == RouterTypes /\ OneAnswer /\ R!AllToldToExit

(* The instance names the same operators of FiniteSets. *)
LEMMA SameCount == ASSUME NEW S PROVE R!Cardinality(S) = Cardinality(S)
  BY Zenon DEF R!Cardinality, Cardinality

LEMMA InitRouterInv == Init => RouterInv
<1> SUFFICES ASSUME Init PROVE RouterInv
  OBVIOUS
<1>1. RouterTypes /\ OneAnswer
  BY ConstantsAssumption DEF Init, R!Init, RouterTypes, OneAnswer
<1>2. R!Told = {}
  BY ConstantsAssumption DEF Init, R!Init, R!Told
<1>3. R!AllToldToExit
  BY <1>2, SameCount, FS_EmptySet DEF Init, R!Init, R!AllToldToExit
<1> QED
  BY <1>1, <1>3 DEF RouterInv

(* Steps that tell nobody to exit and leave main where it is. *)
LEMMA NobodyToldNow ==
  ASSUME R!AllToldToExit, R!Told' = R!Told, UNCHANGED workers_exited,
         router' # "serve" => router # "serve"
  PROVE  R!AllToldToExit'
  BY DEF R!AllToldToExit

LEMMA AnswerStep ==
  ASSUME RouterInv, NEW w \in Workers, R!Answer(w) PROVE RouterInv'
<1> USE DEF RouterInv
<1>1. /\ w \in asks /\ phase[w] = "wait" /\ answers[w] = None
      /\ router = "serve" /\ w \notin R!Told
  BY ConstantsAssumption DEF R!Answer, OneAnswer, R!Told
<1>2. OneAnswer'
  BY <1>1, ConstantsAssumption DEF R!Answer, OneAnswer, RouterTypes
<1>3. R!Told \subseteq Workers /\ IsFiniteSet(R!Told)
  BY ConstantsAssumption, FS_Subset DEF R!Told
<1>4. CASE time_up
  <2>1. RouterTypes' /\ answers'[w] = "exit"
    BY <1>4 DEF R!Answer, R!CountExits, RouterTypes
  <2>2. R!Told' = R!Told \union {w}
    BY <1>1, <1>4 DEF R!Answer, R!Told, RouterTypes
  <2>3. workers_exited' = Cardinality(R!Told')
    BY <1>1, <1>3, <1>4, <2>2, SameCount, FS_AddElement
       DEF R!Answer, R!CountExits, R!AllToldToExit
  <2>4. router' # "serve" => R!Told' = Workers
    <3>1. SUFFICES ASSUME router' # "serve" PROVE R!Told' = Workers
      OBVIOUS
    <3>2. workers_exited' = Cardinality(Workers)
      BY <3>1, SameCount DEF R!Answer, R!AllExited, R!NBR_WORKERS
    <3>3. R!Told' \in SUBSET Workers
      BY <1>3, <2>2
    <3> QED
      BY <2>3, <3>2, <3>3, ConstantsAssumption, FS_Subset
  <2> QED
    BY <1>2, <2>1, <2>3, <2>4, SameCount DEF R!AllToldToExit
<1>5. CASE ~time_up
  <2>1. RouterTypes'
    BY <1>5 DEF R!Answer, R!CountExits, RouterTypes
  <2>2. R!Told' = R!Told
    BY <1>1, <1>5, ConstantsAssumption DEF R!Answer, R!Told, RouterTypes
  <2>3. UNCHANGED workers_exited /\ router' = "serve"
    BY <1>5 DEF R!Answer, R!CountExits, R!AllExited
  <2> QED
    BY <1>2, <2>1, <2>2, <2>3, NobodyToldNow
<1> QED
  BY <1>4, <1>5

LEMMA WorkerStepKeeps ==
  ASSUME RouterInv, NEW w \in Workers, R!WorkerStep(w) PROVE RouterInv'
<1> USE DEF RouterInv
<1>1. RouterTypes'
  BY DEF R!WorkerStep, R!Ask, R!Heed, R!Work, RouterTypes
<1>2. OneAnswer'
  BY DEF R!WorkerStep, R!Ask, R!Heed, R!Work, RouterTypes, OneAnswer
<1>3. R!Told' = R!Told
  <2>1. CASE R!Ask(w) \/ R!Work(w)
    BY <2>1 DEF R!Ask, R!Work, R!Told, RouterTypes
  <2>2. CASE R!Heed(w)
    BY <2>2, ConstantsAssumption DEF R!Heed, R!Told, RouterTypes
  <2> QED
    BY <2>1, <2>2 DEF R!WorkerStep
<1>4. UNCHANGED <<workers_exited, router>>
  BY DEF R!WorkerStep, R!Ask, R!Heed, R!Work
<1> QED
  BY <1>1, <1>2, <1>3, <1>4, NobodyToldNow

LEMMA OtherRouterSteps ==
  ASSUME RouterInv, R!TimeIsUp \/ R!Exit \/ UNCHANGED rtreqVars PROVE RouterInv'
<1>1. UNCHANGED <<phase, asks, answers, workers_exited>>
  BY DEF R!TimeIsUp, R!Exit, rtreqVars
<1>2. router' # "serve" => router # "serve"
  BY DEF R!TimeIsUp, R!Exit, rtreqVars
<1>3. RouterTypes' /\ OneAnswer' /\ R!Told' = R!Told
  BY <1>1 DEF RouterInv, RouterTypes, OneAnswer, R!Told
<1> QED
  BY <1>1, <1>2, <1>3, NobodyToldNow DEF RouterInv

(* rtreq.c:75: however the workers' questions and the end of main's time   *)
(* interleave, main counts the workers it has told to exit, each once, and *)
(* closes its socket when it has told them all.                            *)
THEOREM NobodyLeftWorking == Spec => []AllToldToExit
<1>1. [Next]_vars => [R!Next]_rtreqVars
  BY DEF Next, Only, vars
<1>2. RouterInv /\ [Next]_vars => RouterInv'
  BY <1>1, AnswerStep, WorkerStepKeeps, OtherRouterSteps DEF R!Next, R!MainStep
<1>3. RouterInv => AllToldToExit
  BY DEF RouterInv, AllToldToExit
<1> QED
  BY InitRouterInv, <1>2, <1>3, PTL DEF Spec

-----------------------------------------------------------------------------
(* HelloWorld, for any set of clients.                                     *)

(* A client's request is in one place; when one has been read after a      *)
(* signal, the server ends with it.                                        *)
OneRequest ==
  /\ requests \subseteq asking /\ replies \subseteq asking
  /\ requests \intersect replies = {}
  /\ current # None => current \in asking \ (requests \union replies)

LateEndsServer == late # {} => signalled /\ server \in {"check", "done"}

HelloInv == OneRequest /\ LateEndsServer /\ H!NoReplyAfterSignal

LEMMA HelloStep == HelloInv /\ [H!Next]_helloVars => HelloInv'
<1> SUFFICES ASSUME HelloInv, [H!Next]_helloVars PROVE HelloInv'
  OBVIOUS
<1> USE DEF HelloInv, OneRequest, LateEndsServer, H!NoReplyAfterSignal
<1>1. ASSUME NEW c \in Clients, H!Send(c) \/ H!Receive(c) PROVE HelloInv'
  BY <1>1 DEF H!Send, H!Receive
<1>2. ASSUME NEW c \in Clients, H!Recv(c) PROVE HelloInv'
  BY <1>2 DEF H!Recv
<1>3. CASE H!Signal
  BY <1>3 DEF H!Signal
<1>4. CASE H!Test \/ H!Check
  BY <1>4 DEF H!Test, H!Check, H!Go, H!End
<1>5. CASE H!Serve
  BY <1>5 DEF H!Serve
<1>6. CASE UNCHANGED helloVars
  BY <1>6 DEF helloVars
<1> QED
  BY <1>1, <1>2, <1>3, <1>4, <1>5, <1>6 DEF H!Next, H!ServerStep, H!ClientStep

(* helloworld/server.c:15: wherever between its two looks at S_INTERRUPTED *)
(* a signal comes, a request that the server reads after it is never       *)
(* answered, for any number of clients and requests.                       *)
THEOREM LateRequestsUnanswered == Spec => []NoReplyAfterSignal
<1>1. Init => HelloInv
  BY DEF Init, H!Init, HelloInv, OneRequest, LateEndsServer,
     H!NoReplyAfterSignal
<1>2. [Next]_vars => [H!Next]_helloVars
  BY DEF Next, Only, vars
<1>3. HelloInv => NoReplyAfterSignal
  BY DEF HelloInv, NoReplyAfterSignal
<1> QED
  BY <1>1, <1>2, <1>3, HelloStep, PTL DEF Spec

-----------------------------------------------------------------------------
(* Async, for any clients and workers and any numbers.                     *)

AsyncTypes ==
  /\ clock \in Nat /\ poll_began \in [Clients -> Nat]
  /\ centitick \in [Clients -> Nat] /\ request_nbr \in [Clients -> Nat]
  /\ unrouted \in [Clients -> Nat] /\ arriving \in [Clients -> Nat]
  /\ pipe \in [Workers -> Seq(Clients)]
  /\ identity \in [Workers -> Clients \union {None}] /\ left \in [Workers -> Nat]
  /\ \A w \in Workers : left[w] > 0 => identity[w] \in Clients
  /\ \A c \in Clients : poll_began[c] <= clock

(* The requests of client c that no worker has taken from its pipe yet,    *)
(* and the replies to it that its workers have left to send.               *)
Queued(c) ==
  {p \in Workers \X Nat : p[2] \in DOMAIN pipe[p[1]] /\ pipe[p[1]][p[2]] = c}
Due(c) == {p \in Workers \X Nat : identity[p[1]] = c /\ p[2] \in 1 .. left[p[1]]}
Finite == \A c \in Clients : IsFiniteSet(Queued(c)) /\ IsFiniteSet(Due(c))

(* The polls that replies may still cut short for client c. *)
Saved(c) ==
  arriving[c] + Cardinality(Due(c))
    + REPLIES * (unrouted[c] + Cardinality(Queued(c)))

(* What a client has counted, and may still count, beyond the time passed  *)
(* are REPLIES polls for each of its requests, and none for the last one   *)
(* when it made it.                                                        *)
Reckoned(c) ==
  /\ request_nbr[c] * TICKS + centitick[c] + Saved(c)
       <= poll_began[c] + REPLIES * request_nbr[c]
  /\ request_nbr[c] > 0 =>
       request_nbr[c] * TICKS <= poll_began[c] + REPLIES * (request_nbr[c] - 1)

AsyncInv == AsyncTypes /\ Finite /\ \A c \in Clients : Reckoned(c)

LEMMA AsyncNumbers ==
  ASSUME AsyncTypes, Finite, NEW c \in Clients
  PROVE  /\ TICKS \in Nat /\ REPLIES \in Nat /\ clock \in Nat
         /\ poll_began[c] \in Nat /\ centitick[c] \in Nat /\ request_nbr[c] \in Nat
         /\ unrouted[c] \in Nat /\ arriving[c] \in Nat /\ poll_began[c] <= clock
         /\ Cardinality(Queued(c)) \in Nat /\ Cardinality(Due(c)) \in Nat
         /\ request_nbr[c] * TICKS \in Nat /\ REPLIES * request_nbr[c] \in Nat
         /\ Saved(c) \in Nat
<1>1. /\ TICKS \in Nat /\ REPLIES \in Nat /\ clock \in Nat
      /\ poll_began[c] \in Nat /\ centitick[c] \in Nat /\ request_nbr[c] \in Nat
      /\ unrouted[c] \in Nat /\ arriving[c] \in Nat /\ poll_began[c] <= clock
  BY ConstantsAssumption DEF AsyncTypes
<1>2. Cardinality(Queued(c)) \in Nat /\ Cardinality(Due(c)) \in Nat
  BY FS_CardinalityType DEF Finite
<1>3. \A m, n \in Nat : m * n \in Nat
  OBVIOUS
<1>4. unrouted[c] + Cardinality(Queued(c)) \in Nat
  BY <1>1, <1>2
<1>5. REPLIES * (unrouted[c] + Cardinality(Queued(c))) \in Nat
  BY <1>1, <1>3, <1>4
<1> QED
  BY <1>1, <1>2, <1>3, <1>5 DEF Saved

LEMMA Multiples ==
  /\ \A r, m, n \in Nat : m <= n => r * m <= r * n
  /\ \A r, m \in Nat : r * (m + 1) = r * m + r /\ (m + 1) * r = m * r + r
<1>1. \A r, m \in Nat : r * (m + 1) = r * m + r /\ (m + 1) * r = m * r + r
  OBVIOUS
<1>2. ASSUME NEW r \in Nat, NEW m \in Nat, NEW n \in Nat, m <= n
      PROVE  r * m <= r * n
  <2>1. n - m \in Nat /\ n = m + (n - m)
    BY <1>2
  <2>2. PICK k \in Nat : n = m + k
    BY <2>1
  <2>3. r * n = r * m + r * k /\ r * k >= 0
    BY <2>2
  <2> QED
    BY <2>3
<1> QED
  BY <1>1, <1>2

LEMMA AsyncInitOK == Init => AsyncInv
<1> SUFFICES ASSUME Init PROVE AsyncInv
  OBVIOUS
<1>1. A!Init
  BY DEF Init
<1>2. AsyncTypes
  BY <1>1 DEF A!Init, AsyncTypes
<1>3. \A c : Queued(c) = {} /\ Due(c) = {}
  <2>1. \A w \in Workers : DOMAIN pipe[w] = {} /\ 1 .. left[w] = {}
    BY <1>1 DEF A!Init
  <2> QED
    BY <2>1 DEF Queued, Due
<1>4. Finite
  BY <1>3, FS_EmptySet DEF Finite
<1>5. ASSUME NEW c \in Clients PROVE Reckoned(c)
  <2>1. Saved(c) = 0
    <3>1. REPLIES * (0 + 0) = 0
      BY ConstantsAssumption
    <3>2. arriving[c] = 0 /\ unrouted[c] = 0
      BY <1>1 DEF A!Init
    <3>3. Cardinality(Queued(c)) = 0 /\ Cardinality(Due(c)) = 0
      BY <1>3, FS_EmptySet
    <3> QED
      BY <3>1, <3>2, <3>3 DEF Saved
  <2>2. /\ poll_began[c] = 0 /\ centitick[c] = 0 /\ request_nbr[c] = 0
        /\ 0 * TICKS = 0 /\ REPLIES * 0 = 0
    BY <1>1, ConstantsAssumption DEF A!Init
  <2> QED
    BY <2>1, <2>2 DEF Reckoned
<1> QED
  BY <1>2, <1>4, <1>5 DEF AsyncInv

LEMMA ElapseOK == AsyncInv /\ (A!Elapse \/ UNCHANGED asyncVars) => AsyncInv'
<1> SUFFICES ASSUME AsyncInv, A!Elapse \/ UNCHANGED asyncVars PROVE AsyncInv'
  OBVIOUS
<1>1. /\ clock' \in {clock, clock + 1}
      /\ UNCHANGED <<poll_began, centitick, request_nbr, unrouted, arriving, pipe,
                     identity, left>>
  BY DEF A!Elapse, A!proxyVars, A!workerVars, asyncVars
<1>2. AsyncTypes'
  BY <1>1 DEF AsyncInv, AsyncTypes
<1>3. \A c : UNCHANGED <<Queued(c), Due(c)>>
  BY <1>1 DEF Queued, Due
<1>4. Finite'
  BY <1>3 DEF AsyncInv, Finite
<1>5. \A c \in Clients : Reckoned(c)'
  BY <1>1, <1>3 DEF AsyncInv, Reckoned, Saved
<1> QED
  BY <1>2, <1>4, <1>5 DEF AsyncInv

(* A poll that a reply ends is one reply less to come; one that is over    *)
(* has taken its time.                                                     *)
LEMMA PollOverOK ==
  ASSUME AsyncInv, NEW c \in Clients, A!PollOver(c) PROVE AsyncInv'
<1>1. /\ UNCHANGED <<clock, request_nbr, unrouted, pipe, identity, left>>
      /\ centitick' = [centitick EXCEPT ![c] = @ + 1]
      /\ poll_began' = [poll_began EXCEPT ![c] = clock]
      /\ \/ arriving[c] > 0 /\ arriving' = [arriving EXCEPT ![c] = @ - 1]
         \/ clock > poll_began[c] /\ UNCHANGED arriving
  BY DEF A!PollOver, A!proxyVars, A!workerVars
<1>2. AsyncTypes'
  <2>1. clock \in Nat /\ poll_began \in [Clients -> Nat] /\ poll_began[c] <= clock
    BY DEF AsyncInv, AsyncTypes
  <2>2. /\ poll_began' \in [Clients -> Nat]
        /\ \A d \in Clients : poll_began'[d] <= clock
    BY <1>1, <2>1 DEF AsyncInv, AsyncTypes
  <2>3. centitick' \in [Clients -> Nat] /\ arriving' \in [Clients -> Nat]
    <3>1. centitick \in [Clients -> Nat] /\ arriving \in [Clients -> Nat]
      BY DEF AsyncInv, AsyncTypes
    <3>2. centitick' \in [Clients -> Nat]
      BY <1>1, <3>1
    <3>3. arriving[c] > 0 => arriving[c] - 1 \in Nat
      BY <3>1
    <3>4. arriving' \in [Clients -> Nat]
      BY <1>1, <3>1, <3>3
    <3> QED
      BY <3>2, <3>4
  <2> QED
    BY <1>1, <2>2, <2>3 DEF AsyncInv, AsyncTypes
<1>3. \A d : UNCHANGED <<Queued(d), Due(d)>>
  BY <1>1 DEF Queued, Due
<1>4. Finite'
  BY <1>3 DEF AsyncInv, Finite
<1>5. ASSUME NEW d \in Clients PROVE Reckoned(d)'
  <2>1. CASE d # c
    BY <1>1, <1>3, <2>1 DEF AsyncInv, AsyncTypes, Reckoned, Saved
  <2>2. CASE d = c
    <3> DEFINE asked == request_nbr[c] * TICKS
               given == REPLIES * request_nbr[c]
               later == REPLIES * (unrouted[c] + Cardinality(Queued(c)))
    <3>1. /\ poll_began'[c] = clock /\ centitick'[c] = centitick[c] + 1
          /\ request_nbr'[c] = request_nbr[c]
          /\ \/ arriving[c] > 0 /\ arriving'[c] = arriving[c] - 1
             \/ clock > poll_began[c] /\ arriving'[c] = arriving[c]
      BY <1>1 DEF AsyncInv, AsyncTypes
    <3>2. /\ Saved(c) = arriving[c] + Cardinality(Due(c)) + later
          /\ Saved(c)' = arriving'[c] + Cardinality(Due(c)) + later
      BY <1>1, <1>3 DEF Saved
    <3>3. /\ poll_began[c] \in Nat /\ clock \in Nat /\ poll_began[c] <= clock
          /\ centitick[c] \in Nat /\ arriving[c] \in Nat /\ asked \in Nat
          /\ given \in Nat /\ Saved(c) \in Nat /\ Cardinality(Due(c)) \in Nat
          /\ later \in Nat /\ REPLIES * (request_nbr[c] - 1) \in Int
      <4>1. \A m, n \in Nat : m * n \in Nat
        OBVIOUS
      <4>2. \A m \in Nat, n \in Int : m * n \in Int
        OBVIOUS
      <4>3. request_nbr[c] - 1 \in Int
        BY AsyncNumbers DEF AsyncInv
      <4>4. unrouted[c] + Cardinality(Queued(c)) \in Nat
        BY AsyncNumbers DEF AsyncInv
      <4> QED
        BY <4>1, <4>2, <4>3, <4>4, AsyncNumbers DEF AsyncInv
    <3>4. /\ asked + centitick[c] + Saved(c) <= poll_began[c] + given
          /\ request_nbr[c] > 0 =>
               asked <= poll_began[c] + REPLIES * (request_nbr[c] - 1)
      BY DEF AsyncInv, Reckoned
    <3> HIDE DEF asked, given, later
    <3>5. asked + centitick'[c] + Saved(c)' <= clock + given
      BY <3>1, <3>2, <3>3, <3>4
    <3>6. request_nbr[c] > 0 =>
            asked <= clock + REPLIES * (request_nbr[c] - 1)
      BY <3>3, <3>4
    <3> QED
      BY <2>2, <3>1, <3>5, <3>6 DEF Reckoned, asked, given
  <2> QED
    BY <2>1, <2>2
<1> QED
  BY <1>2, <1>4, <1>5 DEF AsyncInv

(* A request is made after TICKS polls, and may bring REPLIES replies. *)
LEMMA RequestOK ==
  ASSUME AsyncInv, NEW c \in Clients, A!Request(c) PROVE AsyncInv'
<1>1. /\ UNCHANGED <<clock, arriving, pipe, identity, left>>
      /\ centitick[c] = TICKS /\ centitick' = [centitick EXCEPT ![c] = 0]
      /\ request_nbr' = [request_nbr EXCEPT ![c] = @ + 1]
      /\ unrouted' = [unrouted EXCEPT ![c] = @ + 1]
      /\ poll_began' = [poll_began EXCEPT ![c] = clock]
  BY DEF A!Request, A!workerVars
<1>2. AsyncTypes'
  BY <1>1 DEF AsyncInv, AsyncTypes
<1>3. \A d : UNCHANGED <<Queued(d), Due(d)>>
  BY <1>1 DEF Queued, Due
<1>4. Finite'
  BY <1>3 DEF AsyncInv, Finite
<1>5. ASSUME NEW d \in Clients PROVE Reckoned(d)'
  <2>1. CASE d # c
    BY <1>1, <1>3, <2>1 DEF AsyncInv, AsyncTypes, Reckoned, Saved
  <2>2. CASE d = c
    <3> DEFINE n == request_nbr[c]
               open == unrouted[c] + Cardinality(Queued(c))
               replies_due == arriving[c] + Cardinality(Due(c))
    <3>1. /\ poll_began'[c] = clock /\ centitick'[c] = 0
          /\ request_nbr'[c] = n + 1 /\ unrouted'[c] = unrouted[c] + 1
          /\ arriving'[c] = arriving[c]
      BY <1>1 DEF AsyncInv, AsyncTypes
    <3>2. /\ n \in Nat /\ open \in Nat /\ replies_due \in Nat /\ TICKS \in Nat
          /\ REPLIES \in Nat /\ poll_began[c] \in Nat /\ clock \in Nat
          /\ poll_began[c] <= clock
      BY AsyncNumbers DEF AsyncInv
    <3>3. /\ Saved(c) = replies_due + REPLIES * open
          /\ Saved(c)' = replies_due + REPLIES * (open + 1)
      <4>1. unrouted'[c] + Cardinality(Queued(c)) = open + 1
        BY <3>1, AsyncNumbers DEF AsyncInv
      <4> QED
        BY <1>3, <3>1, <4>1 DEF Saved
    <3>4. n * TICKS + TICKS + Saved(c) <= poll_began[c] + REPLIES * n
      BY <1>1 DEF AsyncInv, Reckoned
    <3>5. /\ n * TICKS \in Nat /\ REPLIES * n \in Nat /\ REPLIES * open \in Nat
          /\ (n + 1) * TICKS = n * TICKS + TICKS
          /\ REPLIES * (n + 1) = REPLIES * n + REPLIES
          /\ REPLIES * (open + 1) = REPLIES * open + REPLIES
          /\ n + 1 - 1 = n
      <4> HIDE DEF n, open
      <4>1. \A k, m \in Nat : k * m \in Nat
        OBVIOUS
      <4> QED
        BY <3>2, <4>1, Multiples
    <3> HIDE DEF n, open, replies_due
    <3>6. (n + 1) * TICKS + 0 + Saved(c)' <= clock + REPLIES * (n + 1)
      BY <3>2, <3>3, <3>4, <3>5
    <3>7. (n + 1) * TICKS <= clock + REPLIES * (n + 1 - 1)
      BY <3>2, <3>3, <3>4, <3>5
    <3>8. request_nbr'[c] * TICKS + centitick'[c] + Saved(c)'
            <= poll_began'[c] + REPLIES * request_nbr'[c]
      BY ONLY <3>1, <3>6, Zenon
    <3>9. request_nbr'[c] * TICKS <= poll_began'[c] + REPLIES * (request_nbr'[c] - 1)
      <4>1. request_nbr'[c] - 1 = n + 1 - 1
        BY <3>1, <3>2
      <4>2. request_nbr'[c] = n + 1 /\ poll_began'[c] = clock
        BY ONLY <3>1, Zenon
      <4> QED
        BY ONLY <3>7, <4>1, <4>2, Zenon
    <3> QED
      BY <2>2, <3>8, <3>9, Zenon DEF Reckoned
  <2> QED
    BY <2>1, <2>2
<1> QED
  BY <1>2, <1>4, <1>5 DEF AsyncInv

(* What the proxy and the workers do leaves the clients' reckoning alone:  *)
(* it is enough that k requests of a client, if any, are taken for no more *)
(* than REPLIES replies each.                                              *)
LEMMA ServerKeeps ==
  ASSUME AsyncInv, UNCHANGED <<poll_began, centitick, request_nbr>>,
         NEW c \in Clients, NEW k \in {0, 1},
         unrouted'[c] \in Nat, arriving'[c] \in Nat,
         Cardinality(Queued(c)') \in Nat, Cardinality(Due(c)') \in Nat,
         unrouted'[c] + Cardinality(Queued(c)') + k
           <= unrouted[c] + Cardinality(Queued(c)),
         arriving'[c] + Cardinality(Due(c)')
           <= arriving[c] + Cardinality(Due(c)) + REPLIES * k
  PROVE  Reckoned(c)'
<1> DEFINE before == unrouted[c] + Cardinality(Queued(c))
           after == unrouted'[c] + Cardinality(Queued(c)')
           asked == request_nbr[c] * TICKS
           given == REPLIES * request_nbr[c]
<1>1. /\ before \in Nat /\ after \in Nat /\ after + k <= before /\ REPLIES \in Nat
      /\ arriving[c] \in Nat /\ Cardinality(Due(c)) \in Nat
      /\ asked \in Nat /\ given \in Nat /\ poll_began[c] \in Nat
      /\ centitick[c] \in Nat
  <2>1. \A m, n \in Nat : m * n \in Nat
    OBVIOUS
  <2>2. before \in Nat /\ after \in Nat /\ after + k <= before
    BY AsyncNumbers DEF AsyncInv
  <2> HIDE DEF before, after
  <2> QED
    BY <2>1, <2>2, AsyncNumbers DEF AsyncInv
<1>2. /\ Saved(c) = arriving[c] + Cardinality(Due(c)) + REPLIES * before
      /\ Saved(c)' = arriving'[c] + Cardinality(Due(c)') + REPLIES * after
  BY DEF Saved
<1> HIDE DEF before, after, asked, given
<1>3. REPLIES * after + REPLIES * k <= REPLIES * before
  <2>1. CASE k = 0
    BY <1>1, <2>1, Multiples
  <2>2. CASE k = 1
    <3>1. REPLIES * (after + 1) <= REPLIES * before
      BY <1>1, <2>2, Multiples
    <3> QED
      BY <1>1, <2>2, <3>1, Multiples
  <2> QED
    BY <2>1, <2>2
<1>4. REPLIES * after \in Nat /\ REPLIES * before \in Nat /\ REPLIES * k \in Nat
  <2>1. \A m, n \in Nat : m * n \in Nat
    OBVIOUS
  <2> QED
    BY <1>1, <2>1
<1>5. Saved(c)' <= Saved(c) /\ Saved(c) \in Nat /\ Saved(c)' \in Nat
  BY <1>1, <1>2, <1>3, <1>4
<1>6. /\ asked + centitick[c] + Saved(c) <= poll_began[c] + given
      /\ request_nbr[c] > 0 =>
           asked <= poll_began[c] + REPLIES * (request_nbr[c] - 1)
  BY DEF AsyncInv, Reckoned, asked, given
<1>7. asked + centitick[c] + Saved(c)' <= poll_began[c] + given
  BY <1>1, <1>5, <1>6
<1> QED
  BY <1>6, <1>7 DEF Reckoned, asked, given

LEMMA NoMore ==
  ASSUME NEW S, IsFiniteSet(S), NEW T, T \subseteq S
  PROVE  /\ IsFiniteSet(T) /\ Cardinality(T) \in Nat
         /\ Cardinality(T) <= Cardinality(S)
BY FS_Subset, FS_CardinalityType

LEMMA OneMore ==
  ASSUME NEW S, IsFiniteSet(S), NEW x, NEW T, T \subseteq S \union {x}
  PROVE  /\ IsFiniteSet(T) /\ Cardinality(T) \in Nat
         /\ Cardinality(T) <= Cardinality(S) + 1
<1>1. /\ IsFiniteSet(S \union {x}) /\ Cardinality(S) \in Nat
      /\ Cardinality(S \union {x}) \in {Cardinality(S), Cardinality(S) + 1}
  BY FS_AddElement, FS_CardinalityType
<1>2. /\ IsFiniteSet(T) /\ Cardinality(T) \in Nat
      /\ Cardinality(T) <= Cardinality(S \union {x})
  BY <1>1, NoMore
<1> QED
  BY <1>1, <1>2

LEMMA QueuedIs ==
  \A d, w, k : <<w, k>> \in Queued(d) <=>
    /\ w \in Workers /\ k \in Nat /\ k \in DOMAIN pipe[w] /\ pipe[w][k] = d
BY DEF Queued

LEMMA DueIs ==
  \A d, w, k : <<w, k>> \in Due(d) <=>
    w \in Workers /\ k \in Nat /\ identity[w] = d /\ k \in 1 .. left[w]
BY DEF Due

LEMMA RouteOK ==
  ASSUME AsyncInv, NEW c \in Clients, A!Route(c) PROVE AsyncInv'
<1> DEFINE h == Head(next_worker)
<1>1. /\ UNCHANGED <<clock, poll_began, centitick, request_nbr, arriving,
                     identity, left>>
      /\ unrouted[c] > 0 /\ unrouted' = [unrouted EXCEPT ![c] = @ - 1]
      /\ pipe' = [pipe EXCEPT ![h] = Append(@, c)]
  BY DEF A!Route
<1> HIDE DEF h
<1>2. /\ pipe \in [Workers -> Seq(Clients)] /\ unrouted \in [Clients -> Nat]
      /\ arriving \in [Clients -> Nat]
  BY DEF AsyncInv, AsyncTypes
<1>3. \A w \in Workers :
        pipe'[w] = IF w = h THEN Append(pipe[w], c) ELSE pipe[w]
  BY <1>1, <1>2
<1>4. AsyncTypes'
  <2>1. \A w \in Workers : pipe'[w] \in Seq(Clients)
    <3> SUFFICES ASSUME NEW w \in Workers PROVE pipe'[w] \in Seq(Clients)
      OBVIOUS
    <3>1. pipe[w] \in Seq(Clients) /\ Append(pipe[w], c) \in Seq(Clients)
      BY <1>2, AppendProperties, Zenon
    <3> QED
      BY <1>3, <3>1, Zenon
  <2>2. pipe' \in [Workers -> Seq(Clients)]
    <3>1. pipe' = [w \in Workers |-> pipe'[w]]
      BY <1>1, <1>2
    <3> QED
      BY <2>1, <3>1
  <2>3. unrouted' \in [Clients -> Nat]
    BY <1>1, <1>2
  <2> QED
    BY <1>1, <2>2, <2>3 DEF AsyncInv, AsyncTypes
<1>5. ASSUME NEW w \in Workers, NEW k, k \in DOMAIN pipe'[w]
      PROVE  \/ k \in DOMAIN pipe[w] /\ pipe'[w][k] = pipe[w][k]
             \/ w = h /\ k = Len(pipe[w]) + 1 /\ pipe'[w][k] = c
  <2>1. pipe[w] \in Seq(Clients)
    BY <1>2
  <2>2. CASE w # h
    BY <1>3, <1>5, <2>2
  <2>3. CASE w = h
    <3> DEFINE longer == Append(pipe[w], c)
    <3>1. /\ longer \in Seq(Clients)
          /\ Len(longer) = Len(pipe[w]) + 1
          /\ \A j \in 1 .. Len(pipe[w]) : longer[j] = pipe[w][j]
          /\ longer[Len(pipe[w]) + 1] = c
      <4> HIDE DEF longer
      <4>1. c \in Clients /\ pipe[w] \in Seq(Clients)
        BY <2>1
      <4>2. longer = Append(pipe[w], c)
        BY DEF longer
      <4> QED
        BY ONLY <4>1, <4>2, AppendProperties
    <3>2. pipe'[w] = longer
      BY <1>3, <2>3
    <3> HIDE DEF longer
    <3>3. k \in 1 .. Len(pipe[w]) + 1 /\ DOMAIN pipe[w] = 1 .. Len(pipe[w])
      BY <1>5, <2>1, <3>1, <3>2
    <3>4. k \in 1 .. Len(pipe[w]) \/ k = Len(pipe[w]) + 1
      BY <2>1, <3>3
    <3> QED
      BY <2>3, <3>1, <3>2, <3>3, <3>4
  <2> QED
    BY <2>2, <2>3
<1>6. \A d : UNCHANGED Due(d)
  BY <1>1 DEF Due
<1>7. \A d : Queued(d)' \subseteq Queued(d) \union {<<h, Len(pipe[h]) + 1>>}
  <2> SUFFICES ASSUME NEW d, NEW p \in Queued(d)'
               PROVE  p \in Queued(d) \/ p = <<h, Len(pipe[h]) + 1>>
    OBVIOUS
  <2>1. PICK w \in Workers, k \in Nat :
          p = <<w, k>> /\ k \in DOMAIN pipe'[w] /\ pipe'[w][k] = d
    BY DEF Queued
  <2> QED
    BY <1>5, <2>1, QueuedIs
<1>8. \A d : d # c => Queued(d)' \subseteq Queued(d)
  <2> SUFFICES ASSUME NEW d, d # c, NEW p \in Queued(d)' PROVE p \in Queued(d)
    OBVIOUS
  <2>1. PICK w \in Workers, k \in Nat :
          p = <<w, k>> /\ k \in DOMAIN pipe'[w] /\ pipe'[w][k] = d
    BY DEF Queued
  <2> QED
    BY <1>5, <2>1, QueuedIs
<1>9. ASSUME NEW d \in Clients
      PROVE  IsFiniteSet(Queued(d)') /\ IsFiniteSet(Due(d)') /\ Reckoned(d)'
  <2>1. IsFiniteSet(Queued(d)) /\ IsFiniteSet(Due(d))
    BY DEF AsyncInv, Finite
  <2>2. /\ Cardinality(Due(d)) \in Nat /\ Cardinality(Queued(d)) \in Nat
        /\ arriving[d] \in Nat /\ unrouted[d] \in Nat
        /\ REPLIES * 0 = 0
    BY <1>2, <2>1, FS_CardinalityType, ConstantsAssumption
  <2>3. CASE d = c
    <3>1. /\ IsFiniteSet(Queued(d)') /\ Cardinality(Queued(d)') \in Nat
          /\ Cardinality(Queued(d)') <= Cardinality(Queued(d)) + 1
      BY <1>7, <2>1, OneMore
    <3>2. unrouted'[d] = unrouted[d] - 1 /\ unrouted'[d] \in Nat
      BY <1>1, <1>2, <2>3
    <3>3. Reckoned(d)'
      BY <1>1, <1>6, <2>2, <3>1, <3>2, ServerKeeps, 0 \in {0, 1}
    <3> QED
      BY <1>6, <2>1, <3>1, <3>3
  <2>4. CASE d # c
    <3>1. /\ IsFiniteSet(Queued(d)') /\ Cardinality(Queued(d)') \in Nat
          /\ Cardinality(Queued(d)') <= Cardinality(Queued(d))
      BY <1>8, <2>1, <2>4, NoMore
    <3>2. unrouted'[d] = unrouted[d]
      BY <1>1, <1>2, <2>4
    <3>3. Reckoned(d)'
      BY <1>1, <1>6, <2>2, <3>1, <3>2, ServerKeeps, 0 \in {0, 1}
    <3> QED
      BY <1>6, <2>1, <3>1, <3>3
  <2> QED
    BY <2>3, <2>4
<1> QED
  BY <1>4, <1>9 DEF AsyncInv, Finite

(* The worker takes one request off its pipe: the others move up. *)
LEMMA TailQueued ==
  ASSUME AsyncInv, NEW w \in Workers, pipe[w] # <<>>,
         pipe' = [pipe EXCEPT ![w] = Tail(@)], NEW d \in Clients
  PROVE  /\ IsFiniteSet(Queued(d)') /\ Cardinality(Queued(d)') \in Nat
         /\ Cardinality(Queued(d)') <= Cardinality(Queued(d))
         /\ d = Head(pipe[w]) =>
              Cardinality(Queued(d)') + 1 <= Cardinality(Queued(d))
<1> DEFINE S == Queued(d)'
           T == IF d = Head(pipe[w]) THEN Queued(d) \ {<<w, 1>>} ELSE Queued(d)
           f == [p \in S |-> IF p[1] = w THEN <<w, p[2] + 1>> ELSE p]
<1>1. /\ pipe[w] \in Seq(Clients) /\ Tail(pipe[w]) \in Seq(Clients)
      /\ Len(pipe[w]) \in Nat /\ Len(pipe[w]) >= 1
      /\ Len(Tail(pipe[w])) = Len(pipe[w]) - 1
      /\ \A k \in 1 .. Len(pipe[w]) - 1 : Tail(pipe[w])[k] = pipe[w][k + 1]
      /\ Head(pipe[w]) = pipe[w][1] /\ DOMAIN pipe[w] = 1 .. Len(pipe[w])
  <2>1. pipe[w] \in Seq(Clients)
    BY DEF AsyncInv, AsyncTypes
  <2> QED
    BY <2>1, HeadTailProperties, LenProperties
<1>2. \A v \in Workers : pipe'[v] = IF v = w THEN Tail(pipe[w]) ELSE pipe[v]
  BY DEF AsyncInv, AsyncTypes
<1>3. ASSUME NEW p \in S
      PROVE  \E v \in Workers, k \in Nat :
               /\ p = <<v, k>> /\ f[p] \in T
               /\ f[p] = IF v = w THEN <<v, k + 1>> ELSE <<v, k>>
  <2>1. PICK v \in Workers, k \in Nat :
          p = <<v, k>> /\ k \in DOMAIN pipe'[v] /\ pipe'[v][k] = d
    BY DEF Queued
  <2>2. f[p] = IF v = w THEN <<v, k + 1>> ELSE <<v, k>>
    BY <1>3, <2>1
  <2> HIDE DEF f
  <2>3. CASE v # w
    <3>1. <<v, k>> \in Queued(d) /\ <<v, k>> # <<w, 1>>
      BY <1>2, <2>1, <2>3, QueuedIs
    <3> QED
      BY <2>1, <2>2, <2>3, <3>1
  <2>4. CASE v = w
    <3>1. pipe'[w] = Tail(pipe[w])
      BY <1>2
    <3>2. k \in 1 .. Len(pipe[w]) - 1 /\ Tail(pipe[w])[k] = d
      BY <1>1, <2>1, <2>4, <3>1, LenProperties
    <3>3. /\ k + 1 \in DOMAIN pipe[w] /\ pipe[w][k + 1] = d /\ k + 1 # 1
          /\ k + 1 \in Nat
      BY <1>1, <3>2
    <3>4. <<w, k + 1>> \in Queued(d) /\ <<w, k + 1>> # <<w, 1>>
      BY <3>3, QueuedIs
    <3> QED
      BY <2>1, <2>2, <2>4, <3>4
  <2> QED
    BY <2>3, <2>4
<1>4. f \in Injection(S, T)
  <2>1. f \in [S -> T]
    BY <1>3
  <2>2. ASSUME NEW p \in S, NEW q \in S, f[p] = f[q] PROVE p = q
    <3>1. PICK v \in Workers, k \in Nat :
            p = <<v, k>> /\ f[p] = IF v = w THEN <<v, k + 1>> ELSE <<v, k>>
      BY <1>3
    <3>2. PICK u \in Workers, n \in Nat :
            q = <<u, n>> /\ f[q] = IF u = w THEN <<u, n + 1>> ELSE <<u, n>>
      BY <1>3
    <3> HIDE DEF f
    <3>3. v = u /\ k = n
      BY <2>2, <3>1, <3>2
    <3> QED
      BY <3>1, <3>2, <3>3
  <2> HIDE DEF f, S, T
  <2> QED
    BY <2>1, <2>2, Fun_IsInj
<1>5. IsFiniteSet(Queued(d)) /\ Cardinality(Queued(d)) \in Nat
  BY FS_CardinalityType DEF AsyncInv, Finite
<1>6. /\ IsFiniteSet(T) /\ Cardinality(T) <= Cardinality(Queued(d))
      /\ Cardinality(T) \in Nat
      /\ d = Head(pipe[w]) => Cardinality(T) + 1 = Cardinality(Queued(d))
  <2>1. CASE d = Head(pipe[w])
    <3>1. <<w, 1>> \in Queued(d)
      BY <1>1, <2>1, QueuedIs
    <3>2. T = Queued(d) \ {<<w, 1>>}
      BY <2>1
    <3>3. IsFiniteSet(T) /\ Cardinality(T) = Cardinality(Queued(d)) - 1
      BY <1>5, <3>1, <3>2, FS_RemoveElement
    <3>4. Cardinality(T) \in Nat
      BY <3>3, FS_CardinalityType
    <3> HIDE DEF T
    <3> QED
      BY <1>5, <3>3, <3>4
  <2>2. CASE d # Head(pipe[w])
    BY <1>5, <2>2
  <2> QED
    BY <2>1, <2>2
<1> HIDE DEF f, T
<1>7. /\ IsFiniteSet(S) /\ Cardinality(S) <= Cardinality(T)
      /\ Cardinality(S) \in Nat
  BY <1>4, <1>6, FS_Injection, FS_CardinalityType
<1> QED
  BY <1>5, <1>6, <1>7

LEMMA TakeOK ==
  ASSUME AsyncInv, NEW w \in Workers, A!Take(w) PROVE AsyncInv'
<1> DEFINE h == Head(pipe[w])
<1>1. PICK n \in 0 .. REPLIES :
        /\ UNCHANGED <<clock, poll_began, centitick, request_nbr, arriving,
                       unrouted>>
        /\ pipe[w] # <<>> /\ left[w] = 0
        /\ left' = [left EXCEPT ![w] = n]
        /\ identity' = [identity EXCEPT ![w] = IF n > 0 THEN h ELSE None]
        /\ pipe' = [pipe EXCEPT ![w] = Tail(@)]
  BY DEF A!Take, A!SomeReplies, A!proxyVars
<1>2. /\ REPLIES \in Nat /\ n \in Nat /\ n <= REPLIES
      /\ h \in Clients /\ Tail(pipe[w]) \in Seq(Clients)
  <2>1. pipe[w] \in Seq(Clients)
    BY DEF AsyncInv, AsyncTypes
  <2> QED
    BY <1>1, <2>1, HeadTailProperties, ConstantsAssumption
<1> HIDE DEF h
<1>3. AsyncTypes'
  <2>1. pipe' \in [Workers -> Seq(Clients)]
    BY <1>1, <1>2 DEF AsyncInv, AsyncTypes
  <2>2. left' \in [Workers -> Nat] /\ identity' \in [Workers -> Clients \union {None}]
    BY <1>1, <1>2 DEF AsyncInv, AsyncTypes
  <2>3. \A v \in Workers : left'[v] > 0 => identity'[v] \in Clients
    BY <1>1, <1>2 DEF AsyncInv, AsyncTypes
  <2> QED
    BY <1>1, <2>1, <2>2, <2>3 DEF AsyncInv, AsyncTypes
<1>4. ASSUME NEW d, NEW v \in Workers, NEW j \in Nat, <<v, j>> \in Due(d)'
      PROVE  <<v, j>> \in Due(d) \/ (d = h /\ v = w /\ j \in 1 .. n)
  <2>1. identity'[v] = d /\ j \in 1 .. left'[v]
    BY <1>4 DEF Due
  <2>2. CASE v # w
    <3>1. identity'[v] = identity[v] /\ left'[v] = left[v]
      BY <1>1, <2>2 DEF AsyncInv, AsyncTypes
    <3> QED
      BY <2>1, <3>1, DueIs
  <2>3. CASE v = w
    <3>1. left'[w] = n /\ identity'[w] = IF n > 0 THEN h ELSE None
      BY <1>1 DEF AsyncInv, AsyncTypes
    <3> QED
      BY <1>2, <2>1, <2>3, <3>1
  <2> QED
    BY <2>2, <2>3
<1>5. ASSUME NEW d \in Clients
      PROVE  IsFiniteSet(Queued(d)') /\ IsFiniteSet(Due(d)') /\ Reckoned(d)'
  <2>1. /\ IsFiniteSet(Due(d)) /\ Cardinality(Due(d)) \in Nat
        /\ Cardinality(Queued(d)) \in Nat /\ unrouted[d] \in Nat
        /\ arriving[d] \in Nat
        /\ REPLIES * 0 = 0 /\ REPLIES * 1 = REPLIES
    BY <1>2, FS_CardinalityType DEF AsyncInv, AsyncTypes, Finite
  <2>2. /\ IsFiniteSet(Queued(d)') /\ Cardinality(Queued(d)') \in Nat
        /\ Cardinality(Queued(d)') <= Cardinality(Queued(d))
        /\ d = h => Cardinality(Queued(d)') + 1 <= Cardinality(Queued(d))
    BY <1>1, TailQueued DEF h
  <2>3. CASE d # h
    <3>1. Due(d)' \subseteq Due(d)
      <4> SUFFICES ASSUME NEW p \in Due(d)' PROVE p \in Due(d)
        OBVIOUS
      <4>1. PICK v \in Workers, j \in Nat : p = <<v, j>>
        BY DEF Due
      <4> QED
        BY <1>4, <2>3, <4>1
    <3>2. /\ IsFiniteSet(Due(d)') /\ Cardinality(Due(d)') \in Nat
          /\ Cardinality(Due(d)') <= Cardinality(Due(d))
      BY <2>1, <3>1, NoMore
    <3>3. Reckoned(d)'
      BY <1>1, <2>1, <2>2, <3>2, ServerKeeps, 0 \in {0, 1}
    <3> QED
      BY <2>2, <3>2, <3>3
  <2>4. CASE d = h
    <3> DEFINE fresh == {w} \X (1 .. n)
    <3>1. Due(d)' \subseteq Due(d) \union fresh
      <4> SUFFICES ASSUME NEW p \in Due(d)' PROVE p \in Due(d) \union fresh
        OBVIOUS
      <4>1. PICK v \in Workers, j \in Nat : p = <<v, j>>
        BY DEF Due
      <4> QED
        BY <1>4, <4>1
    <3>2. IsFiniteSet(fresh) /\ Cardinality(fresh) = n
      <4>1. IsFiniteSet(1 .. n) /\ Cardinality(1 .. n) = n
        BY <1>2, FS_Interval
      <4>2. IsFiniteSet({w}) /\ Cardinality({w}) = 1
        BY FS_Singleton
      <4>3. IsFiniteSet(fresh) /\ Cardinality(fresh) = 1 * n
        BY <4>1, <4>2, FS_Product
      <4> QED
        BY <1>2, <4>3
    <3> HIDE DEF fresh
    <3>3. /\ IsFiniteSet(Due(d) \union fresh)
          /\ Cardinality(Due(d) \union fresh) <= Cardinality(Due(d)) + n
          /\ Cardinality(Due(d) \union fresh) \in Nat
      <4>1. /\ IsFiniteSet(Due(d) \union fresh)
            /\ Cardinality(Due(d) \union fresh)
                 = Cardinality(Due(d)) + n - Cardinality(Due(d) \intersect fresh)
        BY <2>1, <3>2, FS_Union
      <4>2. /\ Cardinality(Due(d) \intersect fresh) \in Nat
            /\ Cardinality(Due(d) \union fresh) \in Nat
        BY <2>1, <4>1, NoMore, FS_CardinalityType
      <4> QED
        BY <1>2, <2>1, <4>1, <4>2
    <3>4. /\ IsFiniteSet(Due(d)') /\ Cardinality(Due(d)') \in Nat
          /\ Cardinality(Due(d)') <= Cardinality(Due(d) \union fresh)
      BY <3>1, <3>3, NoMore
    <3>5. Cardinality(Due(d)') <= Cardinality(Due(d)) + REPLIES * 1
      <4>1. Cardinality(Due(d)') <= Cardinality(Due(d)) + n
        BY <1>2, <2>1, <3>3, <3>4
      <4>2. Cardinality(Due(d)') <= Cardinality(Due(d)) + REPLIES
        BY <1>2, <2>1, <3>4, <4>1
      <4> QED
        BY <2>1, <4>2
    <3>6. arriving'[d] + Cardinality(Due(d)')
            <= arriving[d] + Cardinality(Due(d)) + REPLIES * 1
      BY <1>1, <1>2, <2>1, <3>4, <3>5
    <3>7. Reckoned(d)'
      BY <1>1, <2>1, <2>2, <2>4, <3>4, <3>6, ServerKeeps, 1 \in {0, 1}
    <3> QED
      BY <2>2, <3>4, <3>7
  <2> QED
    BY <2>3, <2>4
<1> QED
  BY <1>3, <1>5 DEF AsyncInv, Finite

LEMMA ReplyOK ==
  ASSUME AsyncInv, NEW w \in Workers, A!Reply(w) PROVE AsyncInv'
<1> DEFINE i == identity[w]
<1>1. /\ UNCHANGED <<clock, poll_began, centitick, request_nbr, unrouted, pipe>>
      /\ left[w] > 0 /\ left' = [left EXCEPT ![w] = @ - 1]
      /\ arriving' = [arriving EXCEPT ![i] = @ + 1]
      /\ identity' = [identity EXCEPT ![w] = IF left[w] > 1 THEN @ ELSE None]
  BY DEF A!Reply, A!proxyVars
<1>2. /\ i \in Clients /\ left[w] \in Nat /\ left[w] - 1 \in Nat
      /\ arriving \in [Clients -> Nat] /\ left \in [Workers -> Nat]
      /\ identity \in [Workers -> Clients \union {None}]
  BY <1>1 DEF AsyncInv, AsyncTypes
<1>3. AsyncTypes'
  <2>1. arriving' \in [Clients -> Nat] /\ left' \in [Workers -> Nat]
    BY <1>1, <1>2
  <2>2. identity' \in [Workers -> Clients \union {None}]
    BY <1>1, <1>2
  <2>3. \A v \in Workers : left'[v] > 0 => identity'[v] \in Clients
    BY <1>1, <1>2 DEF AsyncInv, AsyncTypes
  <2> QED
    BY <1>1, <2>1, <2>2, <2>3 DEF AsyncInv, AsyncTypes
<1>4. ASSUME NEW d, NEW p \in Due(d)'
      PROVE  p \in Due(d) /\ p # <<w, left[w]>>
  <2>1. PICK v \in Workers, j \in Nat :
          p = <<v, j>> /\ identity'[v] = d /\ j \in 1 .. left'[v]
    BY <1>4 DEF Due
  <2>2. CASE v # w
    <3>1. identity'[v] = identity[v] /\ left'[v] = left[v]
      BY <1>1, <1>2, <2>2
    <3>2. <<v, j>> \in Due(d)
      BY <2>1, <3>1, DueIs
    <3> QED
      BY <2>1, <2>2, <3>2
  <2>3. CASE v = w
    <3>1. left'[w] = left[w] - 1 /\ j \in 1 .. left[w] - 1
      BY <1>1, <1>2, <2>1, <2>3
    <3>2. left[w] > 1 /\ j \in 1 .. left[w] /\ j # left[w]
      BY <1>2, <2>1, <3>1
    <3>3. identity[w] = d
      BY <1>1, <1>2, <2>1, <2>3, <3>2
    <3>4. <<w, j>> \in Due(d)
      BY <2>1, <3>2, <3>3, DueIs
    <3> QED
      BY <2>1, <2>3, <3>2, <3>4
  <2> QED
    BY <2>2, <2>3
<1>5. \A d : UNCHANGED Queued(d)
  BY <1>1 DEF Queued
<1>6. ASSUME NEW d \in Clients
      PROVE  IsFiniteSet(Queued(d)') /\ IsFiniteSet(Due(d)') /\ Reckoned(d)'
  <2>1. /\ IsFiniteSet(Due(d)) /\ Cardinality(Due(d)) \in Nat
        /\ IsFiniteSet(Queued(d)) /\ Cardinality(Queued(d)) \in Nat
        /\ unrouted[d] \in Nat /\ arriving[d] \in Nat /\ REPLIES * 0 = 0
    BY FS_CardinalityType, ConstantsAssumption DEF AsyncInv, AsyncTypes, Finite
  <2>2. CASE d # i
    <3>1. arriving'[d] = arriving[d]
      BY <1>1, <1>2, <2>2
    <3>2. /\ IsFiniteSet(Due(d)') /\ Cardinality(Due(d)') \in Nat
          /\ Cardinality(Due(d)') <= Cardinality(Due(d))
      BY <1>4, <2>1, NoMore
    <3>3. Reckoned(d)'
      BY <1>1, <1>5, <2>1, <3>1, <3>2, ServerKeeps, 0 \in {0, 1}
    <3> QED
      BY <1>5, <2>1, <3>2, <3>3
  <2>3. CASE d = i
    <3>1. arriving'[d] = arriving[d] + 1
      BY <1>1, <1>2, <2>3
    <3>2. <<w, left[w]>> \in Due(d)
      BY <1>1, <1>2, <2>3, DueIs
    <3>3. /\ IsFiniteSet(Due(d) \ {<<w, left[w]>>})
          /\ Cardinality(Due(d) \ {<<w, left[w]>>}) = Cardinality(Due(d)) - 1
      BY <2>1, <3>2, FS_RemoveElement
    <3>4. Due(d)' \subseteq Due(d) \ {<<w, left[w]>>}
      BY <1>4
    <3>5. /\ IsFiniteSet(Due(d)') /\ Cardinality(Due(d)') \in Nat
          /\ Cardinality(Due(d)') <= Cardinality(Due(d)) - 1
      BY <3>3, <3>4, NoMore
    <3>6. arriving'[d] + Cardinality(Due(d)')
            <= arriving[d] + Cardinality(Due(d)) + REPLIES * 0
      BY <2>1, <3>1, <3>5
    <3>7. Reckoned(d)'
      BY <1>1, <1>5, <2>1, <3>1, <3>5, <3>6, ServerKeeps, 0 \in {0, 1}
    <3> QED
      BY <1>5, <2>1, <3>5, <3>7
  <2> QED
    BY <2>2, <2>3
<1> QED
  BY <1>3, <1>6 DEF AsyncInv, Finite

(* async/cs.c:60-71: a client counts polls for time, and a reply that ends *)
(* a poll makes its clock run fast.  For any numbers of clients, workers   *)
(* and polls and however replies pile up: it asks too early by no more     *)
(* than REPLIES polls for each of the requests before.                     *)
THEOREM ClocksRunLittleFast == Spec => []NeverMuchTooEarly
<1>1. [Next]_vars => [A!Next]_asyncVars
  BY DEF Next, Only, vars
<1>2. AsyncInv /\ [A!Next]_asyncVars => AsyncInv'
  BY ElapseOK, PollOverOK, RequestOK, RouteOK, TakeOK, ReplyOK DEF A!Next
<1>3. AsyncInv => NeverMuchTooEarly
  <2> SUFFICES ASSUME AsyncInv, NEW c \in Clients, request_nbr[c] > 0
               PROVE  request_nbr[c] * TICKS
                        <= clock + REPLIES * (request_nbr[c] - 1)
    BY DEF NeverMuchTooEarly, A!NeverMuchTooEarly
  <2>1. /\ poll_began[c] \in Nat /\ clock \in Nat /\ poll_began[c] <= clock
        /\ request_nbr[c] * TICKS \in Nat /\ request_nbr[c] - 1 \in Int
        /\ REPLIES \in Nat
    BY AsyncNumbers DEF AsyncInv
  <2>2. REPLIES * (request_nbr[c] - 1) \in Int
    BY <2>1
  <2>3. request_nbr[c] * TICKS <= poll_began[c] + REPLIES * (request_nbr[c] - 1)
    BY DEF AsyncInv, Reckoned
  <2> QED
    BY <2>1, <2>2, <2>3
<1> QED
  BY AsyncInitOK, <1>1, <1>2, <1>3, PTL DEF Spec

=============================================================================
