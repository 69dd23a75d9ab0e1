--------------------------- MODULE LBBroker_proofs ---------------------------
(***************************************************************************)
(* Proofs about LBBroker for every finite, non-empty set of clients and of *)
(* workers: IInv is an inductive invariant, and the safety properties that *)
(* TLC checks follow from it.                                              *)
(***************************************************************************)
EXTENDS LBBroker, QueueLemmas, FiniteSetTheorems, SequenceTheorems, TLAPS

-----------------------------------------------------------------------------
(* Sequences: channels hold one message at most, and the queue of workers  *)
(* repeats none (QueueLemmas).                                             *)

LEMMA OneMessage ==
  ASSUME NEW x
  PROVE  /\ <<x>> # <<>> /\ Head(<<x>>) = x /\ Tail(<<x>>) = <<>>
         /\ Append(<<>>, x) = <<x>>
OBVIOUS

LEMMA SingletonsDiffer ==
  ASSUME NEW x, NEW y, <<x>> = <<y>>
  PROVE  x = y
<1>1. Head(<<x>>) = Head(<<y>>)
  OBVIOUS
<1> QED BY <1>1, OneMessage

(* A queue without repetition that misses some worker is not full. *)
LEMMA MissingOne ==
  ASSUME NEW S, IsFiniteSet(S), NEW q \in Seq(S), NoRepeat(q),
         NEW x \in S, ~Occurs(x, q)
  PROVE  Len(q) < Cardinality(S)
<1> DEFINE T == S \ {x}
<1>1. IsFiniteSet(T) /\ Cardinality(T) = Cardinality(S) - 1
  BY FS_RemoveElement
<1>2. Cardinality(S) \in Nat /\ Cardinality(T) \in Nat
  BY <1>1, FS_CardinalityType
<1>3. Len(q) \in Nat /\ DOMAIN q = 1 .. Len(q) /\ q \in [1 .. Len(q) -> S]
  BY LenProperties
<1>4. q \in [1 .. Len(q) -> T]
  BY <1>3 DEF Occurs
<1>5. IsFiniteSet(1 .. Len(q)) /\ Cardinality(1 .. Len(q)) = Len(q)
  BY <1>3, FS_Interval
<1>6. ASSUME Cardinality(T) < Len(q) PROVE FALSE
  <2>1. \E i, j \in 1 .. Len(q) : i # j /\ q[i] = q[j]
    BY <1>1, <1>4, <1>5, <1>6, FS_PigeonHole
  <2> QED BY <2>1, <1>3 DEF NoRepeat
<1> HIDE DEF T
<1> QED BY <1>1, <1>2, <1>3, <1>6

-----------------------------------------------------------------------------
(* The invariant, stated with the operators of this module. *)

LEMMA QueueForm ==
  /\ QueueInjective <=> NoRepeat(worker_queue)
  /\ \A w : Queued(w) <=> Occurs(w, worker_queue)
BY DEF QueueInjective, NoRepeat, Queued, Occurs

LEMMA UnansweredFinite ==
  ASSUME TypeOK
  PROVE  /\ IsFiniteSet(Clients) /\ IsFiniteSet(Unanswered)
         /\ Cardinality(Unanswered) \in 0 .. NBR_CLIENTS
         /\ NBR_CLIENTS \in Nat
<1>1. IsFiniteSet(Clients) /\ Unanswered \in SUBSET Clients
  BY ThreadsAssumption DEF Unanswered
<1>2. /\ IsFiniteSet(Unanswered)
      /\ Cardinality(Unanswered) <= Cardinality(Clients)
  BY <1>1, FS_Subset
<1> QED BY <1>1, <1>2, FS_CardinalityType DEF NBR_CLIENTS

LEMMA InitInv == Init => IInv
<1> SUFFICES ASSUME Init PROVE IInv
  OBVIOUS
<1>1. TypeOK
  <2>1. NBR_CLIENTS \in Nat
    BY ThreadsAssumption, FS_CardinalityType DEF NBR_CLIENTS
  <2>2. /\ <<>> \in Seq(Workers) /\ <<>> \in Seq(Clients)
        /\ <<>> \in Seq(Clients \union {READY})
    BY EmptySeq
  <2>3. /\ frontOut \in [Clients -> Seq(Workers)]
        /\ backIn \in [Workers -> Seq(Clients \union {READY})]
        /\ backOut \in [Workers -> Seq(Clients)]
        /\ worker_queue \in Seq(Workers)
    BY <2>2 DEF Init
  <2>4. client_nbr \in 0 .. NBR_CLIENTS
    BY <2>1 DEF Init
  <2> QED BY <2>3, <2>4 DEF Init, TypeOK
<1>2. WorkerPhases
  BY DEF Init, WorkerPhases, Queued, Fresh, Quiet
<1>3. QueueInjective
  BY DEF Init, QueueInjective
<1>4. ClientPhases
  <2>1. \A w \in Workers, c \in Clients : ~Has(w, c)
    BY NoClientAssumption DEF Init, Has, Given, Working, Replied
  <2> QED BY <2>1 DEF Init, ClientPhases
<1>5. BrokerPhases
  BY DEF Init, BrokerPhases
<1>6. RepliesCounted
  <2>1. Unanswered = Clients
    BY DEF Init, Unanswered, Answered
  <2> QED BY <2>1 DEF Init, RepliesCounted, NBR_CLIENTS
<1> QED BY <1>1, <1>2, <1>3, <1>4, <1>5, <1>6 DEF IInv

-----------------------------------------------------------------------------
(* One lemma per action. *)

LEMMA ClientSendInv ==
  ASSUME IInv, NEW c \in Clients, ClientSend(c)
  PROVE  IInv'
<1> USE DEF ClientSend, brokerVars
<1>1. TypeOK'
  BY DEF IInv, TypeOK
<1>2. WorkerPhases'
  BY DEF IInv, WorkerPhases, Queued, Fresh, Offered, Quiet, Has, Given,
         Working, Replied
<1>3. QueueInjective'
  BY DEF IInv, QueueInjective
<1>4. ClientPhases'
  <2>1. \A w \in Workers, d \in Clients : Has(w, d)' <=> Has(w, d)
    BY DEF Has, Given, Working, Replied
  <2>2. \A d \in Clients : client'[d] = IF d = c THEN "waiting" ELSE client[d]
    BY DEF IInv, TypeOK
  <2> QED BY <2>1, <2>2 DEF IInv, ClientPhases
<1>5. BrokerPhases'
  BY DEF IInv, BrokerPhases
<1>6. RepliesCounted'
  <2>1. Unanswered' = Unanswered
    BY DEF IInv, TypeOK, Unanswered, Answered
  <2> QED BY <2>1 DEF IInv, RepliesCounted
<1> QED BY <1>1, <1>2, <1>3, <1>4, <1>5, <1>6 DEF IInv

LEMMA ClientRecvInv ==
  ASSUME IInv, NEW c \in Clients, ClientRecv(c)
  PROVE  IInv'
<1> USE DEF ClientRecv, brokerVars
<1>1. TypeOK'
  <2>1. Tail(frontOut[c]) \in Seq(Workers)
    BY HeadTailProperties DEF IInv, TypeOK
  <2> QED BY <2>1 DEF IInv, TypeOK
<1>2. WorkerPhases'
  BY DEF IInv, WorkerPhases, Queued, Fresh, Offered, Quiet, Has, Given,
         Working, Replied
<1>3. QueueInjective'
  BY DEF IInv, QueueInjective
<1>4. ClientPhases'
  <2>1. \A w \in Workers, d \in Clients : Has(w, d)' <=> Has(w, d)
    BY DEF Has, Given, Working, Replied
  <2>2. \A d \in Clients : d # c => /\ client'[d] = client[d]
                                    /\ frontOut'[d] = frontOut[d]
    BY DEF IInv, TypeOK
  <2>3. client'[c] = "done" /\ frontOut'[c] = Tail(frontOut[c])
    BY DEF IInv, TypeOK
  <2> QED BY <2>1, <2>2, <2>3 DEF IInv, ClientPhases
<1>5. BrokerPhases'
  BY DEF IInv, BrokerPhases
<1>6. RepliesCounted'
  <2>1. Unanswered' = Unanswered
    BY DEF IInv, TypeOK, Unanswered, Answered
  <2> QED BY <2>1 DEF IInv, RepliesCounted
<1> QED BY <1>1, <1>2, <1>3, <1>4, <1>5, <1>6 DEF IInv

LEMMA WorkerReadyInv ==
  ASSUME IInv, NEW w \in Workers, WorkerReady(w)
  PROVE  IInv'
<1> USE DEF WorkerReady, brokerVars
<1>a. Fresh(w) /\ ~Queued(w)
  BY DEF IInv, WorkerPhases, Offered
<1>b. /\ worker'[w] = "loop" /\ backIn'[w] = <<READY>>
      /\ \A v \in Workers : v # w => /\ worker'[v] = worker[v]
                                     /\ backIn'[v] = backIn[v]
  BY <1>a, OneMessage DEF IInv, TypeOK, Fresh, Quiet
<1>c. \A v \in Workers, d \in Clients : Has(v, d)' <=> Has(v, d)
  <2>1. \A d \in Clients : ~Has(w, d)
    BY <1>a, OneMessage, NoClientAssumption
       DEF Fresh, Quiet, Has, Given, Working, Replied
  <2>2. \A d \in Clients : ~Has(w, d)'
    <3>1. \A d \in Clients : <<d>> # <<READY>>
      BY SingletonsDiffer, NoClientAssumption DEF READY
    <3> QED BY <1>a, <1>b, <3>1, OneMessage, NoClientAssumption
            DEF Fresh, Quiet, Has, Given, Working, Replied
  <2> QED BY <1>b, <2>1, <2>2 DEF Has, Given, Working, Replied
<1>1. TypeOK'
  <2>1. backIn'[w] \in Seq(Clients \union {READY})
    BY AppendProperties DEF IInv, TypeOK
  <2> QED BY <2>1 DEF IInv, TypeOK
<1>2. WorkerPhases'
  <2>1. \A v : Queued(v)' <=> Queued(v)
    BY DEF Queued
  <2>2. Offered(w)'
    BY <1>a, <1>b DEF Offered, Fresh, Quiet
  <2>3. ASSUME NEW v \in Workers, v # w
        PROVE  /\ Fresh(v)' <=> Fresh(v)
               /\ Quiet(v)' <=> Quiet(v)
               /\ Offered(v)' <=> Offered(v)
    BY <1>b, <2>3 DEF Fresh, Quiet, Offered
  <2> QED BY <1>a, <1>b, <1>c, <2>1, <2>2, <2>3 DEF IInv, WorkerPhases
<1>3. QueueInjective'
  BY DEF IInv, QueueInjective
<1>4. ClientPhases'
  BY <1>c DEF IInv, ClientPhases
<1>5. BrokerPhases'
  BY <1>b, OneMessage DEF IInv, BrokerPhases
<1>6. RepliesCounted'
  <2>1. Unanswered' = Unanswered
    BY DEF Unanswered, Answered
  <2> QED BY <2>1 DEF IInv, RepliesCounted
<1> QED BY <1>1, <1>2, <1>3, <1>4, <1>5, <1>6 DEF IInv

LEMMA WorkerRecvInv ==
  ASSUME IInv, NEW w \in Workers, WorkerRecv(w)
  PROVE  IInv'
<1> USE DEF WorkerRecv, brokerVars
<1>a. PICK c \in Clients : Given(w, c)
  BY DEF IInv, WorkerPhases, Fresh, Quiet, Offered, Has, Working, Replied
<1>b. ~Queued(w)
  BY DEF IInv, WorkerPhases, Quiet
<1>c. /\ id'[w] = c /\ backOut'[w] = <<>>
      /\ \A v \in Workers : v # w => /\ id'[v] = id[v]
                                     /\ backOut'[v] = backOut[v]
  BY <1>a, OneMessage DEF IInv, TypeOK, Given
<1>d. Working(w, c)'
  BY <1>a, <1>c DEF Given, Working
<1>e. \A v \in Workers, d \in Clients : Has(v, d)' <=> Has(v, d)
  <2>1. \A d \in Clients : Has(w, d) <=> d = c
    BY <1>a, OneMessage, SingletonsDiffer, NoClientAssumption
       DEF Has, Given, Working, Replied
  <2>2. \A d \in Clients : Has(w, d)' <=> d = c
    BY <1>d, OneMessage, NoClientAssumption DEF Has, Given, Working, Replied
  <2> QED BY <1>c, <2>1, <2>2 DEF Has, Given, Working, Replied
<1>1. TypeOK'
  BY <1>a, <1>c DEF IInv, TypeOK
<1>2. WorkerPhases'
  <2>1. \A v : Queued(v)' <=> Queued(v)
    BY DEF Queued
  <2>2. ASSUME NEW v \in Workers, v # w
        PROVE  /\ Fresh(v)' <=> Fresh(v)
               /\ Quiet(v)' <=> Quiet(v)
               /\ Offered(v)' <=> Offered(v)
    BY <1>c, <2>2 DEF Fresh, Quiet, Offered
  <2>3. Has(w, c)'
    BY <1>d DEF Has
  <2> QED BY <1>b, <1>e, <2>1, <2>2, <2>3 DEF IInv, WorkerPhases
<1>3. QueueInjective'
  BY DEF IInv, QueueInjective
<1>4. ClientPhases'
  BY <1>e DEF IInv, ClientPhases
<1>5. BrokerPhases'
  BY DEF IInv, BrokerPhases
<1>6. RepliesCounted'
  <2>1. Unanswered' = Unanswered
    BY DEF Unanswered, Answered
  <2> QED BY <2>1 DEF IInv, RepliesCounted
<1> QED BY <1>1, <1>2, <1>3, <1>4, <1>5, <1>6 DEF IInv

LEMMA WorkerReplyInv ==
  ASSUME IInv, NEW w \in Workers, WorkerReply(w)
  PROVE  IInv'
<1> USE DEF WorkerReply, brokerVars
<1>a. PICK c \in Clients :
        id[w] = c /\ Working(w, c) /\ ~Queued(w) /\ worker[w] = "loop"
  BY DEF IInv, TypeOK, WorkerPhases, Fresh, Quiet, Offered, Has, Given,
         Working, Replied
<1>b. /\ id'[w] = NoClient /\ backIn'[w] = <<c>>
      /\ \A v \in Workers : v # w => id'[v] = id[v] /\ backIn'[v] = backIn[v]
  BY <1>a, OneMessage DEF IInv, TypeOK, Working
<1>c. Replied(w, c)'
  BY <1>a, <1>b DEF Working, Replied
<1>d. \A v \in Workers, d \in Clients : Has(v, d)' <=> Has(v, d)
  <2>1. \A d \in Clients : Has(w, d) <=> d = c
    BY <1>a, OneMessage, NoClientAssumption DEF Has, Given, Working, Replied
  <2>2. \A d \in Clients : Has(w, d)' <=> d = c
    BY <1>c, OneMessage, SingletonsDiffer, NoClientAssumption
       DEF Has, Given, Working, Replied
  <2> QED BY <1>b, <2>1, <2>2 DEF Has, Given, Working, Replied
<1>1. TypeOK'
  <2>1. <<c>> \in Seq(Clients \union {READY})
    BY <1>a
  <2> QED BY <1>b, <2>1 DEF IInv, TypeOK
<1>2. WorkerPhases'
  <2>1. \A v : Queued(v)' <=> Queued(v)
    BY DEF Queued
  <2>2. ASSUME NEW v \in Workers, v # w
        PROVE  /\ Fresh(v)' <=> Fresh(v)
               /\ Quiet(v)' <=> Quiet(v)
               /\ Offered(v)' <=> Offered(v)
    BY <1>b, <2>2 DEF Fresh, Quiet, Offered
  <2>3. Has(w, c)'
    BY <1>c DEF Has
  <2> QED BY <1>a, <1>d, <2>1, <2>2, <2>3 DEF IInv, WorkerPhases
<1>3. QueueInjective'
  BY DEF IInv, QueueInjective
<1>4. ClientPhases'
  BY <1>d DEF IInv, ClientPhases
<1>5. BrokerPhases'
  BY <1>b, OneMessage DEF IInv, BrokerPhases
<1>6. RepliesCounted'
  <2>1. Unanswered' = Unanswered
    BY DEF Unanswered, Answered
  <2> QED BY <2>1 DEF IInv, RepliesCounted
<1> QED BY <1>1, <1>2, <1>3, <1>4, <1>5, <1>6 DEF IInv

LEMMA PollInv ==
  ASSUME IInv, Poll
  PROVE  IInv'
<1> USE DEF Poll, threadVars, wireVars
<1>1. TypeOK'
  BY DEF IInv, TypeOK, FrontendInput
<1>2. WorkerPhases'
  BY DEF IInv, WorkerPhases, Queued, Fresh, Offered, Quiet, Has, Given,
         Working, Replied
<1>3. QueueInjective'
  BY DEF IInv, QueueInjective
<1>4. ClientPhases'
  <2>1. \A w \in Workers, c \in Clients : Has(w, c)' <=> Has(w, c)
    BY DEF Has, Given, Working, Replied
  <2> QED BY <2>1 DEF IInv, ClientPhases
<1>5. BrokerPhases'
  <2>1. FrontendInput => worker_queue # <<>>
    BY EmptySeq DEF FrontendInput, available_workers
  <2> QED BY <2>1 DEF BrokerPhases, BackendInput
<1>6. RepliesCounted'
  <2>1. Unanswered' = Unanswered
    BY DEF Unanswered, Answered
  <2> QED BY <2>1 DEF IInv, RepliesCounted
<1> QED BY <1>1, <1>2, <1>3, <1>4, <1>5, <1>6 DEF IInv

(* A message from a worker: who sent it, and what the queue looks like     *)
(* once the worker has been put on it.                                     *)
LEMMA TakeFromBackendFacts ==
  ASSUME IInv, NEW w \in Workers, TakeFromBackend(w)
  PROVE  /\ worker[w] = "loop" /\ ~Queued(w)
         /\ \/ Offered(w) /\ Head(backIn[w]) = READY
            \/ \E c \in Clients : Replied(w, c) /\ Head(backIn[w]) = c
         /\ backIn'[w] = <<>>
         /\ \A v \in Workers : v # w => backIn'[v] = backIn[v]
         /\ backIn' \in [Workers -> Seq(Clients \union {READY})]
         /\ worker_queue' \in Seq(Workers) /\ worker_queue' # <<>>
         /\ QueueInjective'
         /\ \A v : Queued(v)' <=> Queued(v) \/ v = w
<1>1. worker[w] = "loop" /\ ~Queued(w)
  BY DEF IInv, WorkerPhases, Fresh, Quiet, TakeFromBackend
<1>2. Offered(w) \/ \E c \in Clients : Replied(w, c)
  BY <1>1 DEF IInv, WorkerPhases, Fresh, Quiet, Has, Given, Working,
              TakeFromBackend
<1>3. \/ Offered(w) /\ Head(backIn[w]) = READY
      \/ \E c \in Clients : Replied(w, c) /\ Head(backIn[w]) = c
  BY <1>2, OneMessage DEF Offered, Replied
<1>4. /\ backIn'[w] = <<>>
      /\ \A v \in Workers : v # w => backIn'[v] = backIn[v]
      /\ backIn' \in [Workers -> Seq(Clients \union {READY})]
  <2>1. Tail(backIn[w]) = <<>>
    BY <1>2, OneMessage DEF Offered, Replied
  <2> QED BY <2>1, EmptySeq DEF IInv, TypeOK, TakeFromBackend
<1>5. /\ worker_queue' \in Seq(Workers) /\ worker_queue' # <<>>
      /\ NoRepeat(worker_queue')
      /\ \A v : Occurs(v, worker_queue') <=> Occurs(v, worker_queue) \/ v = w
  BY <1>1, Enqueue, QueueForm DEF IInv, TypeOK, TakeFromBackend
<1>6. /\ QueueInjective'
      /\ \A v : Queued(v)' <=> Queued(v) \/ v = w
  BY <1>5 DEF QueueInjective, NoRepeat, Queued, Occurs
<1> QED BY <1>1, <1>3, <1>4, <1>5, <1>6

LEMMA BackendReadyInv ==
  ASSUME IInv, NEW w \in Workers, BackendReady(w)
  PROVE  IInv'
<1> USE DEF BackendReady, threadVars
<1>a. TakeFromBackend(w)
  OBVIOUS
<1>b. Offered(w)
  <2>1. \A c \in Clients : c # READY
    BY NoClientAssumption DEF READY
  <2> QED BY <1>a, <2>1, TakeFromBackendFacts
<1>c. broker = "backend"
  BY DEF TakeFromBackend
<1>d. Quiet(w)'
  BY <1>a, <1>b, TakeFromBackendFacts DEF Offered, Quiet
<1>e. \A v \in Workers, d \in Clients : Has(v, d)' <=> Has(v, d)
  <2>1. \A d \in Clients : ~Has(w, d)
    <3>1. \A d \in Clients : <<d>> # <<READY>>
      BY SingletonsDiffer, NoClientAssumption DEF READY
    <3> QED BY <1>b, <3>1, OneMessage, NoClientAssumption
            DEF Offered, Has, Given, Working, Replied
  <2>2. \A d \in Clients : ~Has(w, d)'
    BY <1>d, OneMessage, NoClientAssumption
       DEF Quiet, Has, Given, Working, Replied
  <2>3. \A v \in Workers : v # w => backIn'[v] = backIn[v]
    BY <1>a, TakeFromBackendFacts
  <2> QED BY <2>1, <2>2, <2>3 DEF Has, Given, Working, Replied
<1>1. TypeOK'
  <2>1. broker' \in {"poll", "frontend"}
    BY DEF AfterBackend
  <2>2. /\ backIn' \in [Workers -> Seq(Clients \union {READY})]
        /\ worker_queue' \in Seq(Workers)
    BY <1>a, TakeFromBackendFacts
  <2> QED BY <2>1, <2>2 DEF IInv, TypeOK
<1>2. WorkerPhases'
  <2>1. ASSUME NEW v \in Workers, v # w
        PROVE  /\ Fresh(v)' <=> Fresh(v)
               /\ Quiet(v)' <=> Quiet(v)
               /\ Offered(v)' <=> Offered(v)
               /\ Queued(v)' <=> Queued(v)
    BY <1>a, <2>1, TakeFromBackendFacts DEF Fresh, Quiet, Offered
  <2>2. worker'[w] = "loop" /\ Queued(w)'
    BY <1>a, TakeFromBackendFacts
  <2> QED BY <1>d, <1>e, <2>1, <2>2 DEF IInv, WorkerPhases
<1>3. QueueInjective'
  BY <1>a, TakeFromBackendFacts
<1>4. ClientPhases'
  BY <1>e DEF IInv, ClientPhases
<1>5. BrokerPhases'
  <2>1. worker_queue' # <<>>
    BY <1>a, TakeFromBackendFacts
  <2> QED BY <1>c, <2>1 DEF BrokerPhases, AfterBackend
<1>6. RepliesCounted'
  <2>1. Unanswered' = Unanswered
    BY DEF Unanswered, Answered
  <2> QED BY <2>1 DEF IInv, RepliesCounted
<1> QED BY <1>1, <1>2, <1>3, <1>4, <1>5, <1>6 DEF IInv

(* A reply, which one of the programs counts.                              *)
LEMMA ReplyInv ==
  ASSUME IInv, NEW w \in Workers, BackendReply(w) \/ ForwardReply(w)
  PROVE  IInv'
<1>0. Reply(w)
  BY DEF BackendReply, ForwardReply
<1>00. \/ /\ program = "lbbroker" /\ client_nbr' = client_nbr - 1
          /\ broker' = IF client_nbr' = 0 THEN "close" ELSE AfterBackend
       \/ /\ program = "lbbroker2" /\ client_nbr' = client_nbr
          /\ broker' = AfterBackend
  BY DEF BackendReply, ForwardReply
<1> USE <1>0, <1>00 DEF Reply, threadVars
<1>a. TakeFromBackend(w)
  OBVIOUS
<1>b. PICK c \in Clients : Replied(w, c) /\ Head(backIn[w]) = c
  BY <1>a, TakeFromBackendFacts
<1>c. broker = "backend"
  BY DEF TakeFromBackend
<1>d. Quiet(w)'
  BY <1>a, <1>b, TakeFromBackendFacts DEF Replied, Quiet
<1>e. /\ Has(w, c)
      /\ client[c] = "waiting" /\ frontOut[c] = <<>> /\ c \notin frontIn
  BY <1>b DEF IInv, ClientPhases, Has
<1>f. /\ frontOut'[c] = <<w>>
      /\ \A d \in Clients : d # c => frontOut'[d] = frontOut[d]
  BY <1>b, <1>e, OneMessage DEF IInv, TypeOK
<1>g. \A v \in Workers, d \in Clients : Has(v, d)' <=> Has(v, d) /\ d # c
  <2>1. \A d \in Clients : Has(w, d) <=> d = c
    BY <1>b, OneMessage, SingletonsDiffer, NoClientAssumption
       DEF Has, Given, Working, Replied
  <2>2. \A d \in Clients : ~Has(w, d)'
    BY <1>d, OneMessage, NoClientAssumption
       DEF Quiet, Has, Given, Working, Replied
  <2>3. \A v \in Workers : v # w => backIn'[v] = backIn[v]
    BY <1>a, TakeFromBackendFacts
  <2>4. \A v \in Workers : v # w => ~Has(v, c)
    BY <1>e DEF IInv, ClientPhases
  <2>5. \A v \in Workers, d \in Clients : v # w => (Has(v, d)' <=> Has(v, d))
    BY <2>3 DEF Has, Given, Working, Replied
  <2> QED BY <2>1, <2>2, <2>4, <2>5
<1>6. /\ RepliesCounted' /\ Cardinality(Unanswered)' \in 0 .. NBR_CLIENTS
      /\ client_nbr' \in 0 .. NBR_CLIENTS
  <2>1. Unanswered' = Unanswered \ {c}
    BY <1>e, <1>f, OneMessage DEF Unanswered, Answered
  <2>2. c \in Unanswered
    BY <1>e DEF Unanswered, Answered
  <2>3. /\ IsFiniteSet(Unanswered) /\ NBR_CLIENTS \in Nat
        /\ Cardinality(Unanswered) \in 0 .. NBR_CLIENTS
        /\ IsFiniteSet(Clients)
    BY UnansweredFinite DEF IInv
  <2>4. /\ IsFiniteSet(Unanswered \ {c})
        /\ Cardinality(Unanswered \ {c}) = Cardinality(Unanswered) - 1
    BY <2>2, <2>3, FS_RemoveElement
  <2>5. Cardinality(Unanswered \ {c}) \in Nat
    BY <2>4, FS_CardinalityType
  <2>6. Cardinality(Unanswered)' = Cardinality(Unanswered) - 1
    BY <2>1, <2>4
  <2>7. program = "lbbroker" => client_nbr' = Cardinality(Unanswered) - 1
    BY DEF IInv, RepliesCounted
  <2>8. Cardinality(Unanswered) - 1 \in 0 .. NBR_CLIENTS
    BY <2>3, <2>4, <2>5
  <2>9. client_nbr \in 0 .. NBR_CLIENTS
    BY DEF IInv, TypeOK
  <2> QED BY <2>6, <2>7, <2>8, <2>9 DEF RepliesCounted
<1>1. TypeOK'
  <2>1. broker' \in {"poll", "frontend", "close"}
    BY DEF AfterBackend
  <2>2. /\ backIn' \in [Workers -> Seq(Clients \union {READY})]
        /\ worker_queue' \in Seq(Workers)
    BY <1>a, TakeFromBackendFacts
  <2>3. frontOut' \in [Clients -> Seq(Workers)]
    BY <1>b, <1>e, OneMessage DEF IInv, TypeOK
  <2> QED BY <1>6, <2>1, <2>2, <2>3 DEF IInv, TypeOK
<1>2. WorkerPhases'
  <2>1. ASSUME NEW v \in Workers, v # w
        PROVE  /\ Fresh(v)' <=> Fresh(v)
               /\ Quiet(v)' <=> Quiet(v)
               /\ Offered(v)' <=> Offered(v)
               /\ Queued(v)' <=> Queued(v)
               /\ \A d \in Clients : Has(v, d)' <=> Has(v, d)
    BY <1>a, <1>e, <1>g, <2>1, TakeFromBackendFacts
       DEF Fresh, Quiet, Offered, IInv, ClientPhases
  <2>2. worker'[w] = "loop" /\ Queued(w)'
    BY <1>a, TakeFromBackendFacts
  <2> QED BY <1>d, <2>1, <2>2 DEF IInv, WorkerPhases
<1>3. QueueInjective'
  BY <1>a, TakeFromBackendFacts
<1>4. ClientPhases'
  <2>1. Tail(frontOut'[c]) = <<>>
    BY <1>f, OneMessage
  <2> QED BY <1>e, <1>f, <1>g, <2>1, OneMessage DEF IInv, ClientPhases
<1>5. BrokerPhases'
  <2>1. worker_queue' # <<>>
    BY <1>a, TakeFromBackendFacts
  <2> QED BY <1>c, <2>1 DEF BrokerPhases, AfterBackend
<1> QED BY <1>1, <1>2, <1>3, <1>4, <1>5, <1>6 DEF IInv

LEMMA FrontendInv ==
  ASSUME IInv, NEW c \in Clients, Frontend(c)
  PROVE  IInv'
<1> USE DEF Frontend, threadVars
<1>a. worker_queue # <<>>
  BY DEF IInv, BrokerPhases
<1>b. PICK w \in Workers : w = Head(worker_queue)
  BY <1>a, Dequeue, QueueForm DEF IInv, TypeOK
<1>c. /\ Queued(w)
      /\ worker_queue' \in Seq(Workers) /\ QueueInjective'
      /\ \A v : Queued(v)' <=> Queued(v) /\ v # w
  <2>1. /\ Occurs(w, worker_queue)
        /\ worker_queue' \in Seq(Workers) /\ NoRepeat(worker_queue')
        /\ \A v : Occurs(v, worker_queue') <=>
                     Occurs(v, worker_queue) /\ v # w
    BY <1>a, <1>b, Dequeue, QueueForm DEF IInv, TypeOK
  <2> QED BY <2>1 DEF QueueInjective, NoRepeat, Queued, Occurs
<1>d. worker[w] = "loop" /\ Quiet(w)
  BY <1>c DEF IInv, WorkerPhases
<1>e. /\ backOut'[w] = <<c>>
      /\ \A v \in Workers : v # w => backOut'[v] = backOut[v]
  BY <1>b, <1>d, OneMessage DEF IInv, TypeOK, Quiet
<1>f. Given(w, c)'
  BY <1>d, <1>e DEF Given, Quiet
<1>g. client[c] = "waiting" /\ frontOut[c] = <<>>
      /\ \A v \in Workers : ~Has(v, c)
  BY DEF IInv, ClientPhases
<1>h. \A v \in Workers, d \in Clients :
        Has(v, d)' <=> Has(v, d) \/ (v = w /\ d = c)
  <2>1. \A d \in Clients : ~Has(w, d)
    BY <1>d, OneMessage, NoClientAssumption
       DEF Quiet, Has, Given, Working, Replied
  <2>2. \A d \in Clients : Has(w, d)' <=> d = c
    BY <1>f, OneMessage, SingletonsDiffer, NoClientAssumption
       DEF Has, Given, Working, Replied
  <2>3. \A v \in Workers, d \in Clients : v # w => (Has(v, d)' <=> Has(v, d))
    BY <1>e DEF Has, Given, Working, Replied
  <2> QED BY <2>1, <2>2, <2>3
<1>1. TypeOK'
  <2>1. backOut' \in [Workers -> Seq(Clients)]
    BY <1>b, <1>d, OneMessage DEF IInv, TypeOK, Quiet
  <2> QED BY <1>c, <2>1 DEF IInv, TypeOK
<1>2. WorkerPhases'
  <2>1. ASSUME NEW v \in Workers, v # w
        PROVE  /\ Fresh(v)' <=> Fresh(v)
               /\ Quiet(v)' <=> Quiet(v)
               /\ Offered(v)' <=> Offered(v)
               /\ Queued(v)' <=> Queued(v)
               /\ \A d \in Clients : Has(v, d)' <=> Has(v, d)
    BY <1>c, <1>e, <1>h, <2>1 DEF Fresh, Quiet, Offered
  <2>2. worker'[w] = "loop" /\ ~Queued(w)' /\ Has(w, c)'
    BY <1>c, <1>d, <1>f DEF Has
  <2> QED BY <2>1, <2>2 DEF IInv, WorkerPhases
<1>3. QueueInjective'
  BY <1>c
<1>4. ClientPhases'
  BY <1>g, <1>h DEF IInv, ClientPhases
<1>5. BrokerPhases'
  BY DEF BrokerPhases
<1>6. RepliesCounted'
  <2>1. Unanswered' = Unanswered
    BY DEF Unanswered, Answered
  <2> QED BY <2>1 DEF IInv, RepliesCounted
<1> QED BY <1>1, <1>2, <1>3, <1>4, <1>5, <1>6 DEF IInv

LEMMA ExitInv ==
  ASSUME IInv, Exit
  PROVE  IInv'
<1> USE DEF Exit, threadVars, wireVars
<1>1. TypeOK'
  BY DEF IInv, TypeOK
<1>2. WorkerPhases'
  BY DEF IInv, WorkerPhases, Queued, Fresh, Offered, Quiet, Has, Given,
         Working, Replied
<1>3. QueueInjective'
  BY DEF IInv, QueueInjective
<1>4. ClientPhases'
  <2>1. \A w \in Workers, c \in Clients : Has(w, c)' <=> Has(w, c)
    BY DEF Has, Given, Working, Replied
  <2> QED BY <2>1 DEF IInv, ClientPhases
<1>5. BrokerPhases'
  BY DEF IInv, BrokerPhases
<1>6. RepliesCounted'
  <2>1. Unanswered' = Unanswered
    BY DEF Unanswered, Answered
  <2> QED BY <2>1 DEF IInv, RepliesCounted
<1> QED BY <1>1, <1>2, <1>3, <1>4, <1>5, <1>6 DEF IInv

LEMMA StutterInv ==
  ASSUME IInv, UNCHANGED vars
  PROVE  IInv'
<1> USE DEF vars, threadVars, wireVars, brokerVars
<1>1. TypeOK'
  BY DEF IInv, TypeOK
<1>2. WorkerPhases'
  BY DEF IInv, WorkerPhases, Queued, Fresh, Offered, Quiet, Has, Given,
         Working, Replied
<1>3. QueueInjective'
  BY DEF IInv, QueueInjective
<1>4. ClientPhases'
  <2>1. \A w \in Workers, c \in Clients : Has(w, c)' <=> Has(w, c)
    BY DEF Has, Given, Working, Replied
  <2> QED BY <2>1 DEF IInv, ClientPhases
<1>5. BrokerPhases'
  BY DEF IInv, BrokerPhases
<1>6. RepliesCounted'
  BY DEF IInv, RepliesCounted, Unanswered, Answered
<1> QED BY <1>1, <1>2, <1>3, <1>4, <1>5, <1>6 DEF IInv

-----------------------------------------------------------------------------
(* The theorems.                                                           *)

(* IInv holds in every state the program can reach. *)
THEOREM Invariance == Spec => []IInv
<1>1. IInv /\ [Next]_vars => IInv'
  <2> SUFFICES ASSUME IInv, [Next]_vars PROVE IInv'
    OBVIOUS
  <2>1. ASSUME NEW c \in Clients, ClientStep(c) PROVE IInv'
    BY <2>1, ClientSendInv, ClientRecvInv DEF ClientStep
  <2>2. ASSUME NEW w \in Workers, WorkerStep(w) PROVE IInv'
    BY <2>2, WorkerReadyInv, WorkerRecvInv, WorkerReplyInv DEF WorkerStep
  <2>3. CASE BrokerStep
    BY <2>3, PollInv, BackendReadyInv, ReplyInv, FrontendInv, ExitInv
       DEF BrokerStep
  <2>4. CASE BrokerStep2
    BY <2>4, PollInv, BackendReadyInv, ReplyInv, FrontendInv DEF BrokerStep2
  <2>5. CASE UNCHANGED vars
    BY <2>5, StutterInv
  <2> QED BY <2>1, <2>2, <2>3, <2>4, <2>5 DEF Next, Next1, Next2
<1> QED BY <1>1, InitInv, PTL DEF Spec

(* The variables keep their types; client_nbr in particular never falls    *)
(* below zero, whatever the order in which workers enlist and answer.      *)
THEOREM TypeCorrect == Spec => []TypeOK
<1>1. IInv => TypeOK
  BY DEF IInv
<1> QED BY <1>1, Invariance, PTL

(* The assertion of lbbroker.c:149 never fails: the worker whose message   *)
(* main() reads is missing from the queue, so the queue is not full.       *)
THEOREM CapacityNeverExceeded == Spec => []CapacityAssertion
<1>1. IInv => CapacityAssertion
  <2> SUFFICES ASSUME IInv, broker = "backend"
               PROVE  available_workers < NBR_WORKERS
    BY DEF CapacityAssertion
  <2>1. PICK w \in Workers : backIn[w] # <<>>
    BY DEF IInv, BrokerPhases
  <2>2. ~Occurs(w, worker_queue)
    BY <2>1, QueueForm DEF IInv, WorkerPhases, Quiet
  <2>3. NoRepeat(worker_queue) /\ worker_queue \in Seq(Workers)
    BY QueueForm DEF IInv, TypeOK
  <2> QED BY <2>2, <2>3, MissingOne, ThreadsAssumption
          DEF available_workers, NBR_WORKERS
<1> QED BY <1>1, Invariance, PTL

(* main() never takes a worker from an empty queue (lbbroker.c:176-181). *)
THEOREM WorkerForEveryRequest == Spec => []FrontendHasWorker
<1>1. IInv => FrontendHasWorker
  BY EmptySeq DEF IInv, TypeOK, BrokerPhases, FrontendHasWorker,
                  available_workers
<1> QED BY <1>1, Invariance, PTL

(* Every worker on the queue is on it once and has nothing else to do. *)
THEOREM QueueHoldsIdleWorkers == Spec => []QueuedIsIdle
<1>1. IInv => QueuedIsIdle
  <2> SUFFICES ASSUME IInv, NEW i \in DOMAIN worker_queue
               PROVE  LET w == worker_queue[i]
                      IN  /\ worker[w] = "loop" /\ id[w] = NoClient
                          /\ backIn[w] = <<>> /\ backOut[w] = <<>>
                          /\ \A j \in DOMAIN worker_queue :
                               worker_queue[j] = w => j = i
    BY DEF QueuedIsIdle
  <2>1. worker_queue[i] \in Workers
    BY LenProperties DEF IInv, TypeOK
  <2>2. Queued(worker_queue[i])
    BY DEF Queued
  <2> QED BY <2>1, <2>2 DEF IInv, WorkerPhases, Quiet, QueueInjective
<1> QED BY <1>1, Invariance, PTL

(* main() stops only when every client's reply has been forwarded. *)
THEOREM NobodyLeftBehind == Spec => []AllAnsweredAtClose
<1>1. IInv => AllAnsweredAtClose
  <2> SUFFICES ASSUME IInv, broker \in {"close", "exit"}
               PROVE  \A c \in Clients : Answered(c)
    BY DEF AllAnsweredAtClose
  <2>1. Cardinality(Unanswered) = 0
    BY DEF IInv, BrokerPhases, RepliesCounted
  <2>2. Unanswered = {}
    BY <2>1, UnansweredFinite, FS_EmptySet DEF IInv
  <2> QED BY <2>2 DEF Unanswered
<1> QED BY <1>1, Invariance, PTL

(* A worker's connection holds a client address exactly in the phases in   *)
(* which the worker has that client's request.                             *)
LEMMA HoldsIsHas ==
  ASSUME IInv, NEW w \in Workers, NEW c \in Clients
  PROVE  Holds(w, c) <=> Has(w, c)
<1>1. Range(<<>>) = {}
  BY DEF Range
<1>2. \A x : Range(<<x>>) = {x}
  BY DEF Range
<1>3. READY # c /\ NoClient # c
  BY NoClientAssumption DEF READY
<1>4. \A d : <<d>> = <<c>> => d = c
  BY SingletonsDiffer
<1>5. CASE Quiet(w)
  BY <1>1, <1>3, <1>5, OneMessage
     DEF Quiet, Holds, Has, Given, Working, Replied
<1>6. CASE Offered(w)
  BY <1>1, <1>2, <1>3, <1>4, <1>6, OneMessage
     DEF Offered, Holds, Has, Given, Working, Replied
<1>7. ASSUME NEW d \in Clients, Has(w, d)
      PROVE  Holds(w, c) <=> Has(w, c)
  <2>1. d # NoClient
    BY NoClientAssumption
  <2>2. CASE Given(w, d)
    BY <1>1, <1>2, <1>3, <1>4, <2>1, <2>2, OneMessage
       DEF Holds, Has, Given, Working, Replied
  <2>3. CASE Working(w, d)
    BY <1>1, <1>3, <2>1, <2>3, OneMessage
       DEF Holds, Has, Given, Working, Replied
  <2>4. CASE Replied(w, d)
    BY <1>1, <1>2, <1>3, <1>4, <2>1, <2>4, OneMessage
       DEF Holds, Has, Given, Working, Replied
  <2> QED BY <1>7, <2>2, <2>3, <2>4 DEF Has
<1> QED BY <1>5, <1>6, <1>7 DEF IInv, WorkerPhases, Fresh

(* A request is never lost and never with two workers. *)
THEOREM ExactlyOneCopy == Spec => []OneCopy
<1>1. IInv => OneCopy
  <2> SUFFICES ASSUME IInv, NEW c \in Clients
               PROVE  LET holders == {w \in Workers : Holds(w, c)}
                      IN  /\ client[c] = "start" =>
                               c \notin frontIn /\ holders = {}
                          /\ Answered(c) => c \notin frontIn /\ holders = {}
                          /\ client[c] = "waiting" /\ ~Answered(c) =>
                               IF c \in frontIn THEN holders = {}
                               ELSE Cardinality(holders) = 1
    BY DEF OneCopy
  <2> DEFINE holders == {w \in Workers : Holds(w, c)}
  <2>1. holders = {w \in Workers : Has(w, c)}
    BY HoldsIsHas
  <2> HIDE DEF holders
  <2>2. client[c] = "start" => c \notin frontIn /\ holders = {}
    BY <2>1 DEF IInv, ClientPhases
  <2>3. Answered(c) => c \notin frontIn /\ holders = {}
    BY <2>1 DEF IInv, ClientPhases, Answered
  <2>4. c \in frontIn => holders = {}
    BY <2>1 DEF IInv, ClientPhases
  <2>5. ASSUME client[c] = "waiting", ~Answered(c), c \notin frontIn
        PROVE  Cardinality(holders) = 1
    <3>1. PICK w \in Workers : Has(w, c)
      BY <2>5 DEF IInv, ClientPhases, Answered
    <3>2. holders = {w}
      BY <2>1, <3>1 DEF IInv, ClientPhases
    <3> QED BY <3>2, FS_Singleton
  <2> QED BY <2>2, <2>3, <2>4, <2>5 DEF holders
<1> QED BY <1>1, Invariance, PTL

-----------------------------------------------------------------------------
(* Refinement: lbbroker.c implements the abstract load balancer.           *)

LEMMA InitRefines == Init => LB!Init
<1> SUFFICES ASSUME Init PROVE LB!Init
  OBVIOUS
<1>1. requestBar = [c \in Clients |-> "none"]
  BY DEF Init, requestBar
<1>2. jobBar = [w \in Workers |-> NoClient]
  BY DEF Init, jobBar
<1>3. Range(worker_queue) = {}
  BY DEF Init, Range
<1> QED BY <1>1, <1>2, <1>3 DEF LB!Init

(* The steps of the threads: only the sending of a request is seen. *)
LEMMA ClientStepRefines ==
  ASSUME IInv, NEW c \in Clients, ClientStep(c)
  PROVE  [LB!Next]_LB!vars
<1>1. jobBar' = jobBar /\ Range(worker_queue)' = Range(worker_queue)
  BY DEF ClientStep, ClientSend, ClientRecv, brokerVars, jobBar, Range
<1>2. CASE ClientSend(c)
  <2>1. c \notin frontIn /\ frontIn' = frontIn \union {c}
    BY <1>2 DEF IInv, ClientPhases, ClientSend
  <2>2. \A d \in Clients :
          client'[d] = IF d = c THEN "waiting" ELSE client[d]
    BY <1>2 DEF IInv, TypeOK, ClientSend
  <2>3. requestBar[c] = "none"
    BY <1>2 DEF requestBar, ClientSend
  <2>4. \A d \in Clients :
          requestBar'[d] = IF d = c THEN "waiting" ELSE requestBar[d]
    BY <1>2, <2>1, <2>2 DEF requestBar, Answered, ClientSend
  <2>5. requestBar' = [requestBar EXCEPT ![c] = "waiting"]
    BY <2>4 DEF requestBar
  <2> QED BY <1>1, <2>3, <2>5 DEF LB!Next, LB!Ask
<1>3. CASE ClientRecv(c)
  <2>1. client[c] = "waiting" /\ c \notin frontIn /\ frontIn' = frontIn
    BY <1>3 DEF IInv, ClientPhases, ClientRecv
  <2>2. /\ client'[c] = "done"
        /\ \A d \in Clients : d # c => /\ client'[d] = client[d]
                                       /\ frontOut'[d] = frontOut[d]
    BY <1>3 DEF IInv, TypeOK, ClientRecv
  <2>3. Answered(c) /\ Answered(c)'
    BY <1>3, <2>2 DEF Answered, ClientRecv
  <2>4. \A d \in Clients : requestBar'[d] = requestBar[d]
    BY <2>1, <2>2, <2>3 DEF requestBar, Answered
  <2>5. requestBar' = requestBar
    BY <2>4 DEF requestBar
  <2> QED BY <1>1, <2>5 DEF LB!vars
<1> QED BY <1>2, <1>3 DEF ClientStep

LEMMA WorkerStepRefines ==
  ASSUME IInv, NEW w \in Workers, WorkerStep(w)
  PROVE  [LB!Next]_LB!vars
<1>1. requestBar' = requestBar /\ Range(worker_queue)' = Range(worker_queue)
  BY DEF WorkerStep, WorkerReady, WorkerRecv, WorkerReply, brokerVars,
         requestBar, Answered, Range
<1>2. CASE WorkerReady(w)
  <2>1. Quiet(w)
    BY <1>2 DEF IInv, WorkerPhases, Fresh, WorkerReady
  <2>2. /\ backIn'[w] = <<READY>> /\ backOut' = backOut /\ id' = id
        /\ \A v \in Workers : v # w => backIn'[v] = backIn[v]
    BY <1>2, <2>1, OneMessage DEF IInv, TypeOK, Quiet, WorkerReady
  <2>3. \A v \in Workers : jobBar'[v] = jobBar[v]
    BY <2>1, <2>2, OneMessage DEF jobBar, Quiet, READY
  <2>4. jobBar' = jobBar
    BY <2>3 DEF jobBar
  <2> QED BY <1>1, <2>4 DEF LB!vars
<1>3. CASE WorkerRecv(w)
  <2>1. PICK c \in Clients : Given(w, c)
    BY <1>3 DEF IInv, WorkerPhases, Fresh, Quiet, Offered, Has, Working,
                Replied, WorkerRecv
  <2>2. /\ id'[w] = c /\ backOut'[w] = <<>> /\ backIn' = backIn
        /\ \A v \in Workers : v # w => /\ id'[v] = id[v]
                                       /\ backOut'[v] = backOut[v]
    BY <1>3, <2>1, OneMessage DEF IInv, TypeOK, Given, WorkerRecv
  <2>3. jobBar[w] = c /\ jobBar'[w] = c
    BY <2>1, <2>2, OneMessage DEF jobBar, Given
  <2>4. \A v \in Workers : v # w => jobBar'[v] = jobBar[v]
    BY <2>2 DEF jobBar
  <2>5. jobBar' = jobBar
    BY <2>3, <2>4 DEF jobBar
  <2> QED BY <1>1, <2>5 DEF LB!vars
<1>4. CASE WorkerReply(w)
  <2>1. PICK c \in Clients : Working(w, c)
    BY <1>4 DEF IInv, WorkerPhases, Fresh, Quiet, Offered, Has, Given,
                Replied, WorkerReply
  <2>2. /\ id'[w] = NoClient /\ backIn'[w] = <<c>> /\ backOut' = backOut
        /\ \A v \in Workers : v # w => /\ id'[v] = id[v]
                                       /\ backIn'[v] = backIn[v]
    BY <1>4, <2>1, OneMessage DEF IInv, TypeOK, Working, WorkerReply
  <2>3. \A v \in Workers : jobBar'[v] = jobBar[v]
    BY <2>1, <2>2, OneMessage DEF jobBar, Working
  <2>4. jobBar' = jobBar
    BY <2>3 DEF jobBar
  <2> QED BY <1>1, <2>4 DEF LB!vars
<1> QED BY <1>2, <1>3, <1>4 DEF WorkerStep

(* A ready message enlists its worker. *)
LEMMA BackendReadyRefines ==
  ASSUME IInv, NEW w \in Workers, BackendReady(w)
  PROVE  LB!Enlist(w)
<1>1. TakeFromBackend(w)
  BY DEF BackendReady
<1>2. Offered(w)
  <2>1. \A c \in Clients : c # READY
    BY NoClientAssumption DEF READY
  <2> QED BY <1>1, <2>1, TakeFromBackendFacts DEF BackendReady
<1>3. requestBar' = requestBar
  BY DEF BackendReady, threadVars, requestBar, Answered
<1>4. /\ \A v : v \in Range(worker_queue) <=> Queued(v)
      /\ \A v : v \in Range(worker_queue)' <=> Queued(v)'
  BY DEF Range, Queued
<1>5. w \notin Range(worker_queue)
      /\ Range(worker_queue)' = Range(worker_queue) \union {w}
  BY <1>1, <1>4, TakeFromBackendFacts
<1>6. jobBar[w] = NoClient
  BY <1>2, OneMessage DEF jobBar, Offered, READY
<1>7. /\ backIn'[w] = <<>>
      /\ \A v \in Workers : v # w => backIn'[v] = backIn[v]
  BY <1>1, TakeFromBackendFacts
<1>8. \A v \in Workers : jobBar'[v] = jobBar[v]
  BY <1>2, <1>6, <1>7 DEF jobBar, Offered, BackendReady, threadVars
<1>9. jobBar' = jobBar
  BY <1>8 DEF jobBar
<1> QED BY <1>3, <1>5, <1>6, <1>9 DEF LB!Enlist

(* A reply answers the client whose request the worker had. *)
LEMMA ReplyRefines ==
  ASSUME IInv, NEW w \in Workers, Reply(w)
  PROVE  LB!Answer(w)
<1>1. TakeFromBackend(w)
  BY DEF Reply
<1>2. PICK c \in Clients : Replied(w, c) /\ Head(backIn[w]) = c
  <2>1. Head(backIn[w]) # READY
    BY DEF Reply
  <2> QED BY <1>1, <2>1, TakeFromBackendFacts
<1>3. client[c] = "waiting" /\ frontOut[c] = <<>> /\ c \notin frontIn
  BY <1>2 DEF IInv, ClientPhases, Has
<1>4. /\ frontOut'[c] = <<w>> /\ client' = client /\ frontIn' = frontIn
      /\ \A d \in Clients : d # c => frontOut'[d] = frontOut[d]
  BY <1>2, <1>3, OneMessage DEF IInv, TypeOK, Reply, threadVars
<1>5. jobBar[w] = c /\ jobBar[w] # NoClient
  BY <1>2, OneMessage, NoClientAssumption DEF jobBar, Replied
<1>6. requestBar[c] = "assigned"
  BY <1>3 DEF requestBar, Answered
<1>7. requestBar' = [requestBar EXCEPT ![c] = "answered"]
  <2>1. frontOut'[c] # <<>>
    BY <1>4, OneMessage
  <2>2. \A d \in Clients :
          requestBar'[d] = IF d = c THEN "answered" ELSE requestBar[d]
    BY <1>3, <1>4, <2>1 DEF requestBar, Answered
  <2> QED BY <2>2 DEF requestBar
<1>8. jobBar' = [jobBar EXCEPT ![w] = NoClient]
  <2>1. /\ backIn'[w] = <<>>
        /\ \A v \in Workers : v # w => backIn'[v] = backIn[v]
    BY <1>1, TakeFromBackendFacts
  <2>2. \A v \in Workers :
          jobBar'[v] = IF v = w THEN NoClient ELSE jobBar[v]
    BY <1>2, <2>1 DEF jobBar, Replied, Reply, threadVars
  <2> QED BY <2>2 DEF jobBar
<1>9. Range(worker_queue)' = Range(worker_queue) \union {w}
  <2>1. /\ \A v : v \in Range(worker_queue) <=> Queued(v)
        /\ \A v : v \in Range(worker_queue)' <=> Queued(v)'
    BY DEF Range, Queued
  <2> QED BY <1>1, <2>1, TakeFromBackendFacts
<1> QED BY <1>5, <1>6, <1>7, <1>8, <1>9 DEF LB!Answer

(* The frontend's request is assigned to the head of the queue. *)
LEMMA FrontendRefines ==
  ASSUME IInv, NEW c \in Clients, Frontend(c)
  PROVE  \E w \in Workers : LB!Assign(c, w)
<1>1. worker_queue # <<>>
  BY DEF IInv, BrokerPhases, Frontend
<1>2. PICK w \in Workers : w = Head(worker_queue)
  BY <1>1, Dequeue, QueueForm DEF IInv, TypeOK
<1>3. /\ Occurs(w, worker_queue)
      /\ \A v : Occurs(v, worker_queue') <=>
                   Occurs(v, worker_queue) /\ v # w
  BY <1>1, <1>2, Dequeue, QueueForm DEF IInv, TypeOK, Frontend
<1>4. w \in Range(worker_queue)
      /\ Range(worker_queue)' = Range(worker_queue) \ {w}
  BY <1>3 DEF Range, Occurs
<1>5. Quiet(w)
  BY <1>3, QueueForm DEF IInv, WorkerPhases
<1>6. /\ backOut'[w] = <<c>> /\ backIn' = backIn /\ id' = id
      /\ \A v \in Workers : v # w => backOut'[v] = backOut[v]
  BY <1>2, <1>5, OneMessage DEF IInv, TypeOK, Quiet, Frontend, threadVars
<1>7. jobBar' = [jobBar EXCEPT ![w] = c]
  <2>1. \A v \in Workers : jobBar'[v] = IF v = w THEN c ELSE jobBar[v]
    BY <1>6, OneMessage DEF jobBar
  <2> QED BY <2>1 DEF jobBar
<1>8. client[c] = "waiting" /\ frontOut[c] = <<>> /\ c \in frontIn
  BY DEF IInv, ClientPhases, Frontend
<1>9. requestBar[c] = "waiting"
  BY <1>8 DEF requestBar
<1>10. requestBar' = [requestBar EXCEPT ![c] = "assigned"]
  <2>1. \A d \in Clients :
          requestBar'[d] = IF d = c THEN "assigned" ELSE requestBar[d]
    BY <1>8 DEF requestBar, Answered, Frontend, threadVars
  <2> QED BY <2>1 DEF requestBar
<1> QED BY <1>4, <1>7, <1>9, <1>10 DEF LB!Assign

(* Every behaviour of the broker, its clients and its workers is one of the *)
(* abstract load balancer.                                                  *)
THEOREM Refinement == Spec => ImplementsLoadBalancing
<1>1. IInv /\ [Next]_vars => [LB!Next]_LB!vars
  <2> SUFFICES ASSUME IInv, [Next]_vars PROVE [LB!Next]_LB!vars
    OBVIOUS
  <2>1. ASSUME NEW c \in Clients, ClientStep(c) PROVE [LB!Next]_LB!vars
    BY <2>1, ClientStepRefines
  <2>2. ASSUME NEW w \in Workers, WorkerStep(w) PROVE [LB!Next]_LB!vars
    BY <2>2, WorkerStepRefines
  <2>3. CASE Poll \/ Exit \/ UNCHANGED vars
    <3>1. UNCHANGED <<client, frontIn, frontOut, id, backIn, backOut,
                      worker_queue>>
      BY <2>3 DEF Poll, Exit, vars, threadVars, wireVars, brokerVars
    <3>2. /\ requestBar' = requestBar /\ jobBar' = jobBar
          /\ Range(worker_queue)' = Range(worker_queue)
      BY <3>1 DEF requestBar, Answered, jobBar, Range
    <3> QED BY <3>2 DEF LB!vars
  <2>4. ASSUME NEW w \in Workers,
               BackendReady(w) \/ BackendReply(w) \/ ForwardReply(w)
        PROVE  LB!Next
    BY <2>4, BackendReadyRefines, ReplyRefines
       DEF LB!Next, BackendReply, ForwardReply
  <2>5. ASSUME NEW c \in Clients, Frontend(c)
        PROVE  LB!Next
    BY <2>5, FrontendRefines DEF LB!Next
  <2> QED BY <2>1, <2>2, <2>3, <2>4, <2>5 DEF Next, Next1, Next2, BrokerStep,
                                              BrokerStep2
<1> QED BY <1>1, InitRefines, Invariance, PTL
        DEF Spec, ImplementsLoadBalancing, LB!Spec

=============================================================================
