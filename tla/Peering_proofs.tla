--------------------------- MODULE Peering_proofs ---------------------------
(***************************************************************************)
(* The safety of src/src/cloud/lcflow.c for any brokers, whichever of them *)
(* are peers, any clients and workers, and both kinds of their sockets.    *)
(***************************************************************************)
EXTENDS Peering, QueueLemmas, SequenceTheorems, FiniteSetTheorems, TLAPS

(* The envelopes that each kind of socket holds: a request at home is the  *)
(* client's name alone, at a peer that of its client's broker as well, and *)
(* a reply carries the name of who sends it.                               *)
Envelopes ==
  /\ \A b \in Brokers : \A msg \in localfe[b] :
       \E c \in Clients : Home[c] = b /\ msg = <<c>>
  /\ \A b \in Brokers : \A msg \in cloudfe[b] :
       \E c \in Clients : Home[c] \in Peers[b] /\ msg = <<Home[c], c>>
  /\ \A w \in Workers : \A msg \in toWorker[w] :
       \E c \in Clients :
         \/ Home[c] = Home[w] /\ msg = <<c>>
         \/ Home[c] \in Peers[Home[w]] /\ msg = <<Home[c], c>>
  /\ \A b \in Brokers : \A msg \in localbe[b] :
       \E w \in Workers :
         /\ Home[w] = b
         /\ \/ msg = <<w, READY>>
            \/ \E c \in Clients :
                 \/ Home[c] = b /\ msg = <<w, c>>
                 \/ Home[c] \in Peers[b] /\ msg = <<w, Home[c], c>>
  /\ \A b \in Brokers : \A msg \in cloudbe[b] :
       \E c \in Clients, peer \in Peers[b] : Home[c] = b /\ msg = <<peer, c>>

(* The lists hold free workers of their brokers.  A worker has one message *)
(* at most, in one socket; one that has not started has none.              *)
ListsFree ==
  \A b \in Brokers :
    /\ capacity[b] = Len(workers[b]) /\ NoRepeat(workers[b])
    /\ \A w \in Workers : Occurs(w, workers[b]) => Home[w] = b /\ Quiet(w)

OneTask ==
  \A w \in Workers :
    /\ \A m, n \in toWorker[w] : m = n
    /\ \A m, n \in localbe[Home[w]] : Head(m) = w /\ Head(n) = w => m = n
    /\ \A m \in localbe[Home[w]] : Head(m) = w =>
         toWorker[w] = {} /\ worker[w] = "recv"
    /\ toWorker[w] # {} => worker[w] = "recv"

FreeWorkers == ListsFree /\ OneTask

(* OneCopyInCloud without counting. *)
CopiesOf(c) == {p \in InFlight : Asker(p) = c}

OneCopy ==
  \A c \in Clients :
    IF pattern = "REQ" /\ client[c] = "recv" THEN \E p : CopiesOf(c) = {p}
    ELSE CopiesOf(c) = {}


-----------------------------------------------------------------------------
(* Envelopes are pushed and popped.                                        *)

LEMMA PushOnOne ==
  ASSUME NEW x, NEW y PROVE <<x>> \o <<y>> = <<x, y>>
<1> DEFINE S == {x, y}
           s == <<x>> \o <<y>>
           t == <<x, y>>
<1>1. <<x>> \in Seq(S) /\ <<y>> \in Seq(S)
  OBVIOUS
<1>2. s \in Seq(S) /\ Len(s) = 2 /\ s[1] = x /\ s[2] = y
  BY <1>1, ConcatProperties
<1>3. t \in Seq(S) /\ Len(t) = 2 /\ t[1] = x /\ t[2] = y
  OBVIOUS
<1>4. ASSUME NEW i \in 1 .. Len(s) PROVE s[i] = t[i]
  BY <1>2, <1>3, i = 1 \/ i = 2
<1> HIDE DEF S, s, t
<1>5. s = t
  BY <1>2, <1>3, <1>4, SeqEqual
<1> QED
  BY <1>5 DEF s, t

LEMMA PushOnTwo ==
  ASSUME NEW x, NEW y, NEW z PROVE <<x>> \o <<y, z>> = <<x, y, z>>
<1> DEFINE S == {x, y, z}
           s == <<x>> \o <<y, z>>
           t == <<x, y, z>>
<1>1. <<x>> \in Seq(S) /\ <<y, z>> \in Seq(S)
  OBVIOUS
<1>2. s \in Seq(S) /\ Len(s) = 3 /\ s[1] = x /\ s[2] = y /\ s[3] = z
  BY <1>1, ConcatProperties
<1>3. t \in Seq(S) /\ Len(t) = 3 /\ t[1] = x /\ t[2] = y /\ t[3] = z
  OBVIOUS
<1>4. ASSUME NEW i \in 1 .. Len(s) PROVE s[i] = t[i]
  BY <1>2, <1>3, i = 1 \/ i = 2 \/ i = 3
<1> HIDE DEF S, s, t
<1>5. s = t
  BY <1>2, <1>3, <1>4, SeqEqual
<1> QED
  BY <1>5 DEF s, t

LEMMA NamesDiffer ==
  ASSUME NEW c \in Clients, NEW b \in Brokers
  PROVE  /\ c # b /\ c # READY /\ b # READY
         /\ Home[c] \in Brokers /\ Peers[b] \subseteq Brokers
         /\ \A a \in Peers[b] : a # b /\ b \in Peers[a]
BY NamesAssumption, HomeAssumption, PeersAssumption

(* What a worker sends when it serves a client. *)
LEMMA Served ==
  ASSUME Envelopes, NEW w \in Workers, NEW msg \in toWorker[w]
  PROVE  \E c \in Clients :
           \/ Home[c] = Home[w] /\ msg = <<c>> /\ <<w>> \o msg = <<w, c>>
           \/ /\ Home[c] \in Peers[Home[w]] /\ msg = <<Home[c], c>>
              /\ <<w>> \o msg = <<w, Home[c], c>>
<1>1. PICK c \in Clients :
        \/ Home[c] = Home[w] /\ msg = <<c>>
        \/ Home[c] \in Peers[Home[w]] /\ msg = <<Home[c], c>>
  BY DEF Envelopes
<1>2. /\ <<w>> \o <<c>> = <<w, c>>
      /\ <<w>> \o <<Home[c], c>> = <<w, Home[c], c>>
  BY PushOnOne, PushOnTwo
<1> QED
  BY <1>1, <1>2

(* What a broker does with a message of a worker: nothing more when it has *)
(* just started; otherwise the reply goes to a client or to its broker.    *)
FromWorker(b, w, msg) ==
  /\ msg \in localbe[b] /\ Head(msg) = w
  /\ localbe' = Drop(localbe, b, msg)
  /\ workers' = [workers EXCEPT ![b] = Append(@, w)]
  /\ \/ msg = <<w, READY>> /\ UNCHANGED <<cloudbe, toClient>>
     \/ \E c \in Clients :
          \/ /\ Home[c] = b /\ msg = <<w, c>>
             /\ toClient' = toClient \union {c} /\ UNCHANGED cloudbe
          \/ /\ Home[c] \in Peers[b] /\ msg = <<w, Home[c], c>>
             /\ cloudbe' = Put(cloudbe, Home[c], <<b, c>>) /\ UNCHANGED toClient

LEMMA LocalBackendRoutes ==
  ASSUME Envelopes, NEW b \in Brokers, LocalBackend(b)
  PROVE  \E w \in Workers : \E msg : Home[w] = b /\ FromWorker(b, w, msg)
<1>1. PICK msg \in localbe[b] :
        /\ localbe' = Drop(localbe, b, msg)
        /\ workers' = [workers EXCEPT ![b] = Append(@, Head(msg))]
        /\ IF Head(Tail(msg)) = READY THEN UNCHANGED <<cloudbe, toClient>>
           ELSE Route(b, Tail(msg), cloudbe)
  BY DEF LocalBackend
<1>2. PICK w \in Workers :
        /\ Home[w] = b
        /\ \/ msg = <<w, READY>>
           \/ \E c \in Clients :
                \/ Home[c] = b /\ msg = <<w, c>>
                \/ Home[c] \in Peers[b] /\ msg = <<w, Home[c], c>>
  BY DEF Envelopes
<1>3. ASSUME msg = <<w, READY>> PROVE FromWorker(b, w, msg)
  <2>1. Head(msg) = w /\ Head(Tail(msg)) = READY
    BY <1>3
  <2> QED
    BY <1>1, <1>3, <2>1 DEF FromWorker
<1>4. ASSUME NEW c \in Clients, Home[c] = b, msg = <<w, c>>
      PROVE  FromWorker(b, w, msg)
  <2>1. Head(msg) = w /\ Tail(msg) = <<c>> /\ Head(Tail(msg)) = c
    BY <1>4
  <2>2. c # READY /\ c \notin Peers[b] /\ Answered(b, <<c>>) = {c}
    BY <1>4, NamesDiffer DEF Answered
  <2> QED
    BY <1>1, <1>4, <2>1, <2>2 DEF FromWorker, Route
<1>5. ASSUME NEW c \in Clients, Home[c] \in Peers[b], msg = <<w, Home[c], c>>
      PROVE  FromWorker(b, w, msg)
  <2>1. /\ Head(msg) = w /\ Tail(msg) = <<Home[c], c>>
        /\ Head(Tail(msg)) = Home[c] /\ Tail(Tail(msg)) = <<c>>
        /\ <<b>> \o <<c>> = <<b, c>>
    BY <1>5, PushOnOne
  <2>2. Home[c] # READY
    BY NamesDiffer
  <2> QED
    BY <1>1, <1>5, <2>1, <2>2 DEF FromWorker, Route
<1> QED
  BY <1>2, <1>3, <1>4, <1>5

(* A peer's reply is for a client of this broker. *)
FromPeer(b, peer, c) ==
  /\ Home[c] = b /\ <<peer, c>> \in cloudbe[b]
  /\ cloudbe' = Drop(cloudbe, b, <<peer, c>>)
  /\ toClient' = toClient \union {c}

LEMMA CloudBackendRoutes ==
  ASSUME Envelopes, NEW b \in Brokers, CloudBackend(b)
  PROVE  \E peer \in Peers[b], c \in Clients : FromPeer(b, peer, c)
<1>1. PICK msg \in cloudbe[b] : Route(b, Tail(msg), Drop(cloudbe, b, msg))
  BY DEF CloudBackend
<1>2. PICK c \in Clients, peer \in Peers[b] : Home[c] = b /\ msg = <<peer, c>>
  BY DEF Envelopes
<1>3. Tail(msg) = <<c>> /\ Head(Tail(msg)) = c
  BY <1>2
<1>4. c \notin Peers[b] /\ Answered(b, <<c>>) = {c}
  BY <1>2, NamesDiffer DEF Answered
<1> QED
  BY <1>1, <1>2, <1>3, <1>4 DEF FromPeer, Route

(* A request that is kept goes to a worker, from either frontend, and one  *)
(* that is not to a peer, from the clients' frontend only.                 *)
Kept(b, msg) ==
  /\ \/ /\ msg \in cloudfe[b]
        /\ cloudfe' = Drop(cloudfe, b, msg) /\ UNCHANGED localfe
     \/ /\ msg \in localfe[b]
        /\ localfe' = Drop(localfe, b, msg) /\ UNCHANGED cloudfe
  /\ Assign(b, msg)

PassedOn(b, peer, c) ==
  /\ Home[c] = b /\ <<c>> \in localfe[b]
  /\ localfe' = Drop(localfe, b, <<c>>)
  /\ cloudfe' = Put(cloudfe, peer, <<b, c>>)
  /\ UNCHANGED <<workers, capacity, toWorker, cloudbe>>

LEMMA FrontendsRoute ==
  ASSUME Envelopes, NEW b \in Brokers, Frontends(b)
  PROVE  \/ \E msg : Kept(b, msg)
         \/ \E peer \in Peers[b], c \in Clients : PassedOn(b, peer, c)
<1>1. CASE CloudRequest(b)
  BY <1>1 DEF CloudRequest, Kept
<1>2. CASE LocalRequest(b)
  <2>1. PICK msg \in localfe[b] :
          /\ localfe' = Drop(localfe, b, msg)
          /\ \/ Assign(b, msg) /\ UNCHANGED cloudfe
             \/ \E peer \in Peers[b] :
                  Reroute(b, peer, msg, cloudfe) /\ UNCHANGED cloudbe
    BY <1>2 DEF LocalRequest
  <2>2. PICK c \in Clients : Home[c] = b /\ msg = <<c>>
    BY DEF Envelopes
  <2>3. <<b>> \o msg = <<b, c>>
    BY <2>2, PushOnOne
  <2> QED
    BY <2>1, <2>2, <2>3 DEF Kept, PassedOn, Reroute
<1> QED
  BY <1>1, <1>2 DEF Frontends

-----------------------------------------------------------------------------
(* Types and envelopes.                                                    *)

LEMMA PutAndDrop ==
  ASSUME NEW S, NEW T, NEW sockets \in [S -> SUBSET T], NEW s \in S, NEW msg
  PROVE  /\ msg \in T => Put(sockets, s, msg) \in [S -> SUBSET T]
         /\ Drop(sockets, s, msg) \in [S -> SUBSET T]
         /\ \A r \in S :
              /\ Put(sockets, s, msg)[r] =
                   IF r = s THEN sockets[r] \union {msg} ELSE sockets[r]
              /\ Drop(sockets, s, msg)[r] =
                   IF r = s THEN sockets[r] \ {msg} ELSE sockets[r]
BY DEF Put, Drop

LEMMA Enveloped ==
  /\ \A c \in Clients : <<c>> \in Envelope
  /\ \A x, y \in Names : <<x, y>> \in Envelope
  /\ \A x, y, z \in Names : <<x, y, z>> \in Envelope
BY DEF Envelope

Shape == TypeOK /\ Envelopes

LEMMA InitShape == Init => Shape
BY HomeAssumption, NamesAssumption DEF Init, Shape, TypeOK, Envelopes

LEMMA ClientShape ==
  ASSUME Shape, NEW c \in Clients, ClientStep(c) PROVE Shape'
<1> USE DEF Shape
<1>1. CASE ClientRecv(c)
  BY <1>1 DEF ClientRecv, TypeOK, Envelopes, brokerVars
<1>2. CASE ClientSend(c)
  <2>1. localfe' \in [Brokers -> SUBSET Envelope]
    BY <1>2, PutAndDrop, Enveloped, NamesDiffer, HomeAssumption
       DEF ClientSend, TypeOK
  <2>2. TypeOK'
    BY <1>2, <2>1 DEF ClientSend, TypeOK, brokerVars
  <2>3. \A b \in Brokers : \A msg \in localfe'[b] :
          msg \in localfe[b] \/ (b = Home[c] /\ msg = <<c>>)
    BY <1>2, HomeAssumption DEF ClientSend, TypeOK, Put
  <2> QED
    BY <1>2, <2>2, <2>3 DEF ClientSend, Envelopes
<1> QED
  BY <1>1, <1>2 DEF ClientStep

LEMMA WorkerShape ==
  ASSUME Shape, NEW w \in Workers, WorkerStep(w) PROVE Shape'
<1> USE DEF Shape
<1>0. Home[w] \in Brokers /\ w \in Names
  BY HomeAssumption DEF Names
<1>1. CASE WorkerReady(w)
  <2>1. <<w, READY>> \in Envelope
    BY <1>0, Enveloped DEF Names
  <2>2. localbe' \in [Brokers -> SUBSET Envelope]
    BY <1>0, <1>1, <2>1, PutAndDrop DEF WorkerReady, TypeOK
  <2>3. TypeOK'
    BY <1>1, <2>2 DEF WorkerReady, TypeOK, brokerVars
  <2>4. \A b \in Brokers : \A msg \in localbe'[b] :
          msg \in localbe[b] \/ (b = Home[w] /\ msg = <<w, READY>>)
    BY <1>0, <1>1 DEF WorkerReady, TypeOK, Put
  <2> QED
    BY <1>1, <2>3, <2>4 DEF WorkerReady, Envelopes
<1>2. ASSUME NEW msg \in toWorker[w], WorkerServe(w, msg) PROVE Shape'
  <2>1. PICK c \in Clients :
          \/ Home[c] = Home[w] /\ msg = <<c>> /\ <<w>> \o msg = <<w, c>>
          \/ /\ Home[c] \in Peers[Home[w]] /\ msg = <<Home[c], c>>
             /\ <<w>> \o msg = <<w, Home[c], c>>
    BY Served
  <2>2. c \in Names /\ Home[c] \in Names
    BY HomeAssumption DEF Names
  <2> DEFINE reply == <<w>> \o msg
  <2>3. reply \in Envelope
    BY <1>0, <2>1, <2>2, Enveloped
  <2>4. localbe' \in [Brokers -> SUBSET Envelope]
    BY <1>0, <1>2, <2>3, PutAndDrop DEF WorkerServe, TypeOK
  <2>5. toWorker' \in [Workers -> SUBSET Envelope]
    BY <1>2, PutAndDrop DEF WorkerServe, TypeOK
  <2>6. TypeOK'
    BY <1>2, <2>4, <2>5 DEF WorkerServe, TypeOK, brokerVars, threadVars
  <2>7. \A b \in Brokers : \A m \in localbe'[b] :
          m \in localbe[b] \/ (b = Home[w] /\ m = reply)
    <3>1. localbe' = Put(localbe, Home[w], reply)
      BY <1>2 DEF WorkerServe
    <3> HIDE DEF reply
    <3> QED
      BY <1>0, <3>1 DEF TypeOK, Put
  <2>8. \A v \in Workers : toWorker'[v] \subseteq toWorker[v]
    BY <1>2 DEF WorkerServe, TypeOK, Drop
  <2>9. UNCHANGED <<localfe, cloudfe, cloudbe>>
    BY <1>2 DEF WorkerServe
  <2>10. \A b \in Brokers : \A m \in localbe'[b] : m \notin localbe[b] =>
          /\ b = Home[w]
          /\ \/ Home[c] = b /\ m = <<w, c>>
             \/ Home[c] \in Peers[b] /\ m = <<w, Home[c], c>>
    BY <2>1, <2>7
  <2>11. Envelopes'
    BY <2>8, <2>9, <2>10 DEF Envelopes
  <2> QED
    BY <2>6, <2>11
<1> QED
  BY <1>1, <1>2 DEF WorkerStep

LEMMA LocalBackendShape ==
  ASSUME Shape, NEW b \in Brokers, LocalBackend(b) PROVE Shape'
<1> USE DEF Shape
<1>1. PICK w, msg : w \in Workers /\ Home[w] = b /\ FromWorker(b, w, msg)
  BY LocalBackendRoutes
<1>2. /\ localbe' \in [Brokers -> SUBSET Envelope]
      /\ \A a \in Brokers : localbe'[a] \subseteq localbe[a]
  BY <1>1 DEF FromWorker, TypeOK, Drop
<1>3. workers' \in [Brokers -> Seq(Workers)]
  BY <1>1, AppendProperties DEF FromWorker, TypeOK
<1>4. /\ toClient' \subseteq Clients
      /\ cloudbe' \in [Brokers -> SUBSET Envelope]
      /\ \A a \in Brokers : \A m \in cloudbe'[a] : m \notin cloudbe[a] =>
           \E c \in Clients, peer \in Peers[a] : Home[c] = a /\ m = <<peer, c>>
  <2>1. CASE UNCHANGED cloudbe
    BY <1>1, <2>1 DEF FromWorker, TypeOK
  <2>2. ASSUME NEW c \in Clients, Home[c] \in Peers[b], UNCHANGED toClient,
               cloudbe' = Put(cloudbe, Home[c], <<b, c>>)
        PROVE  <1>4!1 /\ <1>4!2 /\ <1>4!3
    <3>1. /\ b \in Peers[Home[c]] /\ Home[c] \in Brokers
          /\ <<b, c>> \in Envelope
      BY <2>2, NamesDiffer, Enveloped DEF Names
    <3> QED
      BY <2>2, <3>1 DEF TypeOK, Put
  <2> QED
    BY <1>1, <2>1, <2>2 DEF FromWorker
<1>5. TypeOK'
  BY <1>2, <1>3, <1>4 DEF LocalBackend, TypeOK, threadVars
<1>6. Envelopes'
  BY <1>2, <1>4 DEF LocalBackend, Envelopes
<1> QED
  BY <1>5, <1>6

LEMMA CloudBackendShape ==
  ASSUME Shape, NEW b \in Brokers, CloudBackend(b) PROVE Shape'
<1> USE DEF Shape
<1>1. PICK peer \in Peers[b], c \in Clients : FromPeer(b, peer, c)
  BY CloudBackendRoutes
<1>2. /\ cloudbe' \in [Brokers -> SUBSET Envelope]
      /\ \A a \in Brokers : cloudbe'[a] \subseteq cloudbe[a]
  BY <1>1 DEF FromPeer, TypeOK, Drop
<1>3. TypeOK'
  BY <1>1, <1>2 DEF CloudBackend, FromPeer, TypeOK, threadVars
<1>4. Envelopes'
  BY <1>2 DEF CloudBackend, Envelopes
<1> QED
  BY <1>3, <1>4

(* The list of the broker holds its own workers, by ListsFree. *)
LEMMA KeptShape ==
  ASSUME Shape, NEW b \in Brokers, NEW msg, Kept(b, msg), workers[b] # <<>>,
         Home[Head(workers[b])] = b, capacity[b] > 0,
         UNCHANGED <<main, threadVars, localbe, toClient>>
  PROVE  Shape'
<1> USE DEF Shape
<1> DEFINE w == Head(workers[b])
<1>1. /\ w \in Workers /\ Home[w] = b
      /\ Tail(workers[b]) \in Seq(Workers) /\ workers[b] \in Seq(Workers)
  BY HeadTailProperties DEF TypeOK
<1>2. /\ workers' = [workers EXCEPT ![b] = Tail(@)]
      /\ capacity' = [capacity EXCEPT ![b] = @ - 1]
      /\ toWorker' = Put(toWorker, w, msg) /\ UNCHANGED cloudbe
  BY DEF Kept, Assign
<1> HIDE DEF w
<1>3. /\ cloudfe' \in [Brokers -> SUBSET Envelope]
      /\ localfe' \in [Brokers -> SUBSET Envelope]
      /\ \A a \in Brokers : cloudfe'[a] \subseteq cloudfe[a]
      /\ \A a \in Brokers : localfe'[a] \subseteq localfe[a]
      /\ msg \in Envelope
  <2>1. CASE msg \in cloudfe[b] /\ cloudfe' = Drop(cloudfe, b, msg)
             /\ UNCHANGED localfe
    BY <2>1 DEF TypeOK, Drop
  <2>2. CASE msg \in localfe[b] /\ localfe' = Drop(localfe, b, msg)
             /\ UNCHANGED cloudfe
    BY <2>2 DEF TypeOK, Drop
  <2> QED
    BY <2>1, <2>2 DEF Kept
<1>4. \E c \in Clients :
        \/ Home[c] = b /\ msg = <<c>>
        \/ Home[c] \in Peers[b] /\ msg = <<Home[c], c>>
  BY DEF Kept, Envelopes
<1>5. /\ toWorker' \in [Workers -> SUBSET Envelope]
      /\ \A v \in Workers : \A m \in toWorker'[v] :
           m \in toWorker[v] \/ (v = w /\ m = msg)
  BY <1>1, <1>2, <1>3 DEF TypeOK, Put
<1>6. /\ capacity' \in [Brokers -> Nat]
      /\ workers' \in [Brokers -> Seq(Workers)]
  <2>1. capacity[b] \in Nat /\ capacity[b] - 1 \in Nat
    BY DEF TypeOK
  <2>2. capacity' \in [Brokers -> Nat]
    BY <1>2, <2>1 DEF TypeOK
  <2>3. workers' \in [Brokers -> Seq(Workers)]
    BY <1>1, <1>2 DEF TypeOK
  <2> QED
    BY <2>2, <2>3
<1>7. TypeOK'
  BY <1>2, <1>3, <1>5, <1>6 DEF TypeOK, threadVars
<1>8. \A v \in Workers : \A m \in toWorker'[v] : m \notin toWorker[v] =>
        \E c \in Clients :
          \/ Home[c] = Home[v] /\ m = <<c>>
          \/ Home[c] \in Peers[Home[v]] /\ m = <<Home[c], c>>
  BY <1>1, <1>4, <1>5
<1>9. Envelopes'
  BY <1>2, <1>3, <1>8 DEF Envelopes
<1> QED
  BY <1>7, <1>9

LEMMA PassedOnShape ==
  ASSUME Shape, NEW b \in Brokers, NEW peer \in Peers[b], NEW c \in Clients,
         PassedOn(b, peer, c), UNCHANGED <<main, threadVars, localbe, toClient>>
  PROVE  Shape'
<1> USE DEF Shape
<1>1. /\ peer \in Brokers /\ b \in Peers[peer] /\ Home[c] = b
      /\ <<b, c>> \in Envelope
  BY NamesDiffer, Enveloped DEF Names, PassedOn
<1>2. /\ localfe' \in [Brokers -> SUBSET Envelope]
      /\ \A a \in Brokers : localfe'[a] \subseteq localfe[a]
  BY DEF PassedOn, TypeOK, Drop
<1>3. /\ cloudfe' \in [Brokers -> SUBSET Envelope]
      /\ \A a \in Brokers : \A m \in cloudfe'[a] :
           m \in cloudfe[a] \/ (a = peer /\ m = <<b, c>>)
  BY <1>1 DEF PassedOn, TypeOK, Put
<1>4. TypeOK'
  BY <1>2, <1>3 DEF PassedOn, TypeOK, threadVars
<1>5. Envelopes'
  BY <1>1, <1>2, <1>3 DEF PassedOn, Envelopes
<1> QED
  BY <1>4, <1>5

LEMMA PollShape ==
  ASSUME Shape, NEW b \in Brokers,
         Enter(b) \/ BackendsSilent(b) \/ FrontendsDone(b)
  PROVE  Shape'
<1> USE DEF Shape
<1>1. TypeOK'
  BY DEF Enter, BackendsSilent, FrontendsDone, TypeOK, threadVars, socketVars
<1>2. Envelopes'
  BY DEF Enter, BackendsSilent, FrontendsDone, Envelopes, socketVars
<1> QED
  BY <1>1, <1>2

-----------------------------------------------------------------------------
(* Free workers.                                                           *)

LEMMA FreeUnchanged ==
  ASSUME FreeWorkers, UNCHANGED <<workers, capacity, worker, localbe, toWorker>>
  PROVE  FreeWorkers'
BY DEF FreeWorkers, ListsFree, OneTask, Quiet

(* A worker sends something, having nothing to do. *)
LEMMA WorkerSends ==
  ASSUME Shape, FreeWorkers, NEW w \in Workers, NEW msg, Head(msg) = w,
         localbe' = Put(localbe, Home[w], msg),
         worker[w] = "start" \/ toWorker[w] # {},
         worker'[w] = "recv" /\ toWorker'[w] = {},
         \A v \in Workers \ {w} : worker'[v] = worker[v] /\ toWorker'[v] = toWorker[v],
         UNCHANGED <<workers, capacity>>
  PROVE  FreeWorkers'
<1> USE DEF Shape, FreeWorkers
<1>1. /\ Home[w] \in Brokers
      /\ \A b \in Brokers : \A m \in localbe'[b] :
           m \in localbe[b] \/ (b = Home[w] /\ m = msg)
  BY HomeAssumption DEF TypeOK, Put
<1>2. \A m \in localbe[Home[w]] : Head(m) # w
  BY DEF OneTask
<1>3. \A v \in Workers : Home[v] \in Brokers
  BY HomeAssumption
<1>4. OneTask'
  BY <1>1, <1>2, <1>3 DEF OneTask
<1>5. \A v \in Workers : Quiet(v) => v # w /\ Quiet(v)'
  BY <1>1, <1>3 DEF Quiet
<1>6. ListsFree'
  BY <1>5 DEF ListsFree
<1> QED
  BY <1>4, <1>6

LEMMA WorkerFree ==
  ASSUME Shape, FreeWorkers, NEW w \in Workers, WorkerStep(w) PROVE FreeWorkers'
<1> USE DEF Shape
<1>1. CASE WorkerReady(w) /\ pattern = "REQ"
  <2>1. /\ Head(<<w, READY>>) = w
        /\ localbe' = Put(localbe, Home[w], <<w, READY>>)
        /\ worker[w] = "start" /\ worker'[w] = "recv"
        /\ UNCHANGED <<toWorker, workers, capacity>>
    BY <1>1 DEF WorkerReady, TypeOK, brokerVars
  <2>3. toWorker'[w] = {}
    BY <2>1 DEF FreeWorkers, OneTask
  <2>2. \A v \in Workers \ {w} :
          worker'[v] = worker[v] /\ toWorker'[v] = toWorker[v]
    BY <1>1 DEF WorkerReady, TypeOK
  <2> QED
    BY <2>1, <2>2, <2>3, WorkerSends
<1>2. CASE WorkerReady(w) /\ pattern # "REQ"
  <2>1. /\ worker' = [worker EXCEPT ![w] = "recv"]
        /\ UNCHANGED <<workers, capacity, localbe, toWorker>>
    BY <1>2 DEF WorkerReady, brokerVars
  <2>2. \A v \in Workers : worker[v] = "recv" => worker'[v] = "recv"
    BY <2>1 DEF TypeOK
  <2> QED
    BY <2>1, <2>2 DEF FreeWorkers, ListsFree, OneTask, Quiet
<1>3. ASSUME NEW msg \in toWorker[w], WorkerServe(w, msg) PROVE FreeWorkers'
  <2> DEFINE reply == <<w>> \o msg
  <2>1. Head(reply) = w
    BY Served
  <2>2. /\ localbe' = Put(localbe, Home[w], reply)
        /\ toWorker' = Drop(toWorker, w, msg)
        /\ worker[w] = "recv" /\ UNCHANGED <<worker, workers, capacity>>
    BY <1>3 DEF WorkerServe, brokerVars, threadVars
  <2> HIDE DEF reply
  <2>3. /\ toWorker'[w] = {}
        /\ \A v \in Workers \ {w} : toWorker'[v] = toWorker[v]
    BY <2>2 DEF FreeWorkers, OneTask, TypeOK, Drop
  <2> QED
    BY <2>1, <2>2, <2>3, WorkerSends
<1> QED
  BY <1>1, <1>2, <1>3 DEF WorkerStep

LEMMA LocalBackendFree ==
  ASSUME Shape, FreeWorkers, NEW b \in Brokers, LocalBackend(b)
  PROVE  FreeWorkers'
<1> USE DEF Shape, FreeWorkers
<1>1. PICK w, msg : w \in Workers /\ Home[w] = b /\ FromWorker(b, w, msg)
  BY LocalBackendRoutes
<1>2. /\ msg \in localbe[b] /\ Head(msg) = w
      /\ workers' = [workers EXCEPT ![b] = Append(@, w)]
      /\ capacity' = [capacity EXCEPT ![b] = @ + 1]
      /\ UNCHANGED <<worker, toWorker>>
  BY <1>1 DEF FromWorker, LocalBackend, threadVars
<1>3. /\ \A m : m \in localbe'[b] <=> m \in localbe[b] /\ m # msg
      /\ \A a \in Brokers \ {b} : localbe'[a] = localbe[a]
  BY <1>1 DEF FromWorker, TypeOK, Drop
<1>4. \A v \in Workers : Home[v] \in Brokers
  BY HomeAssumption
<1>5. Quiet(w)' /\ ~Quiet(w)
  <2>1. worker[w] = "recv" /\ toWorker[w] = {}
    BY <1>1, <1>2 DEF OneTask
  <2>2. \A m \in localbe[b] : Head(m) = w => m = msg
    BY <1>1, <1>2 DEF OneTask
  <2> QED
    BY <1>1, <1>2, <1>3, <2>1, <2>2 DEF Quiet
<1>6. \A v \in Workers : Quiet(v) => Quiet(v)'
  BY <1>2, <1>3, <1>4 DEF Quiet
<1>7. OneTask'
  <2>1. \A a \in Brokers : \A m : m \in localbe'[a] => m \in localbe[a]
    BY <1>3
  <2> QED
    BY <1>2, <1>4, <2>1 DEF OneTask
<1>8. ASSUME NEW a \in Brokers PROVE ListsFree!(a)'
  <2>1. CASE a = b
    <3> DEFINE q == workers[b]
    <3>1. q \in Seq(Workers) /\ NoRepeat(q) /\ ~Occurs(w, q)
      BY <1>1, <1>5 DEF ListsFree, TypeOK
    <3>2. workers'[b] = Append(q, w) /\ capacity'[b] = capacity[b] + 1
      BY <1>2 DEF TypeOK
    <3>3. capacity'[b] = Len(workers'[b])
      BY <3>1, <3>2, AppendProperties DEF ListsFree
    <3>4. /\ NoRepeat(workers'[b])
          /\ \A v : Occurs(v, workers'[b]) <=> Occurs(v, q) \/ v = w
      BY <1>1, <3>1, <3>2, Enqueue
    <3>5. \A v \in Workers : Occurs(v, q) => Home[v] = b /\ Quiet(v)
      BY DEF ListsFree
    <3> QED
      BY <2>1, <1>1, <1>5, <1>6, <3>3, <3>4, <3>5
  <2>2. CASE a # b
    <3>1. workers'[a] = workers[a] /\ capacity'[a] = capacity[a]
      BY <1>2, <2>2 DEF TypeOK
    <3> QED
      BY <3>1, <1>6 DEF ListsFree
  <2> QED
    BY <2>1, <2>2
<1> QED
  BY <1>7, <1>8 DEF ListsFree

LEMMA KeptFree ==
  ASSUME Shape, FreeWorkers, NEW b \in Brokers, NEW msg, Kept(b, msg),
         capacity[b] > 0, UNCHANGED <<worker, localbe>>
  PROVE  FreeWorkers' /\ workers[b] # <<>> /\ Home[Head(workers[b])] = b
<1> USE DEF Shape, FreeWorkers
<1> DEFINE q == workers[b]
           w == Head(q)
<1>1. q \in Seq(Workers) /\ NoRepeat(q) /\ Len(q) > 0 /\ q # <<>>
  BY DEF ListsFree, TypeOK
<1>2. /\ w \in Workers /\ Occurs(w, q) /\ NoRepeat(Tail(q))
      /\ \A v : Occurs(v, Tail(q)) <=> Occurs(v, q) /\ v # w
  BY <1>1, Dequeue
<1>3. Len(Tail(q)) = Len(q) - 1
  BY <1>1, HeadTailProperties
<1>4. Home[w] = b /\ Quiet(w)
  BY <1>2 DEF ListsFree
<1>5. /\ workers'[b] = Tail(q) /\ capacity'[b] = capacity[b] - 1
      /\ toWorker' = Put(toWorker, w, msg)
      /\ \A a \in Brokers \ {b} :
           workers'[a] = workers[a] /\ capacity'[a] = capacity[a]
  BY DEF Kept, Assign, TypeOK
<1> HIDE DEF q, w
<1>6. \A v \in Workers :
        toWorker'[v] = IF v = w THEN {msg} ELSE toWorker[v]
  BY <1>2, <1>4, <1>5 DEF TypeOK, Put, Quiet
<1>7. OneTask'
  BY <1>2, <1>4, <1>6 DEF OneTask, Quiet
<1>8. \A v \in Workers : Quiet(v) /\ v # w => Quiet(v)'
  BY <1>6 DEF Quiet
<1>9. ASSUME NEW a \in Brokers PROVE ListsFree!(a)'
  <2>1. CASE a = b
    <3>1. \A v \in Workers : Occurs(v, q) => Home[v] = b /\ Quiet(v)
      BY DEF ListsFree, q
    <3>2. capacity[b] = Len(q)
      BY DEF ListsFree, q
    <3> QED
      BY <2>1, <1>2, <1>3, <1>5, <1>8, <3>1, <3>2
  <2>2. CASE a # b
    <3>1. \A v \in Workers : Occurs(v, workers[a]) => Home[v] # b
      BY <2>2 DEF ListsFree
    <3> QED
      BY <2>2, <3>1, <1>4, <1>5, <1>8 DEF ListsFree
  <2> QED
    BY <2>1, <2>2
<1>10. ListsFree'
  BY <1>9 DEF ListsFree
<1> QED
  BY <1>1, <1>4, <1>7, <1>10 DEF q, w

-----------------------------------------------------------------------------
(* One copy of every request.                                              *)

(* p is a place of the sockets of one kind, of those that stand in S. *)
Held(kind, sockets, S, p) ==
  \E s \in S : \E msg \in sockets[s] : p = <<kind, s, msg>>

Held6(p) ==
  \/ Held("localfe", localfe, Brokers, p) \/ Held("cloudfe", cloudfe, Brokers, p)
  \/ Held("localbe", localbe, Brokers, p) \/ Held("cloudbe", cloudbe, Brokers, p)
  \/ Held("worker", toWorker, Workers, p)
  \/ \E c \in toClient : p = <<"client", c, <<c>>>>

LEMMA Places == \A p : p \in InFlight <=> Held6(p)
<1> SUFFICES ASSUME NEW p PROVE p \in InFlight <=> Held6(p)
  OBVIOUS
<1> DEFINE AtBroker(b) ==
             {<<"localfe", b, msg>> : msg \in localfe[b]}
             \union {<<"cloudfe", b, msg>> : msg \in cloudfe[b]}
             \union {<<"localbe", b, msg>> : msg \in localbe[b]}
             \union {<<"cloudbe", b, msg>> : msg \in cloudbe[b]}
           AtWorker(w) == {<<"worker", w, msg>> : msg \in toWorker[w]}
<1>1. p \in InFlight <=> \/ \E b \in Brokers : p \in AtBroker(b)
                         \/ \E w \in Workers : p \in AtWorker(w)
                         \/ p \in {<<"client", c, <<c>>>> : c \in toClient}
  <2>1. InFlight = (UNION {AtBroker(b) : b \in Brokers})
                   \union (UNION {AtWorker(w) : w \in Workers})
                   \union {<<"client", c, <<c>>>> : c \in toClient}
    BY Zenon DEF InFlight
  <2> HIDE DEF AtBroker, AtWorker
  <2> QED
    BY <2>1
<1>2. \A b \in Brokers : p \in AtBroker(b) <=>
        \/ \E msg \in localfe[b] : p = <<"localfe", b, msg>>
        \/ \E msg \in cloudfe[b] : p = <<"cloudfe", b, msg>>
        \/ \E msg \in localbe[b] : p = <<"localbe", b, msg>>
        \/ \E msg \in cloudbe[b] : p = <<"cloudbe", b, msg>>
  OBVIOUS
<1>3. \A w \in Workers : p \in AtWorker(w) <=>
        \E msg \in toWorker[w] : p = <<"worker", w, msg>>
  OBVIOUS
<1> HIDE DEF AtBroker, AtWorker
<1> QED
  BY <1>1, <1>2, <1>3 DEF Held6, Held

LEMMA HeldPut ==
  ASSUME NEW kind, NEW S, NEW sockets \in [S -> SUBSET Envelope],
         NEW s \in S, NEW msg, NEW p
  PROVE  Held(kind, Put(sockets, s, msg), S, p) <=>
           Held(kind, sockets, S, p) \/ p = <<kind, s, msg>>
BY DEF Held, Put

LEMMA HeldDrop ==
  ASSUME NEW kind, NEW S, NEW sockets \in [S -> SUBSET Envelope],
         NEW s \in S, NEW msg, NEW p
  PROVE  Held(kind, Drop(sockets, s, msg), S, p) <=>
           Held(kind, sockets, S, p) /\ p # <<kind, s, msg>>
BY DEF Held, Drop

LEMMA HeldKind ==
  ASSUME NEW kind, NEW S, NEW sockets, NEW s, NEW msg, NEW other,
         Held(kind, sockets, S, <<other, s, msg>>)
  PROVE  kind = other
<1>1. PICK r \in S : \E m \in sockets[r] : <<other, s, msg>> = <<kind, r, m>>
  BY DEF Held
<1> QED
  BY <1>1

LEMMA Askers ==
  ASSUME NEW kind, NEW s, NEW x, NEW y, NEW z
  PROVE  /\ Asker(<<kind, s, <<x>>>>) = x
         /\ Asker(<<kind, s, <<x, y>>>>) = y
         /\ Asker(<<kind, s, <<x, y, z>>>>) = z
BY DEF Asker

LEMMA PlacesNext ==
  \A p : p \in InFlight' <=>
    \/ Held("localfe", localfe', Brokers, p)
    \/ Held("cloudfe", cloudfe', Brokers, p)
    \/ Held("localbe", localbe', Brokers, p)
    \/ Held("cloudbe", cloudbe', Brokers, p)
    \/ Held("worker", toWorker', Workers, p)
    \/ \E c \in toClient' : p = <<"client", c, <<c>>>>
<1>1. (\A p : p \in InFlight <=> Held6(p))'
  BY Places, PTL
<1> QED
  BY <1>1 DEF Held6

(* A step that takes p away, or puts q down, or both. *)
Gone(p) == \A r : r \in InFlight' <=> r \in InFlight /\ r # p
Come(q) == \A r : r \in InFlight' <=> r \in InFlight \/ r = q
Moves(p, q) == \A r : r \in InFlight' <=> (r \in InFlight /\ r # p) \/ r = q

LEMMA Moved ==
  ASSUME OneCopy, UNCHANGED <<pattern, client>>, NEW p \in InFlight, NEW q,
         Moves(p, q), Asker(p) = Asker(q)
  PROVE  OneCopy'
<1> SUFFICES ASSUME NEW c \in Clients PROVE OneCopy!(c)'
  BY DEF OneCopy
<1>1. CASE Asker(p) = c
  <2>1. pattern = "REQ" /\ client[c] = "recv" /\ CopiesOf(c) = {p}
    BY <1>1 DEF OneCopy, CopiesOf
  <2>2. CopiesOf(c)' = {q}
    BY <1>1, <2>1 DEF Moves, CopiesOf, Asker
  <2> QED
    BY <2>1, <2>2
<1>2. CASE Asker(p) # c
  <2>1. CopiesOf(c)' = CopiesOf(c)
    BY <1>2 DEF Moves, CopiesOf, Asker
  <2> QED
    BY <2>1 DEF OneCopy
<1> QED
  BY <1>1, <1>2

(* READY is no client's message. *)
LEMMA Nobodys ==
  ASSUME OneCopy, UNCHANGED <<pattern, client>>, NEW p, Asker(p) \notin Clients,
         Gone(p) \/ Come(p)
  PROVE  OneCopy'
<1> SUFFICES ASSUME NEW c \in Clients PROVE OneCopy!(c)'
  BY DEF OneCopy
<1>1. CopiesOf(c)' = CopiesOf(c)
  BY DEF Gone, Come, CopiesOf, Asker
<1> QED
  BY <1>1 DEF OneCopy

LEMMA CopiesUnchanged ==
  ASSUME OneCopy, UNCHANGED <<pattern, client, socketVars>> PROVE OneCopy'
<1>1. InFlight' = InFlight
  BY DEF InFlight, socketVars
<1>2. ASSUME NEW c \in Clients PROVE CopiesOf(c)' = CopiesOf(c)
  BY <1>1 DEF CopiesOf, Asker
<1> QED
  BY <1>2 DEF OneCopy

LEMMA ClientSendCopies ==
  ASSUME Shape, OneCopy, NEW c \in Clients, ClientSend(c) PROVE OneCopy'
<1> USE DEF Shape
<1> DEFINE q == <<"localfe", Home[c], <<c>>>>
<1>0. Asker(q) = c
  BY DEF Asker
<1>1. /\ client[c] = "send" /\ client' = [client EXCEPT ![c] = "recv"]
      /\ UNCHANGED <<pattern, cloudfe, localbe, cloudbe, toWorker, toClient>>
      /\ localfe' = IF pattern = "REQ" THEN Put(localfe, Home[c], <<c>>)
                    ELSE localfe
  BY DEF ClientSend
<1> HIDE DEF q
<1>2. client'[c] = "recv" /\ \A d \in Clients \ {c} : client'[d] = client[d]
  BY <1>1 DEF TypeOK
<1>3. CASE pattern = "REQ"
  <2>1. \A p : Held("localfe", localfe', Brokers, p) <=>
                 Held("localfe", localfe, Brokers, p) \/ p = q
    <3>1. localfe \in [Brokers -> SUBSET Envelope] /\ Home[c] \in Brokers
      BY HomeAssumption DEF TypeOK
    <3>2. localfe' = Put(localfe, Home[c], <<c>>)
      BY <1>1, <1>3
    <3> QED
      BY <3>1, <3>2, HeldPut DEF q
  <2>2. Come(q)
    BY <1>1, <2>1, Places, PlacesNext DEF Come, Held6
  <2>3. \A d \in Clients :
          CopiesOf(d)' = CopiesOf(d) \union (IF d = c THEN {q} ELSE {})
    BY <1>0, <2>2 DEF Come, CopiesOf, Asker
  <2>4. CopiesOf(c) = {}
    BY <1>1 DEF OneCopy
  <2> QED
    BY <1>1, <1>2, <1>3, <2>3, <2>4 DEF OneCopy
<1>4. CASE pattern # "REQ"
  <2>1. \A d \in Clients : CopiesOf(d)' = CopiesOf(d)
    BY <1>1, <1>4 DEF CopiesOf, Asker, InFlight
  <2> QED
    BY <1>1, <1>4, <2>1 DEF OneCopy
<1> QED
  BY <1>3, <1>4

LEMMA ClientRecvCopies ==
  ASSUME Shape, OneCopy, NEW c \in Clients, ClientRecv(c) PROVE OneCopy'
<1> USE DEF Shape
<1> DEFINE p == <<"client", c, <<c>>>>
<1>1. /\ c \in toClient /\ toClient' = toClient \ {c}
      /\ client[c] = "recv" /\ client' = [client EXCEPT ![c] = "send"]
      /\ UNCHANGED <<pattern, localfe, cloudfe, localbe, cloudbe, toWorker>>
  BY DEF ClientRecv
<1>2. client'[c] = "send" /\ \A d \in Clients \ {c} : client'[d] = client[d]
  BY <1>1 DEF TypeOK
<1>3. p \in InFlight /\ Asker(p) = c
  BY <1>1, Places DEF Held6, Asker
<1>4. pattern = "REQ" /\ CopiesOf(c) = {p}
  BY <1>1, <1>3 DEF OneCopy, CopiesOf
<1>5. \A d \in toClient' : <<"client", d, <<d>>>> # p
  BY <1>1
<1> HIDE DEF p
<1>6. Gone(p)
  <2>1. \A r : (\E d \in toClient' : r = <<"client", d, <<d>>>>) <=>
                 (\E d \in toClient : r = <<"client", d, <<d>>>>) /\ r # p
    BY <1>1, <1>5 DEF p
  <2> QED
    BY <1>1, <2>1, Places, PlacesNext, HeldKind DEF Gone, Held6, p
<1>7. \A d \in Clients : CopiesOf(d)' = CopiesOf(d) \ {p}
  BY <1>6 DEF Gone, CopiesOf, Asker
<1>8. \A d \in Clients \ {c} : CopiesOf(d)' = CopiesOf(d)
  BY <1>3, <1>7 DEF CopiesOf
<1> QED
  BY <1>1, <1>2, <1>4, <1>7, <1>8 DEF OneCopy

LEMMA WorkerCopies ==
  ASSUME Shape, OneCopy, NEW w \in Workers, WorkerStep(w) PROVE OneCopy'
<1> USE DEF Shape
<1>0. /\ localbe \in [Brokers -> SUBSET Envelope] /\ Home[w] \in Brokers
      /\ toWorker \in [Workers -> SUBSET Envelope]
  BY HomeAssumption DEF TypeOK
<1>1. CASE WorkerReady(w) /\ pattern = "REQ"
  <2> DEFINE q == <<"localbe", Home[w], <<w, READY>>>>
  <2>1. Asker(q) \notin Clients
    BY NamesAssumption DEF Asker
  <2>2. /\ localbe' = Put(localbe, Home[w], <<w, READY>>)
        /\ UNCHANGED <<pattern, client, localfe, cloudfe, cloudbe, toWorker,
                       toClient>>
    BY <1>1 DEF WorkerReady
  <2>3. \A p : Held("localbe", localbe', Brokers, p) <=>
                 Held("localbe", localbe, Brokers, p) \/ p = q
    BY <1>0, <2>2, HeldPut
  <2> HIDE DEF q
  <2>4. Come(q)
    BY <2>2, <2>3, Places, PlacesNext DEF Come, Held6
  <2> QED
    BY <2>1, <2>2, <2>4, Nobodys
<1>2. CASE WorkerReady(w) /\ pattern # "REQ"
  BY <1>2, CopiesUnchanged DEF WorkerReady, socketVars
<1>3. ASSUME NEW msg \in toWorker[w], WorkerServe(w, msg) PROVE OneCopy'
  <2> DEFINE reply == <<w>> \o msg
             p == <<"worker", w, msg>>
             q == <<"localbe", Home[w], reply>>
  <2>1. p \in InFlight /\ Asker(p) = Asker(q)
    <3>1. Asker(p) = Asker(q)
      BY Served DEF Asker
    <3>2. p \in InFlight
      BY Places DEF Held6, Held
    <3> QED
      BY <3>1, <3>2
  <2>2. /\ toWorker' = Drop(toWorker, w, msg)
        /\ localbe' = Put(localbe, Home[w], reply)
        /\ UNCHANGED <<pattern, client, localfe, cloudfe, cloudbe, toClient>>
    BY <1>3 DEF WorkerServe, threadVars
  <2>3. \A r : Held("localbe", localbe', Brokers, r) <=>
                 Held("localbe", localbe, Brokers, r) \/ r = q
    <3> HIDE DEF reply
    <3> QED
      BY <1>0, <2>2, HeldPut
  <2>4. \A r : Held("worker", toWorker', Workers, r) <=>
                 Held("worker", toWorker, Workers, r) /\ r # p
    BY <1>0, <2>2, HeldDrop
  <2>5. Moves(p, q)
    <3>1. \A kind, S, sockets : Held(kind, sockets, S, p) => kind = "worker"
      BY HeldKind
    <3>2. \A c : p # <<"client", c, <<c>>>>
      OBVIOUS
    <3> HIDE DEF p, q
    <3> QED
      BY <2>2, <2>3, <2>4, <3>1, <3>2, Places, PlacesNext DEF Moves, Held6
  <2> HIDE DEF p, q
  <2> QED
    BY <2>1, <2>2, <2>5, Moved
<1> QED
  BY <1>1, <1>2, <1>3 DEF WorkerStep

(* A message that leaves a socket is in no other one. *)
LEMMA Leaves ==
  ASSUME NEW kind, NEW s, NEW msg, kind # "client"
  PROVE  /\ \A other, S, sockets :
              Held(other, sockets, S, <<kind, s, msg>>) => other = kind
         /\ \A c : <<kind, s, msg>> # <<"client", c, <<c>>>>
BY HeldKind

LEMMA LocalBackendCopies ==
  ASSUME Shape, OneCopy, NEW b \in Brokers, LocalBackend(b) PROVE OneCopy'
<1> USE DEF Shape
<1>1. PICK w, msg : w \in Workers /\ Home[w] = b /\ FromWorker(b, w, msg)
  BY LocalBackendRoutes
<1> DEFINE p == <<"localbe", b, msg>>
<1>2. /\ localbe \in [Brokers -> SUBSET Envelope]
      /\ cloudbe \in [Brokers -> SUBSET Envelope]
  BY DEF TypeOK
<1>3. /\ UNCHANGED <<pattern, client, localfe, cloudfe, toWorker>>
      /\ msg \in localbe[b] /\ localbe' = Drop(localbe, b, msg)
  BY <1>1 DEF LocalBackend, FromWorker, threadVars
<1>4. p \in InFlight
  BY <1>3, Places DEF Held6, Held
<1>5. \A r : Held("localbe", localbe', Brokers, r) <=>
               Held("localbe", localbe, Brokers, r) /\ r # p
  BY <1>2, <1>3, HeldDrop
<1>6. /\ \A other, S, sockets : Held(other, sockets, S, p) => other = "localbe"
      /\ \A c : p # <<"client", c, <<c>>>>
  BY Leaves
<1>7. ASSUME msg = <<w, READY>>, UNCHANGED <<cloudbe, toClient>> PROVE OneCopy'
  <2>1. Asker(p) \notin Clients
    BY <1>7, NamesAssumption DEF Asker
  <2> HIDE DEF p
  <2>2. Gone(p)
    BY <1>3, <1>5, <1>6, <1>7, Places, PlacesNext DEF Gone, Held6
  <2> QED
    BY <1>3, <2>1, <2>2, Nobodys
<1>8. ASSUME NEW c \in Clients, msg = <<w, c>>,
             toClient' = toClient \union {c}, UNCHANGED cloudbe
      PROVE  OneCopy'
  <2> DEFINE q == <<"client", c, <<c>>>>
  <2>1. Asker(p) = Asker(q)
    BY <1>8 DEF Asker
  <2>2. \A r : (\E d \in toClient' : r = <<"client", d, <<d>>>>) <=>
                 (\E d \in toClient : r = <<"client", d, <<d>>>>) \/ r = q
    BY <1>8
  <2> HIDE DEF p, q
  <2>3. Moves(p, q)
    BY <1>3, <1>5, <1>6, <1>8, <2>2, Places, PlacesNext DEF Moves, Held6
  <2> QED
    BY <1>3, <1>4, <2>1, <2>3, Moved
<1>9. ASSUME NEW c \in Clients, Home[c] \in Peers[b], msg = <<w, Home[c], c>>,
             cloudbe' = Put(cloudbe, Home[c], <<b, c>>), UNCHANGED toClient
      PROVE  OneCopy'
  <2> DEFINE q == <<"cloudbe", Home[c], <<b, c>>>>
  <2>1. Asker(p) = Asker(q)
    BY <1>9 DEF Asker
  <2>2. Home[c] \in Brokers
    BY HomeAssumption
  <2>3. \A r : Held("cloudbe", cloudbe', Brokers, r) <=>
                 Held("cloudbe", cloudbe, Brokers, r) \/ r = q
    BY <1>2, <1>9, <2>2, HeldPut
  <2> HIDE DEF p, q
  <2>4. Moves(p, q)
    BY <1>3, <1>5, <1>6, <1>9, <2>3, Places, PlacesNext DEF Moves, Held6
  <2> QED
    BY <1>3, <1>4, <2>1, <2>4, Moved
<1> QED
  BY <1>1, <1>7, <1>8, <1>9 DEF FromWorker

LEMMA CloudBackendCopies ==
  ASSUME Shape, OneCopy, NEW b \in Brokers, CloudBackend(b) PROVE OneCopy'
<1> USE DEF Shape
<1>1. PICK peer \in Peers[b], c \in Clients : FromPeer(b, peer, c)
  BY CloudBackendRoutes
<1> DEFINE p == <<"cloudbe", b, <<peer, c>>>>
           q == <<"client", c, <<c>>>>
<1>2. /\ UNCHANGED <<pattern, client, localfe, cloudfe, localbe, toWorker>>
      /\ <<peer, c>> \in cloudbe[b] /\ toClient' = toClient \union {c}
      /\ cloudbe' = Drop(cloudbe, b, <<peer, c>>)
      /\ cloudbe \in [Brokers -> SUBSET Envelope]
  BY <1>1 DEF CloudBackend, FromPeer, TypeOK, threadVars
<1>3. p \in InFlight
  BY <1>2, Places DEF Held6, Held
<1>4. Asker(p) = Asker(q)
  BY DEF Asker
<1>5. \A r : Held("cloudbe", cloudbe', Brokers, r) <=>
               Held("cloudbe", cloudbe, Brokers, r) /\ r # p
  BY <1>2, HeldDrop
<1>6. \A r : (\E d \in toClient' : r = <<"client", d, <<d>>>>) <=>
               (\E d \in toClient : r = <<"client", d, <<d>>>>) \/ r = q
  BY <1>2
<1>7. /\ \A other, S, sockets : Held(other, sockets, S, p) => other = "cloudbe"
      /\ \A d : p # <<"client", d, <<d>>>>
  BY Leaves
<1> HIDE DEF p, q
<1>8. Moves(p, q)
  BY <1>2, <1>5, <1>6, <1>7, Places, PlacesNext DEF Moves, Held6
<1> QED
  BY <1>2, <1>3, <1>4, <1>8, Moved

LEMMA KeptCopies ==
  ASSUME Shape, OneCopy, NEW b \in Brokers, NEW msg, Kept(b, msg),
         workers[b] # <<>>, UNCHANGED <<pattern, client, localbe, toClient>>
  PROVE  OneCopy'
<1> USE DEF Shape
<1> DEFINE w == Head(workers[b])
           q == <<"worker", w, msg>>
<1>1. w \in Workers
  BY HeadTailProperties DEF TypeOK
<1>2. toWorker' = Put(toWorker, w, msg) /\ UNCHANGED cloudbe
  BY DEF Kept, Assign
<1> HIDE DEF w
<1>3. /\ toWorker \in [Workers -> SUBSET Envelope]
      /\ localfe \in [Brokers -> SUBSET Envelope]
      /\ cloudfe \in [Brokers -> SUBSET Envelope]
  BY DEF TypeOK
<1>4. \A r : Held("worker", toWorker', Workers, r) <=>
               Held("worker", toWorker, Workers, r) \/ r = q
  BY <1>1, <1>2, <1>3, HeldPut
<1>5. ASSUME msg \in cloudfe[b], cloudfe' = Drop(cloudfe, b, msg),
             UNCHANGED localfe
      PROVE  OneCopy'
  <2> DEFINE p == <<"cloudfe", b, msg>>
  <2>1. p \in InFlight /\ Asker(p) = Asker(q)
    BY <1>5, Places DEF Held6, Held, Asker
  <2>2. \A r : Held("cloudfe", cloudfe', Brokers, r) <=>
                 Held("cloudfe", cloudfe, Brokers, r) /\ r # p
    BY <1>3, <1>5, HeldDrop
  <2>3. /\ \A other, S, sockets : Held(other, sockets, S, p) => other = "cloudfe"
        /\ \A d : p # <<"client", d, <<d>>>>
    BY Leaves
  <2> HIDE DEF p, q
  <2>4. Moves(p, q)
    BY <1>2, <1>4, <1>5, <2>2, <2>3, Places, PlacesNext DEF Moves, Held6
  <2> QED
    BY <2>1, <2>4, Moved
<1>6. ASSUME msg \in localfe[b], localfe' = Drop(localfe, b, msg),
             UNCHANGED cloudfe
      PROVE  OneCopy'
  <2> DEFINE p == <<"localfe", b, msg>>
  <2>1. p \in InFlight /\ Asker(p) = Asker(q)
    BY <1>6, Places DEF Held6, Held, Asker
  <2>2. \A r : Held("localfe", localfe', Brokers, r) <=>
                 Held("localfe", localfe, Brokers, r) /\ r # p
    BY <1>3, <1>6, HeldDrop
  <2>3. /\ \A other, S, sockets : Held(other, sockets, S, p) => other = "localfe"
        /\ \A d : p # <<"client", d, <<d>>>>
    BY Leaves
  <2> HIDE DEF p, q
  <2>4. Moves(p, q)
    BY <1>2, <1>4, <1>6, <2>2, <2>3, Places, PlacesNext DEF Moves, Held6
  <2> QED
    BY <2>1, <2>4, Moved
<1> QED
  BY <1>5, <1>6 DEF Kept

LEMMA PassedOnCopies ==
  ASSUME Shape, OneCopy, NEW b \in Brokers, NEW peer \in Peers[b],
         NEW c \in Clients, PassedOn(b, peer, c),
         UNCHANGED <<pattern, client, localbe, toClient>>
  PROVE  OneCopy'
<1> USE DEF Shape
<1> DEFINE p == <<"localfe", b, <<c>>>>
           q == <<"cloudfe", peer, <<b, c>>>>
<1>1. /\ <<c>> \in localfe[b] /\ localfe' = Drop(localfe, b, <<c>>)
      /\ cloudfe' = Put(cloudfe, peer, <<b, c>>)
      /\ UNCHANGED <<toWorker, cloudbe>>
  BY DEF PassedOn
<1>2. /\ localfe \in [Brokers -> SUBSET Envelope]
      /\ cloudfe \in [Brokers -> SUBSET Envelope]
      /\ peer \in Brokers
  BY NamesDiffer DEF TypeOK
<1>3. p \in InFlight
  BY <1>1, Places DEF Held6, Held
<1>4. Asker(p) = Asker(q)
  BY DEF Asker
<1>5. \A r : Held("localfe", localfe', Brokers, r) <=>
               Held("localfe", localfe, Brokers, r) /\ r # p
  BY <1>1, <1>2, HeldDrop
<1>6. \A r : Held("cloudfe", cloudfe', Brokers, r) <=>
               Held("cloudfe", cloudfe, Brokers, r) \/ r = q
  BY <1>1, <1>2, HeldPut
<1>7. /\ \A other, S, sockets : Held(other, sockets, S, p) => other = "localfe"
      /\ \A d : p # <<"client", d, <<d>>>>
  BY Leaves
<1> HIDE DEF p, q
<1>8. Moves(p, q)
  BY <1>1, <1>5, <1>6, <1>7, Places, PlacesNext DEF Moves, Held6
<1> QED
  BY <1>3, <1>4, <1>8, Moved

-----------------------------------------------------------------------------
(* The invariant.                                                          *)

IInv == Shape /\ FreeWorkers /\ OneCopy

LEMMA InitIInv == Init => IInv
<1> SUFFICES ASSUME Init PROVE IInv
  OBVIOUS
<1>1. FreeWorkers
  BY HomeAssumption DEF Init, FreeWorkers, ListsFree, OneTask, NoRepeat, Occurs
<1>2. \A p : p \notin InFlight
  BY Places DEF Init, Held6, Held
<1>3. OneCopy
  BY <1>2 DEF Init, OneCopy, CopiesOf
<1> QED
  BY <1>1, <1>3, InitShape DEF IInv

LEMMA FrontendsStep ==
  ASSUME IInv, NEW b \in Brokers, Frontends(b) PROVE IInv'
<1> USE DEF IInv
<1>1. /\ capacity[b] > 0
      /\ UNCHANGED <<main, threadVars, localbe, toClient>>
      /\ UNCHANGED <<pattern, client, worker>>
  BY DEF Frontends, threadVars
<1>2. ASSUME NEW msg, Kept(b, msg) PROVE IInv'
  BY <1>1, <1>2, KeptFree, KeptShape, KeptCopies
<1>3. ASSUME NEW peer \in Peers[b], NEW c \in Clients, PassedOn(b, peer, c)
      PROVE  IInv'
  <2>1. FreeWorkers'
    BY <1>1, <1>3, FreeUnchanged DEF PassedOn
  <2> QED
    BY <1>1, <1>3, <2>1, PassedOnShape, PassedOnCopies
<1> QED
  BY <1>2, <1>3, FrontendsRoute DEF Shape

LEMMA BrokerKeepsInv ==
  ASSUME IInv, NEW b \in Brokers, Enter(b) \/ BrokerStep(b) PROVE IInv'
<1> USE DEF IInv
<1>1. CASE LocalBackend(b)
  BY <1>1, LocalBackendShape, LocalBackendFree, LocalBackendCopies
<1>2. CASE CloudBackend(b)
  <2>1. FreeWorkers'
    BY <1>2, FreeUnchanged DEF CloudBackend, threadVars
  <2> QED
    BY <1>2, <2>1, CloudBackendShape, CloudBackendCopies
<1>3. CASE Frontends(b)
  BY <1>3, FrontendsStep
<1>4. CASE Enter(b) \/ BackendsSilent(b) \/ FrontendsDone(b)
  <2>1. UNCHANGED <<workers, capacity, threadVars, socketVars>>
    BY <1>4 DEF Enter, BackendsSilent, FrontendsDone
  <2>2. FreeWorkers'
    BY <2>1, FreeUnchanged DEF threadVars, socketVars
  <2>3. OneCopy'
    BY <2>1, CopiesUnchanged DEF threadVars
  <2> QED
    BY <1>4, <2>2, <2>3, PollShape
<1> QED
  BY <1>1, <1>2, <1>3, <1>4 DEF BrokerStep

LEMMA StepKeepsInv == IInv /\ [Next]_vars => IInv'
<1> SUFFICES ASSUME IInv, [Next]_vars PROVE IInv'
  OBVIOUS
<1> USE DEF IInv
<1>1. ASSUME NEW c \in Clients, ClientStep(c) PROVE IInv'
  <2>1. UNCHANGED <<workers, capacity, worker, localbe, toWorker>>
    BY <1>1 DEF ClientStep, ClientSend, ClientRecv, brokerVars
  <2>2. OneCopy'
    BY <1>1, ClientSendCopies, ClientRecvCopies DEF ClientStep
  <2> QED
    BY <1>1, <2>1, <2>2, ClientShape, FreeUnchanged
<1>2. ASSUME NEW w \in Workers, WorkerStep(w) PROVE IInv'
  BY <1>2, WorkerShape, WorkerFree, WorkerCopies
<1>3. ASSUME NEW b \in Brokers, Enter(b) \/ BrokerStep(b) PROVE IInv'
  BY <1>3, BrokerKeepsInv
<1>4. CASE UNCHANGED vars
  <2>1. UNCHANGED <<brokerVars, threadVars, socketVars>>
    BY <1>4 DEF vars
  <2>2. Shape'
    BY <2>1 DEF Shape, TypeOK, Envelopes, brokerVars, threadVars, socketVars
  <2>3. FreeWorkers'
    BY <2>1, FreeUnchanged DEF brokerVars, threadVars, socketVars
  <2>4. OneCopy'
    BY <2>1, CopiesUnchanged DEF threadVars
  <2> QED
    BY <2>2, <2>3, <2>4
<1> QED
  BY <1>1, <1>2, <1>3, <1>4 DEF Next

LEMMA Invariance == Spec => []IInv
BY InitIInv, StepKeepsInv, PTL DEF Spec

(* The types of all variables, the envelopes of every socket among them.   *)
THEOREM TypeCorrect == Spec => []TypeOK
<1>1. IInv => TypeOK
  BY DEF IInv, Shape
<1> QED
  BY Invariance, <1>1, PTL

(* lcflow.c:174: capacity is the length of the list through requests kept  *)
(* and requests passed on, so that zlist_pop finds a worker, which is free,*)
(* this broker's own, and not on the list twice.                           *)
THEOREM CapacityCountsFreeWorkers == Spec => []CapacityIsFreeWorkers
<1>1. ASSUME IInv PROVE CapacityIsFreeWorkers
  <2> SUFFICES ASSUME NEW b \in Brokers PROVE CapacityIsFreeWorkers!(b)
    BY DEF CapacityIsFreeWorkers
  <2>1. /\ capacity[b] = Len(workers[b]) /\ NoRepeat(workers[b])
        /\ workers[b] \in Seq(Workers)
        /\ \A w \in Workers : Occurs(w, workers[b]) => Home[w] = b /\ Quiet(w)
    BY <1>1 DEF IInv, Shape, TypeOK, FreeWorkers, ListsFree
  <2>2. \A k \in DOMAIN workers[b] :
          workers[b][k] \in Workers /\ Occurs(workers[b][k], workers[b])
    BY <2>1, ElementOfSeq, LenProperties DEF Occurs
  <2> QED
    BY <2>1, <2>2 DEF NoRepeat
<1> QED
  BY Invariance, <1>1, PTL

(* lcflow.c:170: on whatever way through the cloud, the request of a client*)
(* that waits is in exactly one place, and nobody else's in any.           *)
THEOREM ExactlyOneCopyInCloud == Spec => []OneCopyInCloud
<1>1. ASSUME IInv, NEW c \in Clients
      PROVE  Cardinality(CopiesOf(c)) =
               IF pattern = "REQ" /\ client[c] = "recv" THEN 1 ELSE 0
  BY <1>1, FS_Singleton, FS_EmptySet DEF IInv, OneCopy
<1>2. IInv => OneCopyInCloud
  BY <1>1 DEF OneCopyInCloud, CopiesOf
<1> QED
  BY Invariance, <1>2, PTL

(* lcflow.c:156: only local requests may be passed on, so that none is     *)
(* passed on twice, whatever brokers there are.                            *)
THEOREM RequestsPassedOnOnce == Spec => []ReroutedOnce
<1>1. ASSUME IInv PROVE ReroutedOnce
  <2> SUFFICES ASSUME NEW w \in Workers, NEW msg \in toWorker[w]
               PROVE  LET c == msg[Len(msg)]
                      IN  IF Home[c] = Home[w] THEN msg = <<c>>
                          ELSE msg = <<Home[c], c>>
    BY DEF ReroutedOnce
  <2>1. PICK c \in Clients :
          \/ Home[c] = Home[w] /\ msg = <<c>>
          \/ Home[c] \in Peers[Home[w]] /\ msg = <<Home[c], c>>
    BY <1>1 DEF IInv, Shape, Envelopes
  <2>2. msg[Len(msg)] = c
    <3>1. <<c>>[Len(<<c>>)] = c /\ <<Home[c], c>>[Len(<<Home[c], c>>)] = c
      OBVIOUS
    <3> QED
      BY <2>1, <3>1
  <2>3. Home[c] \in Peers[Home[w]] => Home[c] # Home[w]
    BY HomeAssumption, PeersAssumption
  <2> QED
    BY <2>1, <2>2, <2>3
<1> QED
  BY Invariance, <1>1, PTL

-----------------------------------------------------------------------------
(* Refinement: the peered brokers implement the abstract load balancer.    *)

LEMMA Innermosts ==
  ASSUME NEW x, NEW y, NEW z
  PROVE  /\ Innermost(<<x>>) = x
         /\ Innermost(<<x, y>>) = y
         /\ Innermost(<<x, y, z>>) = z
BY DEF Innermost

LEMMA ListedOccurs ==
  \A w \in Workers : Listed(w) <=> Occurs(w, workers[Home[w]])
BY DEF Listed, Occurs

(* Where the request of c is tells how far it has come. *)
LEMMA OnePlace ==
  ASSUME OneCopy, NEW c \in Clients, NEW p \in InFlight, Asker(p) = c
  PROVE  /\ client[c] = "recv"
         /\ \A q \in InFlight : Asker(q) = c => q = p
<1>1. p \in CopiesOf(c)
  BY DEF CopiesOf
<1> QED
  BY <1>1 DEF OneCopy, CopiesOf

WorkPlace(w, p) ==
  \/ \E msg : p = <<"worker", w, msg>>
  \/ \E msg : p = <<"localbe", Home[w], msg>> /\ Head(msg) = w
ReplyPlace(p) ==
  (\E s, msg : p = <<"cloudbe", s, msg>>) \/ \E s, msg : p = <<"client", s, msg>>

LEMMA WorkPlaces ==
  ASSUME NEW c \in Clients, NEW w \in Workers, WorksFor(w, c)
  PROVE  \E p \in InFlight : Asker(p) = c /\ WorkPlace(w, p)
<1>1. ASSUME NEW msg \in toWorker[w], Innermost(msg) = c
      PROVE  \E p \in InFlight : Asker(p) = c /\ WorkPlace(w, p)
  <2>1. <<"worker", w, msg>> \in InFlight
    BY <1>1, Places DEF Held6, Held
  <2>2. Asker(<<"worker", w, msg>>) = c /\ WorkPlace(w, <<"worker", w, msg>>)
    BY <1>1 DEF Asker, Innermost, WorkPlace
  <2> QED
    BY <2>1, <2>2
<1>2. ASSUME NEW msg \in localbe[Home[w]], Head(msg) = w, Innermost(msg) = c
      PROVE  \E p \in InFlight : Asker(p) = c /\ WorkPlace(w, p)
  <2>1. <<"localbe", Home[w], msg>> \in InFlight
    BY <1>2, Places, HomeAssumption DEF Held6, Held
  <2>2. /\ Asker(<<"localbe", Home[w], msg>>) = c
        /\ WorkPlace(w, <<"localbe", Home[w], msg>>)
    BY <1>2 DEF Asker, Innermost, WorkPlace
  <2> QED
    BY <2>1, <2>2
<1> QED
  BY <1>1, <1>2 DEF WorksFor

LEMMA ReplyPlaces ==
  ASSUME NEW c \in Clients, Replied(c)
  PROVE  \E p \in InFlight : Asker(p) = c /\ ReplyPlace(p)
<1>1. CASE c \in toClient
  <2>1. <<"client", c, <<c>>>> \in InFlight
    BY <1>1, Places DEF Held6
  <2>2. Asker(<<"client", c, <<c>>>>) = c /\ ReplyPlace(<<"client", c, <<c>>>>)
    BY DEF Asker, ReplyPlace
  <2> QED
    BY <2>1, <2>2
<1>2. ASSUME NEW msg \in cloudbe[Home[c]], Innermost(msg) = c
      PROVE  \E p \in InFlight : Asker(p) = c /\ ReplyPlace(p)
  <2>1. <<"cloudbe", Home[c], msg>> \in InFlight
    BY <1>2, Places, HomeAssumption DEF Held6, Held
  <2>2. /\ Asker(<<"cloudbe", Home[c], msg>>) = c
        /\ ReplyPlace(<<"cloudbe", Home[c], msg>>)
    BY <1>2 DEF Asker, Innermost, ReplyPlace
  <2> QED
    BY <2>1, <2>2
<1> QED
  BY <1>1, <1>2 DEF Replied

LEMMA NotYetReplied ==
  ASSUME OneCopy, NEW c \in Clients, NEW p \in InFlight, Asker(p) = c,
         ~ReplyPlace(p)
  PROVE  client[c] = "recv" /\ ~Replied(c)
<1>1. client[c] = "recv"
  BY OnePlace
<1> QED
  BY <1>1, OnePlace, ReplyPlaces

LEMMA OneWorker ==
  ASSUME IInv, NEW c \in Clients, NEW w \in Workers, WorksFor(w, c)
  PROVE  /\ client[c] = "recv" /\ ~Replied(c)
         /\ \A v \in Workers : WorksFor(v, c) => v = w
         /\ \A d \in Clients : WorksFor(w, d) => d = c
<1> USE DEF IInv
<1>1. PICK p \in InFlight : Asker(p) = c /\ WorkPlace(w, p)
  BY WorkPlaces
<1>2. ~ReplyPlace(p)
  BY <1>1 DEF WorkPlace, ReplyPlace
<1>3. \A v \in Workers : WorkPlace(v, p) => v = w
  BY <1>1 DEF WorkPlace
<1>4. \A v \in Workers : WorksFor(v, c) => v = w
  BY <1>1, <1>3, OnePlace, WorkPlaces
<1>5. \A d \in Clients : WorksFor(w, d) => d = c
  BY DEF WorksFor, FreeWorkers, OneTask
<1> QED
  BY <1>1, <1>2, <1>4, <1>5, NotYetReplied

-----------------------------------------------------------------------------
(* What the abstract variables are.                                        *)

LEMMA Jobs ==
  IInv => \A w \in Workers :
    /\ \A c \in Clients : WorksFor(w, c) => jobBar[w] = c
    /\ (\A c \in Clients : ~WorksFor(w, c)) => jobBar[w] = NoClient
<1> SUFFICES ASSUME IInv, NEW w \in Workers
             PROVE  Jobs!2!(w)
  OBVIOUS
<1>1. ASSUME NEW c \in Clients, WorksFor(w, c) PROVE jobBar[w] = c
  <2>1. (CHOOSE d \in Clients : WorksFor(w, d)) = c
    BY <1>1, OneWorker
  <2> QED
    BY <1>1, <2>1 DEF jobBar
<1>2. (\A c \in Clients : ~WorksFor(w, c)) => jobBar[w] = NoClient
  BY DEF jobBar
<1> QED
  BY <1>1, <1>2

LEMMA JobsNext ==
  IInv' => \A w \in Workers :
    /\ \A c \in Clients : WorksFor(w, c)' => jobBar'[w] = c
    /\ (\A c \in Clients : ~WorksFor(w, c)') => jobBar'[w] = NoClient
<1>1. (IInv => \A w \in Workers :
         /\ \A c \in Clients : WorksFor(w, c) => jobBar[w] = c
         /\ (\A c \in Clients : ~WorksFor(w, c)) => jobBar[w] = NoClient)'
  BY Jobs, PTL
<1> QED
  BY <1>1

(* Steps that change no work leave the abstract jobs alone. *)
LEMMA SameJobs ==
  ASSUME IInv, IInv',
         \A c \in Clients, w \in Workers : WorksFor(w, c)' <=> WorksFor(w, c)
  PROVE  jobBar' = jobBar
<1>1. \A w \in Workers : jobBar'[w] = jobBar[w]
  BY Jobs, JobsNext
<1> QED
  BY <1>1 DEF jobBar

(* Steps that change no progress, no work and no list are not seen. *)
LEMMA Unseen ==
  ASSUME IInv, IInv', UNCHANGED client,
         \A w \in Workers : Listed(w)' <=> Listed(w),
         \A c \in Clients, w \in Workers : WorksFor(w, c)' <=> WorksFor(w, c),
         \A c \in Clients : Replied(c)' <=> Replied(c)
  PROVE  UNCHANGED LB!vars
<1>1. \A c \in Clients : Progress(c)' = Progress(c)
  BY DEF Progress
<1>2. requestBar' = requestBar
  BY <1>1 DEF requestBar
<1>3. idleBar' = idleBar
  BY DEF idleBar
<1> QED
  BY <1>2, <1>3, SameJobs DEF LB!vars

(* One request gets on. *)
LEMMA OneAdvances ==
  ASSUME NEW c \in Clients,
         \A d \in Clients \ {c} : Progress(d)' = Progress(d)
  PROVE  /\ requestBar[c] = Progress(c)
         /\ requestBar' = [requestBar EXCEPT ![c] = Progress(c)']
BY DEF requestBar

-----------------------------------------------------------------------------
(* Every step of the brokers, clients and workers is one of the abstract   *)
(* load balancer or is not seen.                                           *)

LEMMA InitRefines == Init => LB!Init
<1> SUFFICES ASSUME Init PROVE LB!Init
  OBVIOUS
<1>1. \A w \in Workers, c \in Clients : ~WorksFor(w, c)
  BY HomeAssumption DEF Init, WorksFor
<1>2. \A w \in Workers : ~Listed(w)
  BY HomeAssumption DEF Init, Listed
<1>3. requestBar = [c \in Clients |-> "none"]
  BY DEF Init, requestBar, Progress
<1>4. jobBar = [w \in Workers |-> NoClient]
  BY <1>1 DEF jobBar
<1>5. idleBar = {}
  BY <1>2 DEF idleBar
<1> QED
  BY <1>3, <1>4, <1>5 DEF LB!Init

LEMMA ClientSendRefines ==
  ASSUME IInv, IInv', NEW c \in Clients, ClientSend(c)
  PROVE  LB!Next
<1> USE DEF IInv, Shape
<1>1. /\ client[c] = "send" /\ client' = [client EXCEPT ![c] = "recv"]
      /\ UNCHANGED <<workers, cloudbe, localbe, toWorker, toClient>>
  BY DEF ClientSend, brokerVars
<1>2. \A d \in Clients, w \in Workers : WorksFor(w, d)' <=> WorksFor(w, d)
  BY <1>1 DEF WorksFor
<1>3. \A w \in Workers : Listed(w)' <=> Listed(w)
  BY <1>1 DEF Listed
<1>4. \A w \in Workers : ~WorksFor(w, c)
  BY <1>1, OneWorker
<1>5. \A d \in Clients : Replied(d)' <=> Replied(d)
  BY <1>1 DEF Replied
<1>6. ~Replied(c)
  <2>1. \A p \in InFlight : Asker(p) # c
    BY <1>1, OnePlace
  <2>2. c \notin toClient
    <3>1. c \in toClient => <<"client", c, <<c>>>> \in InFlight
      BY Places DEF Held6
    <3>2. Asker(<<"client", c, <<c>>>>) = c
      BY DEF Asker
    <3> QED
      BY <2>1, <3>1, <3>2
  <2>3. \A msg \in cloudbe[Home[c]] : Innermost(msg) # c
    <3>1. ASSUME NEW msg \in cloudbe[Home[c]], Innermost(msg) = c PROVE FALSE
      <4>1. <<"cloudbe", Home[c], msg>> \in InFlight
        BY Places, HomeAssumption DEF Held6, Held
      <4> QED
        BY <2>1, <3>1, <4>1 DEF Asker, Innermost
    <3> QED
      BY <3>1
  <2> QED
    BY <2>2, <2>3 DEF Replied
<1>7. client'[c] = "recv" /\ \A d \in Clients \ {c} : client'[d] = client[d]
  BY <1>1 DEF TypeOK
<1>8. Progress(c) = "none" /\ Progress(c)' = "waiting"
  BY <1>1, <1>2, <1>4, <1>5, <1>6, <1>7 DEF Progress
<1>9. \A d \in Clients \ {c} : Progress(d)' = Progress(d)
  BY <1>2, <1>5, <1>7 DEF Progress
<1>10. idleBar' = idleBar
  BY <1>3 DEF idleBar
<1>11. jobBar' = jobBar
  BY <1>2, SameJobs
<1> QED
  BY <1>8, <1>9, <1>10, <1>11, OneAdvances DEF LB!Next, LB!Ask

LEMMA ClientRecvRefines ==
  ASSUME IInv, IInv', NEW c \in Clients, ClientRecv(c)
  PROVE  LB!Next
<1>1. /\ client[c] = "recv" /\ c \in toClient /\ toClient' = toClient \ {c}
      /\ client' = [client EXCEPT ![c] = "send"]
      /\ UNCHANGED <<workers, cloudbe, localbe, toWorker>>
  BY DEF ClientRecv, brokerVars
<1>2. \A d \in Clients, w \in Workers : WorksFor(w, d)' <=> WorksFor(w, d)
  BY <1>1 DEF WorksFor
<1>3. client'[c] = "send" /\ \A d \in Clients \ {c} : client'[d] = client[d]
  BY <1>1 DEF IInv, Shape, TypeOK
<1>4. \A d \in Clients \ {c} : Progress(d)' = Progress(d)
  BY <1>1, <1>2, <1>3 DEF Progress, Replied
<1>5. Progress(c) = "answered" /\ Progress(c)' = "none"
  BY <1>1, <1>3 DEF Progress, Replied
<1>6. idleBar' = idleBar
  BY <1>1 DEF idleBar, Listed
<1>7. jobBar' = jobBar
  BY <1>2, SameJobs
<1> QED
  BY <1>4, <1>5, <1>6, <1>7, OneAdvances DEF LB!Next, LB!Take

LEMMA WorkerRefines ==
  ASSUME IInv, IInv', NEW w \in Workers, WorkerStep(w)
  PROVE  UNCHANGED LB!vars
<1> USE DEF IInv, Shape
<1>1. UNCHANGED <<workers, client, cloudbe, toClient>>
  BY DEF WorkerStep, WorkerReady, WorkerServe, brokerVars, threadVars
<1>2. Home[w] \in Brokers /\ \A v \in Workers : Home[v] \in Brokers
  BY HomeAssumption
<1>3. CASE WorkerReady(w)
  <2>1. /\ UNCHANGED toWorker
        /\ \A v \in Workers : \A msg :
             msg \in localbe'[Home[v]] <=>
               \/ msg \in localbe[Home[v]]
               \/ pattern = "REQ" /\ Home[v] = Home[w] /\ msg = <<w, READY>>
    BY <1>2, <1>3 DEF WorkerReady, TypeOK, Put
  <2>2. \A c \in Clients : Innermost(<<w, READY>>) # c
    <3>1. Innermost(<<w, READY>>) = READY
      BY DEF Innermost
    <3> QED
      BY <3>1, NamesAssumption
  <2>3. \A c \in Clients, v \in Workers : WorksFor(v, c)' <=> WorksFor(v, c)
    BY <2>1, <2>2 DEF WorksFor
  <2> QED
    BY <1>1, <2>3, Unseen DEF Listed, Replied
<1>4. ASSUME NEW msg \in toWorker[w], WorkerServe(w, msg)
      PROVE  UNCHANGED LB!vars
  <2> DEFINE reply == <<w>> \o msg
  <2>1. Head(reply) = w /\ Innermost(reply) = Innermost(msg)
    <3>1. PICK c \in Clients :
            \/ msg = <<c>> /\ reply = <<w, c>>
            \/ msg = <<Home[c], c>> /\ reply = <<w, Home[c], c>>
      BY Served
    <3>2. /\ Innermost(<<c>>) = c /\ Innermost(<<w, c>>) = c
          /\ Innermost(<<Home[c], c>>) = c /\ Innermost(<<w, Home[c], c>>) = c
      BY DEF Innermost
    <3> HIDE DEF reply
    <3> QED
      BY <3>1, <3>2
  <2>2. /\ toWorker' = Drop(toWorker, w, msg)
        /\ localbe' = Put(localbe, Home[w], reply)
    BY <1>4 DEF WorkerServe
  <2> HIDE DEF reply
  <2>3. /\ \A m \in toWorker[w] : m = msg
        /\ toWorker'[w] = {}
        /\ \A v \in Workers \ {w} : toWorker'[v] = toWorker[v]
    BY <2>2 DEF FreeWorkers, OneTask, TypeOK, Drop
  <2>4. \A v \in Workers : \A m : m \in localbe'[Home[v]] <=>
          m \in localbe[Home[v]] \/ (Home[v] = Home[w] /\ m = reply)
    BY <1>2, <2>2 DEF TypeOK, Put
  <2>5. \A c \in Clients, v \in Workers : WorksFor(v, c)' <=> WorksFor(v, c)
    BY <2>1, <2>3, <2>4 DEF WorksFor
  <2> QED
    BY <1>1, <2>5, Unseen DEF Listed, Replied
<1> QED
  BY <1>3, <1>4 DEF WorkerStep

(* What reading a worker's message does to the abstract variables. *)
LEMMA WorkerRead ==
  ASSUME IInv, NEW b \in Brokers, NEW w \in Workers, Home[w] = b, NEW msg,
         FromWorker(b, w, msg), UNCHANGED toWorker
  PROVE  /\ \A v \in Workers : \A d : WorksFor(v, d)' <=> WorksFor(v, d) /\ v # w
         /\ \A v \in Workers : Listed(v)' <=> Listed(v) \/ v = w
         /\ ~Listed(w)
         /\ \A d : WorksFor(w, d) <=> Innermost(msg) = d
<1> USE DEF IInv, Shape, FreeWorkers
<1>1. /\ msg \in localbe[b] /\ Head(msg) = w
      /\ \A m : m \in localbe'[b] <=> m \in localbe[b] /\ m # msg
      /\ \A a \in Brokers \ {b} : localbe'[a] = localbe[a]
      /\ workers' = [workers EXCEPT ![b] = Append(@, w)]
  BY DEF FromWorker, TypeOK, Drop
<1>2. \A v \in Workers : Home[v] \in Brokers
  BY HomeAssumption
<1>3. /\ toWorker[w] = {}
      /\ \A m \in localbe[b] : Head(m) = w => m = msg
  BY <1>1 DEF OneTask
<1>4. \A d : WorksFor(w, d) <=> Innermost(msg) = d
  BY <1>1, <1>3 DEF WorksFor
<1>5. \A v \in Workers : \A d : WorksFor(v, d)' <=> WorksFor(v, d) /\ v # w
  BY <1>1, <1>2, <1>3 DEF WorksFor
<1>6. ~Occurs(w, workers[b])
  BY <1>1 DEF ListsFree, Quiet
<1>7. \A v \in Workers : Occurs(v, workers'[Home[v]]) <=>
                           Occurs(v, workers[Home[v]]) \/ v = w
  <2>1. workers[b] \in Seq(Workers) /\ NoRepeat(workers[b])
    BY DEF ListsFree, TypeOK
  <2>2. \A v : Occurs(v, Append(workers[b], w)) <=>
                 Occurs(v, workers[b]) \/ v = w
    BY <1>6, <2>1, Enqueue
  <2>3. \A a \in Brokers : workers'[a] = IF a = b THEN Append(workers[b], w)
                                         ELSE workers[a]
    BY <1>1 DEF TypeOK
  <2> QED
    BY <1>2, <2>2, <2>3
<1>8. \A v \in Workers : Listed(v)' <=> Occurs(v, workers'[Home[v]])
  BY DEF Listed, Occurs
<1> QED
  BY <1>4, <1>5, <1>6, <1>7, <1>8, ListedOccurs

LEMMA EnlistRefines ==
  ASSUME IInv, IInv', NEW b \in Brokers, NEW w \in Workers, Home[w] = b,
         FromWorker(b, w, <<w, READY>>),
         UNCHANGED <<client, toWorker, cloudbe, toClient>>
  PROVE  LB!Enlist(w)
<1>1. \A c \in Clients : ~WorksFor(w, c)
  <2>1. Innermost(<<w, READY>>) = READY
    BY DEF Innermost
  <2> QED
    BY <2>1, WorkerRead, NamesAssumption
<1>2. \A v \in Workers, c \in Clients : WorksFor(v, c)' <=> WorksFor(v, c)
  BY <1>1, WorkerRead
<1>3. \A c \in Clients : Progress(c)' = Progress(c)
  BY <1>2 DEF Progress, Replied
<1>4. requestBar' = requestBar
  BY <1>3 DEF requestBar
<1>5. jobBar' = jobBar /\ jobBar[w] = NoClient
  BY <1>1, <1>2, SameJobs, Jobs
<1>6. w \notin idleBar /\ idleBar' = idleBar \union {w}
  BY WorkerRead DEF idleBar
<1> QED
  BY <1>4, <1>5, <1>6 DEF LB!Enlist

LEMMA AnswerRefines ==
  ASSUME IInv, IInv', NEW b \in Brokers, NEW w \in Workers, Home[w] = b,
         NEW msg, FromWorker(b, w, msg), NEW c \in Clients, Innermost(msg) = c,
         \A d \in Clients : Replied(d)' <=> Replied(d) \/ d = c,
         UNCHANGED <<client, toWorker>>
  PROVE  LB!Answer(w)
<1>1. WorksFor(w, c)
  BY WorkerRead
<1>2. /\ client[c] = "recv" /\ ~Replied(c)
      /\ \A d \in Clients \ {c} : ~WorksFor(w, d)
  BY <1>1, OneWorker
<1>3. \A d \in Clients \ {c} : Progress(d)' = Progress(d)
  BY <1>2, WorkerRead DEF Progress
<1>4. Progress(c) = "assigned" /\ Progress(c)' = "answered"
  BY <1>1, <1>2 DEF Progress
<1>5. /\ requestBar[c] = "assigned"
      /\ requestBar' = [requestBar EXCEPT ![c] = "answered"]
  BY <1>3, <1>4, OneAdvances
<1>6. jobBar[w] = c /\ jobBar[w] # NoClient
  BY <1>1, Jobs, NamesAssumption DEF NoClient
<1>7. jobBar' = [jobBar EXCEPT ![w] = NoClient]
  <2>1. \A v \in Workers : jobBar'[v] = IF v = w THEN NoClient ELSE jobBar[v]
    BY WorkerRead, Jobs, JobsNext
  <2> QED
    BY <2>1 DEF jobBar
<1>8. idleBar' = idleBar \union {w}
  BY WorkerRead DEF idleBar
<1> QED
  BY <1>5, <1>6, <1>7, <1>8 DEF LB!Answer

LEMMA LocalBackendRefines ==
  ASSUME IInv, IInv', NEW b \in Brokers, LocalBackend(b)
  PROVE  LB!Next
<1> USE DEF IInv, Shape
<1>1. PICK w, msg : w \in Workers /\ Home[w] = b /\ FromWorker(b, w, msg)
  BY LocalBackendRoutes
<1>2. UNCHANGED <<client, toWorker>>
  BY DEF LocalBackend, threadVars
<1>3. CASE msg = <<w, READY>> /\ UNCHANGED <<cloudbe, toClient>>
  BY <1>1, <1>2, <1>3, EnlistRefines DEF LB!Next
<1>4. ASSUME NEW c \in Clients, msg = <<w, c>>, Home[c] = b,
             toClient' = toClient \union {c}, UNCHANGED cloudbe
      PROVE  LB!Next
  <2>1. Innermost(msg) = c
    BY <1>4 DEF Innermost
  <2>2. \A d \in Clients : Replied(d)' <=> Replied(d) \/ d = c
    BY <1>2, <1>4 DEF Replied
  <2> QED
    BY <1>1, <1>2, <2>1, <2>2, AnswerRefines DEF LB!Next
<1>5. ASSUME NEW c \in Clients, Home[c] \in Peers[b], msg = <<w, Home[c], c>>,
             cloudbe' = Put(cloudbe, Home[c], <<b, c>>), UNCHANGED toClient
      PROVE  LB!Next
  <2>1. Innermost(msg) = c /\ Innermost(<<b, c>>) = c
    BY <1>5 DEF Innermost
  <2>2. \A a \in Brokers : \A m : m \in cloudbe'[a] <=>
          m \in cloudbe[a] \/ (a = Home[c] /\ m = <<b, c>>)
    BY <1>5, HomeAssumption DEF Put, TypeOK
  <2>3. \A d \in Clients : Replied(d)' <=> Replied(d) \/ d = c
    BY <1>2, <1>5, <2>1, <2>2, HomeAssumption DEF Replied
  <2> QED
    BY <1>1, <1>2, <2>1, <2>3, AnswerRefines DEF LB!Next
<1> QED
  BY <1>1, <1>3, <1>4, <1>5 DEF FromWorker

LEMMA CloudBackendRefines ==
  ASSUME IInv, IInv', NEW b \in Brokers, CloudBackend(b)
  PROVE  UNCHANGED LB!vars
<1> USE DEF IInv, Shape
<1>1. PICK peer \in Peers[b], c \in Clients : FromPeer(b, peer, c)
  BY CloudBackendRoutes
<1>2. UNCHANGED <<workers, client, localbe, toWorker>>
  BY DEF CloudBackend, threadVars
<1>3. Innermost(<<peer, c>>) = c
  BY DEF Innermost
<1>4. \A a \in Brokers : \A m : m \in cloudbe'[a] <=>
        m \in cloudbe[a] /\ ~(a = b /\ m = <<peer, c>>)
  BY <1>1 DEF FromPeer, Drop, TypeOK
<1>5. /\ Home[c] = b /\ <<peer, c>> \in cloudbe[b]
      /\ toClient' = toClient \union {c}
  BY <1>1 DEF FromPeer
<1>6. \A d \in Clients : Replied(d)' <=> Replied(d)
  BY <1>2, <1>3, <1>4, <1>5, HomeAssumption DEF Replied
<1> QED
  BY <1>2, <1>6, Unseen DEF Listed, WorksFor

(* A request that is kept is assigned to the worker that has waited longest. *)
LEMMA KeptRefines ==
  ASSUME IInv, IInv', NEW b \in Brokers, NEW msg, Kept(b, msg),
         capacity[b] > 0, UNCHANGED <<threadVars, localbe, toClient>>
  PROVE  LB!Next
<1> USE DEF IInv, Shape, FreeWorkers
<1> DEFINE q == workers[b]
           w == Head(q)
<1>1. q \in Seq(Workers) /\ NoRepeat(q) /\ q # <<>>
  BY DEF ListsFree, TypeOK
<1>2. /\ w \in Workers /\ Occurs(w, q)
      /\ \A v : Occurs(v, Tail(q)) <=> Occurs(v, q) /\ v # w
  BY <1>1, Dequeue
<1>3. /\ workers' = [workers EXCEPT ![b] = Tail(q)]
      /\ toWorker' = Put(toWorker, w, msg)
      /\ UNCHANGED <<cloudbe, client>>
  BY DEF Kept, Assign, threadVars
<1>4. Home[w] = b /\ Quiet(w)
  BY <1>2 DEF ListsFree
<1>5. \A a \in Brokers : workers'[a] = IF a = b THEN Tail(q) ELSE workers[a]
  BY <1>3 DEF TypeOK
<1> HIDE DEF w
<1>6. \A v \in Workers : Listed(v)' <=> Listed(v) /\ v # w
  <2>1. \A v \in Workers : Listed(v)' <=> Occurs(v, workers'[Home[v]])
    BY DEF Listed, Occurs
  <2> QED
    BY <1>2, <1>4, <1>5, <2>1, ListedOccurs, HomeAssumption
<1>7. \A v \in Workers : toWorker'[v] = IF v = w THEN {msg} ELSE toWorker[v]
  BY <1>2, <1>3, <1>4 DEF TypeOK, Put, Quiet
<1>8. PICK c \in Clients : Innermost(msg) = c
  <2>1. \A x, y : Innermost(<<x>>) = x /\ Innermost(<<x, y>>) = y
    BY DEF Innermost
  <2>2. PICK c \in Clients : msg = <<c>> \/ msg = <<Home[c], c>>
    BY DEF Kept, Envelopes
  <2> QED
    BY <2>1, <2>2
<1>9. client[c] = "recv" /\ ~Replied(c) /\ \A v \in Workers : ~WorksFor(v, c)
  <2>1. PICK p \in InFlight : /\ Asker(p) = c
                              /\ \/ p = <<"cloudfe", b, msg>>
                                 \/ p = <<"localfe", b, msg>>
    <3>1. \/ <<"cloudfe", b, msg>> \in InFlight
          \/ <<"localfe", b, msg>> \in InFlight
      BY Places DEF Kept, Held6, Held
    <3>2. Asker(<<"cloudfe", b, msg>>) = c /\ Asker(<<"localfe", b, msg>>) = c
      BY <1>8 DEF Asker, Innermost
    <3> QED
      BY <3>1, <3>2
  <2>2. ~ReplyPlace(p) /\ \A v \in Workers : ~WorkPlace(v, p)
    BY <2>1 DEF ReplyPlace, WorkPlace
  <2>3. \A v \in Workers : ~WorksFor(v, c)
    BY <2>1, <2>2, OnePlace, WorkPlaces
  <2> QED
    BY <2>1, <2>2, <2>3, NotYetReplied
<1>10. \A v \in Workers, d \in Clients :
         WorksFor(v, d)' <=> WorksFor(v, d) \/ (v = w /\ d = c)
  BY <1>4, <1>7, <1>8 DEF WorksFor, Quiet
<1>11. \A d \in Clients : Replied(d)' <=> Replied(d)
  BY <1>3 DEF Replied
<1>12. \A d \in Clients \ {c} : Progress(d)' = Progress(d)
  BY <1>3, <1>10, <1>11 DEF Progress
<1>13. Progress(c) = "waiting" /\ Progress(c)' = "assigned"
  BY <1>2, <1>3, <1>9, <1>10, <1>11 DEF Progress
<1>14. /\ requestBar[c] = "waiting"
       /\ requestBar' = [requestBar EXCEPT ![c] = "assigned"]
  BY <1>12, <1>13, OneAdvances
<1>15. jobBar' = [jobBar EXCEPT ![w] = c]
  <2>1. \A v \in Workers : jobBar'[v] = IF v = w THEN c ELSE jobBar[v]
    BY <1>10, Jobs, JobsNext
  <2> QED
    BY <2>1 DEF jobBar
<1>16. w \in idleBar /\ idleBar' = idleBar \ {w}
  BY <1>2, <1>4, <1>6, ListedOccurs DEF idleBar
<1> QED
  BY <1>2, <1>14, <1>15, <1>16 DEF LB!Next, LB!Assign

LEMMA FrontendsRefine ==
  ASSUME IInv, IInv', NEW b \in Brokers, Frontends(b)
  PROVE  [LB!Next]_LB!vars
<1>1. capacity[b] > 0 /\ UNCHANGED <<threadVars, localbe, toClient>>
  BY DEF Frontends
<1>2. ASSUME NEW msg, Kept(b, msg) PROVE LB!Next
  BY <1>1, <1>2, KeptRefines
<1>3. ASSUME NEW peer \in Peers[b], NEW c \in Clients, PassedOn(b, peer, c)
      PROVE  UNCHANGED LB!vars
  BY <1>1, <1>3, Unseen DEF PassedOn, Listed, WorksFor, Replied, threadVars
<1> QED
  BY <1>2, <1>3, FrontendsRoute DEF IInv, Shape

LEMMA StepRefines ==
  ASSUME IInv, [Next]_vars PROVE [LB!Next]_LB!vars
<1>0. IInv'
  BY StepKeepsInv
<1>1. ASSUME NEW c \in Clients, ClientStep(c) PROVE [LB!Next]_LB!vars
  BY <1>0, <1>1, ClientSendRefines, ClientRecvRefines DEF ClientStep
<1>2. ASSUME NEW w \in Workers, WorkerStep(w) PROVE [LB!Next]_LB!vars
  BY <1>0, <1>2, WorkerRefines
<1>3. ASSUME UNCHANGED <<workers, threadVars, socketVars>>
      PROVE  UNCHANGED LB!vars
  BY <1>0, <1>3, Unseen
     DEF Listed, WorksFor, Replied, threadVars, socketVars
<1>4. ASSUME NEW b \in Brokers, Enter(b) \/ BrokerStep(b)
      PROVE  [LB!Next]_LB!vars
  <2>1. CASE LocalBackend(b)
    BY <1>0, <2>1, LocalBackendRefines
  <2>2. CASE CloudBackend(b)
    BY <1>0, <2>2, CloudBackendRefines
  <2>3. CASE Frontends(b)
    BY <1>0, <2>3, FrontendsRefine
  <2>4. CASE Enter(b) \/ BackendsSilent(b) \/ FrontendsDone(b)
    BY <1>3, <2>4 DEF Enter, BackendsSilent, FrontendsDone
  <2> QED
    BY <1>4, <2>1, <2>2, <2>3, <2>4 DEF BrokerStep
<1>5. CASE UNCHANGED vars
  BY <1>3, <1>5 DEF vars, brokerVars
<1> QED
  BY <1>1, <1>2, <1>4, <1>5 DEF Next

(* lcflow.c as a whole: brokers that pass requests on to each other serve  *)
(* every request of every client as a single load balancer would: one      *)
(* listed worker gets it, and the answer to it reaches its client.         *)
THEOREM Refinement == Spec => ImplementsLoadBalancing
BY InitRefines, StepRefines, Invariance, PTL
   DEF Spec, ImplementsLoadBalancing, LB!Spec

=============================================================================
