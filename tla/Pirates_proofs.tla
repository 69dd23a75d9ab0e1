--------------------------- MODULE Pirates_proofs ---------------------------
(***************************************************************************)
(* The safety of src/src/ppq for any workers, identities and requests, and *)
(* any times: with every interleaving of deadlines and messages, crashes   *)
(* and restarts, and, for the terms of the workers, under promptness.      *)
(* Then that of the clients of src/src/lpp with this queue for a server.   *)
(***************************************************************************)
EXTENDS Pirates, SequenceTheorems, FunctionTheorems, FiniteSetTheorems,
        WellFoundedInduction, TLAPS

-----------------------------------------------------------------------------
(* The queue's list, as RegistryOrdered wants it, and the operations on it.*)

Sorted(list) ==
  \A k, n \in DOMAIN list : k < n =>
    /\ list[k].identity # list[n].identity
    /\ list[k].expiry <= list[n].expiry

(* What an operation leaves on the list was there before. *)
DrawnFrom(new, old) == \A k \in DOMAIN new : \E n \in DOMAIN old : new[k] = old[n]

LEMMA LeastNumber ==
  ASSUME NEW T, T \subseteq Nat, T # {}
  PROVE  \E x \in T : \A y \in T : x <= y
<1>1. PICK x \in T : \A y \in T : ~(<<y, x>> \in OpToRel(<, Nat))
  BY NatLessThanWellFounded, WFMin
<1>2. \A y \in T : ~(y < x)
  BY <1>1 DEF OpToRel
<1> QED
  BY <1>2

LEMMA Lists ==
  ASSUME NEW list \in Seq(Entry)
  PROVE  /\ Len(list) \in Nat /\ DOMAIN list = 1 .. Len(list)
         /\ \A k \in DOMAIN list :
              /\ list[k] \in Entry /\ list[k].identity \in Ids
              /\ list[k].expiry \in 0 .. EXPIRY
         /\ list = <<>> <=> Len(list) = 0
<1>1. Len(list) \in Nat /\ DOMAIN list = 1 .. Len(list)
  BY LenProperties
<1>2. \A k \in DOMAIN list : list[k] \in Entry
  BY <1>1, ElementOfSeq
<1>3. \A e \in Entry : e.identity \in Ids /\ e.expiry \in 0 .. EXPIRY
  BY DEF Entry
<1>4. list = <<>> <=> Len(list) = 0
  BY EmptySeq
<1> QED
  BY <1>1, <1>2, <1>3, <1>4

LEMMA TermIsNat == EXPIRY \in Nat
BY TimesAssumption DEF EXPIRY

(* A part of a sorted list from place m to place n. *)
LEMMA Part ==
  ASSUME NEW list \in Seq(Entry), Sorted(list),
         NEW m \in 1 .. Len(list) + 1, NEW n \in 0 .. Len(list)
  PROVE  /\ SubSeq(list, m, n) \in Seq(Entry)
         /\ Len(SubSeq(list, m, n)) = IF m <= n THEN n - m + 1 ELSE 0
         /\ \A i \in 1 .. n - m + 1 :
              m + i - 1 \in DOMAIN list /\ SubSeq(list, m, n)[i] = list[m + i - 1]
         /\ Sorted(SubSeq(list, m, n)) /\ DrawnFrom(SubSeq(list, m, n), list)
<1> DEFINE s == SubSeq(list, m, n)
<1>1. /\ Len(list) \in Nat /\ DOMAIN list = 1 .. Len(list)
      /\ \A i \in m .. n : list[i] \in Entry
  BY Lists
<1>2. /\ s \in Seq(Entry) /\ Len(s) = IF m <= n THEN n - m + 1 ELSE 0
      /\ \A i \in 1 .. n - m + 1 : s[i] = list[m + i - 1]
  BY <1>1, SubSeqProperties
<1> HIDE DEF s
<1>3. DOMAIN s = 1 .. Len(s)
  BY <1>2, Lists
<1>4. \A i \in 1 .. n - m + 1 : m + i - 1 \in DOMAIN list
  BY <1>1
<1>5. \A i \in DOMAIN s : i \in 1 .. n - m + 1
  BY <1>1, <1>2, <1>3
<1>6. Sorted(s)
  <2> SUFFICES ASSUME NEW i \in DOMAIN s, NEW j \in DOMAIN s, i < j
               PROVE  /\ s[i].identity # s[j].identity
                      /\ s[i].expiry <= s[j].expiry
    BY DEF Sorted
  <2>1. /\ m + i - 1 \in DOMAIN list /\ m + j - 1 \in DOMAIN list
        /\ m + i - 1 < m + j - 1
        /\ s[i] = list[m + i - 1] /\ s[j] = list[m + j - 1]
    BY <1>1, <1>2, <1>4, <1>5
  <2> QED
    BY <2>1 DEF Sorted
<1>7. DrawnFrom(s, list)
  BY <1>2, <1>4, <1>5 DEF DrawnFrom
<1> QED
  BY <1>2, <1>4, <1>6, <1>7 DEF s

LEMMA TailFacts ==
  ASSUME NEW list \in Seq(Entry), Sorted(list), list # <<>>
  PROVE  /\ Tail(list) \in Seq(Entry) /\ Sorted(Tail(list))
         /\ DrawnFrom(Tail(list), list) /\ Head(list) \in Entry
<1>1. Tail(list) = SubSeq(list, 2, Len(list)) /\ Head(list) \in Entry
  BY TailIsSubSeq, HeadTailProperties
<1>2. Len(list) \in Nat \ {0}
  BY Lists
<1>3. 2 \in 1 .. Len(list) + 1 /\ Len(list) \in 0 .. Len(list)
  BY <1>2
<1> QED
  BY <1>1, <1>3, Part

LEMMA PurgeFacts ==
  ASSUME NEW list \in Seq(Entry), Sorted(list)
  PROVE  /\ Purge(list) \in Seq(Entry) /\ Sorted(Purge(list))
         /\ DrawnFrom(Purge(list), list)
         /\ \A k \in DOMAIN Purge(list) : Purge(list)[k].expiry > 0
<1>0. /\ Len(list) \in Nat /\ DOMAIN list = 1 .. Len(list)
      /\ \A k \in DOMAIN list : list[k].expiry \in Nat
  BY Lists, TermIsNat
<1>1. CASE \A k \in DOMAIN list : list[k].expiry = 0
  <2>1. Purge(list) = <<>> /\ DOMAIN <<>> = {}
    BY <1>1 DEF Purge
  <2> QED
    BY <2>1, EmptySeq DEF Sorted, DrawnFrom
<1>2. CASE ~ \A k \in DOMAIN list : list[k].expiry = 0
  <2> DEFINE First(n) == /\ list[n].expiry > 0
                         /\ \A m \in 1 .. n - 1 : list[m].expiry = 0
             T == {n \in DOMAIN list : list[n].expiry > 0}
  <2>1. \E n \in DOMAIN list : First(n)
    <3>1. T # {} /\ T \subseteq Nat
      BY <1>0, <1>2
    <3>2. PICK n \in T : \A m \in T : n <= m
      BY <3>1, LeastNumber
    <3>3. \A m \in 1 .. n - 1 : m \in DOMAIN list /\ m \notin T
      BY <1>0, <3>2
    <3> QED
      BY <1>0, <3>2, <3>3
  <2> DEFINE k == CHOOSE n \in DOMAIN list : First(n)
  <2>2. k \in DOMAIN list /\ First(k)
    BY <2>1
  <2>3. Purge(list) = SubSeq(list, k, Len(list))
    BY <1>2 DEF Purge
  <2> HIDE DEF k, T
  <2>4. k \in 1 .. Len(list) + 1 /\ Len(list) \in 0 .. Len(list) /\ k <= Len(list)
    BY <1>0, <2>2
  <2> DEFINE s == SubSeq(list, k, Len(list))
  <2>5. /\ s \in Seq(Entry) /\ Len(s) = Len(list) - k + 1
        /\ \A i \in 1 .. Len(list) - k + 1 :
             k + i - 1 \in DOMAIN list /\ s[i] = list[k + i - 1]
        /\ Sorted(s) /\ DrawnFrom(s, list)
    BY <2>4, Part
  <2> HIDE DEF s
  <2>6. \A i \in DOMAIN s : s[i].expiry > 0
    <3> SUFFICES ASSUME NEW i \in DOMAIN s PROVE s[i].expiry > 0
      OBVIOUS
    <3>1. i \in 1 .. Len(list) - k + 1
      BY <2>5, Lists
    <3>2. k + i - 1 \in DOMAIN list /\ s[i] = list[k + i - 1] /\ k <= k + i - 1
      <4>1. k \in Nat /\ i \in Nat /\ i >= 1
        BY <1>0, <2>4, <3>1
      <4>2. k <= k + i - 1
        BY <4>1
      <4> QED
        BY <2>5, <3>1, <4>2
    <3>3. list[k].expiry <= list[k + i - 1].expiry
      <4> DEFINE j == k + i - 1
      <4>1. k \in DOMAIN list /\ j \in DOMAIN list /\ (k = j \/ k < j)
        BY <2>2, <2>4, <3>1, <3>2
      <4>2. list[k].expiry \in Nat
        BY <1>0, <4>1
      <4> HIDE DEF j
      <4>3. list[k].expiry <= list[j].expiry
        BY <4>1, <4>2 DEF Sorted
      <4> QED
        BY <4>3 DEF j
    <3> QED
      BY <1>0, <2>2, <3>2, <3>3
  <2> QED
    BY <2>3, <2>5, <2>6 DEF s
<1> QED
  BY <1>1, <1>2

(* With every identity once, the list without its first entry for i is the *)
(* list without i.                                                         *)
LEMMA WithoutFacts ==
  ASSUME NEW list \in Seq(Entry), Sorted(list), NEW i
  PROVE  /\ Without(list, i) \in Seq(Entry) /\ Sorted(Without(list, i))
         /\ DrawnFrom(Without(list, i), list)
         /\ \A k \in DOMAIN Without(list, i) : Without(list, i)[k].identity # i
<1>0. Len(list) \in Nat /\ DOMAIN list = 1 .. Len(list)
  BY Lists
<1>1. CASE i \notin Listed(list)
  BY <1>1 DEF Without, Listed, DrawnFrom
<1>2. CASE i \in Listed(list)
  <2> DEFINE First(n) == /\ list[n].identity = i
                         /\ \A m \in 1 .. n - 1 : list[m].identity # i
  <2>1. \E n \in DOMAIN list : First(n)
    <3>1. PICK n \in DOMAIN list : list[n].identity = i
      BY <1>2 DEF Listed
    <3>2. \A m \in 1 .. n - 1 : m \in DOMAIN list /\ m < n
      BY <1>0
    <3>3. \A m \in 1 .. n - 1 : list[m].identity # i
      BY <3>1, <3>2 DEF Sorted
    <3> QED
      BY <3>1, <3>3
  <2> DEFINE k == CHOOSE n \in DOMAIN list : First(n)
  <2>2. k \in DOMAIN list /\ First(k)
    BY <2>1
  <2> DEFINE head == SubSeq(list, 1, k - 1)
             rest == SubSeq(list, k + 1, Len(list))
             s == head \o rest
  <2>3. Without(list, i) = s
    BY <1>2 DEF Without
  <2> HIDE DEF k
  <2>4. \A n \in DOMAIN list : n # k => list[n].identity # i
    <3>1. k \in Nat
      BY <1>0, <2>2
    <3> SUFFICES ASSUME NEW n \in DOMAIN list, n # k
                 PROVE  list[n].identity # list[k].identity
      BY <2>2
    <3>2. n \in Nat /\ (n < k \/ k < n)
      BY <1>0, <3>1
    <3> QED
      BY <2>2, <3>2 DEF Sorted
  <2>5. /\ 1 \in 1 .. Len(list) + 1 /\ k - 1 \in 0 .. Len(list)
        /\ k + 1 \in 1 .. Len(list) + 1 /\ Len(list) \in 0 .. Len(list)
        /\ k \in 1 .. Len(list)
    BY <1>0, <2>2
  <2>6. /\ head \in Seq(Entry) /\ Len(head) = k - 1
        /\ \A n \in 1 .. k - 1 : head[n] = list[n]
    <3>1. /\ head \in Seq(Entry)
          /\ Len(head) = IF 1 <= k - 1 THEN k - 1 - 1 + 1 ELSE 0
          /\ \A n \in 1 .. k - 1 - 1 + 1 : head[n] = list[1 + n - 1]
      BY <2>5, Part
    <3> HIDE DEF head
    <3> QED
      BY <2>5, <3>1
  <2>7. /\ rest \in Seq(Entry) /\ Len(rest) = Len(list) - k
        /\ \A n \in 1 .. Len(list) - k : rest[n] = list[k + n]
    <3>1. /\ rest \in Seq(Entry)
          /\ Len(rest) = IF k + 1 <= Len(list) THEN Len(list) - (k + 1) + 1
                         ELSE 0
          /\ \A n \in 1 .. Len(list) - (k + 1) + 1 :
               rest[n] = list[k + 1 + n - 1]
      BY <2>5, Part
    <3> HIDE DEF rest
    <3>2. \A l \in Nat : \A m \in 1 .. l :
            /\ l - (m + 1) + 1 = l - m /\ (m + 1 <= l \/ l - m = 0)
            /\ \A n \in 1 .. l - m : m + 1 + n - 1 = m + n
      OBVIOUS
    <3>3. /\ Len(list) - (k + 1) + 1 = Len(list) - k
          /\ k + 1 <= Len(list) \/ Len(list) - k = 0
          /\ \A n \in 1 .. Len(list) - k : k + 1 + n - 1 = k + n
      BY <1>0, <2>5, <3>2
    <3> QED
      BY <3>1, <3>3
  <2> HIDE DEF head, rest
  <2>8. /\ s \in Seq(Entry) /\ Len(s) = Len(head) + Len(rest)
        /\ \A n \in 1 .. Len(head) + Len(rest) :
             s[n] = IF n <= Len(head) THEN head[n] ELSE rest[n - Len(head)]
    BY <2>6, <2>7, ConcatProperties
  <2> HIDE DEF s
  <2> DEFINE at(n) == IF n < k THEN n ELSE n + 1
  <2>9. /\ DOMAIN s = 1 .. Len(list) - 1
        /\ \A n \in DOMAIN s : s[n] = list[at(n)] /\ at(n) \in DOMAIN list
                               /\ at(n) # k
    <3>1. DOMAIN s = 1 .. Len(list) - 1
      BY <1>0, <2>5, <2>6, <2>7, <2>8, Lists
    <3> SUFFICES ASSUME NEW n \in 1 .. Len(list) - 1
                 PROVE  s[n] = list[at(n)] /\ at(n) \in DOMAIN list /\ at(n) # k
      BY <3>1
    <3>2. s[n] = IF n <= k - 1 THEN head[n] ELSE rest[n - (k - 1)]
      BY <1>0, <2>5, <2>6, <2>7, <2>8
    <3>3. CASE n < k
      BY <1>0, <2>5, <2>6, <3>2, <3>3
    <3>4. CASE ~(n < k)
      <4>1. n - (k - 1) \in 1 .. Len(list) - k /\ k + (n - (k - 1)) = n + 1
        BY <1>0, <2>5, <3>4
      <4>2. rest[n - (k - 1)] = list[n + 1]
        BY <2>7, <4>1
      <4> QED
        BY <1>0, <2>5, <3>2, <3>4, <4>2
    <3> QED
      BY <3>3, <3>4
  <2>10. \A m, n \in DOMAIN s : m < n => at(m) < at(n)
    BY <1>0, <2>5, <2>9
  <2> HIDE DEF at
  <2>11. Sorted(s)
    BY <2>9, <2>10 DEF Sorted
  <2>12. DrawnFrom(s, list) /\ \A n \in DOMAIN s : s[n].identity # i
    BY <2>4, <2>9 DEF DrawnFrom
  <2> QED
    BY <2>3, <2>8, <2>11, <2>12
<1> QED
  BY <1>1, <1>2

(* The worker heard from is the last on the list, with a full term. *)
LEMMA WorkerReadyFacts ==
  ASSUME NEW list \in Seq(Entry), Sorted(list), NEW i \in Ids
  PROVE  /\ WorkerReady(list, i) \in Seq(Entry) /\ Sorted(WorkerReady(list, i))
         /\ \A k \in DOMAIN WorkerReady(list, i) :
              LET e == WorkerReady(list, i)[k] IN
                \/ e.identity = i /\ e.expiry = EXPIRY
                \/ e.identity # i /\ \E n \in DOMAIN list : e = list[n]
<1> DEFINE u == Without(list, i)
           e == [identity |-> i, expiry |-> EXPIRY]
           s == Append(u, e)
<1>1. /\ u \in Seq(Entry) /\ Sorted(u) /\ DrawnFrom(u, list)
      /\ \A k \in DOMAIN u : u[k].identity # i
  BY WithoutFacts
<1>2. e \in Entry /\ e.identity = i /\ e.expiry = EXPIRY
  BY TermIsNat DEF Entry
<1> HIDE DEF u, e
<1>3. /\ Len(u) \in Nat /\ DOMAIN u = 1 .. Len(u)
      /\ \A k \in DOMAIN u : u[k].expiry \in 0 .. EXPIRY
  BY <1>1, Lists
<1>4. /\ s \in Seq(Entry) /\ Len(s) = Len(u) + 1
      /\ \A k \in 1 .. Len(u) : s[k] = u[k]
      /\ s[Len(u) + 1] = e
  BY <1>1, <1>2, AppendProperties
<1> HIDE DEF s
<1>5. DOMAIN s = 1 .. Len(u) + 1
  BY <1>4, Lists
<1>6. \A k \in DOMAIN s : \/ k \in DOMAIN u /\ s[k] = u[k]
                          \/ k = Len(u) + 1 /\ s[k] = e
  BY <1>3, <1>4, <1>5
<1>7. Sorted(s)
  <2> SUFFICES ASSUME NEW m \in DOMAIN s, NEW n \in DOMAIN s, m < n
               PROVE  /\ s[m].identity # s[n].identity
                      /\ s[m].expiry <= s[n].expiry
    BY DEF Sorted
  <2>1. m \in DOMAIN u /\ s[m] = u[m]
    BY <1>3, <1>5, <1>6
  <2>2. CASE n \in DOMAIN u /\ s[n] = u[n]
    BY <1>1, <2>1, <2>2 DEF Sorted
  <2>3. CASE s[n] = e
    BY <1>1, <1>2, <1>3, <2>1, <2>3, TermIsNat
  <2> QED
    BY <1>6, <2>2, <2>3
<1>8. \A k \in DOMAIN s : \/ s[k].identity = i /\ s[k].expiry = EXPIRY
                          \/ /\ s[k].identity # i
                             /\ \E n \in DOMAIN list : s[k] = list[n]
  BY <1>1, <1>2, <1>6 DEF DrawnFrom
<1>9. WorkerReady(list, i) = s
  BY DEF WorkerReady, s, u, e
<1> QED
  BY <1>4, <1>7, <1>8, <1>9

-----------------------------------------------------------------------------
(* Types.                                                                  *)

(* A worker process has a connection. *)
Named == \A w \in Workers : pc[w] = "down" <=> conn[w] = None

(* A queue that has ended knows no worker. *)
Stopped == queue = "down" => workers = <<>>

(* Connections are nobody else's. *)
OneSocket ==
  \A w, v \in Workers : conn[w] = conn[v] /\ conn[w] # None => w = v

IInv == TypeOK /\ Named /\ Stopped /\ OneSocket /\ RegistryOrdered

LEMMA OrderedIsSorted == RegistryOrdered <=> Sorted(workers)
BY DEF RegistryOrdered, Sorted

(* Mail stays mail. *)
LEMMA Mail ==
  ASSUME NEW S
  PROVE  /\ <<>> \in Seq(S) /\ \A m \in S : <<m>> \in Seq(S)
         /\ \A s, t \in Seq(S) : s \o t \in Seq(S)
         /\ \A s \in Seq(S), m \in S : Append(s, m) \in Seq(S)
         /\ \A s \in Seq(S) :
              /\ Len(s) \in Nat
              /\ s # <<>> => Tail(s) \in Seq(S) /\ Head(s) \in S
              /\ \A m, n \in Nat : m >= 1 /\ n <= Len(s)
                                => SubSeq(s, m, n) \in Seq(S)
<1>1. <<>> \in Seq(S) /\ \A m \in S : <<m>> \in Seq(S)
  BY EmptySeq
<1>2. \A s, t \in Seq(S) : s \o t \in Seq(S)
  BY ConcatProperties
<1>3. \A s \in Seq(S), m \in S : Append(s, m) \in Seq(S)
  BY AppendProperties
<1>4. ASSUME NEW s \in Seq(S)
      PROVE  /\ Len(s) \in Nat
             /\ s # <<>> => Tail(s) \in Seq(S) /\ Head(s) \in S
             /\ \A m, n \in Nat : m >= 1 /\ n <= Len(s)
                               => SubSeq(s, m, n) \in Seq(S)
  <2>1. Len(s) \in Nat
    BY LenProperties
  <2>2. s # <<>> => Tail(s) \in Seq(S) /\ Head(s) \in S
    BY HeadTailProperties
  <2>3. ASSUME NEW m \in Nat, NEW n \in Nat, m >= 1, n <= Len(s)
        PROVE  SubSeq(s, m, n) \in Seq(S)
    <3>1. \A i \in m .. n : s[i] \in S
      BY <2>1, <2>3, ElementOfSeq
    <3> QED
      BY <3>1, SubSeqProperties
  <2> QED
    BY <2>1, <2>2, <2>3
<1> QED
  BY <1>1, <1>2, <1>3, <1>4

LEMMA TermsStart ==
  /\ EXPIRY \in Nat /\ HEARTBEAT_INTERVAL \in 0 .. HEARTBEAT_INTERVAL
  /\ HEARTBEAT_INTERVAL \in -1 .. HEARTBEAT_INTERVAL
  /\ HEARTBEAT_INTERVAL \in Nat /\ HEARTBEAT_INTERVAL > 0
  /\ HEARTBEAT_LIVENESS \in 1 .. HEARTBEAT_LIVENESS
  /\ INTERVAL_INIT \in INTERVAL_INIT .. 2 * INTERVAL_MAX - 1
  /\ 0 \in 0 .. GRACE + 1 /\ OVERLOAD \in Nat /\ WORK \in Nat
BY TermIsNat, TimesAssumption

LEMMA InitOK == Init => IInv
<1> SUFFICES ASSUME Init PROVE IInv
  OBVIOUS
<1>1. TypeOK
  <2>1. \A S : <<>> \in Seq(S)
    BY Mail
  <2>2. /\ workers \in Seq(Entry) /\ toQueue \in [Ids -> Seq(Messages)]
        /\ toWorker \in [Ids -> Seq(Requests \union {HEARTBEAT})]
    BY <2>1 DEF Init
  <2>3. /\ prompt \in BOOLEAN /\ queue \in {"up", "down"}
        /\ queue_beat \in 0 .. HEARTBEAT_INTERVAL
        /\ queue_poll \in 0 .. HEARTBEAT_INTERVAL
        /\ front \in SUBSET Requests
    BY ModesAssumption, TermsStart DEF Init
  <2>4. /\ pc \in [Workers -> {"down", "poll", "sleep", "backoff"}]
        /\ conn \in [Workers -> Ids \union {None}]
        /\ timer \in [Workers -> Nat]
        /\ liveness \in [Workers -> 1 .. HEARTBEAT_LIVENESS]
        /\ interval \in [Workers -> INTERVAL_INIT .. 2 * INTERVAL_MAX - 1]
        /\ heartbeat_at \in [Workers -> -1 .. HEARTBEAT_INTERVAL]
        /\ cycles \in [Workers -> 0 .. GRACE + 1]
    BY TermsStart DEF Init
  <2> QED
    BY <2>2, <2>3, <2>4 DEF TypeOK
<1>2. Named /\ Stopped /\ OneSocket
  BY DEF Init, Named, Stopped, OneSocket
<1>3. RegistryOrdered
  BY EmptySeq DEF Init, RegistryOrdered
<1> QED
  BY <1>1, <1>2, <1>3 DEF IInv

-----------------------------------------------------------------------------
(* A turn of the queue's loop.                                             *)

LEMMA Turn ==
  ASSUME IInv, NEW b \in BackendInput \union {None},
         NEW f \in FrontendInput \union {None}, QueueTurn(b, f)
  PROVE  /\ workers' \in Seq(Entry) /\ Sorted(workers')
         /\ \A k \in DOMAIN workers' : workers'[k].expiry > 0
         /\ \A k \in DOMAIN workers' :
              \/ workers'[k].identity = b /\ workers'[k].expiry = EXPIRY
              \/ /\ workers'[k].identity # b
                 /\ \E n \in DOMAIN workers : workers'[k] = workers[n]
<1> DEFINE Known(e) == \/ e.identity = b /\ e.expiry = EXPIRY
                       \/ /\ e.identity # b
                          /\ \E n \in DOMAIN workers : e = workers[n]
           heard == IF b = None THEN workers ELSE WorkerReady(workers, b)
           rest == IF f = None THEN heard ELSE Tail(heard)
<1>1. workers \in Seq(Entry) /\ Sorted(workers)
  BY OrderedIsSorted DEF IInv, TypeOK
<1>2. heard \in Seq(Entry) /\ Sorted(heard) /\ \A k \in DOMAIN heard : Known(heard[k])
  <2>1. CASE b = None
    <3>1. \A k \in DOMAIN workers : workers[k].identity # None
      BY <1>1, Lists, NamesAssumption
    <3> QED
      BY <1>1, <2>1, <3>1
  <2>2. CASE b # None
    <3>1. b \in Ids
      BY <2>2 DEF BackendInput
    <3> QED
      BY <1>1, <2>2, <3>1, WorkerReadyFacts
  <2> QED
    BY <2>1, <2>2
<1>3. f # None => heard # <<>>
  <2> SUFFICES ASSUME f # None PROVE heard # <<>>
    OBVIOUS
  <2>1. workers # <<>>
    BY DEF FrontendInput
  <2>2. CASE b = None
    BY <2>1, <2>2
  <2>3. CASE b # None
    <3>1. b \in Ids
      BY <2>3 DEF BackendInput
    <3>2. Without(workers, b) \in Seq(Entry)
      BY <1>1, WithoutFacts
    <3>3. [identity |-> b, expiry |-> EXPIRY] \in Entry
      BY <3>1, TermIsNat DEF Entry
    <3>4. WorkerReady(workers, b) # <<>>
      BY <3>2, <3>3, AppendProperties DEF WorkerReady
    <3> QED
      BY <2>3, <3>4
  <2> QED
    BY <2>2, <2>3
<1>4. workers' = Purge(rest)
  BY DEF QueueTurn
<1> HIDE DEF heard
<1>5. rest \in Seq(Entry) /\ Sorted(rest) /\ DrawnFrom(rest, heard)
  BY <1>2, <1>3, TailFacts DEF DrawnFrom
<1> HIDE DEF rest
<1>6. /\ Purge(rest) \in Seq(Entry) /\ Sorted(Purge(rest))
      /\ DrawnFrom(Purge(rest), rest)
      /\ \A k \in DOMAIN Purge(rest) : Purge(rest)[k].expiry > 0
  BY <1>5, PurgeFacts
<1>7. \A k \in DOMAIN Purge(rest) : Known(Purge(rest)[k])
  <2> SUFFICES ASSUME NEW k \in DOMAIN Purge(rest) PROVE Known(Purge(rest)[k])
    OBVIOUS
  <2>1. PICK m \in DOMAIN rest : Purge(rest)[k] = rest[m]
    BY <1>6 DEF DrawnFrom
  <2>2. PICK n \in DOMAIN heard : rest[m] = heard[n]
    BY <1>5 DEF DrawnFrom
  <2> QED
    BY <1>2, <2>1, <2>2
<1> QED
  BY <1>4, <1>6, <1>7

LEMMA QueueLoopTypes ==
  ASSUME IInv, QueueLoop
  PROVE  IInv'
<1>1. PICK b \in BackendInput \union {None}, f \in FrontendInput \union {None} :
        QueueTurn(b, f)
  BY DEF QueueLoop, Readable
<1>2. workers' \in Seq(Entry) /\ Sorted(workers')
  BY <1>1, Turn
<1>3. /\ queue_beat' \in 0 .. HEARTBEAT_INTERVAL
      /\ queue_poll' \in 0 .. HEARTBEAT_INTERVAL
      /\ front' \in SUBSET Requests
  BY <1>1, TermsStart DEF QueueTurn, IInv, TypeOK
<1>4. toQueue' \in [Ids -> Seq(Messages)]
  <2>1. \A i \in Ids : toQueue[i] \in Seq(Messages)
                      /\ (i = b => Tail(toQueue[i]) \in Seq(Messages))
    BY NamesAssumption, Mail DEF IInv, TypeOK, BackendInput
  <2> QED
    BY <1>1, <2>1 DEF QueueTurn
<1>5. toWorker' \in [Ids -> Seq(Requests \union {HEARTBEAT})]
  <2> DEFINE S == Seq(Requests \union {HEARTBEAT})
             heard == IF b = None THEN workers ELSE WorkerReady(workers, b)
             rest == IF f = None THEN heard ELSE Tail(heard)
             beat == queue_beat = 0
             Sent(i) ==
               (IF f # None /\ Head(heard).identity = i THEN <<f>> ELSE <<>>)
               \o (IF beat /\ i \in Listed(rest) THEN <<HEARTBEAT>> ELSE <<>>)
  <2>1. f # None => f \in Requests \union {HEARTBEAT}
    BY DEF FrontendInput, IInv, TypeOK
  <2>2. toWorker' = [i \in Ids |-> IF Connected(i) THEN toWorker[i] \o Sent(i)
                                   ELSE toWorker[i]]
    BY <1>1 DEF QueueTurn
  <2> HIDE DEF heard, rest, beat
  <2>3. \A i : (IF f # None /\ Head(heard).identity = i THEN <<f>> ELSE <<>>) \in S
    BY <2>1, Mail
  <2>4. \A i : (IF beat /\ i \in Listed(rest) THEN <<HEARTBEAT>> ELSE <<>>) \in S
    BY Mail
  <2>5. \A i : Sent(i) \in S
    BY <2>3, <2>4, Mail
  <2> HIDE DEF Sent
  <2>6. \A i \in Ids : toWorker[i] \in S /\ toWorker[i] \o Sent(i) \in S
    BY <2>5, Mail DEF IInv, TypeOK
  <2> QED
    BY <2>2, <2>6
<1>6. UNCHANGED <<prompt, queue, pc, conn, timer, liveness, interval,
                  heartbeat_at, cycles>>
  BY <1>1 DEF QueueTurn, workerVars
<1>7. TypeOK'
  BY <1>2, <1>3, <1>4, <1>5, <1>6 DEF IInv, TypeOK, Messages
<1>8. Named' /\ OneSocket'
  BY <1>6 DEF IInv, Named, OneSocket
<1>9. Stopped'
  BY <1>6 DEF QueueLoop, Stopped
<1>10. RegistryOrdered'
  BY <1>2 DEF RegistryOrdered, Sorted
<1> QED
  BY <1>7, <1>8, <1>9, <1>10 DEF IInv

LEMMA QueueStopTypes ==
  ASSUME IInv, QueueStop
  PROVE  IInv'
<1>1. UNCHANGED <<prompt, pc, conn, timer, liveness, interval, heartbeat_at,
                  cycles>>
  BY DEF QueueStop, workerVars
<1>2. /\ workers' = <<>> /\ queue' = "down" /\ queue_beat' = 0 /\ queue_poll' = 0
      /\ front' \in SUBSET front
  BY DEF QueueStop
<1>3. workers' \in Seq(Entry) /\ DOMAIN workers' = {}
  BY <1>2, EmptySeq
<1>4. toQueue' \in [Ids -> Seq(Messages)]
  <2>1. PICK lost \in Cuts(toQueue) :
          toQueue' = [i \in Ids |->
                        SubSeq(toQueue[i], lost[i] + 1, Len(toQueue[i]))]
    BY DEF QueueStop
  <2> SUFFICES ASSUME NEW i \in Ids
               PROVE  SubSeq(toQueue[i], lost[i] + 1, Len(toQueue[i]))
                        \in Seq(Messages)
    BY <2>1
  <2>2. lost[i] \in Nat
    BY TimesAssumption DEF Cuts
  <2>3. toQueue[i] \in Seq(Messages)
    BY DEF IInv, TypeOK
  <2>4. Len(toQueue[i]) \in Nat
    BY <2>3, Mail
  <2>5. lost[i] + 1 \in Nat /\ lost[i] + 1 >= 1
    BY <2>2
  <2> QED
    BY <2>3, <2>4, <2>5, Mail
<1>5. toWorker' \in [Ids -> Seq(Requests \union {HEARTBEAT})]
  <2>1. PICK got \in Cuts(toWorker) :
          toWorker' = [i \in Ids |-> SubSeq(toWorker[i], 1, got[i])]
    BY DEF QueueStop
  <2> SUFFICES ASSUME NEW i \in Ids
               PROVE  SubSeq(toWorker[i], 1, got[i])
                        \in Seq(Requests \union {HEARTBEAT})
    BY <2>1
  <2>2. got[i] \in Nat /\ got[i] <= Len(toWorker[i])
    BY TimesAssumption DEF Cuts
  <2>3. toWorker[i] \in Seq(Requests \union {HEARTBEAT})
    BY DEF IInv, TypeOK
  <2> QED
    BY <2>2, <2>3, Mail
<1>6. TypeOK'
  BY <1>1, <1>2, <1>3, <1>4, <1>5, TimesAssumption DEF IInv, TypeOK, Messages
<1>7. Named' /\ OneSocket'
  BY <1>1 DEF IInv, Named, OneSocket
<1>8. Stopped' /\ RegistryOrdered'
  BY <1>2, <1>3 DEF Stopped, RegistryOrdered
<1> QED
  BY <1>6, <1>7, <1>8 DEF IInv

-----------------------------------------------------------------------------
(* The workers' steps, which leave the queue's variables alone.            *)

LEMMA Connection ==
  ASSUME IInv, NEW w \in Workers, pc[w] # "down"
  PROVE  /\ conn[w] \in Ids /\ conn[w] # None
         /\ toQueue[conn[w]] \in Seq(Messages)
         /\ toWorker[conn[w]] \in Seq(Requests \union {HEARTBEAT})
BY NamesAssumption DEF IInv, TypeOK, Named

(* What is left to show of a worker's step that keeps the connections. *)
LEMMA SameConnections ==
  ASSUME IInv, UNCHANGED <<queueVars, front, conn>>,
         toQueue' \in [Ids -> Seq(Messages)],
         toWorker' \in [Ids -> Seq(Requests \union {HEARTBEAT})],
         pc' \in [Workers -> {"down", "poll", "sleep", "backoff"}],
         timer' \in [Workers -> Nat],
         liveness' \in [Workers -> 1 .. HEARTBEAT_LIVENESS],
         interval' \in [Workers -> INTERVAL_INIT .. 2 * INTERVAL_MAX - 1],
         heartbeat_at' \in [Workers -> -1 .. HEARTBEAT_INTERVAL],
         cycles' \in [Workers -> 0 .. GRACE + 1],
         \A w \in Workers : pc'[w] = "down" <=> pc[w] = "down"
  PROVE  IInv'
<1>1. TypeOK'
  BY DEF IInv, TypeOK, queueVars, Messages
<1>2. Named' /\ Stopped' /\ OneSocket' /\ RegistryOrdered'
  BY DEF IInv, Named, Stopped, OneSocket, RegistryOrdered, queueVars
<1> QED
  BY <1>1, <1>2 DEF IInv

LEMMA ReadTypes ==
  ASSUME IInv, NEW w \in Workers, NEW m, Polled(w, m), Read(w)
  PROVE  toWorker' \in [Ids -> Seq(Requests \union {HEARTBEAT})]
<1>1. conn[w] \in Ids /\ toWorker[conn[w]] \in Seq(Requests \union {HEARTBEAT})
  BY Connection DEF Polled
<1>2. Tail(toWorker[conn[w]]) \in Seq(Requests \union {HEARTBEAT})
  BY <1>1, Mail DEF Polled
<1> QED
  BY <1>1, <1>2 DEF Read, IInv, TypeOK

LEMMA CountTypes ==
  ASSUME IInv, NEW w \in Workers, Count(w)
  PROVE  cycles' \in [Workers -> 0 .. GRACE + 1]
BY TimesAssumption DEF IInv, TypeOK, Count

(* The end of the loop. *)
LEMMA PollAgainTypes ==
  ASSUME IInv, NEW w \in Workers, pc[w] # "down", PollAgain(w, conn[w], <<>>)
  PROVE  /\ toQueue' \in [Ids -> Seq(Messages)]
         /\ pc' = [pc EXCEPT ![w] = "poll"]
         /\ pc' \in [Workers -> {"down", "poll", "sleep", "backoff"}]
         /\ timer' = [timer EXCEPT ![w] = HEARTBEAT_INTERVAL]
         /\ timer' \in [Workers -> Nat]
         /\ heartbeat_at' \in [Workers -> -1 .. HEARTBEAT_INTERVAL]
         /\ toQueue' = [toQueue EXCEPT ![conn[w]] =
               @ \o IF heartbeat_at[w] < 0 THEN <<HEARTBEAT>> ELSE <<>>]
<1> DEFINE beat == IF heartbeat_at[w] < 0 THEN <<HEARTBEAT>> ELSE <<>>
<1>1. conn[w] \in Ids /\ toQueue[conn[w]] \in Seq(Messages)
  BY Connection
<1>2. beat \in Seq(Messages)
  BY Mail DEF Messages
<1>3. toQueue[conn[w]] \o <<>> = toQueue[conn[w]]
  BY <1>1, ConcatEmptySeq
<1>4. toQueue' = [toQueue EXCEPT ![conn[w]] = @ \o beat]
  BY <1>1, <1>3 DEF PollAgain, IInv, TypeOK
<1> HIDE DEF beat
<1>5. toQueue[conn[w]] \o beat \in Seq(Messages)
  BY <1>1, <1>2, Mail
<1>6. toQueue' \in [Ids -> Seq(Messages)]
  BY <1>4, <1>5 DEF IInv, TypeOK
<1>7. heartbeat_at' \in [Workers -> -1 .. HEARTBEAT_INTERVAL]
  BY TermsStart DEF PollAgain, IInv, TypeOK
<1>8. /\ pc' = [pc EXCEPT ![w] = "poll"]
      /\ timer' = [timer EXCEPT ![w] = HEARTBEAT_INTERVAL]
  BY DEF PollAgain, Rest
<1>9. /\ pc' \in [Workers -> {"down", "poll", "sleep", "backoff"}]
      /\ timer' \in [Workers -> Nat]
  BY <1>8, TermsStart DEF IInv, TypeOK
<1> QED
  BY <1>4, <1>6, <1>7, <1>8, <1>9 DEF beat

LEMMA WorkerExitTypes ==
  ASSUME IInv, NEW w \in Workers, pc[w] # "down", WorkerExit(w)
  PROVE  IInv'
<1>1. /\ conn[w] \in Ids /\ toQueue[conn[w]] \in Seq(Messages)
      /\ toWorker[conn[w]] \in Seq(Requests \union {HEARTBEAT})
  BY Connection
<1>2. toQueue' \in [Ids -> Seq(Messages)]
  <2>1. PICK n \in Arrived(conn[w]) :
          toQueue' = [toQueue EXCEPT ![conn[w]] = SubSeq(@, 1, n)]
    BY DEF WorkerExit
  <2>2. n \in Nat /\ n <= Len(toQueue[conn[w]])
    BY <1>1, Mail DEF Arrived
  <2>3. SubSeq(toQueue[conn[w]], 1, n) \in Seq(Messages)
    BY <1>1, <2>2, Mail
  <2> QED
    BY <2>1, <2>3 DEF IInv, TypeOK
<1>3. toWorker' \in [Ids -> Seq(Requests \union {HEARTBEAT})]
  BY Mail DEF WorkerExit, IInv, TypeOK
<1>4. /\ pc' = [pc EXCEPT ![w] = "down"] /\ conn' = [conn EXCEPT ![w] = None]
      /\ UNCHANGED <<queueVars, front>>
  BY DEF WorkerExit, Rest
<1>5. /\ pc' \in [Workers -> {"down", "poll", "sleep", "backoff"}]
      /\ conn' \in [Workers -> Ids \union {None}]
  BY <1>4 DEF IInv, TypeOK
<1>6. /\ timer' \in [Workers -> Nat]
      /\ liveness' \in [Workers -> 1 .. HEARTBEAT_LIVENESS]
      /\ interval' \in [Workers -> INTERVAL_INIT .. 2 * INTERVAL_MAX - 1]
      /\ heartbeat_at' \in [Workers -> -1 .. HEARTBEAT_INTERVAL]
      /\ cycles' \in [Workers -> 0 .. GRACE + 1]
  BY TermsStart DEF WorkerExit, Rest, IInv, TypeOK
<1>7. TypeOK'
  BY <1>2, <1>3, <1>4, <1>5, <1>6 DEF IInv, TypeOK, queueVars, Messages
<1>8. Named' /\ OneSocket'
  BY <1>4 DEF IInv, TypeOK, Named, OneSocket
<1>9. Stopped' /\ RegistryOrdered'
  BY <1>4 DEF IInv, Stopped, RegistryOrdered, queueVars
<1> QED
  BY <1>7, <1>8, <1>9 DEF IInv

(* A socket gets an identity that nobody has. *)
LEMMA FreshSocket ==
  ASSUME IInv, NEW w \in Workers, NEW i \in Ids, Unused(i),
         conn' = [conn EXCEPT ![w] = i], pc' = [pc EXCEPT ![w] = "poll"]
  PROVE  conn' \in [Workers -> Ids \union {None}] /\ Named' /\ OneSocket'
<1>1. \A v \in Workers : conn[v] # i
  BY DEF Unused, Connected
<1>2. /\ conn' \in [Workers -> Ids \union {None}]
      /\ pc \in [Workers -> {"down", "poll", "sleep", "backoff"}]
      /\ conn \in [Workers -> Ids \union {None}]
  BY DEF IInv, TypeOK
<1>3. Named'
  BY <1>2, NamesAssumption DEF IInv, Named
<1>4. OneSocket'
  BY <1>1, <1>2 DEF IInv, OneSocket
<1> QED
  BY <1>2, <1>3, <1>4

LEMMA WorkerStartTypes ==
  ASSUME IInv, NEW w \in Workers, WorkerStart(w)
  PROVE  IInv'
<1>1. PICK i \in Ids : /\ Unused(i) /\ conn' = [conn EXCEPT ![w] = i]
                       /\ toQueue' = [toQueue EXCEPT ![i] = <<READY>>]
  BY DEF WorkerStart
<1>2. /\ pc' = [pc EXCEPT ![w] = "poll"]
      /\ timer' = [timer EXCEPT ![w] = HEARTBEAT_INTERVAL]
      /\ UNCHANGED <<queueVars, front, toWorker, liveness, interval,
                      heartbeat_at, cycles>>
  BY DEF WorkerStart, Rest
<1>3. conn' \in [Workers -> Ids \union {None}] /\ Named' /\ OneSocket'
  BY <1>1, <1>2, FreshSocket
<1>4. <<READY>> \in Seq(Messages)
  BY Mail DEF Messages
<1>5. /\ toQueue' \in [Ids -> Seq(Messages)]
      /\ pc' \in [Workers -> {"down", "poll", "sleep", "backoff"}]
      /\ timer' \in [Workers -> Nat]
  BY <1>1, <1>2, <1>4, TermsStart DEF IInv, TypeOK
<1>6. TypeOK'
  BY <1>2, <1>3, <1>5 DEF IInv, TypeOK, queueVars, Messages
<1>7. Stopped' /\ RegistryOrdered'
  BY <1>2 DEF IInv, Stopped, RegistryOrdered, queueVars
<1> QED
  BY <1>3, <1>6, <1>7 DEF IInv

LEMMA WorkerReconnectTypes ==
  ASSUME IInv, NEW w \in Workers, WorkerReconnect(w)
  PROVE  IInv'
<1> DEFINE due == heartbeat_at[w] < 0
           hello == <<READY>> \o (IF due THEN <<HEARTBEAT>> ELSE <<>>)
<1>1. /\ conn[w] \in Ids /\ toQueue[conn[w]] \in Seq(Messages)
      /\ toWorker[conn[w]] \in Seq(Requests \union {HEARTBEAT})
  BY Connection DEF WorkerReconnect
<1>2. PICK i \in Ids, n \in Arrived(conn[w]) :
        /\ Unused(i) /\ conn' = [conn EXCEPT ![w] = i]
        /\ toQueue' = [toQueue EXCEPT ![conn[w]] = SubSeq(@, 1, n), ![i] = hello]
  BY DEF WorkerReconnect
<1>3. hello \in Seq(Messages)
  BY Mail DEF Messages
<1> HIDE DEF hello
<1>4. toQueue' \in [Ids -> Seq(Messages)]
  <2>1. n \in Nat /\ n <= Len(toQueue[conn[w]])
    BY <1>1, Mail DEF Arrived
  <2>2. SubSeq(toQueue[conn[w]], 1, n) \in Seq(Messages)
    BY <1>1, <2>1, Mail
  <2> QED
    BY <1>2, <1>3, <2>2 DEF IInv, TypeOK
<1>5. /\ pc' = [pc EXCEPT ![w] = "poll"]
      /\ timer' = [timer EXCEPT ![w] = HEARTBEAT_INTERVAL]
      /\ UNCHANGED <<queueVars, front, cycles>>
  BY DEF WorkerReconnect, Rest
<1>6. conn' \in [Workers -> Ids \union {None}] /\ Named' /\ OneSocket'
  BY <1>2, <1>5, FreshSocket
<1>7. toWorker' \in [Ids -> Seq(Requests \union {HEARTBEAT})]
  BY Mail DEF WorkerReconnect, IInv, TypeOK
<1>8. interval' \in [Workers -> INTERVAL_INIT .. 2 * INTERVAL_MAX - 1]
  <2>1. \A t \in INTERVAL_INIT .. 2 * INTERVAL_MAX - 1 :
          Doubled(t) \in INTERVAL_INIT .. 2 * INTERVAL_MAX - 1
    BY TimesAssumption DEF Doubled
  <2> QED
    BY <2>1 DEF WorkerReconnect, IInv, TypeOK
<1>9. /\ liveness' \in [Workers -> 1 .. HEARTBEAT_LIVENESS]
      /\ heartbeat_at' \in [Workers -> -1 .. HEARTBEAT_INTERVAL]
  BY TermsStart DEF WorkerReconnect, IInv, TypeOK
<1>10. /\ pc' \in [Workers -> {"down", "poll", "sleep", "backoff"}]
       /\ timer' \in [Workers -> Nat]
  BY <1>5, TermsStart DEF IInv, TypeOK
<1>11. TypeOK'
  BY <1>4, <1>5, <1>6, <1>7, <1>8, <1>9, <1>10
     DEF IInv, TypeOK, queueVars, Messages
<1>12. Stopped' /\ RegistryOrdered'
  BY <1>5 DEF IInv, Stopped, RegistryOrdered, queueVars
<1> QED
  BY <1>6, <1>11, <1>12 DEF IInv

LEMMA WorkerLoopTypes ==
  ASSUME IInv, NEW w \in Workers, WorkerLoop(w)
  PROVE  IInv'
<1>1. CASE WorkerReply(w)
  <2>1. PICK r \in Requests :
          /\ Polled(w, r) /\ Count(w) /\ Read(w) /\ Rest(w, "sleep", WORK)
          /\ toQueue' = [toQueue EXCEPT ![conn[w]] = Append(@, r)]
          /\ UNCHANGED <<queueVars, front, conn, liveness, interval, heartbeat_at>>
    BY <1>1 DEF WorkerReply
  <2>2. conn[w] \in Ids /\ toQueue[conn[w]] \in Seq(Messages) /\ pc[w] # "down"
    BY <2>1, Connection DEF Polled
  <2>3. Append(toQueue[conn[w]], r) \in Seq(Messages)
    BY <2>2, Mail DEF Messages
  <2>4. toQueue' \in [Ids -> Seq(Messages)]
    BY <2>1, <2>3 DEF IInv, TypeOK
  <2>5. /\ toWorker' \in [Ids -> Seq(Requests \union {HEARTBEAT})]
        /\ cycles' \in [Workers -> 0 .. GRACE + 1]
    BY <2>1, ReadTypes, CountTypes
  <2>6. /\ pc' \in [Workers -> {"down", "poll", "sleep", "backoff"}]
        /\ timer' \in [Workers -> Nat]
        /\ \A v \in Workers : pc'[v] = "down" <=> pc[v] = "down"
    BY <2>1, <2>2, TermsStart DEF Rest, IInv, TypeOK
  <2>7. /\ liveness' \in [Workers -> 1 .. HEARTBEAT_LIVENESS]
        /\ interval' \in [Workers -> INTERVAL_INIT .. 2 * INTERVAL_MAX - 1]
        /\ heartbeat_at' \in [Workers -> -1 .. HEARTBEAT_INTERVAL]
        /\ UNCHANGED <<queueVars, front, conn>>
    BY <2>1 DEF IInv, TypeOK
  <2> QED
    BY <2>4, <2>5, <2>6, <2>7, SameConnections
<1>2. CASE WorkerCrash(w)
  BY <1>2, WorkerExitTypes DEF WorkerCrash, Polled
<1>3. CASE WorkerOverload(w)
  <2>1. PICK r \in Requests : Polled(w, r)
    BY <1>3 DEF WorkerOverload
  <2>2. /\ Count(w) /\ Read(w) /\ Rest(w, "sleep", OVERLOAD) /\ pc[w] # "down"
        /\ UNCHANGED <<queueVars, front, toQueue, conn, liveness, interval,
                       heartbeat_at>>
    BY <1>3, <2>1 DEF WorkerOverload, Polled
  <2>3. /\ toWorker' \in [Ids -> Seq(Requests \union {HEARTBEAT})]
        /\ cycles' \in [Workers -> 0 .. GRACE + 1]
    BY <2>1, <2>2, ReadTypes, CountTypes
  <2>4. /\ pc' \in [Workers -> {"down", "poll", "sleep", "backoff"}]
        /\ timer' \in [Workers -> Nat]
        /\ \A v \in Workers : pc'[v] = "down" <=> pc[v] = "down"
    BY <2>2, TermsStart DEF Rest, IInv, TypeOK
  <2>5. /\ toQueue' \in [Ids -> Seq(Messages)]
        /\ liveness' \in [Workers -> 1 .. HEARTBEAT_LIVENESS]
        /\ interval' \in [Workers -> INTERVAL_INIT .. 2 * INTERVAL_MAX - 1]
        /\ heartbeat_at' \in [Workers -> -1 .. HEARTBEAT_INTERVAL]
        /\ UNCHANGED <<queueVars, front, conn>>
    BY <2>2 DEF IInv, TypeOK
  <2> QED
    BY <2>3, <2>4, <2>5, SameConnections
<1>4. CASE WorkerWake(w)
  <2>1. pc[w] # "down" /\ PollAgain(w, conn[w], <<>>)
    BY <1>4 DEF WorkerWake
  <2>2. /\ toQueue' \in [Ids -> Seq(Messages)] /\ timer' \in [Workers -> Nat]
        /\ pc' \in [Workers -> {"down", "poll", "sleep", "backoff"}]
        /\ heartbeat_at' \in [Workers -> -1 .. HEARTBEAT_INTERVAL]
        /\ pc' = [pc EXCEPT ![w] = "poll"]
    BY <2>1, PollAgainTypes
  <2>3. \A v \in Workers : pc'[v] = "down" <=> pc[v] = "down"
    BY <2>1, <2>2 DEF IInv, TypeOK
  <2>4. /\ toWorker' \in [Ids -> Seq(Requests \union {HEARTBEAT})]
        /\ liveness' \in [Workers -> 1 .. HEARTBEAT_LIVENESS]
        /\ interval' \in [Workers -> INTERVAL_INIT .. 2 * INTERVAL_MAX - 1]
        /\ cycles' \in [Workers -> 0 .. GRACE + 1]
        /\ UNCHANGED <<queueVars, front, conn>>
    BY <1>4, TermsStart DEF WorkerWake, IInv, TypeOK
  <2> QED
    BY <2>2, <2>3, <2>4, SameConnections
<1>5. CASE WorkerHeard(w)
  <2>1. /\ pc[w] # "down" /\ PollAgain(w, conn[w], <<>>)
        /\ Polled(w, HEARTBEAT) /\ Read(w)
    BY <1>5 DEF WorkerHeard, Polled
  <2>2. /\ toQueue' \in [Ids -> Seq(Messages)] /\ timer' \in [Workers -> Nat]
        /\ pc' \in [Workers -> {"down", "poll", "sleep", "backoff"}]
        /\ heartbeat_at' \in [Workers -> -1 .. HEARTBEAT_INTERVAL]
        /\ pc' = [pc EXCEPT ![w] = "poll"]
    BY <2>1, PollAgainTypes
  <2>3. \A v \in Workers : pc'[v] = "down" <=> pc[v] = "down"
    BY <2>1, <2>2 DEF IInv, TypeOK
  <2>4. toWorker' \in [Ids -> Seq(Requests \union {HEARTBEAT})]
    BY <2>1, ReadTypes
  <2>5. /\ liveness' \in [Workers -> 1 .. HEARTBEAT_LIVENESS]
        /\ interval' \in [Workers -> INTERVAL_INIT .. 2 * INTERVAL_MAX - 1]
        /\ cycles' \in [Workers -> 0 .. GRACE + 1]
        /\ UNCHANGED <<queueVars, front, conn>>
    BY <1>5, TermsStart DEF WorkerHeard, IInv, TypeOK
  <2> QED
    BY <2>2, <2>3, <2>4, <2>5, SameConnections
<1>6. CASE WorkerTimeout(w)
  <2>1. pc[w] # "down" /\ PollAgain(w, conn[w], <<>>)
    BY <1>6 DEF WorkerTimeout, PolledNothing
  <2>2. /\ toQueue' \in [Ids -> Seq(Messages)] /\ timer' \in [Workers -> Nat]
        /\ pc' \in [Workers -> {"down", "poll", "sleep", "backoff"}]
        /\ heartbeat_at' \in [Workers -> -1 .. HEARTBEAT_INTERVAL]
        /\ pc' = [pc EXCEPT ![w] = "poll"]
    BY <2>1, PollAgainTypes
  <2>3. \A v \in Workers : pc'[v] = "down" <=> pc[v] = "down"
    BY <2>1, <2>2 DEF IInv, TypeOK
  <2>4. liveness' \in [Workers -> 1 .. HEARTBEAT_LIVENESS]
    BY <1>6, TimesAssumption DEF WorkerTimeout, IInv, TypeOK
  <2>5. /\ toWorker' \in [Ids -> Seq(Requests \union {HEARTBEAT})]
        /\ interval' \in [Workers -> INTERVAL_INIT .. 2 * INTERVAL_MAX - 1]
        /\ cycles' \in [Workers -> 0 .. GRACE + 1]
        /\ UNCHANGED <<queueVars, front, conn>>
    BY <1>6 DEF WorkerTimeout, IInv, TypeOK
  <2> QED
    BY <2>2, <2>3, <2>4, <2>5, SameConnections
<1>7. CASE WorkerGiveUp(w)
  <2>1. /\ pc[w] = "poll" /\ pc' = [pc EXCEPT ![w] = "backoff"]
        /\ timer' = [timer EXCEPT ![w] = interval[w]]
        /\ UNCHANGED <<queueVars, wireVars, conn, liveness, interval,
                       heartbeat_at, cycles>>
    BY <1>7 DEF WorkerGiveUp, PolledNothing, Rest
  <2>2. interval[w] \in Nat
    BY TimesAssumption DEF IInv, TypeOK
  <2>3. /\ pc' \in [Workers -> {"down", "poll", "sleep", "backoff"}]
        /\ timer' \in [Workers -> Nat]
        /\ \A v \in Workers : pc'[v] = "down" <=> pc[v] = "down"
    BY <2>1, <2>2 DEF IInv, TypeOK
  <2>4. /\ toQueue' \in [Ids -> Seq(Messages)]
        /\ toWorker' \in [Ids -> Seq(Requests \union {HEARTBEAT})]
        /\ liveness' \in [Workers -> 1 .. HEARTBEAT_LIVENESS]
        /\ interval' \in [Workers -> INTERVAL_INIT .. 2 * INTERVAL_MAX - 1]
        /\ heartbeat_at' \in [Workers -> -1 .. HEARTBEAT_INTERVAL]
        /\ cycles' \in [Workers -> 0 .. GRACE + 1]
        /\ UNCHANGED <<queueVars, front, conn>>
    BY <2>1 DEF IInv, TypeOK, wireVars
  <2> QED
    BY <2>3, <2>4, SameConnections
<1>8. CASE WorkerReconnect(w)
  BY <1>8, WorkerReconnectTypes
<1> QED
  BY <1>1, <1>2, <1>3, <1>4, <1>5, <1>6, <1>7, <1>8 DEF WorkerLoop

LEMMA LowerTypes ==
  /\ \A t \in Nat : Lower(t, 0) \in Nat /\ Lower(t, 0) <= t
  /\ \A t \in -1 .. HEARTBEAT_INTERVAL : Lower(t, -1) \in -1 .. HEARTBEAT_INTERVAL
BY TimesAssumption DEF Lower

(* Time takes the same from every term. *)
LEMMA TickTypes ==
  ASSUME IInv, Tick
  PROVE  IInv'
<1> DEFINE older == [k \in DOMAIN workers |->
                      [workers[k] EXCEPT !.expiry = Lower(@, 0)]]
<1>1. /\ workers \in Seq(Entry) /\ Sorted(workers) /\ Len(workers) \in Nat
      /\ DOMAIN workers = 1 .. Len(workers)
      /\ \A k \in DOMAIN workers :
           /\ workers[k] \in Entry /\ workers[k].identity \in Ids
           /\ workers[k].expiry \in 0 .. EXPIRY
  BY Lists, OrderedIsSorted DEF IInv, TypeOK
<1>2. /\ workers' = older
      /\ UNCHANGED <<prompt, queue, wireVars, pc, conn, liveness, interval,
                     cycles>>
  BY DEF Tick
<1>3. \A k \in DOMAIN workers :
        /\ older[k] \in Entry /\ older[k].identity = workers[k].identity
        /\ older[k].expiry = Lower(workers[k].expiry, 0)
  <2> SUFFICES ASSUME NEW k \in DOMAIN workers
               PROVE  /\ older[k] \in Entry
                      /\ older[k].identity = workers[k].identity
                      /\ older[k].expiry = Lower(workers[k].expiry, 0)
    OBVIOUS
  <2>1. Lower(workers[k].expiry, 0) \in 0 .. EXPIRY
    BY <1>1, TermIsNat DEF Lower
  <2>2. workers[k] \in [identity : Ids, expiry : 0 .. EXPIRY]
    BY <1>1 DEF Entry
  <2> QED
    BY <2>1, <2>2 DEF Entry
<1> HIDE DEF older
<1>4. DOMAIN older = 1 .. Len(workers)
  BY <1>1 DEF older
<1>5. older \in Seq(Entry)
  <2>1. older = [k \in 1 .. Len(workers) |-> older[k]]
    BY <1>1 DEF older
  <2>2. \A k \in 1 .. Len(workers) : older[k] \in Entry
    BY <1>1, <1>3
  <2> QED
    BY <1>1, <2>1, <2>2, IsASeq
<1>6. Sorted(older)
  <2> SUFFICES ASSUME NEW k \in DOMAIN workers, NEW n \in DOMAIN workers, k < n
               PROVE  /\ older[k].identity # older[n].identity
                      /\ older[k].expiry <= older[n].expiry
    BY <1>1, <1>4 DEF Sorted
  <2>1. /\ workers[k].identity # workers[n].identity
        /\ workers[k].expiry <= workers[n].expiry
    BY <1>1 DEF Sorted
  <2>2. Lower(workers[k].expiry, 0) <= Lower(workers[n].expiry, 0)
    BY <1>1, <2>1, TermIsNat DEF Lower
  <2> QED
    BY <1>3, <2>1, <2>2
<1>7. /\ queue_beat' \in 0 .. HEARTBEAT_INTERVAL
      /\ queue_poll' \in 0 .. HEARTBEAT_INTERVAL
  BY TimesAssumption DEF Tick, Lower, IInv, TypeOK
<1>8. /\ timer' \in [Workers -> Nat]
      /\ heartbeat_at' \in [Workers -> -1 .. HEARTBEAT_INTERVAL]
  BY LowerTypes DEF Tick, IInv, TypeOK
<1>9. TypeOK'
  BY <1>2, <1>5, <1>7, <1>8 DEF IInv, TypeOK, wireVars, Messages
<1>10. Named' /\ OneSocket'
  BY <1>2 DEF IInv, Named, OneSocket
<1>11. Stopped'
  <2> SUFFICES ASSUME queue = "down" PROVE older = <<>>
    BY <1>2 DEF Stopped
  <2>1. Len(workers) = 0
    BY <1>1, Lists DEF IInv, Stopped
  <2>2. Len(older) = 0
    BY <1>1, <1>4, <1>5, <2>1, Lists
  <2> QED
    BY <1>5, <2>2, Lists
<1>12. RegistryOrdered'
  BY <1>2, <1>6 DEF RegistryOrdered, Sorted
<1> QED
  BY <1>9, <1>10, <1>11, <1>12 DEF IInv

LEMMA NextOK ==
  ASSUME IInv, [Next]_vars
  PROVE  IInv'
<1>1. CASE QueueLoop
  BY <1>1, QueueLoopTypes
<1>2. CASE QueueStop
  BY <1>2, QueueStopTypes
<1>3. CASE QueueStart
  <2>1. /\ queue' = "up" /\ UNCHANGED <<prompt, workers, wireVars, workerVars>>
        /\ queue_beat' = HEARTBEAT_INTERVAL /\ queue_poll' = HEARTBEAT_INTERVAL
    BY <1>3 DEF QueueStart
  <2>2. TypeOK'
    BY <2>1, TermsStart DEF IInv, TypeOK, wireVars, workerVars, Messages
  <2>3. Named' /\ Stopped' /\ OneSocket' /\ RegistryOrdered'
    BY <2>1 DEF IInv, Named, Stopped, OneSocket, RegistryOrdered, workerVars
  <2> QED
    BY <2>2, <2>3 DEF IInv
<1>4. ASSUME NEW r \in Requests, Submit(r) PROVE IInv'
  <2>1. front' = front \union {r} /\ UNCHANGED <<queueVars, toQueue, toWorker, workerVars>>
    BY <1>4 DEF Submit
  <2>2. TypeOK'
    BY <2>1 DEF IInv, TypeOK, queueVars, workerVars, Messages
  <2>3. Named' /\ Stopped' /\ OneSocket' /\ RegistryOrdered'
    BY <2>1 DEF IInv, Named, Stopped, OneSocket, RegistryOrdered, queueVars,
                workerVars
  <2> QED
    BY <2>2, <2>3 DEF IInv
<1>5. ASSUME NEW w \in Workers, WorkerStart(w) PROVE IInv'
  BY <1>5, WorkerStartTypes
<1>6. ASSUME NEW w \in Workers, WorkerStop(w) PROVE IInv'
  BY <1>6, WorkerExitTypes DEF WorkerStop
<1>7. ASSUME NEW w \in Workers, WorkerLoop(w) PROVE IInv'
  BY <1>7, WorkerLoopTypes
<1>8. CASE Tick
  BY <1>8, TickTypes
<1>9. CASE UNCHANGED vars
  <2>1. TypeOK'
    BY <1>9 DEF IInv, TypeOK, vars, queueVars, wireVars, workerVars, Messages
  <2>2. Named' /\ Stopped' /\ OneSocket' /\ RegistryOrdered'
    BY <1>9 DEF IInv, Named, Stopped, OneSocket, RegistryOrdered, vars,
                queueVars, workerVars
  <2> QED
    BY <2>1, <2>2 DEF IInv
<1> QED
  BY <1>1, <1>2, <1>3, <1>4, <1>5, <1>6, <1>7, <1>8, <1>9 DEF Next

LEMMA Invariant == Spec => []IInv
<1>1. Init => IInv
  BY InitOK
<1>2. IInv /\ [Next]_vars => IInv'
  BY NextOK
<1> QED
  BY <1>1, <1>2, PTL DEF Spec

(* Every variable keeps its type, with the queue and the workers ended and *)
(* restarted at any time (the lists and timers of queue.c and worker.c).   *)
THEOREM TypeCorrect == Spec => []TypeOK
<1>1. IInv => TypeOK
  BY DEF IInv
<1> QED
  BY <1>1, Invariant, PTL

(* No worker is on the queue's list twice and the list is in order of      *)
(* expiry, so that _worker_ready may stop at its first match and           *)
(* _worker_purge at the first entry whose term is not over.                *)
THEOREM ListStaysOrdered == Spec => []RegistryOrdered
<1>1. IInv => RegistryOrdered
  BY DEF IInv
<1> QED
  BY <1>1, Invariant, PTL

(* Each turn of the queue's loop ends with nobody on the list whose term   *)
(* is over, wherever on the list a worker was when it fell silent.         *)
THEOREM PurgeTakesAll == Spec => PurgeComplete
<1> DEFINE Purged == queue_poll' > queue_poll =>
                       \A k \in DOMAIN workers' : workers'[k].expiry > 0
<1>1. IInv /\ [Next]_vars => [Purged]_vars
  <2> SUFFICES ASSUME IInv, Next, queue_poll' > queue_poll
               PROVE  \A k \in DOMAIN workers' : workers'[k].expiry > 0
    OBVIOUS
  <2>1. queue_poll \in Nat
    BY TimesAssumption DEF IInv, TypeOK
  <2>2. CASE QueueLoop
    <3>1. PICK b \in BackendInput \union {None}, f \in FrontendInput \union {None} :
            QueueTurn(b, f)
      BY <2>2 DEF QueueLoop, Readable
    <3> QED
      BY <3>1, Turn
  <2>3. CASE QueueStop
    BY <2>1, <2>3 DEF QueueStop
  <2>4. CASE QueueStart
    BY <2>4, EmptySeq DEF QueueStart, IInv, Stopped
  <2>5. CASE Tick
    BY <2>1, <2>5 DEF Tick, Lower
  <2>6. ASSUME NEW r \in Requests, Submit(r) PROVE FALSE
    BY <2>1, <2>6 DEF Submit, queueVars
  <2>7. ASSUME NEW w \in Workers, WorkerStart(w) \/ WorkerStop(w) \/ WorkerLoop(w)
        PROVE  FALSE
    <3>1. UNCHANGED queue_poll
      BY <2>7 DEF WorkerStart, WorkerStop, WorkerExit, WorkerLoop, WorkerReply,
        WorkerCrash, WorkerOverload, WorkerWake, WorkerHeard, WorkerTimeout,
        WorkerGiveUp, WorkerReconnect, queueVars
    <3> QED
      BY <2>1, <3>1
  <2> QED
    BY <2>2, <2>3, <2>4, <2>5, <2>6, <2>7 DEF Next
<1> QED
  BY <1>1, Invariant, PTL DEF Spec, PurgeComplete

-----------------------------------------------------------------------------
(* The terms are long enough.  A worker sends at the end of its loop when  *)
(* more than an interval has gone by, and polls for an interval at most:   *)
(* of its term it uses less than two intervals before it is heard again,   *)
(* and a third one is left for the poll it is in.                          *)

(* The term of a worker with nothing under way: since it was last heard    *)
(* its heartbeat_at has run down at the same pace, and when that is over   *)
(* the time of one poll may have passed too.                               *)
PromptTerms ==
  prompt =>
    \A w \in Workers, k \in DOMAIN workers :
      conn[w] = workers[k].identity /\ toQueue[conn[w]] = <<>> =>
        /\ heartbeat_at[w] >= 0 =>
             workers[k].expiry >= EXPIRY - HEARTBEAT_INTERVAL + heartbeat_at[w]
        /\ pc[w] = "poll" =>
             workers[k].expiry >= EXPIRY - 2 * HEARTBEAT_INTERVAL + timer[w]

ShortPolls == \A w \in Workers : pc[w] = "poll" => timer[w] <= HEARTBEAT_INTERVAL

TermsInv == ShortPolls /\ PromptTerms

LEMMA LongTerm ==
  ASSUME HEARTBEAT_LIVENESS >= 3
  PROVE  EXPIRY \in Nat /\ EXPIRY >= 3 * HEARTBEAT_INTERVAL
<1>1. PICK n \in Nat : HEARTBEAT_LIVENESS = 3 + n
  <2>1. HEARTBEAT_LIVENESS - 3 \in Nat /\ HEARTBEAT_LIVENESS = 3 + (HEARTBEAT_LIVENESS - 3)
    BY TimesAssumption
  <2> QED
    BY <2>1
<1>2. EXPIRY = 3 * HEARTBEAT_INTERVAL + HEARTBEAT_INTERVAL * n
  BY <1>1, TimesAssumption DEF EXPIRY
<1>3. HEARTBEAT_INTERVAL * n >= 0
  BY TimesAssumption
<1> QED
  BY <1>2, <1>3, TermIsNat, TimesAssumption

(* A step of worker w leaves the terms of the others as they were; its own *)
(* is to be shown only when nothing of it is under way.                    *)
LEMMA OneWorkerStep ==
  ASSUME IInv, TermsInv, NEW w \in Workers,
         UNCHANGED <<prompt, workers>>,
         \A v \in Workers \ {w} :
           /\ conn'[v] = conn[v] /\ pc'[v] = pc[v] /\ timer'[v] = timer[v]
           /\ heartbeat_at'[v] = heartbeat_at[v]
           /\ conn[v] \in Listed(workers) /\ toQueue'[conn[v]] = <<>>
              => toQueue[conn[v]] = <<>>,
         pc'[w] = "poll" => timer'[w] <= HEARTBEAT_INTERVAL,
         \A k \in DOMAIN workers :
           prompt /\ conn'[w] = workers[k].identity /\ toQueue'[conn'[w]] = <<>> =>
             /\ heartbeat_at'[w] >= 0 =>
                  workers[k].expiry >= EXPIRY - HEARTBEAT_INTERVAL + heartbeat_at'[w]
             /\ pc'[w] = "poll" =>
                  workers[k].expiry >= EXPIRY - 2 * HEARTBEAT_INTERVAL + timer'[w]
  PROVE  TermsInv'
<1>1. ShortPolls'
  BY DEF TermsInv, ShortPolls
<1>2. PromptTerms'
  <2> SUFFICES ASSUME prompt, NEW v \in Workers, NEW k \in DOMAIN workers,
                      conn'[v] = workers[k].identity, toQueue'[conn'[v]] = <<>>
               PROVE  /\ heartbeat_at'[v] >= 0 =>
                           workers[k].expiry
                             >= EXPIRY - HEARTBEAT_INTERVAL + heartbeat_at'[v]
                      /\ pc'[v] = "poll" =>
                           workers[k].expiry
                             >= EXPIRY - 2 * HEARTBEAT_INTERVAL + timer'[v]
    BY DEF PromptTerms
  <2>1. CASE v = w
    BY <2>1
  <2>2. CASE v # w
    <3>1. /\ conn[v] = workers[k].identity /\ conn[v] \in Listed(workers)
          /\ toQueue[conn[v]] = <<>> /\ pc'[v] = pc[v] /\ timer'[v] = timer[v]
          /\ heartbeat_at'[v] = heartbeat_at[v]
      BY <2>2 DEF Listed
    <3> QED
      BY <3>1 DEF TermsInv, PromptTerms
  <2> QED
    BY <2>1, <2>2
<1> QED
  BY <1>1, <1>2 DEF TermsInv

LEMMA TermsQueue ==
  ASSUME IInv, TermsInv, QueueLoop
  PROVE  TermsInv'
<1>1. PICK b \in BackendInput \union {None}, f \in FrontendInput \union {None} :
        QueueTurn(b, f)
  BY DEF QueueLoop, Readable
<1>2. /\ UNCHANGED <<prompt, pc, conn, timer, heartbeat_at>>
      /\ \A i \in Ids : i # b => toQueue'[i] = toQueue[i]
  BY <1>1 DEF QueueTurn, workerVars, IInv, TypeOK
<1>3. ShortPolls'
  BY <1>2 DEF TermsInv, ShortPolls
<1>4. PromptTerms'
  <2> SUFFICES ASSUME prompt, NEW w \in Workers, NEW k \in DOMAIN workers',
                      conn[w] = workers'[k].identity, toQueue'[conn[w]] = <<>>
               PROVE  /\ heartbeat_at[w] >= 0 =>
                           workers'[k].expiry
                             >= EXPIRY - HEARTBEAT_INTERVAL + heartbeat_at[w]
                      /\ pc[w] = "poll" =>
                           workers'[k].expiry
                             >= EXPIRY - 2 * HEARTBEAT_INTERVAL + timer[w]
    BY <1>2 DEF PromptTerms
  <2>1. CASE workers'[k].expiry = EXPIRY
    <3>1. /\ heartbeat_at[w] \in -1 .. HEARTBEAT_INTERVAL /\ timer[w] \in Nat
          /\ pc[w] = "poll" => timer[w] <= HEARTBEAT_INTERVAL
      BY DEF IInv, TypeOK, TermsInv, ShortPolls
    <3> QED
      BY <2>1, <3>1, TermsStart
  <2>2. CASE /\ workers'[k].identity # b
             /\ \E n \in DOMAIN workers : workers'[k] = workers[n]
    <3>1. PICK n \in DOMAIN workers : workers'[k] = workers[n]
      BY <2>2
    <3>2. workers' \in Seq(Entry)
      BY <1>1, Turn
    <3>3. conn[w] \in Ids
      BY <3>2, Lists
    <3>4. toQueue[conn[w]] = <<>>
      BY <1>2, <2>2, <3>3
    <3> QED
      BY <3>1, <3>4 DEF TermsInv, PromptTerms
  <2> QED
    BY <1>1, <2>1, <2>2, Turn
<1> QED
  BY <1>3, <1>4 DEF TermsInv

(* The end of the loop of a worker that has its connection. *)
LEMMA TermsPollAgain ==
  ASSUME IInv, TermsInv, NEW w \in Workers, pc[w] # "down",
         PollAgain(w, conn[w], <<>>), UNCHANGED <<prompt, workers, conn>>
  PROVE  TermsInv'
<1> DEFINE beat == IF heartbeat_at[w] < 0 THEN <<HEARTBEAT>> ELSE <<>>
<1>1. /\ conn[w] \in Ids /\ conn[w] # None /\ toQueue[conn[w]] \in Seq(Messages)
  BY Connection
<1>2. /\ pc' = [pc EXCEPT ![w] = "poll"]
      /\ timer' = [timer EXCEPT ![w] = HEARTBEAT_INTERVAL]
      /\ toQueue' = [toQueue EXCEPT ![conn[w]] = @ \o beat]
  BY PollAgainTypes
<1>3. heartbeat_at' = [heartbeat_at EXCEPT ![w] =
                         IF heartbeat_at[w] < 0 THEN HEARTBEAT_INTERVAL ELSE @]
  BY DEF PollAgain
<1>4. /\ heartbeat_at[w] \in -1 .. HEARTBEAT_INTERVAL /\ HEARTBEAT_INTERVAL \in Nat
      /\ EXPIRY \in Nat
  BY TermsStart DEF IInv, TypeOK
<1>5. \A v \in Workers \ {w} :
        /\ conn'[v] = conn[v] /\ pc'[v] = pc[v] /\ timer'[v] = timer[v]
        /\ heartbeat_at'[v] = heartbeat_at[v]
        /\ conn[v] # conn[w]
  BY <1>1, <1>2, <1>3 DEF IInv, TypeOK, OneSocket
<1>6. \A v \in Workers \ {w} : conn[v] \in Listed(workers) => conn[v] \in Ids
  <2>1. workers \in Seq(Entry)
    BY DEF IInv, TypeOK
  <2> QED
    BY <2>1, Lists DEF Listed
<1>7. \A v \in Workers \ {w} :
        conn[v] \in Listed(workers) => toQueue'[conn[v]] = toQueue[conn[v]]
  BY <1>2, <1>5, <1>6 DEF IInv, TypeOK
<1>8. pc'[w] = "poll" /\ timer'[w] = HEARTBEAT_INTERVAL
  BY <1>2 DEF IInv, TypeOK
<1>9. ASSUME NEW k \in DOMAIN workers, prompt, conn[w] = workers[k].identity,
             toQueue'[conn[w]] = <<>>
      PROVE  /\ heartbeat_at'[w] >= 0 =>
                  workers[k].expiry
                    >= EXPIRY - HEARTBEAT_INTERVAL + heartbeat_at'[w]
             /\ workers[k].expiry
                  >= EXPIRY - 2 * HEARTBEAT_INTERVAL + HEARTBEAT_INTERVAL
  <2>1. toQueue'[conn[w]] = toQueue[conn[w]] \o beat
    BY <1>1, <1>2 DEF IInv, TypeOK
  <2>2. beat \in Seq(Messages)
    BY Mail DEF Messages
  <2>3. toQueue[conn[w]] = <<>> /\ beat = <<>>
    <3> HIDE DEF beat
    <3>1. Len(toQueue[conn[w]]) + Len(beat) = Len(toQueue'[conn[w]])
      BY <1>1, <2>1, <2>2, ConcatProperties
    <3>2. Len(toQueue'[conn[w]]) = 0
      BY <1>9
    <3>3. Len(toQueue[conn[w]]) = 0 /\ Len(beat) = 0
      BY <1>1, <2>2, <3>1, <3>2, Mail
    <3> QED
      BY <1>1, <2>2, <3>3, EmptySeq
  <2>4. heartbeat_at[w] >= 0
    <3>1. <<HEARTBEAT>> # <<>>
      OBVIOUS
    <3> QED
      BY <1>4, <2>3, <3>1
  <2>5. heartbeat_at'[w] = heartbeat_at[w]
    BY <1>3, <1>4, <2>4 DEF IInv, TypeOK
  <2>6. workers[k].expiry >= EXPIRY - HEARTBEAT_INTERVAL + heartbeat_at[w]
    BY <1>9, <2>3, <2>4 DEF TermsInv, PromptTerms
  <2>7. workers[k].expiry \in Nat
    <3>1. workers \in Seq(Entry)
      BY DEF IInv, TypeOK
    <3> QED
      BY <3>1, Lists, TermIsNat
  <2> QED
    BY <1>4, <2>4, <2>5, <2>6, <2>7
<1>10. HEARTBEAT_INTERVAL <= HEARTBEAT_INTERVAL
  BY <1>4
<1> HIDE DEF beat
<1> QED
  BY <1>5, <1>7, <1>8, <1>9, <1>10, OneWorkerStep

LEMMA TermsExit ==
  ASSUME IInv, TermsInv, NEW w \in Workers, pc[w] # "down", WorkerExit(w)
  PROVE  TermsInv'
<1>1. conn[w] \in Ids /\ conn[w] # None
  BY Connection
<1>2. PICK n : toQueue' = [toQueue EXCEPT ![conn[w]] = SubSeq(@, 1, n)]
  BY DEF WorkerExit
<1>3. /\ pc' = [pc EXCEPT ![w] = "down"] /\ timer' = [timer EXCEPT ![w] = 0]
      /\ conn' = [conn EXCEPT ![w] = None]
      /\ heartbeat_at' = [heartbeat_at EXCEPT ![w] = HEARTBEAT_INTERVAL]
      /\ UNCHANGED <<prompt, workers>>
  BY DEF WorkerExit, Rest, queueVars
<1>4. \A k \in DOMAIN workers : workers[k].identity \in Ids
  <2>1. workers \in Seq(Entry)
    BY DEF IInv, TypeOK
  <2> QED
    BY <2>1, Lists
<1>5. \A v \in Workers \ {w} :
        /\ conn'[v] = conn[v] /\ pc'[v] = pc[v] /\ timer'[v] = timer[v]
        /\ heartbeat_at'[v] = heartbeat_at[v] /\ conn[v] # conn[w]
  BY <1>1, <1>3 DEF IInv, TypeOK, OneSocket
<1>6. \A v \in Workers \ {w} :
        conn[v] \in Listed(workers) => toQueue'[conn[v]] = toQueue[conn[v]]
  BY <1>2, <1>4, <1>5 DEF IInv, TypeOK, Listed
<1>7. pc'[w] = "down" /\ conn'[w] = None
  BY <1>3 DEF IInv, TypeOK
<1>8. \A k \in DOMAIN workers : conn'[w] # workers[k].identity
  BY <1>4, <1>7, NamesAssumption
<1> QED
  BY <1>3, <1>5, <1>6, <1>7, <1>8, OneWorkerStep

LEMMA TermsFresh ==
  ASSUME IInv, TermsInv, NEW w \in Workers, NEW i \in Ids, Unused(i),
         conn' = [conn EXCEPT ![w] = i], pc' = [pc EXCEPT ![w] = "poll"],
         timer' = [timer EXCEPT ![w] = HEARTBEAT_INTERVAL],
         UNCHANGED <<prompt, workers>>,
         \A v \in Workers \ {w} :
           /\ heartbeat_at'[v] = heartbeat_at[v]
           /\ conn[v] \in Ids \ {i} => toQueue'[conn[v]] = toQueue[conn[v]]
  PROVE  TermsInv'
<1>1. \A v \in Workers \ {w} :
        conn'[v] = conn[v] /\ pc'[v] = pc[v] /\ timer'[v] = timer[v]
  BY DEF IInv, TypeOK
<1>2. \A v \in Workers \ {w} :
        conn[v] \in Listed(workers) => toQueue'[conn[v]] = toQueue[conn[v]]
  <2>1. \A v \in Workers : conn[v] # i
    BY DEF Unused, Connected
  <2>2. workers \in Seq(Entry)
    BY DEF IInv, TypeOK
  <2>3. \A j \in Listed(workers) : j \in Ids
    BY <2>2, Lists DEF Listed
  <2> QED
    BY <2>1, <2>3
<1>3. pc'[w] = "poll" => timer'[w] <= HEARTBEAT_INTERVAL
  BY TermsStart DEF IInv, TypeOK
<1>4. \A k \in DOMAIN workers : conn'[w] # workers[k].identity
  BY DEF IInv, TypeOK, Unused, Listed
<1> QED
  BY <1>1, <1>2, <1>3, <1>4, OneWorkerStep

LEMMA TermsReconnect ==
  ASSUME IInv, TermsInv, NEW w \in Workers, WorkerReconnect(w)
  PROVE  TermsInv'
<1>1. conn[w] \in Ids /\ conn[w] # None
  BY Connection DEF WorkerReconnect
<1> DEFINE due == heartbeat_at[w] < 0
           hello == <<READY>> \o (IF due THEN <<HEARTBEAT>> ELSE <<>>)
<1>2. PICK i \in Ids, n \in Arrived(conn[w]) :
        /\ Unused(i) /\ conn' = [conn EXCEPT ![w] = i]
        /\ toQueue' = [toQueue EXCEPT ![conn[w]] = SubSeq(@, 1, n), ![i] = hello]
  BY DEF WorkerReconnect
<1> HIDE DEF hello
<1>3. /\ pc' = [pc EXCEPT ![w] = "poll"]
      /\ timer' = [timer EXCEPT ![w] = HEARTBEAT_INTERVAL]
      /\ UNCHANGED <<prompt, workers>>
  BY DEF WorkerReconnect, Rest, queueVars
<1>4. \A v \in Workers \ {w} : heartbeat_at'[v] = heartbeat_at[v]
  BY DEF WorkerReconnect, IInv, TypeOK
<1>5. \A v \in Workers \ {w} :
        conn[v] \in Ids \ {i} => toQueue'[conn[v]] = toQueue[conn[v]]
  <2>1. \A j \in Ids \ {i, conn[w]} : toQueue'[j] = toQueue[j]
    BY <1>2 DEF IInv, TypeOK
  <2>2. \A v \in Workers \ {w} : conn[v] # conn[w]
    BY <1>1 DEF IInv, OneSocket
  <2> QED
    BY <2>1, <2>2
<1> QED
  BY <1>2, <1>3, <1>4, <1>5, TermsFresh

LEMMA TermsStarted ==
  ASSUME IInv, TermsInv, NEW w \in Workers, WorkerStart(w)
  PROVE  TermsInv'
<1>1. PICK i \in Ids : /\ Unused(i) /\ conn' = [conn EXCEPT ![w] = i]
                       /\ toQueue' = [toQueue EXCEPT ![i] = <<READY>>]
  BY DEF WorkerStart
<1>2. /\ pc' = [pc EXCEPT ![w] = "poll"]
      /\ timer' = [timer EXCEPT ![w] = HEARTBEAT_INTERVAL]
      /\ UNCHANGED <<prompt, workers, heartbeat_at>>
  BY DEF WorkerStart, Rest, queueVars
<1>3. \A v \in Workers \ {w} :
        conn[v] \in Ids \ {i} => toQueue'[conn[v]] = toQueue[conn[v]]
  BY <1>1 DEF IInv, TypeOK
<1> QED
  BY <1>1, <1>2, <1>3, TermsFresh

(* A worker that leaves its poll for a sleep: what it was granted stands. *)
LEMMA TermsSleep ==
  ASSUME IInv, TermsInv, NEW w \in Workers, NEW resting \in {"sleep", "backoff"},
         NEW time, Rest(w, resting, time),
         UNCHANGED <<prompt, workers, conn, heartbeat_at>>,
         conn[w] \in Ids,
         \/ UNCHANGED toQueue
         \/ \E r : toQueue' = [toQueue EXCEPT ![conn[w]] = Append(@, r)]
  PROVE  TermsInv'
<1>1. \A v \in Workers \ {w} : pc'[v] = pc[v] /\ timer'[v] = timer[v]
  BY DEF Rest, IInv, TypeOK
<1>2. pc'[w] # "poll"
  BY DEF Rest, IInv, TypeOK
<1>3. \A v \in Workers \ {w} :
        conn[v] \in Listed(workers) => toQueue'[conn[v]] = toQueue[conn[v]]
  <2>1. \A v \in Workers \ {w} : conn[v] # conn[w]
    BY NamesAssumption DEF IInv, OneSocket
  <2>2. workers \in Seq(Entry)
    BY DEF IInv, TypeOK
  <2>3. \A j \in Listed(workers) : j \in Ids
    BY <2>2, Lists DEF Listed
  <2> QED
    BY <2>1, <2>3 DEF IInv, TypeOK
<1>4. toQueue'[conn[w]] = <<>> => toQueue[conn[w]] = <<>>
  <2>1. ASSUME NEW r, toQueue' = [toQueue EXCEPT ![conn[w]] = Append(@, r)]
        PROVE  toQueue'[conn[w]] # <<>>
    <3>1. toQueue[conn[w]] \in Seq(Messages \union {r})
      <4>1. toQueue[conn[w]] \in Seq(Messages)
        BY DEF IInv, TypeOK
      <4> QED
        BY <4>1
    <3>2. Append(toQueue[conn[w]], r) # <<>>
      BY <3>1, AppendProperties
    <3> QED
      BY <2>1, <3>2 DEF IInv, TypeOK
  <2> QED
    BY <2>1
<1>5. \A k \in DOMAIN workers :
        /\ prompt /\ conn'[w] = workers[k].identity /\ toQueue'[conn'[w]] = <<>>
        /\ heartbeat_at'[w] >= 0
        => workers[k].expiry >= EXPIRY - HEARTBEAT_INTERVAL + heartbeat_at'[w]
  BY <1>4 DEF TermsInv, PromptTerms
<1> QED
  BY <1>1, <1>2, <1>3, <1>5, OneWorkerStep

LEMMA TermsLoop ==
  ASSUME IInv, TermsInv, NEW w \in Workers, WorkerLoop(w)
  PROVE  TermsInv'
<1>1. CASE WorkerReply(w)
  <2>1. PICK r \in Requests :
          /\ Polled(w, r) /\ Rest(w, "sleep", WORK)
          /\ toQueue' = [toQueue EXCEPT ![conn[w]] = Append(@, r)]
          /\ UNCHANGED <<prompt, workers, conn, heartbeat_at>>
    BY <1>1 DEF WorkerReply, queueVars
  <2>2. conn[w] \in Ids
    BY <2>1, Connection DEF Polled
  <2> QED
    BY <2>1, <2>2, TermsSleep
<1>2. CASE WorkerCrash(w)
  BY <1>2, TermsExit DEF WorkerCrash, Polled
<1>3. CASE WorkerOverload(w)
  <2>1. /\ pc[w] # "down" /\ Rest(w, "sleep", OVERLOAD)
        /\ UNCHANGED <<prompt, workers, conn, heartbeat_at, toQueue>>
    BY <1>3 DEF WorkerOverload, Polled, queueVars
  <2> QED
    BY <2>1, Connection, TermsSleep
<1>4. CASE WorkerWake(w)
  BY <1>4, TermsPollAgain DEF WorkerWake, queueVars
<1>5. CASE WorkerHeard(w)
  BY <1>5, TermsPollAgain DEF WorkerHeard, Polled, queueVars
<1>6. CASE WorkerTimeout(w)
  BY <1>6, TermsPollAgain DEF WorkerTimeout, PolledNothing, queueVars
<1>7. CASE WorkerGiveUp(w)
  <2>1. /\ pc[w] # "down" /\ Rest(w, "backoff", interval[w])
        /\ UNCHANGED <<prompt, workers, conn, heartbeat_at, toQueue>>
    BY <1>7 DEF WorkerGiveUp, PolledNothing, queueVars, wireVars
  <2> QED
    BY <2>1, Connection, TermsSleep
<1>8. CASE WorkerReconnect(w)
  BY <1>8, TermsReconnect
<1> QED
  BY <1>1, <1>2, <1>3, <1>4, <1>5, <1>6, <1>7, <1>8 DEF WorkerLoop

(* While everyone waits, a poll has time left: it and the term lose alike. *)
LEMMA TermsTick ==
  ASSUME IInv, TermsInv, Tick, HEARTBEAT_LIVENESS >= 3
  PROVE  TermsInv'
<1>1. /\ UNCHANGED <<prompt, toQueue, pc, conn>>
      /\ timer' = [w \in Workers |-> Lower(timer[w], 0)]
      /\ heartbeat_at' = [w \in Workers |->
           IF pc[w] = "down" THEN heartbeat_at[w] ELSE Lower(heartbeat_at[w], -1)]
      /\ workers' = [k \in DOMAIN workers |->
                       [workers[k] EXCEPT !.expiry = Lower(@, 0)]]
  BY DEF Tick, wireVars
<1>2. \A w \in Workers : timer[w] \in Nat /\ heartbeat_at[w] \in -1 .. HEARTBEAT_INTERVAL
  BY DEF IInv, TypeOK
<1>3. ShortPolls'
  <2>1. \A w \in Workers : Lower(timer[w], 0) <= timer[w] /\ Lower(timer[w], 0) \in Nat
    BY <1>2, LowerTypes
  <2> QED
    BY <1>1, <1>2, <2>1, TermsStart DEF TermsInv, ShortPolls
<1>4. PromptTerms'
  <2> SUFFICES ASSUME prompt, NEW w \in Workers, NEW k \in DOMAIN workers,
                      conn[w] = workers'[k].identity, toQueue[conn[w]] = <<>>
               PROVE  /\ heartbeat_at'[w] >= 0 =>
                           workers'[k].expiry
                             >= EXPIRY - HEARTBEAT_INTERVAL + heartbeat_at'[w]
                      /\ pc[w] = "poll" =>
                           workers'[k].expiry
                             >= EXPIRY - 2 * HEARTBEAT_INTERVAL + timer'[w]
    BY <1>1 DEF PromptTerms
  <2>1. /\ workers[k] \in Entry /\ workers[k].identity \in Ids
        /\ workers[k].expiry \in 0 .. EXPIRY
    <3>1. workers \in Seq(Entry)
      BY DEF IInv, TypeOK
    <3> QED
      BY <3>1, Lists
  <2>2. /\ workers'[k].identity = workers[k].identity
        /\ workers'[k].expiry = Lower(workers[k].expiry, 0)
    BY <1>1, <2>1 DEF Entry
  <2>3. pc[w] # "down"
    BY <2>1, <2>2, NamesAssumption DEF IInv, Named
  <2>4. timer[w] > 0
    BY <1>2, <2>3 DEF Tick, WorkerRunnable
  <2>5. /\ timer'[w] = timer[w] - 1
        /\ heartbeat_at'[w] = Lower(heartbeat_at[w], -1)
    BY <1>1, <1>2, <2>3, <2>4 DEF Lower
  <2>6. /\ heartbeat_at[w] >= 0 =>
             workers[k].expiry >= EXPIRY - HEARTBEAT_INTERVAL + heartbeat_at[w]
        /\ pc[w] = "poll" =>
             workers[k].expiry >= EXPIRY - 2 * HEARTBEAT_INTERVAL + timer[w]
    BY <2>2 DEF TermsInv, PromptTerms
  <2>7. /\ EXPIRY \in Nat /\ HEARTBEAT_INTERVAL \in Nat
        /\ EXPIRY >= 3 * HEARTBEAT_INTERVAL
    BY LongTerm, TermsStart
  <2>8. CASE heartbeat_at'[w] >= 0
    <3>1. heartbeat_at[w] >= 1 /\ heartbeat_at'[w] = heartbeat_at[w] - 1
      BY <1>2, <2>5, <2>8 DEF Lower
    <3>2. workers[k].expiry >= EXPIRY - HEARTBEAT_INTERVAL + heartbeat_at[w]
      BY <1>2, <2>6, <3>1
    <3>3. workers'[k].expiry = workers[k].expiry - 1
      BY <1>2, <2>1, <2>2, <2>7, <3>1, <3>2 DEF Lower
    <3>4. workers'[k].expiry >= EXPIRY - HEARTBEAT_INTERVAL + heartbeat_at'[w]
      BY <1>2, <2>1, <2>7, <3>1, <3>2, <3>3
    <3>5. pc[w] = "poll" =>
            workers[k].expiry - 1 >= EXPIRY - 2 * HEARTBEAT_INTERVAL + (timer[w] - 1)
      BY <1>2, <2>1, <2>6, <2>7
    <3> QED
      BY <1>1, <2>5, <3>3, <3>4, <3>5
  <2>9. CASE ~(heartbeat_at'[w] >= 0)
    <3>1. CASE pc[w] = "poll"
      <4>1. workers[k].expiry >= EXPIRY - 2 * HEARTBEAT_INTERVAL + timer[w]
        BY <2>6, <3>1
      <4>2. workers'[k].expiry = workers[k].expiry - 1
        BY <1>2, <2>1, <2>2, <2>4, <2>7, <4>1 DEF Lower
      <4> QED
        BY <1>2, <2>1, <2>5, <2>7, <2>9, <4>1, <4>2
    <3> QED
      BY <2>9, <3>1
  <2> QED
    BY <2>8, <2>9
<1> QED
  BY <1>3, <1>4 DEF TermsInv

LEMMA TermsNext ==
  ASSUME IInv, TermsInv, [Next]_vars, HEARTBEAT_LIVENESS >= 3
  PROVE  TermsInv'
<1>1. CASE QueueLoop
  BY <1>1, TermsQueue
<1>2. CASE QueueStop
  <2>1. /\ UNCHANGED <<pc, timer>> /\ workers' = <<>>
    BY <1>2 DEF QueueStop, workerVars
  <2> QED
    BY <2>1, EmptySeq DEF TermsInv, ShortPolls, PromptTerms
<1>3. CASE \/ QueueStart \/ (\E r \in Requests : Submit(r)) \/ UNCHANGED vars
  <2>1. UNCHANGED <<prompt, workers, toQueue, pc, conn, timer, heartbeat_at>>
    BY <1>3 DEF QueueStart, Submit, vars, queueVars, wireVars, workerVars
  <2>2. ShortPolls' /\ PromptTerms'
    BY <2>1 DEF TermsInv, ShortPolls, PromptTerms
  <2> QED
    BY <2>2 DEF TermsInv
<1>4. ASSUME NEW w \in Workers, WorkerStart(w) PROVE TermsInv'
  BY <1>4, TermsStarted
<1>5. ASSUME NEW w \in Workers, WorkerStop(w) PROVE TermsInv'
  BY <1>5, TermsExit DEF WorkerStop
<1>6. ASSUME NEW w \in Workers, WorkerLoop(w) PROVE TermsInv'
  BY <1>6, TermsLoop
<1>7. CASE Tick
  BY <1>7, TermsTick
<1> QED
  BY <1>1, <1>2, <1>3, <1>4, <1>5, <1>6, <1>7 DEF Next

(* While time passes only when every process waits, no worker that is      *)
(* polling and has nothing under way to the queue reaches the end of its   *)
(* term, for any number of workers and any times of work and overload:     *)
(* provided HEARTBEAT_LIVENESS is at least 3, as it is in ppq.h.  Of two   *)
(* intervals nothing would be left: a worker may use both before it sends. *)
THEOREM PollersAreNotPurged ==
  ASSUME HEARTBEAT_LIVENESS >= 3
  PROVE  Spec => []PollingNeverExpires
<1>1. Init => TermsInv
  BY EmptySeq DEF Init, TermsInv, ShortPolls, PromptTerms
<1>2. IInv /\ TermsInv /\ [Next]_vars => TermsInv'
  BY TermsNext
<1>3. IInv /\ TermsInv => PollingNeverExpires
  <2> SUFFICES ASSUME IInv, TermsInv, prompt, NEW w \in Workers,
                      NEW k \in DOMAIN workers, pc[w] = "poll",
                      conn[w] = workers[k].identity, toQueue[conn[w]] = <<>>
               PROVE  workers[k].expiry > 0
    BY DEF PollingNeverExpires
  <2>1. workers[k].expiry >= EXPIRY - 2 * HEARTBEAT_INTERVAL + timer[w]
    BY DEF TermsInv, PromptTerms
  <2>2. timer[w] \in Nat /\ workers \in Seq(Entry)
    BY DEF IInv, TypeOK
  <2>3. workers[k].expiry \in 0 .. EXPIRY
    BY <2>2, Lists
  <2> QED
    BY <2>1, <2>2, <2>3, LongTerm, TermsStart
<1> QED
  BY <1>1, <1>2, <1>3, Invariant, PTL DEF Spec

-----------------------------------------------------------------------------
(* The clients in front of the queue.  What sits on the wires, and how     *)
(* often, when the wires change.                                           *)

(* Of message q there is no more on the wire than before. *)
Keeps(q, new, old) ==
  /\ Occurs(q, new) => Occurs(q, old)
  /\ Once(q, old) => Once(q, new)

LEMMA CutKeeps ==
  ASSUME NEW S, NEW mail \in Seq(S), NEW m \in Nat, NEW n \in Nat,
         m >= 1, n <= Len(mail), NEW q
  PROVE  Keeps(q, SubSeq(mail, m, n), mail)
<1> DEFINE cut == SubSeq(mail, m, n)
<1>1. /\ Len(mail) \in Nat /\ DOMAIN mail = 1 .. Len(mail)
      /\ \A k \in DOMAIN mail : mail[k] \in S
  BY LenProperties, ElementOfSeq
<1>2. /\ cut \in Seq(S) /\ Len(cut) = IF m <= n THEN n - m + 1 ELSE 0
      /\ \A k \in 1 .. n - m + 1 : cut[k] = mail[m + k - 1]
  <2>1. \A k \in m .. n : mail[k] \in S
    BY <1>1
  <2> QED
    BY <2>1, SubSeqProperties
<1> HIDE DEF cut
<1>3. \A k \in DOMAIN cut : /\ k \in Nat /\ m + k - 1 \in DOMAIN mail
                            /\ cut[k] = mail[m + k - 1]
  <2>1. DOMAIN cut = 1 .. Len(cut)
    BY <1>2, LenProperties
  <2> QED
    BY <1>1, <1>2, <2>1
<1>4. Occurs(q, cut) => Occurs(q, mail)
  BY <1>3 DEF Occurs
<1>5. Once(q, mail) => Once(q, cut)
  <2> SUFFICES ASSUME Once(q, mail), NEW k \in DOMAIN cut, NEW l \in DOMAIN cut,
                      cut[k] = q, cut[l] = q
               PROVE  k = l
    BY DEF Once
  <2>1. m + k - 1 = m + l - 1
    BY <1>3 DEF Once
  <2> QED
    BY <1>3, <2>1
<1> QED
  BY <1>4, <1>5 DEF Keeps, cut

LEMMA TailKeeps ==
  ASSUME NEW S, NEW mail \in Seq(S), mail # <<>>, NEW q
  PROVE  /\ Keeps(q, Tail(mail), mail) /\ Occurs(Head(mail), mail)
         /\ Once(Head(mail), mail) => ~Occurs(Head(mail), Tail(mail))
<1>1. /\ Len(mail) \in Nat /\ Len(mail) >= 1 /\ DOMAIN mail = 1 .. Len(mail)
      /\ Tail(mail) = SubSeq(mail, 2, Len(mail))
      /\ Head(mail) = mail[1]
  BY LenProperties, EmptySeq, TailIsSubSeq
<1>2. Keeps(q, Tail(mail), mail)
  <2>1. 2 \in Nat /\ 2 >= 1 /\ Len(mail) <= Len(mail)
    BY <1>1
  <2>2. Keeps(q, SubSeq(mail, 2, Len(mail)), mail)
    BY <1>1, <2>1, CutKeeps
  <2> QED
    BY <1>1, <2>2
<1>3. Occurs(Head(mail), mail)
  BY <1>1 DEF Occurs
<1>4. ASSUME Once(Head(mail), mail), Occurs(Head(mail), Tail(mail))
      PROVE  FALSE
  <2>1. /\ Len(Tail(mail)) = Len(mail) - 1 /\ Tail(mail) \in Seq(S)
        /\ \A k \in 1 .. Len(Tail(mail)) : Tail(mail)[k] = mail[k + 1]
    BY HeadTailProperties
  <2>2. DOMAIN Tail(mail) = 1 .. Len(mail) - 1
    BY <2>1, LenProperties
  <2>3. PICK k \in 1 .. Len(mail) - 1 : mail[k + 1] = Head(mail)
    BY <1>1, <1>4, <2>1, <2>2 DEF Occurs
  <2>4. k + 1 \in DOMAIN mail /\ 1 \in DOMAIN mail /\ k + 1 # 1
    BY <1>1
  <2> QED
    BY <1>1, <1>4, <2>3, <2>4 DEF Once
<1> QED
  BY <1>2, <1>3, <1>4

LEMMA JoinKeeps ==
  ASSUME NEW S, NEW mail \in Seq(S), NEW more \in Seq(S), NEW q
  PROVE  /\ Occurs(q, mail \o more) <=> Occurs(q, mail) \/ Occurs(q, more)
         /\ /\ Once(q, mail) /\ Once(q, more)
            /\ ~(Occurs(q, mail) /\ Occurs(q, more))
            => Once(q, mail \o more)
<1> DEFINE all == mail \o more
<1>1. /\ Len(mail) \in Nat /\ DOMAIN mail = 1 .. Len(mail)
      /\ Len(more) \in Nat /\ DOMAIN more = 1 .. Len(more)
  BY LenProperties
<1>2. /\ all \in Seq(S) /\ Len(all) = Len(mail) + Len(more)
      /\ \A k \in 1 .. Len(mail) + Len(more) :
           all[k] = IF k <= Len(mail) THEN mail[k] ELSE more[k - Len(mail)]
  BY ConcatProperties
<1> HIDE DEF all
<1>3. DOMAIN all = 1 .. Len(mail) + Len(more)
  BY <1>2, LenProperties
<1>4. \A k \in DOMAIN all :
        \/ k \in DOMAIN mail /\ all[k] = mail[k]
        \/ /\ k - Len(mail) \in DOMAIN more /\ k \in Nat
           /\ all[k] = more[k - Len(mail)]
  BY <1>1, <1>2, <1>3
<1>5. Occurs(q, all) => Occurs(q, mail) \/ Occurs(q, more)
  BY <1>4 DEF Occurs
<1>6. Occurs(q, mail) => Occurs(q, all)
  <2> SUFFICES ASSUME NEW k \in DOMAIN mail, mail[k] = q PROVE Occurs(q, all)
    BY DEF Occurs
  <2>1. k \in DOMAIN all /\ all[k] = mail[k]
    BY <1>1, <1>2, <1>3
  <2> QED
    BY <2>1 DEF Occurs
<1>7. Occurs(q, more) => Occurs(q, all)
  <2> SUFFICES ASSUME NEW k \in DOMAIN more, more[k] = q PROVE Occurs(q, all)
    BY DEF Occurs
  <2>1. k + Len(mail) \in DOMAIN all /\ k + Len(mail) - Len(mail) = k
        /\ ~(k + Len(mail) <= Len(mail))
    BY <1>1, <1>3
  <2>2. all[k + Len(mail)] = more[k]
    BY <1>2, <1>3, <2>1
  <2> QED
    BY <2>1, <2>2 DEF Occurs
<1>8. ASSUME Once(q, mail), Once(q, more), ~(Occurs(q, mail) /\ Occurs(q, more))
      PROVE  Once(q, all)
  <2> SUFFICES ASSUME NEW k \in DOMAIN all, NEW n \in DOMAIN all,
                      all[k] = q, all[n] = q
               PROVE  k = n
    BY DEF Once
  <2>1. CASE Occurs(q, mail)
    <3>1. k \in DOMAIN mail /\ mail[k] = q /\ n \in DOMAIN mail /\ mail[n] = q
      BY <1>4, <1>8, <2>1 DEF Occurs
    <3> QED
      BY <1>8, <3>1 DEF Once
  <2>2. CASE ~Occurs(q, mail)
    <3>1. /\ k - Len(mail) \in DOMAIN more /\ more[k - Len(mail)] = q
          /\ n - Len(mail) \in DOMAIN more /\ more[n - Len(mail)] = q
          /\ k \in Nat /\ n \in Nat
      BY <1>4, <2>2 DEF Occurs
    <3>2. k - Len(mail) = n - Len(mail)
      BY <1>8, <3>1 DEF Once
    <3> QED
      BY <1>1, <3>1, <3>2
  <2> QED
    BY <2>1, <2>2
<1> QED
  BY <1>5, <1>6, <1>7, <1>8 DEF all

LEMMA AbsentOnce == \A q, x : ~Occurs(q, x) => Once(q, x)
BY DEF Occurs, Once

LEMMA ShortMail ==
  /\ \A q : ~Occurs(q, <<>>) /\ Once(q, <<>>)
  /\ \A q, m : (Occurs(q, <<m>>) <=> q = m) /\ Once(q, <<m>>)
<1>1. DOMAIN <<>> = {}
  BY EmptySeq
<1>2. \A m : DOMAIN <<m>> = {1} /\ <<m>>[1] = m
  OBVIOUS
<1>3. \A q : ~Occurs(q, <<>>) /\ Once(q, <<>>)
  BY <1>1 DEF Occurs, Once
<1>4. \A q, m : (Occurs(q, <<m>>) <=> q = m) /\ Once(q, <<m>>)
  BY <1>2 DEF Occurs, Once
<1> QED
  BY <1>3, <1>4

(* What sits anywhere is a try, and if it is one of the client's present   *)
(* socket, then the one that the client waits for without a reply yet.     *)
(* The tries of the present request came from the sockets since it began.  *)
Awaited(q) ==
  Sits(q) =>
    /\ q \in [client : Clients, socket : Nat, sequence : Nat]
    /\ q.socket <= socket[q.client] /\ q.sequence <= sequence[q.client]
    /\ state[q.client] = "expect_reply" /\ q.sequence = sequence[q.client] =>
         socket[q.client] + retries_left[q.client] <= q.socket + REQUEST_RETRIES
    /\ q.socket = socket[q.client] =>
         /\ state[q.client] = "expect_reply"
         /\ q.sequence = sequence[q.client] /\ reply[q.client] = None

LEMMA PlaceFacts ==
  /\ \A i \in Ids : /\ <<"toQueue", i>> \in Places /\ <<"toWorker", i>> \in Places
                    /\ On(<<"toQueue", i>>) = toQueue[i]
                    /\ On(<<"toWorker", i>>) = toWorker[i]
  /\ \A p \in Places :
       \/ p = <<"toQueue", p[2]>> /\ p[2] \in Ids /\ On(p) = toQueue[p[2]]
       \/ p = <<"toWorker", p[2]>> /\ p[2] \in Ids /\ On(p) = toWorker[p[2]]
BY DEF Places, On

LEMMA PlaceFactsNext ==
  /\ \A i \in Ids : /\ On(<<"toQueue", i>>)' = toQueue'[i]
                    /\ On(<<"toWorker", i>>)' = toWorker'[i]
  /\ \A p \in Places :
       \/ p = <<"toQueue", p[2]>> /\ p[2] \in Ids /\ On(p)' = toQueue'[p[2]]
       \/ p = <<"toWorker", p[2]>> /\ p[2] \in Ids /\ On(p)' = toWorker'[p[2]]
BY DEF Places, On

(* A step that at most loses q. *)
LEMMA Loses ==
  ASSUME NEW q, Single(q), q \in front' => q \in front,
         \A p \in Places : Keeps(q, On(p)', On(p))
  PROVE  Single(q)' /\ (Sits(q)' => Sits(q))
<1>1. \A p \in Places : /\ Occurs(q, On(p))' => Occurs(q, On(p))
                        /\ Once(q, On(p)) => Once(q, On(p))'
  BY DEF Keeps, Occurs, Once
<1>2. Single(q)'
  BY <1>1 DEF Single
<1> QED
  BY <1>1, <1>2 DEF Sits

(* A step that moves q to the end of wire t, where it has been read or     *)
(* taken from wherever else it was.                                        *)
LEMMA Moves ==
  ASSUME NEW q, Sits(q), NEW t \in Places, q \notin front', Once(q, On(t))',
         \A p \in Places \ {t} : ~Occurs(q, On(p))' /\ Once(q, On(p))'
  PROVE  Single(q)' /\ (Sits(q)' => Sits(q))
BY DEF Single

(* Control messages are no requests. *)
LEMMA ControlKeeps ==
  ASSUME NEW q \in Requests
  PROVE  /\ \A x : Keeps(q, x, x)
         /\ \A x, y : ~Occurs(q, x) => Keeps(q, x, y)
         /\ \A x \in Seq(Messages), b \in BOOLEAN :
              Keeps(q, x \o (IF b THEN <<HEARTBEAT>> ELSE <<>>), x)
         /\ \A b \in BOOLEAN :
              ~Occurs(q, <<READY>> \o (IF b THEN <<HEARTBEAT>> ELSE <<>>))
<1>1. \A x : ~Occurs(q, x) => Once(q, x)
  BY DEF Occurs, Once
<1>2. \A x, y : Keeps(q, x, x) /\ (~Occurs(q, x) => Keeps(q, x, y))
  BY <1>1 DEF Keeps
<1>3. ASSUME NEW b \in BOOLEAN
      PROVE  /\ ~Occurs(q, IF b THEN <<HEARTBEAT>> ELSE <<>>)
             /\ (IF b THEN <<HEARTBEAT>> ELSE <<>>) \in Seq(Messages)
  <2>1. ~Occurs(q, <<>>) /\ ~Occurs(q, <<HEARTBEAT>>)
    BY ShortMail, NamesAssumption
  <2>2. <<>> \in Seq(Messages) /\ <<HEARTBEAT>> \in Seq(Messages)
    BY Mail DEF Messages
  <2> QED
    BY <2>1, <2>2
<1>4. ASSUME NEW x \in Seq(Messages), NEW b \in BOOLEAN
      PROVE  Keeps(q, x \o (IF b THEN <<HEARTBEAT>> ELSE <<>>), x)
  <2> DEFINE more == IF b THEN <<HEARTBEAT>> ELSE <<>>
  <2>1. ~Occurs(q, more) /\ more \in Seq(Messages) /\ Once(q, more)
    BY <1>1, <1>3
  <2> HIDE DEF more
  <2>2. Keeps(q, x \o more, x)
    BY <2>1, JoinKeeps DEF Keeps
  <2> QED
    BY <2>2 DEF more
<1>5. ASSUME NEW b \in BOOLEAN
      PROVE  ~Occurs(q, <<READY>> \o (IF b THEN <<HEARTBEAT>> ELSE <<>>))
  <2> DEFINE more == IF b THEN <<HEARTBEAT>> ELSE <<>>
  <2>1. ~Occurs(q, more) /\ more \in Seq(Messages)
    BY <1>3
  <2> HIDE DEF more
  <2>2. ~Occurs(q, <<READY>>) /\ <<READY>> \in Seq(Messages)
    BY ShortMail, NamesAssumption, Mail DEF Messages
  <2>3. ~Occurs(q, <<READY>> \o more)
    BY <2>1, <2>2, JoinKeeps
  <2> QED
    BY <2>3 DEF more
<1> QED
  BY <1>2, <1>4, <1>5

LEMMA ReadKeeps ==
  ASSUME IInv, NEW w \in Workers, NEW m, Polled(w, m), Read(w), NEW q
  PROVE  \A i \in Ids : Keeps(q, toWorker'[i], toWorker[i])
<1>1. conn[w] \in Ids /\ toWorker[conn[w]] \in Seq(Requests \union {HEARTBEAT})
  BY Connection DEF Polled
<1>2. Keeps(q, Tail(toWorker[conn[w]]), toWorker[conn[w]])
  BY <1>1, TailKeeps DEF Polled
<1>3. \A i \in Ids : toWorker'[i] = IF i = conn[w] THEN Tail(toWorker[i])
                                    ELSE toWorker[i]
  BY <1>1 DEF Read, IInv, TypeOK
<1>4. \A x : Keeps(q, x, x)
  BY DEF Keeps
<1> QED
  BY <1>2, <1>3, <1>4

LEMMA PollAgainKeeps ==
  ASSUME IInv, NEW w \in Workers, pc[w] # "down", PollAgain(w, conn[w], <<>>),
         NEW q \in Requests
  PROVE  \A i \in Ids : Keeps(q, toQueue'[i], toQueue[i])
<1> DEFINE due == heartbeat_at[w] < 0
           beat == IF due THEN <<HEARTBEAT>> ELSE <<>>
<1>1. /\ conn[w] \in Ids /\ toQueue[conn[w]] \in Seq(Messages)
      /\ toQueue' = [toQueue EXCEPT ![conn[w]] = @ \o beat]
  BY Connection, PollAgainTypes
<1>2. due \in BOOLEAN
  OBVIOUS
<1> HIDE DEF due
<1>3. Keeps(q, toQueue[conn[w]] \o beat, toQueue[conn[w]])
  BY <1>1, <1>2, ControlKeeps
<1> HIDE DEF beat
<1>4. \A i \in Ids : toQueue'[i] = IF i = conn[w] THEN toQueue[i] \o beat
                                   ELSE toQueue[i]
  BY <1>1 DEF IInv, TypeOK
<1> QED
  BY <1>3, <1>4, ControlKeeps

LEMMA ExitKeeps ==
  ASSUME IInv, NEW w \in Workers, pc[w] # "down", NEW n \in Arrived(conn[w]),
         NEW q
  PROVE  Keeps(q, SubSeq(toQueue[conn[w]], 1, n), toQueue[conn[w]])
<1>1. toQueue[conn[w]] \in Seq(Messages)
  BY Connection
<1>2. 1 \in Nat /\ 1 >= 1 /\ n \in Nat /\ n <= Len(toQueue[conn[w]])
  BY <1>1, Mail DEF Arrived
<1> QED
  BY <1>1, <1>2, CutKeeps

LEMMA WorkerExitKeeps ==
  ASSUME IInv, NEW w \in Workers, pc[w] # "down", WorkerExit(w),
         NEW q \in Requests, NEW i \in Ids
  PROVE  /\ Keeps(q, toQueue'[i], toQueue[i])
         /\ Keeps(q, toWorker'[i], toWorker[i])
<1>1. PICK n \in Arrived(conn[w]) :
        toQueue' = [toQueue EXCEPT ![conn[w]] = SubSeq(@, 1, n)]
  BY DEF WorkerExit
<1>2. /\ toQueue'[i] = IF i = conn[w] THEN SubSeq(toQueue[i], 1, n) ELSE toQueue[i]
      /\ toWorker'[i] = IF i = conn[w] THEN <<>> ELSE toWorker[i]
  BY <1>1 DEF WorkerExit, IInv, TypeOK
<1>3. Keeps(q, SubSeq(toQueue[conn[w]], 1, n), toQueue[conn[w]])
  BY <1>1, ExitKeeps
<1>4. Keeps(q, <<>>, toWorker[i])
  BY ShortMail, ControlKeeps
<1> QED
  BY <1>2, <1>3, <1>4, ControlKeeps

LEMMA WorkerReconnectKeeps ==
  ASSUME IInv, NEW w \in Workers, WorkerReconnect(w),
         NEW q \in Requests, NEW i \in Ids
  PROVE  /\ Keeps(q, toQueue'[i], toQueue[i])
         /\ Keeps(q, toWorker'[i], toWorker[i])
<1> DEFINE due == heartbeat_at[w] < 0
           hello == <<READY>> \o (IF due THEN <<HEARTBEAT>> ELSE <<>>)
<1>1. pc[w] # "down"
  BY DEF WorkerReconnect
<1>2. PICK j \in Ids, n \in Arrived(conn[w]) :
        toQueue' = [toQueue EXCEPT ![conn[w]] = SubSeq(@, 1, n), ![j] = hello]
  BY DEF WorkerReconnect
<1>3. due \in BOOLEAN
  OBVIOUS
<1> HIDE DEF due
<1>4. ~Occurs(q, hello)
  BY <1>3, ControlKeeps
<1> HIDE DEF hello
<1>5. /\ toQueue'[i] = IF i = j THEN hello
                       ELSE IF i = conn[w] THEN SubSeq(toQueue[i], 1, n)
                       ELSE toQueue[i]
      /\ toWorker'[i] = IF i = conn[w] THEN <<>> ELSE toWorker[i]
  BY <1>2 DEF WorkerReconnect, IInv, TypeOK
<1>6. Keeps(q, SubSeq(toQueue[conn[w]], 1, n), toQueue[conn[w]])
  BY <1>1, <1>2, ExitKeeps
<1>7. Keeps(q, <<>>, toWorker[i])
  BY ShortMail, ControlKeeps
<1> QED
  BY <1>4, <1>5, <1>6, <1>7, ControlKeeps

(* What a worker does, other than answering, at most loses requests. *)
LEMMA WorkerKeeps ==
  ASSUME IInv, NEW w \in Workers,
         WorkerStart(w) \/ WorkerStop(w) \/ WorkerLoop(w), ~WorkerReply(w),
         NEW q \in Requests, NEW i \in Ids
  PROVE  /\ Keeps(q, toQueue'[i], toQueue[i])
         /\ Keeps(q, toWorker'[i], toWorker[i])
<1>1. CASE WorkerStart(w)
  <2>1. PICK j \in Ids : toQueue' = [toQueue EXCEPT ![j] = <<READY>>]
    BY <1>1 DEF WorkerStart
  <2>2. /\ toQueue'[i] = IF i = j THEN <<READY>> ELSE toQueue[i]
        /\ toWorker'[i] = toWorker[i]
    BY <1>1, <2>1 DEF WorkerStart, IInv, TypeOK
  <2>3. ~Occurs(q, <<READY>>)
    BY ShortMail, NamesAssumption
  <2> QED
    BY <2>2, <2>3, ControlKeeps
<1>2. CASE WorkerStop(w) \/ WorkerCrash(w)
  BY <1>2, WorkerExitKeeps DEF WorkerStop, WorkerCrash, Polled
<1>3. CASE WorkerOverload(w)
  BY <1>3, ReadKeeps, ControlKeeps DEF WorkerOverload
<1>4. CASE WorkerHeard(w)
  BY <1>4, ReadKeeps, PollAgainKeeps DEF WorkerHeard, Polled
<1>5. CASE WorkerWake(w) \/ WorkerTimeout(w)
  <2>1. pc[w] # "down" /\ PollAgain(w, conn[w], <<>>) /\ UNCHANGED toWorker
    BY <1>5 DEF WorkerWake, WorkerTimeout, PolledNothing
  <2> QED
    BY <2>1, PollAgainKeeps, ControlKeeps
<1>6. CASE WorkerGiveUp(w)
  BY <1>6, ControlKeeps DEF WorkerGiveUp, wireVars
<1>7. CASE WorkerReconnect(w)
  BY <1>7, WorkerReconnectKeeps
<1> QED
  BY <1>1, <1>2, <1>3, <1>4, <1>5, <1>6, <1>7 DEF WorkerLoop

LEMMA WorkerMoves ==
  ASSUME IInv, NEW w \in Workers,
         WorkerStart(w) \/ WorkerStop(w) \/ WorkerLoop(w),
         NEW q \in Requests, Single(q)
  PROVE  Single(q)' /\ (Sits(q)' => Sits(q))
<1>1. UNCHANGED front
  BY DEF WorkerStart, WorkerStop, WorkerLoop, WorkerExit, WorkerCrash,
     WorkerReply, WorkerOverload, WorkerWake, WorkerHeard, WorkerTimeout,
     WorkerGiveUp, WorkerReconnect, wireVars
<1>2. CASE ~WorkerReply(w)
  <2>1. \A p \in Places : Keeps(q, On(p)', On(p))
    BY <1>2, WorkerKeeps, PlaceFacts, PlaceFactsNext
  <2> QED
    BY <1>1, <2>1, Loses
<1>3. CASE WorkerReply(w)
  <2>1. PICK r \in Requests :
          /\ Polled(w, r) /\ Read(w)
          /\ toQueue' = [toQueue EXCEPT ![conn[w]] = Append(@, r)]
    BY <1>3 DEF WorkerReply
  <2>2. PICK i \in Ids :
          /\ i = conn[w] /\ toQueue[i] \in Seq(Messages)
          /\ toWorker[i] \in Seq(Requests \union {HEARTBEAT})
          /\ toWorker[i] # <<>> /\ r = Head(toWorker[i]) /\ r \in Messages
    BY <2>1, Connection DEF Polled, Messages
  <2> DEFINE s == <<"toWorker", i>>  t == <<"toQueue", i>>
  <2>3. /\ toQueue'[i] = toQueue[i] \o <<r>>
        /\ \A j \in Ids \ {i} : toQueue'[j] = toQueue[j]
        /\ toWorker'[i] = Tail(toWorker[i])
        /\ \A j \in Ids \ {i} : toWorker'[j] = toWorker[j]
    <3>1. Append(toQueue[i], r) = toQueue[i] \o <<r>>
      BY <2>2, AppendIsConcat
    <3> QED
      BY <2>1, <2>2, <3>1 DEF Read, IInv, TypeOK
  <2>4. \A j \in Ids : Keeps(q, toWorker'[j], toWorker[j])
    BY <2>1, ReadKeeps
  <2>5. CASE q # r
    <3>1. Keeps(q, toQueue[i] \o <<r>>, toQueue[i])
      <4>1. <<r>> \in Seq(Messages) /\ ~Occurs(q, <<r>>) /\ Once(q, <<r>>)
        BY <2>2, <2>5, ShortMail, Mail
      <4> QED
        BY <2>2, <4>1, JoinKeeps DEF Keeps
    <3>2. \A j \in Ids : Keeps(q, toQueue'[j], toQueue[j])
      BY <2>2, <2>3, <3>1, ControlKeeps
    <3>3. \A p \in Places : Keeps(q, On(p)', On(p))
      BY <2>4, <3>2, PlaceFacts, PlaceFactsNext
    <3> QED
      BY <1>1, <3>3, Loses
  <2>6. CASE q = r
    <3>1. /\ s \in Places /\ t \in Places /\ s # t
          /\ On(s) = toWorker[i] /\ On(t) = toQueue[i]
          /\ On(t)' = toQueue'[i] /\ On(s)' = toWorker'[i]
      BY <2>2, PlaceFacts, PlaceFactsNext
    <3>2. /\ Occurs(q, On(s)) /\ Once(q, On(s))
          /\ ~Occurs(q, Tail(toWorker[i])) /\ Once(q, Tail(toWorker[i]))
      <4>1. Occurs(q, toWorker[i])
        BY <2>2, <2>6, TailKeeps
      <4>2. Once(q, toWorker[i])
        BY <3>1, <4>1 DEF Single
      <4> QED
        BY <2>2, <2>6, <3>1, <4>1, <4>2, TailKeeps DEF Keeps
    <3> HIDE DEF s, t
    <3>3. q \notin front /\ \A p \in Places \ {s} : ~Occurs(q, On(p)) /\ Once(q, On(p))
      BY <3>1, <3>2, AbsentOnce DEF Single
    <3>4. \A p \in Places \ {t} : ~Occurs(q, On(p))' /\ Once(q, On(p))'
      <4> SUFFICES ASSUME NEW p \in Places, p # t
                   PROVE  ~Occurs(q, On(p))' /\ Once(q, On(p))'
        OBVIOUS
      <4>1. CASE p = s
        <5>1. On(p)' = Tail(toWorker[i])
          BY <2>3, <3>1, <4>1
        <5> QED
          BY <3>2, <5>1 DEF Occurs, Once
      <4>2. CASE p # s
        <5>1. On(p)' = On(p)
          BY <2>3, <4>2, PlaceFacts, PlaceFactsNext DEF s, t
        <5> QED
          BY <3>3, <4>2, <5>1 DEF Occurs, Once
      <4> QED
        BY <4>1, <4>2
    <3>5. Once(q, On(t))'
      <4>1. ~Occurs(q, toQueue[i]) /\ Once(q, toQueue[i])
        BY <3>1, <3>3
      <4>2. <<r>> \in Seq(Messages) /\ Once(q, <<r>>)
        BY <2>2, ShortMail, Mail
      <4>3. Once(q, toQueue[i] \o <<r>>)
        BY <2>2, <4>1, <4>2, JoinKeeps
      <4> QED
        BY <2>3, <3>1, <4>3 DEF Once
    <3>6. Sits(q) /\ q \notin front'
      BY <1>1, <3>1, <3>2, <3>3 DEF Sits
    <3> QED
      BY <3>1, <3>4, <3>5, <3>6, Moves
  <2> QED
    BY <2>5, <2>6
<1> QED
  BY <1>2, <1>3

(* The queue hands a request from its frontend to one worker at most, and  *)
(* what it has read from a worker is nowhere any more.                     *)
LEMMA QueueMoves ==
  ASSUME IInv, NEW b \in BackendInput \union {None},
         NEW f \in FrontendInput \union {None}, QueueTurn(b, f),
         NEW q \in Requests, Single(q)
  PROVE  /\ Single(q)' /\ (Sits(q)' => Sits(q))
         /\ b # None /\ q = Head(toQueue[b]) => Sits(q) /\ ~Sits(q)'
<1> DEFINE heard == IF b = None THEN workers ELSE WorkerReady(workers, b)
           rest == IF f = None THEN heard ELSE Tail(heard)
           beat == queue_beat = 0
           target == Head(heard).identity
           Share(i) == IF f # None /\ target = i THEN <<f>> ELSE <<>>
           Beat(i) == IF beat /\ i \in Listed(rest) THEN <<HEARTBEAT>> ELSE <<>>
           S == Requests \union {HEARTBEAT}
<1>1. /\ front' = front \ {f}
      /\ toQueue' = [i \in Ids |-> IF i = b THEN Tail(toQueue[i])
                                   ELSE toQueue[i]]
      /\ toWorker' = [i \in Ids |-> IF Connected(i)
                                    THEN toWorker[i] \o (Share(i) \o Beat(i))
                                    ELSE toWorker[i]]
  BY DEF QueueTurn
<1>2. \A i \in Ids : /\ toQueue[i] \in Seq(Messages) /\ toWorker[i] \in Seq(S)
                     /\ i = b => toQueue[i] # <<>>
  BY NamesAssumption DEF IInv, TypeOK, BackendInput
<1>3. /\ b # None => b \in Ids
      /\ f # None => f \in front /\ f \in S
      /\ q # None
  BY NamesAssumption DEF BackendInput, FrontendInput, IInv, TypeOK
<1> HIDE DEF heard, rest, beat, target
<1>4. \A i : /\ Share(i) \in Seq(S) /\ Once(q, Share(i))
             /\ Occurs(q, Share(i)) => q = f /\ target = i
  <2> SUFFICES ASSUME NEW i
               PROVE  /\ Share(i) \in Seq(S) /\ Once(q, Share(i))
                      /\ Occurs(q, Share(i)) => q = f /\ target = i
    OBVIOUS
  <2>1. <<>> \in Seq(S) /\ Once(q, <<>>) /\ ~Occurs(q, <<>>)
    BY ShortMail, Mail
  <2>2. ASSUME f # None
        PROVE  /\ <<f>> \in Seq(S) /\ Once(q, <<f>>)
               /\ Occurs(q, <<f>>) => q = f
    <3>1. f \in S
      BY <1>3, <2>2
    <3>2. <<f>> \in Seq(S)
      BY <3>1, Mail
    <3> QED
      BY <3>2, ShortMail
  <2>3. CASE f # None /\ target = i
    <3>1. Share(i) = <<f>>
      BY <2>3
    <3> HIDE DEF Share
    <3> QED
      BY <2>2, <2>3, <3>1
  <2>4. CASE ~(f # None /\ target = i)
    <3>1. Share(i) = <<>>
      BY <2>4
    <3> HIDE DEF Share
    <3> QED
      BY <2>1, <3>1
  <2> QED
    BY <2>3, <2>4
<1>5. \A i : Beat(i) \in Seq(S) /\ Once(q, Beat(i)) /\ ~Occurs(q, Beat(i))
  <2>1. <<>> \in Seq(S) /\ <<HEARTBEAT>> \in Seq(S)
    BY Mail
  <2>2. /\ Once(q, <<>>) /\ ~Occurs(q, <<>>)
        /\ Once(q, <<HEARTBEAT>>) /\ ~Occurs(q, <<HEARTBEAT>>)
    BY ShortMail, NamesAssumption
  <2>3. \A i : Beat(i) = <<HEARTBEAT>> \/ Beat(i) = <<>>
    OBVIOUS
  <2> HIDE DEF Beat
  <2> QED
    BY <2>1, <2>2, <2>3
<1> HIDE DEF Share, Beat
<1>6. \A i : /\ Share(i) \o Beat(i) \in Seq(S) /\ Once(q, Share(i) \o Beat(i))
             /\ Occurs(q, Share(i) \o Beat(i)) => q = f /\ target = i
  <2> SUFFICES ASSUME NEW i
               PROVE  /\ Share(i) \o Beat(i) \in Seq(S)
                      /\ Once(q, Share(i) \o Beat(i))
                      /\ Occurs(q, Share(i) \o Beat(i)) => q = f /\ target = i
    OBVIOUS
  <2>1. Share(i) \in Seq(S) /\ Beat(i) \in Seq(S)
    BY <1>4, <1>5
  <2>2. Share(i) \o Beat(i) \in Seq(S)
    BY <2>1, Mail
  <2> QED
    BY <1>4, <1>5, <2>1, <2>2, JoinKeeps
<1>7. \A i \in Ids : Keeps(q, toQueue'[i], toQueue[i])
  BY <1>1, <1>2, TailKeeps, ControlKeeps
<1>8. ASSUME NEW i \in Ids, ~Occurs(q, toWorker[i]) \/ q # f
      PROVE  /\ Once(q, toWorker[i]) => Once(q, toWorker'[i])
             /\ Occurs(q, toWorker'[i]) =>
                  Occurs(q, toWorker[i]) \/ (q = f /\ target = i)
  <2> DEFINE more == Share(i) \o Beat(i)
  <2>1. /\ toWorker[i] \in Seq(S) /\ more \in Seq(S) /\ Once(q, more)
        /\ Occurs(q, more) => q = f /\ target = i
    BY <1>2, <1>6
  <2> HIDE DEF more
  <2>2. /\ Occurs(q, toWorker[i] \o more)
             <=> Occurs(q, toWorker[i]) \/ Occurs(q, more)
        /\ Once(q, toWorker[i]) => Once(q, toWorker[i] \o more)
    BY <1>8, <2>1, JoinKeeps
  <2>3. toWorker'[i] = IF Connected(i) THEN toWorker[i] \o more ELSE toWorker[i]
    BY <1>1 DEF more
  <2> QED
    BY <2>1, <2>2, <2>3
<1>9. CASE q # f
  <2>1. \A p \in Places : Keeps(q, On(p)', On(p))
    BY <1>7, <1>8, <1>9, PlaceFacts, PlaceFactsNext DEF Keeps
  <2>2. Single(q)' /\ (Sits(q)' => Sits(q))
    BY <1>1, <2>1, Loses
  <2>3. ASSUME b # None, q = Head(toQueue[b]) PROVE Sits(q) /\ ~Sits(q)'
    <3> DEFINE s == <<"toQueue", b>>
    <3>1. /\ s \in Places /\ On(s) = toQueue[b] /\ On(s)' = Tail(toQueue[b])
          /\ Occurs(q, toQueue[b])
          /\ Once(q, toQueue[b]) => ~Occurs(q, Tail(toQueue[b]))
      BY <1>1, <1>2, <1>3, <2>3, PlaceFacts, PlaceFactsNext, TailKeeps
    <3> HIDE DEF s
    <3>2. /\ Sits(q) /\ q \notin front'
          /\ \A p \in Places \ {s} : ~Occurs(q, On(p))
          /\ ~Occurs(q, Tail(toQueue[b]))
      BY <1>1, <3>1 DEF Sits, Single
    <3>3. ~Occurs(q, On(s))'
      BY <3>1, <3>2 DEF Occurs
    <3>4. \A p \in Places : Occurs(q, On(p))' => Occurs(q, On(p))
      BY <2>1 DEF Keeps, Occurs
    <3> QED
      BY <3>2, <3>3, <3>4 DEF Sits
  <2> QED
    BY <2>2, <2>3
<1>10. CASE q = f
  <2>1. /\ Sits(q) /\ q \in front /\ q \notin front'
        /\ \A p \in Places : ~Occurs(q, On(p)) /\ Once(q, On(p))
    BY <1>1, <1>3, <1>10, AbsentOnce DEF Sits, Single
  <2> DEFINE t == <<"toWorker", target>>
  <2>2. \A p \in Places : Once(q, On(p))' /\ (Occurs(q, On(p))' => p = t)
    <3> SUFFICES ASSUME NEW p \in Places
                 PROVE  Once(q, On(p))' /\ (Occurs(q, On(p))' => p = t)
      OBVIOUS
    <3>1. CASE p = <<"toQueue", p[2]>> /\ p[2] \in Ids
      <4>1. On(p) = toQueue[p[2]] /\ On(p)' = toQueue'[p[2]]
        BY <3>1, PlaceFacts, PlaceFactsNext
      <4>2. ~Occurs(q, toQueue[p[2]]) /\ Once(q, toQueue[p[2]])
        BY <2>1, <4>1
      <4>3. ~Occurs(q, toQueue'[p[2]]) /\ Once(q, toQueue'[p[2]])
        BY <1>7, <3>1, <4>2 DEF Keeps
      <4> QED
        BY <4>1, <4>3 DEF Occurs, Once
    <3>2. CASE p = <<"toWorker", p[2]>> /\ p[2] \in Ids
      <4>1. On(p) = toWorker[p[2]] /\ On(p)' = toWorker'[p[2]]
        BY <3>2, PlaceFacts, PlaceFactsNext
      <4>2. ~Occurs(q, toWorker[p[2]]) /\ Once(q, toWorker[p[2]])
        BY <2>1, <4>1
      <4>3. /\ Once(q, toWorker'[p[2]])
            /\ Occurs(q, toWorker'[p[2]]) => target = p[2]
        BY <1>8, <3>2, <4>2
      <4> QED
        BY <3>2, <4>1, <4>3 DEF Occurs, Once
    <3> QED
      BY <3>1, <3>2, PlaceFacts
  <2> HIDE DEF t
  <2>3. Single(q)'
    BY <2>1, <2>2 DEF Single
  <2>4. ~(b # None /\ q = Head(toQueue[b]))
    <3> SUFFICES ASSUME b # None, q = Head(toQueue[b]) PROVE FALSE
      OBVIOUS
    <3>1. Occurs(q, toQueue[b])
      BY <1>2, <1>3, TailKeeps
    <3> QED
      BY <1>3, <2>1, <3>1, PlaceFacts
  <2> QED
    BY <2>1, <2>3, <2>4
<1> QED
  BY <1>9, <1>10

-----------------------------------------------------------------------------
(* The clients' own variables.  A client has renewed its socket at most    *)
(* REQUEST_RETRIES - 1 times for each of its requests, so that every try   *)
(* it sends is one of Requests.                                            *)

ClientTypes ==
  /\ state \in [Clients -> {"ask", "expect_reply", "done"}]
  /\ sequence \in [Clients -> 0 .. MaxSequence]
  /\ retries_left \in [Clients -> 0 .. REQUEST_RETRIES]
  /\ socket \in [Clients -> Nat]
  /\ reply \in [Clients -> Nat \union {None}]

Renewed(c) == sequence[c] * (REQUEST_RETRIES - 1)
SocketsCounted ==
  \A c \in Clients :
    /\ state[c] = "ask" => /\ retries_left[c] = REQUEST_RETRIES
                           /\ socket[c] <= Renewed(c)
    /\ state[c] = "expect_reply" =>
         /\ sequence[c] >= 1 /\ retries_left[c] >= 1
         /\ socket[c] + retries_left[c] <= Renewed(c) + 1

PiratesInv ==
  /\ IInv /\ queue = "up"
  /\ ClientTypes /\ SocketsCounted /\ NoStaleReplyThroughQueue
  /\ \A q \in Requests : Single(q) /\ Awaited(q)

LEMMA Products ==
  \A m, n, d \in Nat : /\ m * d \in Nat /\ (m + 1) * d = m * d + d
                       /\ m <= n => m * d <= n * d
<1>1. \A m, n, d \in Nat : m * d \in Nat /\ (m + 1) * d = m * d + d
  OBVIOUS
<1>2. ASSUME NEW m \in Nat, NEW n \in Nat, NEW d \in Nat, m <= n
      PROVE  m * d <= n * d
  <2>1. PICK k \in Nat : n = m + k
    <3>1. n - m \in Nat /\ n = m + (n - m)
      BY <1>2
    <3> QED
      BY <3>1
  <2>2. n * d = m * d + k * d /\ k * d \in Nat /\ m * d \in Nat
    BY <2>1
  <2> QED
    BY <2>2
<1> QED
  BY <1>1, <1>2

(* A try within the bounds. *)
LEMMA TryIsRequest ==
  ASSUME NEW c \in Clients, NEW n \in 1 .. MaxSequence, NEW s \in Nat,
         s <= n * (REQUEST_RETRIES - 1)
  PROVE  /\ C!RequestOf(c, s, n) \in Requests
         /\ C!RequestOf(c, s, n) \in [client : Clients, socket : Nat,
                                      sequence : Nat]
         /\ C!RequestOf(c, s, n).client = c
         /\ C!RequestOf(c, s, n).socket = s
         /\ C!RequestOf(c, s, n).sequence = n
<1>1. /\ REQUEST_RETRIES - 1 \in Nat /\ MaxSequence \in Nat /\ n \in Nat
      /\ n <= MaxSequence
  BY TriesAssumption
<1>2. s <= MaxSequence * (REQUEST_RETRIES - 1)
  <2> DEFINE d == REQUEST_RETRIES - 1
  <2>1. n * d <= MaxSequence * d /\ n * d \in Nat /\ MaxSequence * d \in Nat
    BY <1>1, Products
  <2> QED
    BY <2>1
<1>3. s \in 0 .. MaxSequence * (REQUEST_RETRIES - 1)
  <2>1. MaxSequence * (REQUEST_RETRIES - 1) \in Nat
    BY <1>1, Products
  <2> QED
    BY <1>2, <2>1
<1>4. C!RequestOf(c, s, n) \in
        [client : Clients, socket : 0 .. MaxSequence * (REQUEST_RETRIES - 1),
         sequence : 1 .. MaxSequence]
  BY <1>3 DEF C!RequestOf
<1> QED
  BY <1>1, <1>4, TriesAssumption DEF C!RequestOf

(* What a client's step leaves alone, and where the requests are then. *)
LEMMA FrontOnly ==
  ASSUME IInv, UNCHANGED <<queueVars, toQueue, toWorker, workerVars>>,
         front' \subseteq Requests
  PROVE  IInv'
<1>1. TypeOK'
  BY DEF IInv, TypeOK, queueVars, workerVars, Messages
<1>2. Named' /\ Stopped' /\ OneSocket' /\ RegistryOrdered'
  BY DEF IInv, Named, Stopped, OneSocket, RegistryOrdered, queueVars, workerVars
<1> QED
  BY <1>1, <1>2 DEF IInv

LEMMA FrontMoves ==
  ASSUME UNCHANGED <<toQueue, toWorker>>, NEW q, Single(q)
  PROVE  /\ (q \in front' => q \in front)
              => Single(q)' /\ (Sits(q)' => Sits(q))
         /\ ~Sits(q) => Single(q)'
         /\ Sits(q)' => Sits(q) \/ q \in front'
<1>1. \A p \in Places : On(p)' = On(p)
  BY DEF On
<1> QED
  BY <1>1 DEF Single, Sits, Occurs, Once

LEMMA ClientOK ==
  ASSUME PiratesInv, NEW c \in Clients, ClientTurn(c)
  PROVE  PiratesInv'
<1> DEFINE D == REQUEST_RETRIES - 1
<1>1. /\ ClientTypes /\ IInv /\ queue = "up"
      /\ UNCHANGED <<queueVars, toQueue, toWorker, workerVars>> /\ queue' = "up"
      /\ \A q \in Requests : Single(q) /\ Awaited(q)
      /\ front \subseteq Requests
  BY DEF PiratesInv, ClientTurn, queueVars, IInv, TypeOK
<1>2. /\ state[c] \in {"ask", "expect_reply", "done"}
      /\ sequence[c] \in Nat /\ sequence[c] <= MaxSequence /\ MaxSequence \in Nat
      /\ retries_left[c] \in Nat /\ retries_left[c] <= REQUEST_RETRIES
      /\ socket[c] \in Nat
      /\ D \in Nat /\ REQUEST_RETRIES = D + 1 /\ REQUEST_RETRIES \in Nat
      /\ sequence[c] * D \in Nat
      /\ (sequence[c] + 1) * D = sequence[c] * D + D
  BY <1>1, TriesAssumption, Products DEF ClientTypes
<1>3. /\ state[c] = "ask" => /\ retries_left[c] = REQUEST_RETRIES
                             /\ socket[c] <= sequence[c] * D
      /\ state[c] = "expect_reply" =>
           /\ sequence[c] >= 1 /\ retries_left[c] >= 1
           /\ socket[c] + retries_left[c] <= sequence[c] * D + 1
      /\ reply[c] # None => state[c] = "expect_reply" /\ reply[c] = sequence[c]
  BY DEF PiratesInv, SocketsCounted, Renewed, NoStaleReplyThroughQueue,
     C!NoStaleReply
(* What is left to show once it is known what the client does. *)
<1>4. ASSUME ClientTypes', front' \subseteq Requests,
             \A d \in Clients \ {c} :
               UNCHANGED <<state[d], sequence[d], retries_left[d], socket[d],
                           reply[d]>>,
             state'[c] = "ask" => /\ retries_left'[c] = REQUEST_RETRIES
                                  /\ socket'[c] <= sequence'[c] * D,
             state'[c] = "expect_reply" =>
               /\ sequence'[c] >= 1 /\ retries_left'[c] >= 1
               /\ socket'[c] + retries_left'[c] <= sequence'[c] * D + 1,
             reply'[c] = None,
             \A q \in Requests : Single(q)' /\ Awaited(q)'
      PROVE  PiratesInv'
  <2>1. IInv'
    BY <1>1, <1>4, FrontOnly
  <2>2. SocketsCounted'
    BY <1>4 DEF PiratesInv, SocketsCounted, Renewed
  <2>3. NoStaleReplyThroughQueue'
    BY <1>4 DEF PiratesInv, NoStaleReplyThroughQueue, C!NoStaleReply
  <2> QED
    BY <1>1, <1>4, <2>1, <2>2, <2>3 DEF PiratesInv
<1> HIDE DEF D
<1>5. CASE C!Ask(c)
  <2> DEFINE new == C!RequestOf(c, socket[c], sequence[c] + 1)
  <2>1. /\ state[c] = "ask" /\ sequence[c] + 1 \in 1 .. MaxSequence
        /\ sequence' = [sequence EXCEPT ![c] = sequence[c] + 1]
        /\ state' = [state EXCEPT ![c] = "expect_reply"]
        /\ front' = front \union {new}
        /\ UNCHANGED <<retries_left, socket, reply>>
    BY <1>2, <1>5 DEF C!Ask, C!NextSequence
  <2>2. socket[c] <= (sequence[c] + 1) * D /\ reply[c] = None
    BY <1>2, <1>3, <2>1
  <2>3. /\ new \in Requests
        /\ new \in [client : Clients, socket : Nat, sequence : Nat]
        /\ new.client = c /\ new.socket = socket[c]
        /\ new.sequence = sequence[c] + 1
    BY <1>2, <2>1, <2>2, TryIsRequest DEF D
  <2> HIDE DEF new
  <2>4. ClientTypes'
    BY <1>1, <1>2, <2>1 DEF ClientTypes
  <2>5. /\ sequence'[c] = sequence[c] + 1 /\ state'[c] = "expect_reply"
        /\ retries_left'[c] = REQUEST_RETRIES /\ socket'[c] = socket[c]
        /\ socket[c] + REQUEST_RETRIES <= (sequence[c] + 1) * D + 1
        /\ \A d \in Clients \ {c} :
               UNCHANGED <<state[d], sequence[d], retries_left[d], socket[d],
                           reply[d]>>
    BY <1>1, <1>2, <1>3, <2>1 DEF ClientTypes
  <2>6. ASSUME NEW q \in Requests PROVE Single(q)' /\ Awaited(q)'
    <3>1. Single(q) /\ Awaited(q)
      BY <1>1
    <3>2. CASE q = new
      <4>1. ~Sits(q)
        BY <2>1, <2>3, <3>1, <3>2 DEF Awaited
      <4>2. Single(q)'
        BY <1>1, <3>1, <4>1, FrontMoves
      <4>3. /\ q.socket <= socket'[c] /\ q.sequence <= sequence'[c]
            /\ socket'[c] + retries_left'[c] <= q.socket + REQUEST_RETRIES
        <5>1. q.socket = socket[c] /\ q.sequence = sequence[c] + 1
          BY <2>3, <3>2
        <5> QED
          BY <1>2, <2>5, <5>1
      <4>4. Awaited(q)'
        BY <2>1, <2>2, <2>3, <2>5, <3>2, <4>3 DEF Awaited
      <4> QED
        BY <4>2, <4>4
    <3>3. CASE q # new
      <4>1. Single(q)' /\ (Sits(q)' => Sits(q))
        BY <1>1, <2>1, <3>1, <3>3, FrontMoves
      <4>2. Sits(q) /\ q.client = c =>
              /\ q.sequence <= sequence[c] + 1 /\ q.sequence # sequence[c] + 1
        BY <1>2, <3>1 DEF Awaited
      <4>3. Awaited(q)'
        BY <2>1, <2>5, <3>1, <4>1, <4>2 DEF Awaited
      <4> QED
        BY <4>1, <4>3
    <3> QED
      BY <3>2, <3>3
  <2>7. /\ front' \subseteq Requests /\ reply'[c] = None
        /\ state'[c] # "ask" /\ sequence'[c] >= 1 /\ retries_left'[c] >= 1
        /\ socket'[c] + retries_left'[c] <= sequence'[c] * D + 1
    BY <1>1, <1>2, <2>1, <2>2, <2>3, <2>5
  <2> QED
    BY <1>4, <2>4, <2>5, <2>6, <2>7
<1>6. CASE C!Receive(c)
  <2>1. /\ state[c] = "expect_reply" /\ reply[c] = sequence[c] /\ reply[c] # None
        /\ state' = [state EXCEPT ![c] = "ask"]
        /\ retries_left' = [retries_left EXCEPT ![c] = REQUEST_RETRIES]
        /\ reply' = [reply EXCEPT ![c] = None]
        /\ UNCHANGED <<sequence, socket, front>>
    BY <1>3, <1>6 DEF C!Receive
  <2>2. ClientTypes' /\ reply'[c] = None
    BY <1>1, <1>2, <2>1 DEF ClientTypes
  <2>3. /\ state'[c] = "ask" /\ retries_left'[c] = REQUEST_RETRIES
        /\ socket'[c] <= sequence'[c] * D
        /\ \A d \in Clients \ {c} :
               UNCHANGED <<state[d], sequence[d], retries_left[d], socket[d],
                           reply[d]>>
    BY <1>1, <1>2, <1>3, <2>1 DEF ClientTypes
  <2>4. ASSUME NEW q \in Requests PROVE Single(q)' /\ Awaited(q)'
    <3>1. Single(q) /\ Awaited(q)
      BY <1>1
    <3>2. Single(q)' /\ (Sits(q)' => Sits(q))
      BY <1>1, <2>1, <3>1, FrontMoves
    <3>3. Awaited(q)'
      BY <2>1, <2>3, <3>1, <3>2 DEF Awaited
    <3> QED
      BY <3>2, <3>3
  <2> QED
    BY <1>1, <1>4, <2>1, <2>2, <2>3, <2>4
(* A socket is replaced: what sits anywhere is of an earlier one. *)
<1>7. ASSUME NEW q \in Requests, Sits(q)' => Sits(q), UNCHANGED sequence,
             socket' = [socket EXCEPT ![c] = @ + 1],
             state'[c] = "expect_reply" =>
               /\ state[c] = "expect_reply" /\ retries_left[c] > 1
               /\ retries_left'[c] = retries_left[c] - 1,
             \A d \in Clients \ {c} :
               UNCHANGED <<state[d], sequence[d], retries_left[d], reply[d]>>
      PROVE  Awaited(q)'
  <2> SUFFICES ASSUME Sits(q)' PROVE Awaited(q)'
    BY DEF Awaited
  <2>1. /\ q \in [client : Clients, socket : Nat, sequence : Nat]
        /\ q.socket <= socket[q.client] /\ q.sequence <= sequence[q.client]
        /\ state[q.client] = "expect_reply" /\ q.sequence = sequence[q.client]
             => socket[q.client] + retries_left[q.client]
                  <= q.socket + REQUEST_RETRIES
        /\ q.socket = socket[q.client] =>
             /\ state[q.client] = "expect_reply"
             /\ q.sequence = sequence[q.client] /\ reply[q.client] = None
    BY <1>1, <1>7 DEF Awaited
  <2>2. /\ q.client \in Clients /\ q.socket \in Nat
        /\ q.client = c => q.socket < socket'[c]
        /\ q.client # c => socket'[q.client] = socket[q.client]
    BY <1>1, <1>2, <1>7, <2>1 DEF ClientTypes
  <2>3. CASE q.client = c
    <3>1. /\ q.socket <= socket'[c] /\ q.socket # socket'[c]
          /\ socket'[c] = socket[c] + 1
      BY <1>1, <1>2, <1>7, <2>2, <2>3 DEF ClientTypes
    <3>2. state'[c] = "expect_reply" /\ q.sequence = sequence[c] =>
            socket'[c] + retries_left'[c] <= q.socket + REQUEST_RETRIES
      BY <1>2, <1>7, <2>1, <2>2, <2>3, <3>1
    <3> QED
      BY <1>7, <2>1, <2>3, <3>1, <3>2 DEF Awaited
  <2>4. CASE q.client # c
    BY <1>7, <2>1, <2>2, <2>4 DEF Awaited
  <2> QED
    BY <2>3, <2>4
<1>8. CASE C!Retry(c)
  <2> DEFINE new == C!RequestOf(c, socket[c] + 1, sequence[c])
  <2>1. /\ state[c] = "expect_reply" /\ retries_left[c] > 1
        /\ retries_left' = [retries_left EXCEPT ![c] = @ - 1]
        /\ socket' = [socket EXCEPT ![c] = @ + 1]
        /\ reply' = [reply EXCEPT ![c] = None]
        /\ front' \subseteq front \union {new}
        /\ UNCHANGED <<state, sequence>>
    BY <1>8 DEF C!Retry, C!Silence, C!MayRetry, C!NewSocket, C!Closed
  <2>2. /\ sequence[c] \in 1 .. MaxSequence /\ socket[c] + 1 \in Nat
        /\ socket[c] + 1 <= sequence[c] * D
    BY <1>2, <1>3, <2>1
  <2>3. /\ new \in Requests
        /\ new \in [client : Clients, socket : Nat, sequence : Nat]
        /\ new.client = c /\ new.socket = socket[c] + 1
        /\ new.sequence = sequence[c]
    BY <2>2, TryIsRequest DEF D
  <2> HIDE DEF new
  <2>4. ClientTypes'
    BY <1>1, <1>2, <2>1 DEF ClientTypes
  <2>5. /\ retries_left'[c] = retries_left[c] - 1 /\ reply'[c] = None
        /\ socket'[c] = socket[c] + 1
        /\ \A d \in Clients \ {c} :
               UNCHANGED <<state[d], sequence[d], retries_left[d], socket[d],
                           reply[d]>>
    BY <1>1, <1>2, <2>1 DEF ClientTypes
  <2>6. ASSUME NEW q \in Requests PROVE Single(q)' /\ Awaited(q)'
    <3>1. Single(q) /\ Awaited(q)
      BY <1>1
    <3>2. CASE q = new
      <4>1. ~Sits(q)
        <5>1. ~(socket[c] + 1 <= socket[c])
          BY <1>2
        <5> QED
          BY <2>3, <3>1, <3>2, <5>1 DEF Awaited
      <4>2. Single(q)'
        BY <1>1, <3>1, <4>1, FrontMoves
      <4>3. Awaited(q)'
        <5>1. q.socket = socket[c] + 1 /\ q.sequence = sequence[c]
          BY <2>3, <3>2
        <5>2. /\ q.socket <= socket'[c] /\ q.sequence <= sequence'[c]
              /\ socket'[c] + retries_left'[c] <= q.socket + REQUEST_RETRIES
          BY <1>2, <2>1, <2>5, <5>1
        <5> QED
          BY <2>1, <2>3, <2>5, <3>2, <5>2 DEF Awaited
      <4> QED
        BY <4>2, <4>3
    <3>3. CASE q # new
      <4>1. Single(q)' /\ (Sits(q)' => Sits(q))
        BY <1>1, <2>1, <3>1, <3>3, FrontMoves
      <4>2. Awaited(q)'
        BY <1>7, <2>1, <2>5, <4>1
      <4> QED
        BY <4>1, <4>2
    <3> QED
      BY <3>2, <3>3
  <2>7. /\ front' \subseteq Requests /\ state'[c] # "ask"
        /\ sequence'[c] >= 1 /\ retries_left'[c] >= 1
        /\ socket'[c] + retries_left'[c] <= sequence'[c] * D + 1
    BY <1>1, <1>2, <1>3, <2>1, <2>3, <2>5
  <2> QED
    BY <1>4, <2>4, <2>5, <2>6, <2>7
<1>9. CASE C!Abandon(c)
  <2>1. /\ state' = [state EXCEPT ![c] = "done"]
        /\ retries_left' = [retries_left EXCEPT ![c] = 0]
        /\ socket' = [socket EXCEPT ![c] = @ + 1]
        /\ reply' = [reply EXCEPT ![c] = None]
        /\ front' \subseteq front
        /\ UNCHANGED sequence
    BY <1>9 DEF C!Abandon, C!End, C!Closed
  <2>2. ClientTypes'
    BY <1>1, <1>2, <2>1 DEF ClientTypes
  <2>3. /\ state'[c] = "done" /\ reply'[c] = None
        /\ \A d \in Clients \ {c} :
               UNCHANGED <<state[d], sequence[d], retries_left[d], socket[d],
                           reply[d]>>
    BY <1>1, <2>1 DEF ClientTypes
  <2>4. ASSUME NEW q \in Requests PROVE Single(q)' /\ Awaited(q)'
    <3>1. Single(q)' /\ (Sits(q)' => Sits(q))
      BY <1>1, <2>1, FrontMoves
    <3>2. Awaited(q)'
      BY <1>7, <2>1, <2>3, <3>1
    <3> QED
      BY <3>1, <3>2
  <2> QED
    BY <1>1, <1>4, <2>1, <2>2, <2>3, <2>4
<1> QED
  BY <1>5, <1>6, <1>8, <1>9 DEF ClientTurn, C!ClientLoop

(* The turn of the queue: the reply that it passes on is the one awaited.  *)
LEMMA QueueOK ==
  ASSUME PiratesInv, QueueServes
  PROVE  PiratesInv'
<1>1. PICK b \in BackendInput \union {None}, f \in FrontendInput \union {None} :
        QueueLoop /\ QueueTurn(b, f) /\ reply' = Delivered(b)
  BY DEF PiratesInv, QueueServes, QueueLoop, Readable
<1>2. /\ IInv /\ ClientTypes
      /\ \A q \in Requests : Single(q) /\ Awaited(q)
      /\ UNCHANGED <<state, sequence, retries_left, socket>>
  BY DEF PiratesInv, QueueServes
<1>3. IInv' /\ queue' = "up"
  BY <1>1, <1>2, QueueLoopTypes DEF PiratesInv, QueueTurn
<1>4. \A q \in Requests :
        /\ Single(q)' /\ (Sits(q)' => Sits(q))
        /\ b # None /\ q = Head(toQueue[b]) => Sits(q) /\ ~Sits(q)'
  BY <1>1, <1>2, QueueMoves
(* What is delivered to client c answers the try that it waits for. *)
<1> DEFINE Answers(q, c) ==
      b # None /\ Head(toQueue[b]) = q /\ q.client = c /\ q.socket = socket[c]
<1>5. \A c \in Clients :
        \/ \E q \in Requests : Answers(q, c) /\ reply'[c] = q.sequence
        \/ (\A q \in Requests : ~Answers(q, c)) /\ reply'[c] = reply[c]
  BY <1>1 DEF Delivered
<1>6. ASSUME NEW q \in Requests, NEW c \in Clients, Answers(q, c)
      PROVE  /\ q \in [client : Clients, socket : Nat, sequence : Nat]
             /\ state[c] = "expect_reply" /\ q.sequence = sequence[c]
             /\ ~Sits(q)'
  BY <1>2, <1>4, <1>6 DEF Awaited
<1>7. ClientTypes'
  <2>1. \A c \in Clients : reply'[c] \in Nat \union {None}
    <3> SUFFICES ASSUME NEW c \in Clients PROVE reply'[c] \in Nat \union {None}
      OBVIOUS
    <3>1. CASE \E q \in Requests : Answers(q, c) /\ reply'[c] = q.sequence
      <4>1. PICK q \in Requests : Answers(q, c) /\ reply'[c] = q.sequence
        BY <3>1
      <4>2. q.sequence \in Nat
        BY <1>6, <4>1
      <4> QED
        BY <4>1, <4>2
    <3>2. CASE reply'[c] = reply[c]
      BY <1>2, <3>2 DEF ClientTypes
    <3> QED
      BY <1>5, <3>1, <3>2
  <2>2. reply' = [c \in Clients |-> reply'[c]]
    BY <1>1 DEF Delivered
  <2> QED
    BY <1>2, <2>1, <2>2 DEF ClientTypes
<1>8. SocketsCounted'
  BY <1>2 DEF PiratesInv, SocketsCounted, Renewed
<1>9. NoStaleReplyThroughQueue'
  <2> SUFFICES ASSUME NEW c \in Clients, reply'[c] # None
               PROVE  state'[c] = "expect_reply" /\ reply'[c] = sequence'[c]
    BY DEF NoStaleReplyThroughQueue, C!NoStaleReply
  <2>1. CASE \E q \in Requests : Answers(q, c) /\ reply'[c] = q.sequence
    <3>1. PICK q \in Requests : Answers(q, c) /\ reply'[c] = q.sequence
      BY <2>1
    <3>2. state[c] = "expect_reply" /\ q.sequence = sequence[c]
      BY <1>6, <3>1
    <3> QED
      BY <1>2, <3>1, <3>2
  <2>2. CASE reply'[c] = reply[c]
    BY <1>2, <2>2 DEF PiratesInv, NoStaleReplyThroughQueue, C!NoStaleReply
  <2> QED
    BY <1>5, <2>1, <2>2
<1>10. ASSUME NEW q \in Requests PROVE Single(q)' /\ Awaited(q)'
  <2>1. Single(q)'
    BY <1>4
  <2>2. ASSUME Sits(q)'
        PROVE  /\ q \in [client : Clients, socket : Nat, sequence : Nat]
               /\ q.socket <= socket[q.client]
               /\ q.sequence <= sequence[q.client]
               /\ /\ state[q.client] = "expect_reply"
                  /\ q.sequence = sequence[q.client]
                  => socket[q.client] + retries_left[q.client]
                       <= q.socket + REQUEST_RETRIES
               /\ q.socket = socket[q.client] =>
                    /\ state[q.client] = "expect_reply"
                    /\ q.sequence = sequence[q.client]
                    /\ reply[q.client] = None
    BY <1>2, <1>4, <2>2 DEF Awaited
  <2>3. ASSUME Sits(q)', q.socket = socket[q.client],
               NEW r \in Requests, Answers(r, q.client)
        PROVE  FALSE
    <3>1. /\ q \in [client : Clients, socket : Nat, sequence : Nat]
          /\ q.client \in Clients /\ q.sequence = sequence[q.client]
      BY <2>2, <2>3
    <3>2. /\ r \in [client : Clients, socket : Nat, sequence : Nat]
          /\ r.sequence = sequence[q.client] /\ ~Sits(r)'
          /\ r.client = q.client /\ r.socket = q.socket
      BY <1>6, <2>3, <3>1
    <3>3. r = q
      BY <3>1, <3>2
    <3> QED
      BY <2>3, <3>2, <3>3
  <2>4. ASSUME Sits(q)', q.socket = socket[q.client]
        PROVE  reply'[q.client] = None
    <3>1. q.client \in Clients /\ reply[q.client] = None
      BY <2>2, <2>4
    <3>2. \A r \in Requests : ~Answers(r, q.client)
      BY <2>3, <2>4
    <3> HIDE DEF Answers
    <3> QED
      BY <1>5, <3>1, <3>2
  <2>5. Awaited(q)'
    BY <1>2, <2>2, <2>4 DEF Awaited
  <2> QED
    BY <2>1, <2>5
<1> QED
  BY <1>3, <1>7, <1>8, <1>9, <1>10 DEF PiratesInv

(* The steps of workers and of time leave the clients' variables alone,    *)
(* except for their polls.                                                 *)
LEMMA OthersOK ==
  ASSUME PiratesInv, IInv', queue' = queue,
         UNCHANGED <<state, sequence, retries_left, socket, reply>>,
         \A q \in Requests : Single(q)' /\ (Sits(q)' => Sits(q))
  PROVE  PiratesInv'
<1>1. ClientTypes' /\ SocketsCounted'
  BY DEF PiratesInv, ClientTypes, SocketsCounted, Renewed
<1>2. NoStaleReplyThroughQueue'
  BY DEF PiratesInv, NoStaleReplyThroughQueue, C!NoStaleReply
<1>3. \A q \in Requests : Single(q)' /\ Awaited(q)'
  BY DEF PiratesInv, Awaited
<1> QED
  BY <1>1, <1>2, <1>3 DEF PiratesInv

LEMMA WorkersOK ==
  ASSUME PiratesInv, NEW w \in Workers,
         WorkerTurn(w) \/ WorkerBegins(w) \/ WorkerFails(w)
  PROVE  PiratesInv'
<1>1. /\ WorkerStart(w) \/ WorkerStop(w) \/ WorkerLoop(w)
      /\ UNCHANGED clientVars
  BY DEF WorkerTurn, WorkerBegins, WorkerFails, WorkerLoop
<1>2. IInv /\ \A q \in Requests : Single(q)
  BY DEF PiratesInv
<1>3. IInv'
  BY <1>1, <1>2, WorkerStartTypes, WorkerExitTypes, WorkerLoopTypes
     DEF WorkerStop
<1>4. UNCHANGED queue
  BY <1>1 DEF WorkerStart, WorkerStop, WorkerLoop, WorkerExit, WorkerCrash,
     WorkerReply, WorkerOverload, WorkerWake, WorkerHeard, WorkerTimeout,
     WorkerGiveUp, WorkerReconnect, queueVars
<1>5. \A q \in Requests : Single(q)' /\ (Sits(q)' => Sits(q))
  BY <1>1, <1>2, WorkerMoves
<1> QED
  BY <1>1, <1>3, <1>4, <1>5, OthersOK DEF clientVars

LEMMA PiratesNextOK ==
  ASSUME PiratesInv, [PiratesNext]_pirateVars
  PROVE  PiratesInv'
<1>1. ASSUME NEW c \in Clients, ClientTurn(c) PROVE PiratesInv'
  BY <1>1, ClientOK
<1>2. CASE QueueServes
  BY <1>2, QueueOK
<1>3. ASSUME NEW w \in Workers,
             WorkerTurn(w) \/ WorkerBegins(w) \/ WorkerFails(w)
      PROVE  PiratesInv'
  BY <1>3, WorkersOK
<1>4. CASE TimePasses \/ UNCHANGED pirateVars
  <2>1. IInv
    BY DEF PiratesInv
  <2>2. IInv'
    BY <1>4, <2>1, TickTypes, NextOK DEF TimePasses, pirateVars
  <2>3. UNCHANGED <<queue, front, toQueue, toWorker, state, sequence,
                    retries_left, socket, reply>>
    BY <1>4 DEF TimePasses, Tick, pirateVars, vars, queueVars, wireVars,
       clientVars
  <2>4. \A q \in Requests : Single(q)' /\ (Sits(q)' => Sits(q))
    BY <2>3, FrontMoves DEF PiratesInv
  <2> QED
    BY <2>2, <2>3, <2>4, OthersOK
<1> QED
  BY <1>1, <1>2, <1>3, <1>4 DEF PiratesNext, GoesOn

LEMMA PiratesInitOK == PiratesInit => PiratesInv
<1> SUFFICES ASSUME PiratesInit PROVE PiratesInv
  OBVIOUS
<1>1. /\ IInv /\ queue = "up" /\ front = {}
      /\ \A i \in Ids : toQueue[i] = <<>> /\ toWorker[i] = <<>>
  BY InitOK DEF PiratesInit, Init
<1>2. /\ state = [c \in Clients |-> "ask"] /\ sequence = [c \in Clients |-> 0]
      /\ retries_left = [c \in Clients |-> REQUEST_RETRIES]
      /\ socket = [c \in Clients |-> 0] /\ reply = [c \in Clients |-> None]
  BY DEF PiratesInit, C!ClientInit
<1>3. ClientTypes
  BY <1>2, TriesAssumption DEF ClientTypes
<1>4. SocketsCounted
  <2>1. 0 <= 0 * (REQUEST_RETRIES - 1)
    BY TriesAssumption
  <2> QED
    BY <1>2, <2>1 DEF SocketsCounted, Renewed
<1>5. NoStaleReplyThroughQueue
  BY <1>2 DEF NoStaleReplyThroughQueue, C!NoStaleReply
<1>6. \A p \in Places : On(p) = <<>>
  BY <1>1, PlaceFacts
<1>7. \A q \in Requests : Single(q) /\ Awaited(q)
  BY <1>1, <1>6, ShortMail DEF Single, Awaited, Sits
<1> QED
  BY <1>1, <1>3, <1>4, <1>5, <1>7 DEF PiratesInv

(* The tries of one request come from as many sockets as there were tries. *)
LEMMA TriesCounted ==
  ASSUME PiratesInv, NEW c \in Clients, state[c] = "expect_reply"
  PROVE  Cardinality(Tries(c)) + retries_left[c] <= REQUEST_RETRIES + 1
<1> DEFINE low == socket[c] + retries_left[c] - REQUEST_RETRIES
           T == Tries(c)
           f == [q \in T |-> q.socket]
<1>1. /\ socket[c] \in Nat /\ retries_left[c] \in Nat /\ REQUEST_RETRIES \in Nat
      /\ retries_left[c] <= REQUEST_RETRIES
  BY TriesAssumption DEF PiratesInv, ClientTypes
<1>2. \A q \in T : /\ q \in [client : Clients, socket : Nat, sequence : Nat]
                   /\ q.client = c /\ q.sequence = sequence[c]
                   /\ q.socket <= socket[c]
                   /\ socket[c] + retries_left[c] <= q.socket + REQUEST_RETRIES
  <2> SUFFICES ASSUME NEW q \in T
               PROVE  /\ q \in [client : Clients, socket : Nat, sequence : Nat]
                      /\ q.client = c /\ q.sequence = sequence[c]
                      /\ q.socket <= socket[c]
                      /\ socket[c] + retries_left[c]
                           <= q.socket + REQUEST_RETRIES
    OBVIOUS
  <2>1. /\ q \in Requests /\ Sits(q) /\ q.client = c
        /\ q.sequence = sequence[c]
    BY DEF Tries
  <2> QED
    BY <2>1 DEF PiratesInv, Awaited
<1>3. low \in Int /\ low .. socket[c] \subseteq Int
  BY <1>1
<1>4. f \in Injection(T, low .. socket[c])
  <2>1. \A q \in T : q.socket \in low .. socket[c]
    <3> SUFFICES ASSUME NEW q \in T PROVE q.socket \in low .. socket[c]
      OBVIOUS
    <3>1. q.socket \in Nat
      BY <1>2
    <3> QED
      BY <1>1, <1>2, <3>1
  <2>2. \A q, r \in T : q.socket = r.socket => q = r
    BY <1>2
  <2>3. f \in [T -> low .. socket[c]]
    BY <2>1
  <2> HIDE DEF low, T
  <2>4. \A q, r \in T : f[q] = f[r] => q = r
    BY <2>2
  <2> QED
    BY <2>3, <2>4, Fun_IsInj
<1> HIDE DEF f, T, low
<1>5. /\ IsFiniteSet(low .. socket[c])
      /\ Cardinality(low .. socket[c])
           = IF low > socket[c] THEN 0 ELSE socket[c] - low + 1
  <2>1. socket[c] \in Int
    BY <1>1
  <2> QED
    BY <1>3, <2>1, FS_Interval
<1>6. IsFiniteSet(T) /\ Cardinality(T) <= Cardinality(low .. socket[c])
  BY <1>4, <1>5, FS_Injection
<1>7. Cardinality(T) \in Nat
  BY <1>6, FS_CardinalityType
<1>8. Cardinality(low .. socket[c]) = REQUEST_RETRIES - retries_left[c] + 1
  BY <1>1, <1>5 DEF low
<1> QED
  BY <1>1, <1>6, <1>7, <1>8 DEF T

LEMMA PiratesInvariant == PiratesSpec => []PiratesInv
<1>1. PiratesInv /\ [PiratesNext]_pirateVars => PiratesInv'
  BY PiratesNextOK
<1> QED
  BY <1>1, PiratesInitOK, PTL DEF PiratesSpec

(* client.c:31-43 behind queue.c: a worker may answer late, fall ill,      *)
(* crash or come back under another identity while the client asks again,  *)
(* and the reply that reaches a client is still that to its present try.   *)
THEOREM NoStaleReplyPasses == PiratesSpec => []NoStaleReplyThroughQueue
<1>1. PiratesInv => NoStaleReplyThroughQueue
  BY DEF PiratesInv
<1> QED
  BY <1>1, PiratesInvariant, PTL

(* queue.c:89-119 and worker.c:36-61: whatever worker a try is handed to,  *)
(* it is on one wire at most, and there are no more of one request than    *)
(* its client has sent, for any number of clients and workers.             *)
THEOREM OnlyRetriesCopy == PiratesSpec => []NoCopiesMade
<1>1. PiratesInv => NoCopiesMade
  BY TriesCounted DEF PiratesInv, NoCopiesMade
<1> QED
  BY <1>1, PiratesInvariant, PTL

=============================================================================
