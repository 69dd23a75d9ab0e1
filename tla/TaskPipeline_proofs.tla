------------------------ MODULE TaskPipeline_proofs -------------------------
(***************************************************************************)
(* Why the sink of src/src/task publishes KILL in time, for any workers,   *)
(* any size of a batch and any number of batches, although it cannot tell  *)
(* a result from the signal and workers die.                               *)
(***************************************************************************)
EXTENDS TaskPipeline, FiniteSetTheorems, TLAPS

(* A worker sleeps for a task exactly while it works. *)
Working == \A w \in Workers : worker[w] = "work" <=> job[w] # None

(* Before Enter is pressed there is nothing anywhere. *)
NothingYet ==
  batch = 0 =>
    /\ ventilator = "prompt" /\ sent = 0 /\ signals = 0
    /\ task_nbr = 0 /\ sink \in {"down", "first"}
    /\ \A w \in Workers : inbox[w] = {} /\ job[w] = None /\ outbox[w] = {}

(* The tasks worker w has before it, in hand and behind it. *)
Held(w) == inbox[w] \union ({job[w]} \ {None}) \union outbox[w]

(* In the first batch a task that has been sent is in one place, or gone.  *)
OnePlace ==
  batch = 1 =>
    \A w \in Workers :
      /\ \A t \in Held(w) : \E k \in 1 .. sent : t = <<1, k>>
      /\ inbox[w] \cap outbox[w] = {}
      /\ job[w] \notin inbox[w] /\ job[w] \notin outbox[w]
      /\ \A v \in Workers : Held(w) \cap Held(v) # {} => v = w

(* The tasks that may still become a message the sink reads. *)
Outstanding == {k \in 1 .. sent : \E w \in Workers : <<1, k>> \in Held(w)}

(* What the sink has read and what it can still read is no more than what  *)
(* was sent: the signal and a message per task.                            *)
Balance ==
  batch = 1 =>
    task_nbr + (IF sink \in {"count", "done", "gone"} THEN 1 ELSE 0) + signals
      + Cardinality(Outstanding) <= 1 + sent

(* Each run of the ventilator signals once. *)
Signalled == signals <= batch

Counted == sink \in {"done", "gone"} => task_nbr = NBR_TASKS

IInv == TypeOK /\ Working /\ NothingYet /\ OnePlace /\ Balance
        /\ Signalled /\ Counted

-----------------------------------------------------------------------------

LEMMA NumbersAndTasks ==
  /\ Batches \in Nat /\ NBR_TASKS \in Nat /\ NBR_TASKS > 0
  /\ None \notin Tasks
  /\ \A k, n : <<1, k>> = <<1, n>> => k = n
BY BatchAssumption, NoneAssumption DEF Tasks

LEMMA OutstandingFinite ==
  TypeOK => IsFiniteSet(Outstanding) /\ Cardinality(Outstanding) \in Nat
<1> SUFFICES ASSUME TypeOK
             PROVE  IsFiniteSet(Outstanding) /\ Cardinality(Outstanding) \in Nat
  OBVIOUS
<1>1. sent \in Nat /\ sent \in Int /\ 1 \in Int
  BY NumbersAndTasks DEF TypeOK
<1>2. IsFiniteSet(1 .. sent)
  BY <1>1, FS_Interval
<1>3. Outstanding \subseteq 1 .. sent
  BY DEF Outstanding
<1> QED
  BY <1>2, <1>3, FS_Subset, FS_CardinalityType

LEMMA InitOK == Init => IInv
<1> SUFFICES ASSUME Init PROVE IInv
  OBVIOUS
<1>1. TypeOK
  BY NumbersAndTasks DEF Init, TypeOK
<1>2. Working /\ NothingYet /\ OnePlace /\ Balance /\ Signalled /\ Counted
  BY DEF Init, Working, NothingYet, OnePlace, Balance, Signalled, Counted
<1> QED
  BY <1>1, <1>2 DEF IInv

(* While nobody sends or reads, the balance can only improve. *)
LEMMA Losing ==
  ASSUME TypeOK, Balance, UNCHANGED <<batch, sent, task_nbr, signals>>,
         sink' \in {"count", "done", "gone"}
           <=> sink \in {"count", "done", "gone"},
         \A w \in Workers : Held(w)' \subseteq Held(w)
  PROVE  Balance'
<1> SUFFICES ASSUME batch = 1
             PROVE  task_nbr
                      + (IF sink' \in {"count", "done", "gone"} THEN 1 ELSE 0)
                      + signals + Cardinality(Outstanding') <= 1 + sent
  BY DEF Balance
<1>1. Outstanding' \subseteq Outstanding
  BY DEF Outstanding
<1>2. /\ Cardinality(Outstanding') \in Nat /\ Cardinality(Outstanding) \in Nat
      /\ Cardinality(Outstanding') <= Cardinality(Outstanding)
  BY <1>1, OutstandingFinite, FS_Subset, FS_CardinalityType
<1>3. task_nbr \in Nat /\ signals \in Nat /\ sent \in Nat
  BY NumbersAndTasks DEF TypeOK
<1> HIDE DEF Outstanding
<1> QED
  BY <1>2, <1>3 DEF Balance

(* Tasks that leave a place leave the others as they are. *)
LEMMA FewerPlaces ==
  ASSUME OnePlace, UNCHANGED <<batch, sent>>,
         \A w \in Workers : /\ Held(w)' \subseteq Held(w)
                            /\ inbox'[w] \cap outbox'[w] = {}
                            /\ job'[w] \notin inbox'[w] /\ job'[w] \notin outbox'[w]
  PROVE  OnePlace'
<1> SUFFICES ASSUME batch = 1, NEW w \in Workers
             PROVE  /\ \A t \in Held(w)' : \E k \in 1 .. sent : t = <<1, k>>
                    /\ \A v \in Workers : Held(w)' \cap Held(v)' # {} => v = w
  BY DEF OnePlace
<1>1. \A t \in Held(w)' : t \in Held(w)
  OBVIOUS
<1>2. \A v \in Workers : Held(w)' \cap Held(v)' # {} => Held(w) \cap Held(v) # {}
  OBVIOUS
<1> QED
  BY <1>1, <1>2 DEF OnePlace

-----------------------------------------------------------------------------
(* The ventilator.                                                         *)

LEMMA PressOK ==
  ASSUME IInv, Press
  PROVE  IInv'
<1>1. /\ batch < Batches /\ batch' = batch + 1 /\ sent' = 0
      /\ ventilator' = "sending" /\ signals' = signals + 1
      /\ UNCHANGED <<worker, job, revents, sink, task_nbr, killed, attached,
                     subscribed, inbox, outbox>>
  BY DEF Press, workerVars, sinkVars
<1>2. /\ batch \in 0 .. Batches /\ signals \in 0 .. Batches /\ signals <= batch
      /\ Batches \in Nat /\ NBR_TASKS \in Nat
  BY NumbersAndTasks DEF IInv, TypeOK, Signalled
<1>3. TypeOK' /\ Signalled'
  <2>1. /\ batch' \in 0 .. Batches /\ signals' \in 0 .. Batches /\ signals' <= batch'
        /\ sent' \in 0 .. NBR_TASKS
    BY <1>1, <1>2
  <2> QED
    BY <1>1, <2>1 DEF IInv, TypeOK, Signalled, Tasks
<1>4. Working' /\ Counted'
  BY <1>1 DEF IInv, Working, Counted
<1>5. NothingYet'
  BY <1>1, <1>2 DEF NothingYet
<1>6. batch' = 1 =>
        /\ task_nbr' = 0 /\ signals' = 1 /\ sink' \in {"down", "first"}
        /\ \A w \in Workers : inbox'[w] = {} /\ job'[w] = None /\ outbox'[w] = {}
  BY <1>1, <1>2 DEF IInv, NothingYet
<1>7. OnePlace'
  BY <1>6 DEF OnePlace, Held
<1>8. Balance'
  <2> SUFFICES ASSUME batch' = 1
               PROVE  Cardinality(Outstanding') = 0
    BY <1>1, <1>6 DEF Balance
  <2>1. Outstanding' = {}
    BY <1>6 DEF Outstanding, Held
  <2> QED
    BY <2>1, FS_EmptySet
<1> QED
  BY <1>3, <1>4, <1>5, <1>7, <1>8 DEF IInv

(* A task that has not been sent yet is nowhere. *)
LEMMA PushOK ==
  ASSUME IInv, NEW w \in Workers, Push(w)
  PROVE  IInv'
<1> DEFINE new == <<batch, sent + 1>>
<1>1. /\ sent < NBR_TASKS /\ sent' = sent + 1 /\ w \in attached
      /\ inbox' = [inbox EXCEPT ![w] = @ \union {new}]
      /\ UNCHANGED <<ventilator, batch, worker, job, revents, sink, task_nbr,
                     killed, signals, attached, subscribed, outbox>>
  BY DEF Push, workerVars, sinkVars
<1>2. /\ batch \in 0 .. Batches /\ sent \in 0 .. NBR_TASKS /\ sent \in Nat
      /\ Batches \in Nat /\ NBR_TASKS \in Nat /\ sent + 1 \in 0 .. NBR_TASKS
  BY <1>1, NumbersAndTasks DEF IInv, TypeOK
<1>3. batch > 0
  BY <1>2 DEF IInv, NothingYet, Push
<1>4. new \in Tasks /\ new # None
  BY <1>2, <1>3, NumbersAndTasks DEF Tasks
<1>5. /\ inbox'[w] = inbox[w] \union {new} /\ Held(w)' = Held(w) \union {new}
      /\ \A v \in Workers \ {w} : inbox'[v] = inbox[v] /\ Held(v)' = Held(v)
  <2>1. /\ inbox'[w] = inbox[w] \union {new}
        /\ \A v \in Workers \ {w} : inbox'[v] = inbox[v]
    BY <1>1 DEF IInv, TypeOK
  <2> QED
    BY <1>1, <2>1 DEF Held
<1> HIDE DEF new
<1>6. TypeOK'
  <2>1. inbox' \in [Workers -> SUBSET Tasks]
    BY <1>1, <1>4 DEF IInv, TypeOK
  <2> QED
    BY <1>1, <1>2, <2>1 DEF IInv, TypeOK, Tasks
<1>7. Working' /\ NothingYet' /\ Signalled' /\ Counted'
  BY <1>1, <1>3 DEF IInv, Working, NothingYet, Signalled, Counted
<1>8. batch = 1 => new = <<1, sent + 1>> /\ \A v \in Workers : new \notin Held(v)
  <2> SUFFICES ASSUME batch = 1
               PROVE  new = <<1, sent + 1>> /\ \A v \in Workers : new \notin Held(v)
    OBVIOUS
  <2>1. new = <<1, sent + 1>>
    BY DEF new
  <2>2. \A k \in 1 .. sent : new # <<1, k>>
    <3>1. \A k \in 1 .. sent : k # sent + 1
      BY <1>2
    <3> QED
      BY <2>1, <3>1
  <2>3. \A v \in Workers : \A t \in Held(v) : \E k \in 1 .. sent : t = <<1, k>>
    BY DEF IInv, OnePlace
  <2> QED
    BY <2>1, <2>2, <2>3
<1>9. OnePlace'
  <2> SUFFICES ASSUME batch = 1, NEW v \in Workers
               PROVE  /\ \A t \in Held(v)' : \E k \in 1 .. sent + 1 : t = <<1, k>>
                      /\ inbox'[v] \cap outbox[v] = {}
                      /\ job[v] \notin inbox'[v] /\ job[v] \notin outbox[v]
                      /\ \A u \in Workers : Held(v)' \cap Held(u)' # {} => u = v
    BY <1>1 DEF OnePlace
  <2>1. /\ new = <<1, sent + 1>> /\ sent + 1 \in 1 .. sent + 1
        /\ \A k \in 1 .. sent : k \in 1 .. sent + 1
        /\ \A u \in Workers : new \notin Held(u)
    BY <1>2, <1>8
  <2>2. \A u \in Workers :
          /\ \A t \in Held(u) : \E k \in 1 .. sent : t = <<1, k>>
          /\ inbox[u] \cap outbox[u] = {}
          /\ job[u] \notin inbox[u] /\ job[u] \notin outbox[u]
          /\ \A x \in Workers : Held(u) \cap Held(x) # {} => x = u
    BY DEF IInv, OnePlace
  <2>3. new \notin outbox[v] /\ (new # None => job[v] # new)
    BY <2>1 DEF Held
  <2>4. \A t \in Held(v)' : \E k \in 1 .. sent + 1 : t = <<1, k>>
    BY <1>5, <2>1, <2>2
  <2>5. inbox'[v] \cap outbox[v] = {} /\ job[v] \notin inbox'[v]
    BY <1>4, <1>5, <2>2, <2>3
  <2>6. \A u \in Workers : Held(v)' \cap Held(u)' # {} => u = v
    BY <1>5, <2>1, <2>2
  <2> QED
    BY <2>2, <2>4, <2>5, <2>6
<1>10. Balance'
  <2> SUFFICES ASSUME batch = 1
               PROVE  Cardinality(Outstanding') <= Cardinality(Outstanding) + 1
    <3>1. /\ sent' = sent + 1 /\ UNCHANGED <<batch, task_nbr, sink, signals>>
          /\ task_nbr \in Nat /\ signals \in Nat /\ sent \in Nat
      BY <1>1, NumbersAndTasks DEF IInv, TypeOK
    <3>2. (TypeOK => Cardinality(Outstanding) \in Nat)'
      BY OutstandingFinite, PTL
    <3>3. Cardinality(Outstanding') \in Nat /\ Cardinality(Outstanding) \in Nat
      BY <1>6, <3>2, OutstandingFinite DEF IInv
    <3> QED
      BY <3>1, <3>3 DEF IInv, Balance
  <2>1. Outstanding' \subseteq Outstanding \union {sent + 1}
    <3> SUFFICES ASSUME NEW k \in Outstanding', k # sent + 1 PROVE k \in Outstanding
      OBVIOUS
    <3>1. PICK v \in Workers : <<1, k>> \in Held(v)'
      BY DEF Outstanding
    <3>2. k \in 1 .. sent
      BY <1>1, <1>2 DEF Outstanding
    <3>3. <<1, k>> # new
      BY <1>8, NumbersAndTasks
    <3>4. <<1, k>> \in Held(v)
      BY <1>5, <3>1, <3>3
    <3> QED
      BY <3>2, <3>4 DEF Outstanding
  <2>2. IsFiniteSet(Outstanding) /\ Cardinality(Outstanding) \in Nat
    BY OutstandingFinite DEF IInv
  <2>3. /\ IsFiniteSet(Outstanding \union {sent + 1})
        /\ Cardinality(Outstanding \union {sent + 1}) <= Cardinality(Outstanding) + 1
    BY <2>2, FS_AddElement
  <2>4. /\ Cardinality(Outstanding') <= Cardinality(Outstanding \union {sent + 1})
        /\ Cardinality(Outstanding') \in Nat
        /\ Cardinality(Outstanding \union {sent + 1}) \in Nat
    BY <2>1, <2>3, FS_Subset, FS_CardinalityType
  <2> QED
    BY <2>2, <2>3, <2>4
<1> QED
  BY <1>6, <1>7, <1>9, <1>10 DEF IInv

(* What is left to show of a step that sends nothing and reads nothing. *)
LEMMA Quiet ==
  ASSUME IInv, TypeOK',
         UNCHANGED <<batch, sent, task_nbr, signals, sink>>,
         batch = 0 => UNCHANGED <<ventilator, inbox, job, outbox>>,
         Working',
         \A w \in Workers : /\ Held(w)' \subseteq Held(w)
                            /\ inbox'[w] \cap outbox'[w] = {} \/ batch # 1
                            /\ \/ /\ job'[w] \notin inbox'[w]
                                  /\ job'[w] \notin outbox'[w]
                               \/ batch # 1
  PROVE  IInv'
<1>1. OnePlace'
  <2>1. CASE batch = 1
    BY <2>1, FewerPlaces DEF IInv
  <2>2. CASE batch # 1
    BY <2>2 DEF OnePlace
  <2> QED
    BY <2>1, <2>2
<1>2. Balance'
  BY Losing DEF IInv
<1>3. NothingYet' /\ Signalled' /\ Counted'
  BY DEF IInv, NothingYet, Signalled, Counted
<1> QED
  BY <1>1, <1>2, <1>3 DEF IInv

-----------------------------------------------------------------------------
(* The workers.                                                            *)

(* A worker that goes takes tasks with it. *)
LEMMA LeaveOK ==
  ASSUME IInv, NEW w \in Workers, NEW as \in {"closing", "dead"}, Leave(w, as),
         NEW sending,
         sending \subseteq outbox[w] \union ({job[w]} \ {None}),
         outbox' = [outbox EXCEPT ![w] = sending],
         UNCHANGED <<ventilatorVars, sinkVars, signals>>
  PROVE  IInv'
<1>1. /\ worker' = [worker EXCEPT ![w] = as]
      /\ inbox' = [inbox EXCEPT ![w] = {}] /\ job' = [job EXCEPT ![w] = None]
      /\ UNCHANGED <<ventilator, batch, sent, sink, task_nbr, killed, signals>>
  BY DEF Leave, ventilatorVars, sinkVars
<1>2. TypeOK'
  <2>1. sending \subseteq Tasks
    BY DEF IInv, TypeOK
  <2>2. /\ outbox' \in [Workers -> SUBSET Tasks]
        /\ inbox' \in [Workers -> SUBSET Tasks]
        /\ job' \in [Workers -> Tasks \union {None}]
    BY <1>1, <2>1 DEF IInv, TypeOK
  <2>3. /\ worker' \in [Workers -> {"down", "poll", "work", "closing", "gone", "dead"}]
        /\ attached' \in SUBSET Workers /\ subscribed' \in SUBSET Workers
        /\ revents' \in [Workers -> BOOLEAN]
    BY <1>1 DEF Leave, IInv, TypeOK
  <2> QED
    BY <1>1, <2>2, <2>3 DEF IInv, TypeOK, Tasks
<1>3. /\ worker'[w] = as /\ inbox'[w] = {} /\ job'[w] = None /\ outbox'[w] = sending
      /\ \A v \in Workers \ {w} :
           /\ worker'[v] = worker[v] /\ inbox'[v] = inbox[v] /\ job'[v] = job[v]
           /\ outbox'[v] = outbox[v]
  BY <1>1 DEF IInv, TypeOK
<1>4. Working'
  BY <1>3 DEF IInv, Working
<1>5. \A v \in Workers : Held(v)' \subseteq Held(v)
  <2>1. Held(w)' \subseteq Held(w)
    BY <1>3 DEF Held
  <2>2. \A v \in Workers \ {w} : Held(v)' = Held(v)
    BY <1>3 DEF Held
  <2> QED
    BY <2>1, <2>2
<1>6. None \notin sending
  BY NumbersAndTasks DEF IInv, TypeOK
<1>7. \A v \in Workers :
        \/ /\ inbox'[v] \cap outbox'[v] = {}
           /\ job'[v] \notin inbox'[v] /\ job'[v] \notin outbox'[v]
        \/ batch # 1
  BY <1>3, <1>6 DEF IInv, OnePlace
<1>8. batch = 0 => UNCHANGED <<ventilator, inbox, job, outbox>>
  <2> SUFFICES ASSUME batch = 0 PROVE UNCHANGED <<inbox, job, outbox>>
    BY <1>1
  <2>1. inbox[w] = {} /\ job[w] = None /\ outbox[w] = {}
    BY DEF IInv, NothingYet
  <2> QED
    BY <1>1, <2>1 DEF IInv, TypeOK
<1> QED
  BY <1>1, <1>2, <1>4, <1>5, <1>7, <1>8, Quiet

LEMMA TakeOK ==
  ASSUME IInv, NEW w \in Workers, NEW t \in Tasks, Take(w, t)
  PROVE  IInv'
<1>1. /\ worker[w] = "poll" /\ t \in inbox[w]
      /\ inbox' = [inbox EXCEPT ![w] = @ \ {t}] /\ job' = [job EXCEPT ![w] = t]
      /\ worker' = [worker EXCEPT ![w] = "work"]
      /\ UNCHANGED <<ventilator, batch, sent, sink, task_nbr, killed, signals,
                     attached, subscribed, outbox>>
  BY DEF Take, ventilatorVars, sinkVars
<1>2. TypeOK'
  <2>1. /\ inbox' \in [Workers -> SUBSET Tasks]
        /\ job' \in [Workers -> Tasks \union {None}]
        /\ worker' \in [Workers -> {"down", "poll", "work", "closing", "gone", "dead"}]
    BY <1>1 DEF IInv, TypeOK
  <2>2. revents' \in [Workers -> BOOLEAN]
    BY DEF Take, IInv, TypeOK
  <2> QED
    BY <1>1, <2>1, <2>2 DEF IInv, TypeOK, Tasks
<1>3. /\ worker'[w] = "work" /\ inbox'[w] = inbox[w] \ {t} /\ job'[w] = t
      /\ outbox'[w] = outbox[w] /\ t # None
      /\ \A v \in Workers \ {w} :
           /\ worker'[v] = worker[v] /\ inbox'[v] = inbox[v] /\ job'[v] = job[v]
           /\ outbox'[v] = outbox[v]
  BY <1>1, NumbersAndTasks DEF IInv, TypeOK
<1>4. Working'
  BY <1>3 DEF IInv, Working
<1>5. \A v \in Workers : Held(v)' \subseteq Held(v)
  <2>1. Held(w)' \subseteq Held(w)
    BY <1>1, <1>3 DEF Held
  <2>2. \A v \in Workers \ {w} : Held(v)' = Held(v)
    BY <1>3 DEF Held
  <2> QED
    BY <2>1, <2>2
<1>6. \A v \in Workers :
        \/ /\ inbox'[v] \cap outbox'[v] = {}
           /\ job'[v] \notin inbox'[v] /\ job'[v] \notin outbox'[v]
        \/ batch # 1
  BY <1>1, <1>3 DEF IInv, OnePlace
<1>7. batch # 0
  BY <1>1 DEF IInv, NothingYet
<1> QED
  BY <1>1, <1>2, <1>4, <1>5, <1>6, <1>7, Quiet

LEMMA FinishOK ==
  ASSUME IInv, NEW w \in Workers, Finish(w)
  PROVE  IInv'
<1>1. /\ worker[w] = "work" /\ outbox' = [outbox EXCEPT ![w] = @ \union {job[w]}]
      /\ UNCHANGED <<ventilatorVars, sinkVars, signals>>
  BY DEF Finish
<1>2. job[w] # None /\ job[w] \in Tasks
  BY <1>1 DEF IInv, TypeOK, Working
<1>3. CASE revents[w]
  <2> DEFINE sending == outbox[w] \union {job[w]}
  <2>1. /\ Leave(w, "closing") /\ outbox' = [outbox EXCEPT ![w] = sending]
        /\ sending \subseteq outbox[w] \union ({job[w]} \ {None})
    BY <1>1, <1>2, <1>3 DEF Finish
  <2> HIDE DEF sending
  <2> QED
    BY <1>1, <2>1, LeaveOK
<1>4. CASE ~revents[w]
  <2>1. /\ worker' = [worker EXCEPT ![w] = "poll"] /\ job' = [job EXCEPT ![w] = None]
        /\ UNCHANGED <<ventilator, batch, sent, sink, task_nbr, killed, signals,
                       revents, attached, subscribed, inbox>>
    BY <1>1, <1>4 DEF Finish, ventilatorVars, sinkVars
  <2>2. TypeOK'
    <3>1. /\ outbox' \in [Workers -> SUBSET Tasks]
          /\ job' \in [Workers -> Tasks \union {None}]
          /\ worker' \in [Workers -> {"down", "poll", "work", "closing", "gone", "dead"}]
      BY <1>1, <1>2, <2>1 DEF IInv, TypeOK
    <3> QED
      BY <2>1, <3>1 DEF IInv, TypeOK, Tasks
  <2>3. /\ worker'[w] = "poll" /\ inbox'[w] = inbox[w] /\ job'[w] = None
        /\ outbox'[w] = outbox[w] \union {job[w]}
        /\ \A v \in Workers \ {w} :
             /\ worker'[v] = worker[v] /\ inbox'[v] = inbox[v] /\ job'[v] = job[v]
             /\ outbox'[v] = outbox[v]
    BY <1>1, <2>1 DEF IInv, TypeOK
  <2>4. Working'
    BY <2>3 DEF IInv, Working
  <2>5. \A v \in Workers : Held(v)' \subseteq Held(v)
    <3>1. Held(w)' \subseteq Held(w)
      BY <1>2, <2>3 DEF Held
    <3>2. \A v \in Workers \ {w} : Held(v)' = Held(v)
      BY <2>3 DEF Held
    <3> QED
      BY <3>1, <3>2
  <2>6. \A v \in Workers : None \notin inbox[v] /\ None \notin outbox[v]
    BY NumbersAndTasks DEF IInv, TypeOK
  <2>7. \A v \in Workers :
          \/ /\ inbox'[v] \cap outbox'[v] = {}
             /\ job'[v] \notin inbox'[v] /\ job'[v] \notin outbox'[v]
          \/ batch # 1
    BY <1>2, <2>3, <2>6 DEF IInv, OnePlace
  <2>8. batch # 0
    BY <1>2 DEF IInv, NothingYet
  <2> QED
    BY <2>1, <2>2, <2>4, <2>5, <2>7, <2>8, Quiet
<1> QED
  BY <1>3, <1>4

LEMMA KillOK ==
  ASSUME IInv, NEW w \in Workers, Kill(w)
  PROVE  IInv'
<1>1. PICK crossed \in SUBSET outbox[w] : outbox' = [outbox EXCEPT ![w] = crossed]
  BY DEF Kill
<1>2. /\ Leave(w, "dead")
      /\ UNCHANGED <<ventilatorVars, sinkVars, signals>>
  BY DEF Kill
<1>3. crossed \subseteq outbox[w] \union ({job[w]} \ {None})
  OBVIOUS
<1> QED
  BY <1>1, <1>2, <1>3, LeaveOK

LEMMA ObeyOK ==
  ASSUME IInv, NEW w \in Workers, Obey(w)
  PROVE  IInv'
<1> DEFINE sending == outbox[w]
<1>1. /\ Leave(w, "closing") /\ UNCHANGED <<ventilatorVars, sinkVars, signals>>
      /\ outbox' = [outbox EXCEPT ![w] = sending]
  BY DEF Obey, IInv, TypeOK
<1>2. sending \subseteq outbox[w] \union ({job[w]} \ {None})
  OBVIOUS
<1> HIDE DEF sending
<1> QED
  BY <1>1, <1>2, LeaveOK

LEMMA ExitOK ==
  ASSUME IInv, NEW w \in Workers, Exit(w)
  PROVE  IInv'
<1>1. /\ worker[w] = "closing" /\ worker' = [worker EXCEPT ![w] = "gone"]
      /\ UNCHANGED <<ventilator, batch, sent, job, revents, sink, task_nbr, killed,
                     signals, attached, subscribed, inbox, outbox>>
  BY DEF Exit, ventilatorVars, sinkVars, wireVars
<1>2. TypeOK'
  <2>1. worker' \in [Workers -> {"down", "poll", "work", "closing", "gone", "dead"}]
    BY <1>1 DEF IInv, TypeOK
  <2> QED
    BY <1>1, <2>1 DEF IInv, TypeOK, Tasks
<1>3. Working'
  BY <1>1 DEF IInv, TypeOK, Working
<1>4. \A v \in Workers : Held(v)' = Held(v)
  BY <1>1 DEF Held
<1> QED
  BY <1>1, <1>2, <1>3, <1>4, Quiet DEF IInv, OnePlace

-----------------------------------------------------------------------------
(* The sink.                                                               *)

(* A message that is read was a signal or an outstanding task, and is no   *)
(* longer.                                                                 *)
LEMMA PullOK ==
  ASSUME IInv, Pull,
         UNCHANGED <<ventilatorVars, workerVars, attached, subscribed, inbox>>
  PROVE  /\ batch # 0 /\ OnePlace'
         /\ outbox' \in [Workers -> SUBSET Tasks] /\ signals' \in 0 .. signals
         /\ batch = 1 =>
              signals' + Cardinality(Outstanding')
                <= signals + Cardinality(Outstanding) - 1
<1>1. UNCHANGED <<batch, sent, worker, job, inbox>>
  BY DEF ventilatorVars, workerVars
<1>2. signals \in Nat /\ Cardinality(Outstanding) \in Nat /\ IsFiniteSet(Outstanding)
  BY NumbersAndTasks, OutstandingFinite DEF IInv, TypeOK
<1>3. CASE signals > 0 /\ signals' = signals - 1 /\ UNCHANGED outbox
  <2>1. \A w \in Workers : Held(w)' = Held(w)
    BY <1>1, <1>3 DEF Held
  <2>2. Outstanding' = Outstanding
    BY <1>1, <2>1 DEF Outstanding
  <2>3. OnePlace'
    BY <1>1, <1>3, <2>1 DEF IInv, OnePlace
  <2>4. batch # 0
    BY <1>3 DEF IInv, NothingYet
  <2> QED
    BY <1>2, <1>3, <2>2, <2>3, <2>4 DEF IInv, TypeOK
<1>4. ASSUME NEW w \in Workers, NEW t \in outbox[w],
             outbox' = [outbox EXCEPT ![w] = @ \ {t}], UNCHANGED signals
      PROVE  /\ batch # 0 /\ OnePlace'
             /\ outbox' \in [Workers -> SUBSET Tasks]
             /\ batch = 1 =>
                  Cardinality(Outstanding') <= Cardinality(Outstanding) - 1
  <2>1. /\ outbox'[w] = outbox[w] \ {t}
        /\ \A v \in Workers \ {w} : outbox'[v] = outbox[v]
    BY <1>4 DEF IInv, TypeOK
  <2>2. \A v \in Workers : Held(v)' \subseteq Held(v)
    BY <1>1, <2>1 DEF Held
  <2>3. OnePlace'
    BY <1>1, <2>1, <2>2, FewerPlaces DEF IInv, OnePlace
  <2>4. batch # 0
    BY DEF IInv, NothingYet
  <2>5. outbox' \in [Workers -> SUBSET Tasks]
    BY <1>4 DEF IInv, TypeOK
  <2>6. ASSUME batch = 1
        PROVE  Cardinality(Outstanding') <= Cardinality(Outstanding) - 1
    <3>1. t \in Held(w)
      BY DEF Held
    <3>2. PICK k \in 1 .. sent : t = <<1, k>>
      BY <2>6, <3>1 DEF IInv, OnePlace
    <3>3. k \in Outstanding
      BY <3>1, <3>2 DEF Outstanding
    <3>4. \A v \in Workers : t \notin Held(v)'
      <4>1. t \notin Held(w)'
        BY <1>1, <2>1, <2>6 DEF IInv, OnePlace, Held
      <4>2. \A v \in Workers \ {w} : t \notin Held(v)
        BY <2>6, <3>1 DEF IInv, OnePlace
      <4> QED
        BY <2>2, <4>1, <4>2
    <3>5. Outstanding' \subseteq Outstanding \ {k}
      BY <1>1, <2>2, <3>2, <3>4 DEF Outstanding
    <3>6. /\ IsFiniteSet(Outstanding \ {k})
          /\ Cardinality(Outstanding \ {k}) = Cardinality(Outstanding) - 1
      BY <1>2, <3>3, FS_RemoveElement
    <3> QED
      BY <3>5, <3>6, FS_Subset
  <2> QED
    BY <2>3, <2>4, <2>5, <2>6
<1>5. ASSUME NEW w \in Workers, NEW t \in outbox[w],
             outbox' = [outbox EXCEPT ![w] = @ \ {t}], UNCHANGED signals
      PROVE  batch = 1 => signals' + Cardinality(Outstanding')
                            <= signals + Cardinality(Outstanding) - 1
  <2>1. Cardinality(Outstanding') \in Nat \/ batch # 1
    <3>1. outbox' \in [Workers -> SUBSET Tasks]
      BY <1>4, <1>5
    <3>2. IsFiniteSet(Outstanding')
      <4>1. Outstanding' \subseteq 1 .. sent /\ sent \in Int /\ 1 \in Int
        BY <1>1, NumbersAndTasks DEF Outstanding, IInv, TypeOK
      <4> QED
        BY <4>1, FS_Interval, FS_Subset
    <3> QED
      BY <3>2, FS_CardinalityType
  <2>2. batch = 1 => Cardinality(Outstanding') <= Cardinality(Outstanding) - 1
    BY <1>4, <1>5
  <2> QED
    BY <1>2, <1>5, <2>1, <2>2
<1> QED
  BY <1>2, <1>3, <1>4, <1>5 DEF Pull

LEMMA ReadOK ==
  ASSUME IInv, First \/ Count
  PROVE  IInv'
<1>1. /\ Pull /\ UNCHANGED <<ventilatorVars, workerVars, attached, subscribed, inbox>>
      /\ UNCHANGED <<ventilator, batch, sent, worker, job, revents, killed>>
      /\ \/ sink = "first" /\ sink' = "count" /\ task_nbr' = task_nbr
         \/ /\ sink = "count" /\ sink' = "count" /\ task_nbr # NBR_TASKS
            /\ task_nbr' = task_nbr + 1
  BY DEF First, Count, Enough, ventilatorVars, workerVars
<1>2. /\ batch # 0 /\ OnePlace' /\ outbox' \in [Workers -> SUBSET Tasks]
      /\ signals' \in 0 .. signals
      /\ batch = 1 => signals' + Cardinality(Outstanding')
                        <= signals + Cardinality(Outstanding) - 1
  BY <1>1, PullOK
<1>3. /\ task_nbr \in 0 .. NBR_TASKS /\ NBR_TASKS \in Nat /\ sent \in Nat
      /\ signals \in 0 .. Batches /\ Batches \in Nat /\ batch \in Nat
  BY NumbersAndTasks DEF IInv, TypeOK
<1>4. TypeOK'
  <2>1. task_nbr' \in 0 .. NBR_TASKS /\ signals' \in 0 .. Batches
    BY <1>1, <1>2, <1>3
  <2> QED
    BY <1>1, <1>2, <2>1 DEF IInv, TypeOK, Tasks
<1>5. Working' /\ NothingYet' /\ Counted'
  BY <1>1, <1>2 DEF IInv, Working, NothingYet, Counted
<1>6. Signalled'
  BY <1>1, <1>2, <1>3 DEF IInv, Signalled
<1>7. Balance'
  <2>1. (TypeOK => Cardinality(Outstanding) \in Nat)'
    BY OutstandingFinite, PTL
  <2>2. Cardinality(Outstanding) \in Nat /\ Cardinality(Outstanding') \in Nat
    BY <1>4, <2>1, OutstandingFinite DEF IInv
  <2> HIDE DEF Outstanding
  <2> QED
    BY <1>1, <1>2, <1>3, <2>2 DEF IInv, Balance
<1> QED
  BY <1>2, <1>4, <1>5, <1>6, <1>7 DEF IInv

(* The end of the sink only takes messages away. *)
LEMMA CloseOK ==
  ASSUME IInv, Close
  PROVE  IInv'
<1>1. /\ sink = "done" /\ sink' = "gone"
      /\ UNCHANGED <<ventilator, batch, sent, worker, job, revents, task_nbr,
                     killed, signals, attached, subscribed, inbox>>
  BY DEF Close, ventilatorVars, workerVars
<1>2. /\ outbox' \in [Workers -> SUBSET Tasks]
      /\ \A w \in Workers : outbox'[w] \subseteq outbox[w]
  <2>1. PICK unsent \in SUBSET {p \in Workers \X Tasks : p[2] \in outbox[p[1]]} :
          outbox' = [w \in Workers |-> {t \in Tasks : <<w, t>> \in unsent}]
    BY DEF Close
  <2> QED
    BY <2>1
<1>3. TypeOK'
  BY <1>1, <1>2 DEF IInv, TypeOK, Tasks
<1>4. batch # 0
  BY <1>1 DEF IInv, NothingYet
<1>5. \A w \in Workers : Held(w)' \subseteq Held(w)
  BY <1>1, <1>2 DEF Held
<1>6. OnePlace'
  <2>1. CASE batch = 1
    BY <1>1, <1>2, <1>5, <2>1, FewerPlaces DEF IInv, OnePlace
  <2> QED
    BY <1>1, <2>1 DEF OnePlace
<1>7. Balance'
  BY <1>1, <1>5, Losing DEF IInv
<1>8. Working' /\ Signalled' /\ Counted' /\ NothingYet'
  BY <1>1, <1>4 DEF IInv, Working, Signalled, Counted, NothingYet
<1> QED
  BY <1>3, <1>6, <1>7, <1>8 DEF IInv

-----------------------------------------------------------------------------

LEMMA NextOK ==
  ASSUME IInv, [Next]_vars
  PROVE  IInv'
<1>1. CASE Press
  BY <1>1, PressOK
<1>2. CASE VentilatorStep
  <2>1. CASE Return
    <3>1. UNCHANGED <<batch, sent, worker, job, revents, sink, task_nbr, killed,
                      signals, subscribed, inbox, outbox>>
      BY <2>1 DEF Return, workerVars, sinkVars
    <3>2. TypeOK' /\ Working'
      BY <2>1, <3>1 DEF Return, IInv, TypeOK, Working, Tasks
    <3>3. \A w \in Workers : Held(w)' = Held(w)
      BY <3>1 DEF Held
    <3>4. batch # 0
      BY <2>1 DEF Return, IInv, NothingYet
    <3> QED
      BY <3>1, <3>2, <3>3, <3>4, Quiet DEF IInv, OnePlace
  <2> QED
    BY <1>2, <2>1, PushOK DEF VentilatorStep
<1>3. ASSUME NEW w \in Workers, Start(w) \/ Attach(w) \/ Subscribe(w)
      PROVE  IInv'
  <2>1. UNCHANGED <<ventilator, batch, sent, job, revents, sink, task_nbr,
                    killed, signals, inbox, outbox>>
    BY <1>3 DEF Start, Attach, Subscribe, ventilatorVars, workerVars, sinkVars,
                wireVars
  <2>2. worker' \in [Workers -> {"down", "poll", "work", "closing", "gone", "dead"}]
        /\ attached' \in SUBSET Workers /\ subscribed' \in SUBSET Workers
    BY <1>3 DEF Start, Attach, Subscribe, workerVars, wireVars, IInv, TypeOK
  <2>3. TypeOK'
    BY <2>1, <2>2 DEF IInv, TypeOK, Tasks
  <2>4. \A v \in Workers : worker'[v] = "work" <=> worker[v] = "work"
    BY <1>3 DEF Start, Attach, Subscribe, workerVars, IInv, TypeOK
  <2>5. Working' /\ \A v \in Workers : Held(v)' = Held(v)
    BY <2>1, <2>4 DEF IInv, Working, Held
  <2> QED
    BY <2>1, <2>3, <2>5, Quiet DEF IInv, OnePlace
<1>4. ASSUME NEW w \in Workers, WorkerStep(w) \/ Kill(w) PROVE IInv'
  BY <1>4, TakeOK, FinishOK, ObeyOK, ExitOK, KillOK DEF WorkerStep
<1>5. CASE Open \/ Publish
  <2>1. /\ UNCHANGED <<ventilator, batch, sent, worker, job, revents, task_nbr,
                       signals, attached, subscribed, inbox, outbox>>
        /\ \/ sink = "down" /\ sink' = "first" /\ UNCHANGED killed
           \/ /\ sink = "count" /\ task_nbr = NBR_TASKS /\ sink' = "done"
              /\ killed' = subscribed
    BY <1>5 DEF Open, Publish, Enough, ventilatorVars, workerVars, wireVars
  <2>2. TypeOK'
    BY <2>1 DEF IInv, TypeOK, Tasks
  <2>3. \A w \in Workers : Held(w)' = Held(w)
    BY <2>1 DEF Held
  <2>4. Working' /\ Signalled' /\ Counted' /\ NothingYet' /\ OnePlace'
    BY <2>1, <2>3 DEF IInv, Working, Signalled, Counted, NothingYet, OnePlace
  <2>5. Balance'
    BY <2>1, <2>3, Losing DEF IInv
  <2> QED
    BY <2>2, <2>4, <2>5 DEF IInv
<1>6. CASE First \/ Count \/ Close
  BY <1>6, ReadOK, CloseOK
<1>7. CASE UNCHANGED vars
  <2>1. UNCHANGED <<ventilator, batch, sent, worker, job, revents, sink, task_nbr,
                    killed, signals, attached, subscribed, inbox, outbox>>
    BY <1>7 DEF vars, ventilatorVars, workerVars, sinkVars, wireVars
  <2>2. TypeOK' /\ Working'
    BY <2>1 DEF IInv, TypeOK, Working, Tasks
  <2>3. \A w \in Workers : Held(w)' = Held(w)
    BY <2>1 DEF Held
  <2> QED
    BY <2>1, <2>2, <2>3, Quiet DEF IInv, OnePlace
<1> QED
  BY <1>1, <1>2, <1>3, <1>4, <1>5, <1>6, <1>7 DEF Next, SinkStep

(* Whatever the sink is sent and in which order, whichever workers die and *)
(* however large the batch: when it publishes KILL after the first batch,  *)
(* the signal and every task have been counted and no worker has work left.*)
THEOREM KillComesLast == Spec => []WorkDoneBeforeKill
<1>1. Init => IInv
  BY InitOK
<1>2. IInv /\ [Next]_vars => IInv'
  BY NextOK
<1>3. IInv => WorkDoneBeforeKill
  <2> SUFFICES ASSUME IInv, sink \in {"done", "gone"}, batch = 1
               PROVE  /\ sent = NBR_TASKS /\ signals = 0
                      /\ \A w \in Workers : inbox[w] = {} /\ job[w] = None
                                            /\ outbox[w] = {}
    BY DEF WorkDoneBeforeKill
  <2>1. /\ Cardinality(Outstanding) \in Nat /\ IsFiniteSet(Outstanding)
        /\ signals \in Nat /\ sent \in 0 .. NBR_TASKS /\ NBR_TASKS \in Nat
    BY NumbersAndTasks, OutstandingFinite DEF IInv, TypeOK
  <2>2. NBR_TASKS + 1 + signals + Cardinality(Outstanding) <= 1 + sent
    BY DEF IInv, Counted, Balance
  <2>3. sent = NBR_TASKS /\ signals = 0 /\ Cardinality(Outstanding) = 0
    BY <2>1, <2>2
  <2>4. Outstanding = {}
    BY <2>1, <2>3, FS_EmptySet
  <2>5. \A w \in Workers : Held(w) = {}
    BY <2>4 DEF IInv, OnePlace, Outstanding
  <2> QED
    BY <2>3, <2>5 DEF Held
<1> QED
  BY <1>1, <1>2, <1>3, PTL DEF Spec

=============================================================================
