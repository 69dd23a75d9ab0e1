---------------------------- MODULE TaskPipeline ----------------------------
(***************************************************************************)
(* The parallel pipeline of src/src/task: ventilator.c pushes a batch of   *)
(* tasks to whatever workers are attached, worker.c pushes a result per    *)
(* task to the sink, and sink.c counts one batch of results and then       *)
(* publishes KILL, which ends the workers.                                 *)
(*                                                                         *)
(* Messages on one connection are a set: nothing in the code depends on    *)
(* their order.  Connections come about some time after both ends exist.   *)
(* A PUSH socket waits until a peer is attached; a PUB socket drops what   *)
(* it publishes for a peer whose subscription has not arrived.             *)
(***************************************************************************)
EXTENDS Naturals, FiniteSets

CONSTANTS
  Workers,
  Batches,      \* bound: how often the ventilator is run
  NBR_TASKS,    \* tasks in a batch (100 in the code)
  None          \* no task

ASSUME BatchAssumption == Batches \in Nat /\ NBR_TASKS \in Nat \ {0}
ASSUME NoneAssumption == None \notin Nat \X Nat

(* A task is a number in a batch: its workload does not matter here. *)
Tasks == (1 .. Batches) \X (1 .. NBR_TASKS)

VARIABLES
  ventilator,   \* "prompt" before Enter is pressed, then "sending"
  batch,        \* batches begun
  sent,         \* tasks of the present batch that have been sent
  signals,      \* "0" messages on their way to the sink
  worker,       \* worker[w]: "down", "poll", "work", "closing" and "gone"
                \* after KILL, or "dead" after a signal
  attached,     \* workers the PUSH socket of the ventilator knows
  subscribed,   \* workers the PUB socket of the sink knows
  inbox,        \* inbox[w]: tasks sent to w and not read
  job,          \* job[w]: the task w is sleeping for
  revents,      \* revents[w]: the last poll of w reported the controller
  outbox,       \* outbox[w]: results the sink has not read
  sink,         \* "down", "first", "count", "done" when KILL is published,
                \* "gone"
  task_nbr,     \* results counted
  killed        \* workers to whom KILL is sent

ventilatorVars == <<ventilator, batch, sent>>
workerVars     == <<worker, job, revents>>
sinkVars       == <<sink, task_nbr, killed>>
wireVars       == <<signals, attached, subscribed, inbox, outbox>>
vars           == <<ventilatorVars, workerVars, sinkVars, wireVars>>

Init ==
  /\ ventilator = "prompt" /\ batch = 0 /\ sent = 0
  /\ signals = 0 /\ attached = {} /\ subscribed = {}
  /\ worker = [w \in Workers |-> "down"]
  /\ inbox = [w \in Workers |-> {}] /\ outbox = [w \in Workers |-> {}]
  /\ job = [w \in Workers |-> None]
  /\ revents = [w \in Workers |-> FALSE]
  /\ sink = "down" /\ task_nbr = 0 /\ killed = {}

Running(w) == worker[w] \in {"poll", "work"}

-----------------------------------------------------------------------------
(* ventilator.c.                                                           *)

(* Enter: "0" goes to the sink. *)
Press ==
  /\ ventilator = "prompt" /\ batch < Batches
  /\ ventilator' = "sending" /\ batch' = batch + 1 /\ sent' = 0
  /\ signals' = signals + 1
  /\ UNCHANGED <<workerVars, sinkVars, attached, subscribed, inbox, outbox>>

(* The next task, to any worker that is attached. *)
Push(w) ==
  /\ ventilator = "sending" /\ sent < NBR_TASKS
  /\ w \in attached
  /\ sent' = sent + 1
  /\ inbox' = [inbox EXCEPT ![w] = @ \union {<<batch, sent + 1>>}]
  /\ UNCHANGED <<ventilator, batch, workerVars, sinkVars, signals, attached,
                 subscribed, outbox>>

(* All is sent and the sockets are closed; zmq_ctx_destroy may still hold  *)
(* the process for the signal.  A new process prompts again, to which the  *)
(* workers have to connect again.                                          *)
Return ==
  /\ ventilator = "sending" /\ sent = NBR_TASKS
  /\ ventilator' = "prompt"
  /\ attached' = {}
  /\ UNCHANGED <<batch, sent, workerVars, sinkVars, signals, subscribed,
                 inbox, outbox>>

-----------------------------------------------------------------------------
(* worker.c.                                                               *)

Start(w) ==
  /\ worker[w] = "down"
  /\ worker' = [worker EXCEPT ![w] = "poll"]
  /\ UNCHANGED <<ventilatorVars, sinkVars, wireVars, job, revents>>

(* Two of the worker's three connections, which nobody waits for; the      *)
(* third, to the sink's PULL socket, carries what is sent as soon as it    *)
(* exists.                                                                 *)
Attach(w) ==
  /\ Running(w) /\ w \notin attached
  /\ attached' = attached \union {w}
  /\ UNCHANGED <<ventilatorVars, workerVars, sinkVars, signals, subscribed,
                 inbox, outbox>>

Subscribe(w) ==
  /\ Running(w) /\ w \notin subscribed /\ sink \in {"first", "count"}
  /\ subscribed' = subscribed \union {w}
  /\ UNCHANGED <<ventilatorVars, workerVars, sinkVars, signals, attached,
                 inbox, outbox>>

(* The poll reports a task, and KILL as well if it has arrived. *)
Take(w, t) ==
  /\ worker[w] = "poll" /\ t \in inbox[w]
  /\ \E seen \in BOOLEAN :
       /\ seen => w \in killed
       /\ revents' = [revents EXCEPT ![w] = seen]
  /\ inbox' = [inbox EXCEPT ![w] = @ \ {t}]
  /\ job' = [job EXCEPT ![w] = t]
  /\ worker' = [worker EXCEPT ![w] = "work"]
  /\ UNCHANGED <<ventilatorVars, sinkVars, signals, attached, subscribed,
                 outbox>>

(* The worker is gone or leaves the sockets it reads; tasks it has not     *)
(* read are lost.                                                          *)
Leave(w, as) ==
  /\ worker' = [worker EXCEPT ![w] = as]
  /\ attached' = attached \ {w} /\ subscribed' = subscribed \ {w}
  /\ inbox' = [inbox EXCEPT ![w] = {}]
  /\ job' = [job EXCEPT ![w] = None]
  /\ revents' = [revents EXCEPT ![w] = FALSE]

(* The sleep is over: the result goes out before KILL is looked at. *)
Finish(w) ==
  /\ worker[w] = "work"
  /\ outbox' = [outbox EXCEPT ![w] = @ \union {job[w]}]
  /\ IF revents[w] THEN Leave(w, "closing")
     ELSE /\ worker' = [worker EXCEPT ![w] = "poll"]
          /\ job' = [job EXCEPT ![w] = None]
          /\ UNCHANGED <<revents, attached, subscribed, inbox>>
  /\ UNCHANGED <<ventilatorVars, sinkVars, signals>>

(* The mistake of looking at the controller only after a task. *)
ObeyNever(w) == FALSE /\ UNCHANGED vars
(* The poll reports KILL and no task, though one may be on its way. *)
Obey(w) ==
  /\ worker[w] = "poll" /\ w \in killed
  /\ Leave(w, "closing")
  /\ UNCHANGED <<ventilatorVars, sinkVars, signals, outbox>>

(* zmq_ctx_destroy returns when the results have left for the sink: for    *)
(* ever, if need be, it waits for a PULL socket that takes them.           *)
Exit(w) ==
  /\ worker[w] = "closing"
  /\ outbox[w] = {} \/ sink \in {"first", "count", "done"}
  /\ worker' = [worker EXCEPT ![w] = "gone"]
  /\ UNCHANGED <<ventilatorVars, sinkVars, wireVars, job, revents>>

(* The default action of a signal ends the process at once; results that   *)
(* have not crossed are lost with it.                                      *)
Kill(w) ==
  /\ Running(w) \/ worker[w] = "closing"
  /\ Leave(w, "dead")
  /\ \E crossed \in SUBSET outbox[w] :
       /\ sink \in {"down", "gone"} => crossed = {}
       /\ outbox' = [outbox EXCEPT ![w] = crossed]
  /\ UNCHANGED <<ventilatorVars, sinkVars, signals>>

-----------------------------------------------------------------------------
(* sink.c.                                                                 *)

Open ==
  /\ sink = "down"
  /\ sink' = "first"
  /\ UNCHANGED <<ventilatorVars, workerVars, wireVars, task_nbr, killed>>

(* Some message is read, whichever connection it comes from. *)
Pull ==
  \/ /\ signals > 0 /\ signals' = signals - 1
     /\ UNCHANGED outbox
  \/ /\ \E w \in Workers : \E t \in outbox[w] :
          outbox' = [outbox EXCEPT ![w] = @ \ {t}]
     /\ UNCHANGED signals

(* The first message is taken for the signal that the batch begins. *)
First ==
  /\ sink = "first"
  /\ Pull
  /\ sink' = "count"
  /\ UNCHANGED <<ventilatorVars, workerVars, task_nbr, killed, attached,
                 subscribed, inbox>>

(* Mistakes: to wait for one result too few, or for one too many. *)
EnoughEarly == task_nbr >= NBR_TASKS - 1
EnoughLate  == task_nbr = NBR_TASKS + 1
Enough == task_nbr = NBR_TASKS

Count ==
  /\ sink = "count" /\ ~Enough
  /\ Pull
  /\ task_nbr' = task_nbr + 1
  /\ UNCHANGED <<ventilatorVars, workerVars, sink, killed, attached,
                 subscribed, inbox>>

(* KILL goes to the workers that have subscribed. *)
Publish ==
  /\ sink = "count" /\ Enough
  /\ killed' = subscribed
  /\ sink' = "done"
  /\ UNCHANGED <<ventilatorVars, workerVars, wireVars, task_nbr>>

(* The sockets are closed: results that have crossed are lost, the others  *)
(* stay with the workers that still run.                                   *)
Close ==
  /\ sink = "done" /\ sink' = "gone"
  /\ \E unsent \in SUBSET {p \in Workers \X Tasks :
                             /\ p[2] \in outbox[p[1]]
                             /\ worker[p[1]] \notin {"gone", "dead"}} :
       outbox' = [w \in Workers |-> {t \in Tasks : <<w, t>> \in unsent}]
  /\ UNCHANGED <<ventilatorVars, workerVars, task_nbr, killed, signals,
                 attached, subscribed, inbox>>

-----------------------------------------------------------------------------

VentilatorStep ==
  \/ \E w \in Workers : Push(w)
  \/ Return
WorkerStep(w) ==
  (\E t \in Tasks : Take(w, t)) \/ Finish(w) \/ Obey(w) \/ Exit(w)
SinkStep == First \/ Count \/ Publish \/ Close

Next ==
  \/ Press \/ VentilatorStep
  \/ \E w \in Workers :
       Start(w) \/ Attach(w) \/ Subscribe(w) \/ WorkerStep(w) \/ Kill(w)
  \/ Open \/ SinkStep

Spec == Init /\ [][Next]_vars

(* Processes that run are scheduled, connections come about; nobody has to *)
(* start a process.                                                        *)
FairSpec ==
  /\ Spec
  /\ WF_vars(VentilatorStep) /\ WF_vars(SinkStep)
  /\ \A w \in Workers :
       WF_vars(Attach(w)) /\ WF_vars(Subscribe(w)) /\ WF_vars(WorkerStep(w))

-----------------------------------------------------------------------------

TypeOK ==
  /\ ventilator \in {"prompt", "sending"}
  /\ batch \in 0 .. Batches /\ sent \in 0 .. NBR_TASKS
  /\ signals \in 0 .. Batches
  /\ worker \in [Workers -> {"down", "poll", "work", "closing", "gone", "dead"}]
  /\ attached \in SUBSET Workers /\ subscribed \in SUBSET Workers
  /\ inbox \in [Workers -> SUBSET Tasks]
  /\ outbox \in [Workers -> SUBSET Tasks]
  /\ job \in [Workers -> Tasks \union {None}]
  /\ revents \in [Workers -> BOOLEAN]
  /\ sink \in {"down", "first", "count", "done", "gone"}
  /\ task_nbr \in 0 .. NBR_TASKS
  /\ killed \in SUBSET Workers

(* As long as one batch has been begun, KILL is published only when every  *)
(* task of it has been sent, worked on and counted: no worker is told to   *)
(* stop while there is work to do, although the sink cannot tell a result  *)
(* from the signal and counts messages of all workers in any order, and    *)
(* although workers die.                                                   *)
WorkDoneBeforeKill ==
  sink \in {"done", "gone"} /\ batch = 1 =>
    /\ sent = NBR_TASKS /\ signals = 0
    /\ \A w \in Workers : inbox[w] = {} /\ job[w] = None /\ outbox[w] = {}

(* Unless a worker dies, a batch that has been begun is counted to its end *)
(* as soon as there are a worker and the sink.                             *)
BatchCompletes ==
  ventilator = "sending" /\ sink # "down" /\ (\E w \in Workers : Running(w))
  ~> sink \in {"done", "gone"} \/ \E w \in Workers : worker[w] = "dead"

(* KILL ends the process of every worker that had subscribed in time, busy *)
(* or idle, also one that was sent more tasks; unless a later batch has    *)
(* been begun and the worker is left with a result that the ended sink     *)
(* does not take, for which zmq_ctx_destroy waits for ever.                *)
KillEndsSubscribers ==
  sink = "done" ~>
    \A w \in killed :
      \/ worker[w] \in {"gone", "dead"}
      \/ batch > 1 /\ sink = "gone" /\ worker[w] = "closing" /\ outbox[w] # {}

=============================================================================
