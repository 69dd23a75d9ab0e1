----------------------------- MODULE RouterToReq ----------------------------
(***************************************************************************)
(* src/src/loadbalance/rtreq.c: worker threads ask a ROUTER for work with  *)
(* REQ sockets; main answers "ok" until its time is up and "exit" from     *)
(* then on, and ends when it has said "exit" as often as there are workers.*)
(* The return of main ends the process, with every thread in it.           *)
(***************************************************************************)
EXTENDS Naturals, FiniteSets

CONSTANTS Workers, None

NBR_WORKERS == Cardinality(Workers)

VARIABLES
  phase,           \* phase[w]: "ask", "wait", "work" or "done"
  asks,            \* workers whose "Hello" main has not read
  answers,         \* answers[w]: "ok" or "exit" on its way, or None
  time_up,         \* now>=end_time
  workers_exited,
  router           \* main: "serve", "close" or "exited"

vars == <<phase, asks, answers, time_up, workers_exited, router>>

Init ==
  /\ phase = [w \in Workers |-> "ask"] /\ asks = {}
  /\ answers = [w \in Workers |-> None]
  /\ time_up = FALSE /\ workers_exited = 0 /\ router = "serve"

Running == router # "exited"

Ask(w) ==
  /\ Running /\ phase[w] = "ask"
  /\ phase' = [phase EXCEPT ![w] = "wait"] /\ asks' = asks \union {w}
  /\ UNCHANGED <<answers, time_up, workers_exited, router>>

Heed(w) ==
  /\ Running /\ phase[w] = "wait" /\ answers[w] # None
  /\ phase' = [phase EXCEPT ![w] = IF answers[w] = "exit" THEN "done"
                                   ELSE "work"]
  /\ answers' = [answers EXCEPT ![w] = None]
  /\ UNCHANGED <<asks, time_up, workers_exited, router>>

Work(w) ==
  /\ Running /\ phase[w] = "work"
  /\ phase' = [phase EXCEPT ![w] = "ask"]
  /\ UNCHANGED <<asks, answers, time_up, workers_exited, router>>

TimeIsUp ==
  /\ ~time_up /\ time_up' = TRUE
  /\ UNCHANGED <<phase, asks, answers, workers_exited, router>>

(* The mistakes of counting every answer, and of comparing before counting.*)
CountAll == workers_exited + 1
CountExits == IF time_up THEN workers_exited + 1 ELSE workers_exited
AllExitedBefore == time_up /\ workers_exited = NBR_WORKERS
AllExited == time_up /\ workers_exited' = NBR_WORKERS

Answer(w) ==
  /\ router = "serve" /\ w \in asks
  /\ asks' = asks \ {w}
  /\ answers' = [answers EXCEPT ![w] = IF time_up THEN "exit" ELSE "ok"]
  /\ workers_exited' = CountExits
  /\ router' = IF AllExited THEN "close" ELSE "serve"
  /\ UNCHANGED <<phase, time_up>>

(* The context is destroyed when the answers are out; nobody waits for the *)
(* threads.                                                                *)
Exit ==
  /\ router = "close" /\ router' = "exited"
  /\ UNCHANGED <<phase, asks, answers, time_up, workers_exited>>

WorkerStep(w) == Ask(w) \/ Heed(w) \/ Work(w)
MainStep == (\E w \in Workers : Answer(w)) \/ Exit
Next == MainStep \/ TimeIsUp \/ \E w \in Workers : WorkerStep(w)

Spec == Init /\ [][Next]_vars
FairSpec ==
  /\ Spec /\ WF_vars(MainStep) /\ WF_vars(TimeIsUp)
  /\ \A w \in Workers : WF_vars(WorkerStep(w))

-----------------------------------------------------------------------------

TypeOK ==
  /\ phase \in [Workers -> {"ask", "wait", "work", "done"}]
  /\ asks \subseteq Workers
  /\ answers \in [Workers -> {"ok", "exit", None}]
  /\ time_up \in BOOLEAN /\ workers_exited \in 0..NBR_WORKERS
  /\ router \in {"serve", "close", "exited"}

(* Workers that have been told to exit, whether they know it yet or not. *)
Told == {w \in Workers : phase[w] = "done" \/ answers[w] = "exit"}

(* Counting answers is as good as knowing whom they went to: main never    *)
(* leaves a worker behind that it has not told to exit, and the count is   *)
(* that of the workers told.                                               *)
AllToldToExit ==
  /\ workers_exited = Cardinality(Told)
  /\ router # "serve" => Told = Workers

(* Main ends once its time is up, whoever asks when. *)
MainEnds == <>(router = "exited")

=============================================================================
