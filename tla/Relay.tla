-------------------------------- MODULE Relay -------------------------------
(***************************************************************************)
(* src/src/mt/relay.c: a chain of threads.  Each but the first binds a PAIR*)
(* socket, starts the one before it and waits for READY, which it passes on*)
(* by connecting to the next one's socket.  The last one, main, destroys   *)
(* the context, which waits for the sockets of the others to be closed.    *)
(***************************************************************************)
EXTENDS Naturals

CONSTANT LAST      \* the last stage: 3 in the code

VARIABLES
  stage,     \* stage[k]: "idle", "start", "create", "wait", "signal"
             \* or "done"
  bound,     \* stages whose receiver is bound
  ready      \* stages whose receiver has got READY

vars == <<stage, bound, ready>>

Stages == 1..LAST

Init ==
  /\ stage = [k \in Stages |-> IF k = LAST THEN "start" ELSE "idle"]
  /\ bound = {} /\ ready = {}

Moves(k, to) == stage' = [stage EXCEPT ![k] = to]

(* The first stage has nobody to wait for.  The mistake: the name of the   *)
(* endpoint before.                                                        *)
BindElsewhere(k) == Moves(k, "create") /\ bound' = bound \union {k - 1}
Bind(k) == Moves(k, "create") /\ bound' = bound \union {k}

Begin(k) ==
  /\ stage[k] = "start" /\ UNCHANGED ready
  /\ IF k = 1 THEN Moves(k, "signal") /\ UNCHANGED bound ELSE Bind(k)

Create(k) ==
  /\ stage[k] = "create"
  /\ stage' = [stage EXCEPT ![k] = "wait", ![k - 1] = "start"]
  /\ UNCHANGED <<bound, ready>>

Recv(k) ==
  /\ stage[k] = "wait" /\ k \in ready
  /\ Moves(k, "signal") /\ UNCHANGED <<bound, ready>>

(* Without a socket to connect to, connect fails and the send blocks.      *)
Signal(k) ==
  /\ stage[k] = "signal" /\ k + 1 \in bound
  /\ Moves(k, "done") /\ ready' = ready \union {k + 1}
  /\ UNCHANGED bound

Destroy ==
  /\ stage[LAST] = "signal" /\ \A k \in Stages \ {LAST} : stage[k] = "done"
  /\ Moves(LAST, "done") /\ UNCHANGED <<bound, ready>>

ThreadStep(k) ==
  Begin(k) \/ Create(k) \/ Recv(k) \/ Signal(k) \/ (k = LAST /\ Destroy)
Next == \E k \in Stages : ThreadStep(k)

Spec == Init /\ [][Next]_vars
FairSpec == Spec /\ \A k \in Stages : WF_vars(ThreadStep(k))

-----------------------------------------------------------------------------

(* The chain completes: no thread connects before there is a socket to     *)
(* connect to, however the threads are scheduled.                          *)
ChainCompletes == <>(stage[LAST] = "done")

=============================================================================
