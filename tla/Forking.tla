------------------------------- MODULE Forking ------------------------------
(***************************************************************************)
(* src/src/erl/server2.c: a PULL server that forks a child for every       *)
(* message with an Erlang integer, reaps at most one child after each      *)
(* fork, and ends on SIGINT or SIGTERM, which the handler of base.c only   *)
(* notes.  A signal breaks off a receive that waits; s_recv then returns   *)
(* with the caller's buffer as it was.  Before the first message that is   *)
(* whatever the stack held.                                                *)
(***************************************************************************)
EXTENDS Naturals, Sequences

CONSTANTS
  MaxMessages,   \* bound: messages that arrive
  MaxProcesses   \* children the system allows, reaped ones not counted

VARIABLES
  loop,          \* "recv", "handle", "sleep" or "done"
  buffer,        \* what the buffer is taken for: "integer" or "other"
  interrupted,   \* S_INTERRUPTED
  mail,          \* messages that have arrived and not been read
  running, zombies,
  received, handled, peak  \* history: messages read, turns of the loop, and
                           \* the most children that ever ran at once

vars == <<loop, buffer, interrupted, mail, running, zombies, received, handled,
          peak>>

Kinds == {"integer", "other"}

Init ==
  /\ loop = "recv" /\ buffer \in Kinds /\ interrupted = FALSE /\ mail = <<>>
  /\ running = 0 /\ zombies = 0
  /\ received = 0 /\ handled = 0 /\ peak = 0

Arrive ==
  /\ loop # "done" /\ received + Len(mail) < MaxMessages
  /\ \E k \in Kinds : mail' = Append(mail, k)
  /\ UNCHANGED <<loop, buffer, interrupted, running, zombies, received,
                 handled, peak>>

Recv ==
  /\ loop = "recv" /\ mail # <<>>
  /\ loop' = "handle" /\ buffer' = Head(mail) /\ mail' = Tail(mail)
  /\ received' = received + 1
  /\ UNCHANGED <<interrupted, running, zombies, handled, peak>>

(* A signal just before the receive begins to wait does not end the wait. *)
Signal ==
  /\ loop # "done"
  /\ interrupted' = TRUE
  /\ \/ loop' = loop
     \/ loop = "recv" /\ mail = <<>> /\ loop' = "handle"
  /\ UNCHANGED <<buffer, mail, running, zombies, received, handled, peak>>

(* The mistake of going on after an interrupt. *)
AfterTurnGoOn == "sleep"
AfterTurn == IF interrupted THEN "done" ELSE "sleep"

(* waitpid(-1, 0, WNOHANG), and the mistake of leaving it out. *)
ReapNone == zombies
Reap == IF zombies > 0 THEN zombies - 1 ELSE 0

Fork ==
  /\ loop = "handle" /\ buffer = "integer"
  /\ running' = IF running + zombies < MaxProcesses THEN running + 1
                ELSE running
  /\ zombies' = Reap
  /\ peak' = IF running' > peak THEN running' ELSE peak
  /\ handled' = handled + 1 /\ loop' = AfterTurn
  /\ UNCHANGED <<buffer, interrupted, mail, received>>

Ignore ==
  /\ loop = "handle" /\ buffer # "integer"
  /\ handled' = handled + 1 /\ loop' = AfterTurn
  /\ UNCHANGED <<buffer, interrupted, mail, running, zombies, received, peak>>

Wake ==
  /\ loop = "sleep" /\ loop' = "recv"
  /\ UNCHANGED <<buffer, interrupted, mail, running, zombies, received,
                 handled, peak>>

(* After ten seconds, or earlier, by a signal to the group. *)
ChildEnds ==
  /\ running > 0 /\ running' = running - 1 /\ zombies' = zombies + 1
  /\ UNCHANGED <<loop, buffer, interrupted, mail, received, handled, peak>>

ServerStep == Recv \/ Fork \/ Ignore \/ Wake
Next == Arrive \/ Signal \/ ServerStep \/ ChildEnds

Spec == Init /\ [][Next]_vars
FairSpec == Spec /\ WF_vars(ServerStep)

-----------------------------------------------------------------------------

TypeOK ==
  /\ loop \in {"recv", "handle", "sleep", "done"}
  /\ buffer \in Kinds /\ interrupted \in BOOLEAN /\ mail \in Seq(Kinds)
  /\ running \in Nat /\ zombies \in Nat /\ peak \in Nat
  /\ received \in Nat /\ handled \in Nat

(* One waitpid per fork is enough: running and unreaped children together  *)
(* are never more than have once run at the same time.                     *)
ZombiesBounded == running + zombies <= peak

(* A message is acted on twice only by the last turn: the stale buffer that*)
(* an interrupted receive leaves is used once, and the server ends.        *)
StaleBufferOnce ==
  /\ handled <= received + 1
  /\ handled > received => loop = "done"

(* A server that has been told to end does so with the next message.       *)
EndsWithNextMessage == interrupted /\ mail # <<>> ~> loop = "done"

=============================================================================
