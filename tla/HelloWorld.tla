----------------------------- MODULE HelloWorld -----------------------------
(***************************************************************************)
(* src/src/helloworld: clients that ask with a REQ socket, one request     *)
(* after the other, and a REP server that ends on SIGINT or SIGTERM.  It   *)
(* looks at S_INTERRUPTED before and after it receives.                    *)
(***************************************************************************)
EXTENDS Naturals, FiniteSets

CONSTANTS Clients, None, NBR_REQUESTS

VARIABLES
  nbr,         \* nbr[c]: replies the client has got
  asking,      \* clients that wait for a reply
  requests,    \* clients whose request the server has not read
  server,      \* "test", "recv", "check", "serve" or "done"
  current,     \* the client whose request the server has read
  replies,     \* clients to whom a reply is on its way
  signalled,   \* S_INTERRUPTED
  late         \* history: clients whose request was read after a signal

vars == <<nbr, asking, requests, server, current, replies, signalled, late>>

Init ==
  /\ nbr = [c \in Clients |-> 0] /\ asking = {} /\ requests = {}
  /\ server = "test" /\ current = None /\ replies = {} /\ signalled = FALSE
  /\ late = {}

Send(c) ==
  /\ c \notin asking /\ nbr[c] < NBR_REQUESTS
  /\ asking' = asking \union {c} /\ requests' = requests \union {c}
  /\ UNCHANGED <<nbr, server, current, replies, signalled, late>>

Receive(c) ==
  /\ c \in replies
  /\ replies' = replies \ {c} /\ asking' = asking \ {c}
  /\ nbr' = [nbr EXCEPT ![c] = @ + 1]
  /\ UNCHANGED <<requests, server, current, signalled, late>>

(* A signal ends a receive that waits, unless it comes just before. *)
Signal ==
  /\ server # "done" /\ signalled' = TRUE
  /\ \/ server' = server
     \/ server = "recv" /\ requests = {} /\ server' = "check"
  /\ UNCHANGED <<nbr, asking, requests, current, replies, late>>

(* The process ends without closing its socket: replies may not get out. *)
End ==
  /\ server' = "done" /\ replies' \in SUBSET replies
  /\ UNCHANGED <<nbr, asking, requests, current, signalled, late>>

Go(s) ==
  /\ server' = s
  /\ UNCHANGED <<nbr, asking, requests, current, replies, signalled, late>>

(* The mistake of a loop without a condition. *)
TestNever == server = "test" /\ Go("recv")
Test == server = "test" /\ IF signalled THEN End ELSE Go("recv")

Recv(c) ==
  /\ server = "recv" /\ c \in requests
  /\ requests' = requests \ {c} /\ current' = c /\ server' = "check"
  /\ late' = IF signalled THEN late \union {c} ELSE late
  /\ UNCHANGED <<nbr, asking, replies, signalled>>

(* The mistake of looking at S_INTERRUPTED before receiving only. *)
CheckNothing == server = "check" /\ Go("serve")
Check == server = "check" /\ IF signalled THEN End ELSE Go("serve")

Serve ==
  /\ server = "serve"
  /\ replies' = replies \union ({current} \ {None})
  /\ current' = None /\ server' = "test"
  /\ UNCHANGED <<nbr, asking, requests, signalled, late>>

ServerStep == Test \/ (\E c \in Clients : Recv(c)) \/ Check \/ Serve
ClientStep(c) == Send(c) \/ Receive(c)
Next == Signal \/ ServerStep \/ \E c \in Clients : ClientStep(c)

Spec == Init /\ [][Next]_vars
FairSpec ==
  Spec /\ WF_vars(ServerStep) /\ \A c \in Clients : WF_vars(ClientStep(c))

-----------------------------------------------------------------------------

TypeOK ==
  /\ nbr \in [Clients -> 0..NBR_REQUESTS]
  /\ asking \subseteq Clients /\ requests \subseteq asking
  /\ replies \subseteq asking /\ late \subseteq asking
  /\ server \in {"test", "recv", "check", "serve", "done"}
  /\ current \in Clients \union {None} /\ signalled \in BOOLEAN

(* A request that is read after a signal is never answered: its client     *)
(* waits for a server that has ended.                                      *)
NoReplyAfterSignal == late \intersect replies = {}

(* A signal ends the server, at once or after the reply in hand, unless it *)
(* comes when the server is about to receive: then the next request does.  *)
SignalEnds ==
  signalled /\ (server # "recv" \/ requests # {}) ~> server = "done"

=============================================================================
