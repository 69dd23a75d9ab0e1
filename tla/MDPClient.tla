----------------------------- MODULE MDPClient ------------------------------
(***************************************************************************)
(* The Majordomo client API, api/MDP/mdcliapi.c, and the application that  *)
(* uses it, src/MDP/client.c.  mdcli_send asks the broker for a service    *)
(* through a REQ socket, replaces the socket after each timeout but the    *)
(* last, and returns the reply or NULL.                                    *)
(*                                                                         *)
(* The broker is not part of the repository.  What the API assumes of it   *)
(* is modelled: it answers a request once, with the name of the service,   *)
(* at any time or never.  A timeout may come at any time, a late reply on  *)
(* a socket that is still open as well.                                    *)
(***************************************************************************)
EXTENDS Naturals, FiniteSets

CONSTANTS
  Services,
  None,          \* no reply
  Retries,       \* the values mdcli_set_retries may be given
  MaxCalls       \* calls the application makes (100000 in client.c)

ASSUME ConstantsAssumption ==
  Retries \subseteq Nat /\ Retries # {} /\ MaxCalls \in Nat
ASSUME NoneAssumption == None \notin [call : Nat, service : Services]

Calls == 1 .. MaxCalls
Request == [call : Calls, service : Services]

VARIABLES
  careful,      \* whether the application ends when a call returns NULL, as
                \* client.c does; it never changes
  session,      \* "ready" between calls, "poll" in one, "aborted" by an
                \* assertion, "done"
  count,        \* calls made
  service,      \* the service of the present or last call
  retries,      \* self->retries
  retries_left,
  sent,         \* the REQ socket has sent and must receive before it may send
  pending,      \* the request on the socket that is not answered yet, or None
  reply,        \* the reply that has arrived on the socket, or None
  result        \* result[n]: the call whose reply call n returned, 0 for NULL

vars == <<careful, session, count, service, retries, retries_left, sent,
          pending, reply, result>>

Init ==
  /\ careful \in BOOLEAN
  /\ session = "ready" /\ count = 0
  /\ service \in Services
  /\ retries \in Retries /\ retries_left = 0
  /\ sent = FALSE /\ pending = None /\ reply = None
  /\ result = [n \in Calls |-> 0]

-----------------------------------------------------------------------------

(* zmsg_send, whose result nobody looks at: in a REQ socket that waits for *)
(* a reply it fails and changes nothing.                                   *)
SendAnyway(q) == sent' = TRUE /\ pending' = q  \* a socket without a state
Send(q) ==
  IF sent THEN UNCHANGED <<sent, pending>>
  ELSE sent' = TRUE /\ pending' = q

(* The application, told that a call failed. *)
AfterFailureGoOn == "ready"  \* the mistake of not looking at the result
AfterFailure == IF careful THEN "done" ELSE "ready"

SetRetries(n) ==
  /\ session = "ready"
  /\ retries' = n
  /\ UNCHANGED <<careful, session, count, service, retries_left, sent, pending,
                 reply, result>>

(* mdcli_send up to its first poll.  Without retries it does not even try. *)
Call(s) ==
  /\ session = "ready" /\ count < MaxCalls
  /\ count' = count + 1 /\ service' = s
  /\ retries_left' = retries
  /\ IF retries = 0
     THEN session' = AfterFailure /\ UNCHANGED <<sent, pending>>
     ELSE session' = "poll" /\ Send([call |-> count + 1, service |-> s])
  /\ UNCHANGED <<careful, retries, reply, result>>

(* The broker answers. *)
Answer ==
  /\ pending # None
  /\ reply' = pending /\ pending' = None
  /\ UNCHANGED <<careful, session, count, service, retries, retries_left, sent,
                 result>>

(* The poll reports a reply: assert(zframe_streq(reply_service, service)), *)
(* then return it.                                                         *)
Receive ==
  /\ session = "poll" /\ reply # None
  /\ sent' = FALSE /\ reply' = None
  /\ IF reply.service = service
     THEN session' = "ready" /\ result' = [result EXCEPT ![count] = reply.call]
     ELSE session' = "aborted" /\ UNCHANGED result
  /\ UNCHANGED <<careful, count, service, retries, retries_left, pending>>

(* _mdcli_connect_to_broker, and the request sent on the new socket. *)
Reconnect ==
  /\ sent' = TRUE /\ pending' = [call |-> count, service |-> service]
  /\ reply' = None
  /\ UNCHANGED <<careful, session, count, service, retries, result>>

(* Mistakes: deciding before the decrement; not counting the tries. *)
RetryOnceMore ==
  /\ session = "poll" /\ retries_left > 0
  /\ retries_left' = retries_left - 1
  /\ Reconnect
RetryUncounted ==
  /\ session = "poll"
  /\ UNCHANGED retries_left
  /\ Reconnect

(* The poll reports nothing, and that not for the last time. *)
Retry ==
  /\ session = "poll" /\ retries_left > 1
  /\ retries_left' = retries_left - 1
  /\ Reconnect

(* The last timeout: NULL, and the socket stays as it is. *)
Abandon ==
  /\ session = "poll" /\ retries_left = 1
  /\ retries_left' = 0
  /\ session' = AfterFailure
  /\ UNCHANGED <<careful, count, service, retries, sent, pending, reply, result>>

(* zctx_interrupted: this call and every later one returns NULL. *)
Interrupt ==
  /\ session = "poll"
  /\ session' = "done"
  /\ UNCHANGED <<careful, count, service, retries, retries_left, sent, pending, reply,
                 result>>

(* mdcli_destroy at the end of the application's loop. *)
Destroy ==
  /\ session = "ready" /\ count = MaxCalls
  /\ session' = "done"
  /\ UNCHANGED <<careful, count, service, retries, retries_left, sent, pending,
                 reply, result>>

Next ==
  \/ \E n \in Retries : SetRetries(n)
  \/ \E s \in Services : Call(s)
  \/ Answer \/ Receive \/ Retry \/ Abandon
  \/ Interrupt \/ Destroy

Spec == Init /\ [][Next]_vars

(* The poll of a call ends, at the latest when its timeout is over. *)
FairSpec == Spec /\ WF_vars(Receive \/ Retry \/ Abandon)

-----------------------------------------------------------------------------

TypeOK ==
  /\ careful \in BOOLEAN
  /\ session \in {"ready", "poll", "aborted", "done"}
  /\ count \in 0 .. MaxCalls
  /\ service \in Services
  /\ retries \in Retries /\ retries_left \in Nat
  /\ session = "poll" => retries_left \in 1 .. retries
  /\ sent \in BOOLEAN
  /\ pending \in Request \union {None} /\ reply \in Request \union {None}
  /\ result \in [Calls -> 0 .. MaxCalls]

(* With an application that ends on the first failure, as that of the      *)
(* repository does, a call returns the reply to its own request.           *)
OwnReply == careful => \A n \in Calls : result[n] \in {0, n}

(* If it goes on after a failure, a call may return the reply to an        *)
(* earlier one, but only if that one and all since have failed; so no      *)
(* reply is returned twice, and none from before a success.                *)
LateReply ==
  \A n \in Calls : result[n] # 0 =>
    result[n] <= n /\ \A m \in result[n] .. n - 1 : result[m] = 0

(* The assertion of mdcliapi.c:95. *)
ServiceAssertion == session # "aborted"

(* Why replies come late at worst: at most one request is under way, and   *)
(* its call and all calls since have returned NULL or are not over.        *)
UnderWay(q) ==
  q # None => /\ q.call <= count
              /\ \A m \in q.call .. count : result[m] = 0

LateInv ==
  /\ TypeOK /\ LateReply
  /\ UnderWay(pending) /\ UnderWay(reply)
  /\ pending = None \/ reply = None
  /\ ~sent => pending = None /\ reply = None
  /\ \A m \in Calls : m > count => result[m] = 0
  /\ session = "poll" => count > 0 /\ result[count] = 0

(* Why they are never late when the application ends on the first failure: *)
(* between calls nothing is under way, in a call only its own request.     *)
PromptInv ==
  /\ LateInv /\ OwnReply
  /\ careful =>
       /\ session # "aborted"
       /\ session = "ready" => ~sent
       /\ session = "poll" =>
            \A q \in {pending, reply} \ {None} :
              q.call = count /\ q.service = service

(* Every call returns. *)
CallsReturn == session = "poll" ~> session # "poll"

=============================================================================
