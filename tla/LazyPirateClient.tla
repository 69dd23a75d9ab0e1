-------------------------- MODULE LazyPirateClient --------------------------
(***************************************************************************)
(* The clients of src/src/lpp/client.c, each of which asks with a REQ      *)
(* socket, gives up waiting after REQUEST_TIMEOUT, throws the socket away  *)
(* and asks again from a new one.  What serves them is left to the module  *)
(* that uses this one: it takes requests off wire, puts replies to the     *)
(* present sockets in reply, and leaves its own variables alone while a    *)
(* client steps.                                                           *)
(*                                                                         *)
(* Sockets.  A client's sockets are numbered.  A REQ socket has at most    *)
(* one request outstanding, so the requests that the server has not read   *)
(* form a set.  Closing a socket (linger 0) loses a request that has not   *)
(* reached the server; one that has is still read, and the reply to it is  *)
(* dropped because its peer is gone.  While the server is down, requests   *)
(* wait on the client's side.                                              *)
(***************************************************************************)
EXTENDS Naturals

CONSTANTS
  Clients,
  None,             \* no reply
  REQUEST_TIMEOUT, REQUEST_RETRIES,
  MaxSequence       \* bound: requests per client

VARIABLES
  healthy,        \* whether time is kept: if not, a poll may be over at once
  state,          \* state[c]: "ask", "expect_reply" or "done"
  sequence, retries_left,
  socket,         \* socket[c]: the number of the client's present socket
  poll,           \* poll[c]: time left of the poll
  reply,          \* reply[c]: the reply the present socket has received
  wire,           \* requests the server has not read
  server          \* "up" or "down"

clientVars == <<state, sequence, retries_left, socket, poll, reply>>

RequestOf(c, s, n) == [client |-> c, socket |-> s, sequence |-> n]
Asked(c) == RequestOf(c, socket[c], sequence[c])

ClientInit ==
  /\ state = [c \in Clients |-> "ask"]
  /\ sequence = [c \in Clients |-> 0]
  /\ retries_left = [c \in Clients |-> REQUEST_RETRIES]
  /\ socket = [c \in Clients |-> 0]
  /\ poll = [c \in Clients |-> 0]
  /\ reply = [c \in Clients |-> None]
  /\ wire = {}

(* How long something that takes time t is waited for at least. *)
Lasting(t) == IF healthy THEN t ELSE 0

NextSequence(c) == sequence[c] + 1

Ask(c) ==
  /\ state[c] = "ask" /\ sequence[c] < MaxSequence
  /\ sequence' = [sequence EXCEPT ![c] = NextSequence(c)]
  /\ state' = [state EXCEPT ![c] = "expect_reply"]
  /\ poll' = [poll EXCEPT ![c] = Lasting(REQUEST_TIMEOUT)]
  /\ wire' = wire \union {RequestOf(c, socket[c], NextSequence(c))}
  /\ UNCHANGED <<retries_left, socket, reply>>

(* A reply that is not the expected one would be reported and the poll     *)
(* repeated.                                                               *)
Receive(c) ==
  /\ state[c] = "expect_reply" /\ reply[c] # None
  /\ IF reply[c] = sequence[c]
     THEN /\ state' = [state EXCEPT ![c] = "ask"]
          /\ retries_left' = [retries_left EXCEPT ![c] = REQUEST_RETRIES]
          /\ poll' = [poll EXCEPT ![c] = 0]
     ELSE /\ poll' = [poll EXCEPT ![c] = Lasting(REQUEST_TIMEOUT)]
          /\ UNCHANGED <<state, retries_left>>
  /\ reply' = [reply EXCEPT ![c] = None]
  /\ UNCHANGED <<sequence, socket, wire>>

(* The poll reports nothing, although a reply may just be arriving. *)
SilenceNever(c) == FALSE  \* the mistake of a poll without a timeout
Silence(c) ==
  state[c] = "expect_reply" /\ poll[c] = 0 /\ (healthy => reply[c] = None)

(* The fate of the request of a socket that is closed. *)
Closed(c) ==
  IF server = "up" THEN {wire, wire \ {Asked(c)}} ELSE {wire \ {Asked(c)}}

(* The mistake of retrying without an end. *)
MayRetryAlways(c) == TRUE
MayRetry(c) == retries_left[c] > 1

(* The mistake of asking again on the old socket. *)
SameSocket(c) == socket[c]
NewSocket(c) == socket[c] + 1

Retry(c) ==
  /\ Silence(c) /\ MayRetry(c)
  /\ retries_left' = [retries_left EXCEPT ![c] = @ - 1]
  /\ socket' = [socket EXCEPT ![c] = NewSocket(c)]
  /\ reply' = [reply EXCEPT ![c] = None]
  /\ poll' = [poll EXCEPT ![c] = Lasting(REQUEST_TIMEOUT)]
  /\ \E left \in Closed(c) : wire' = left \union
                             {RequestOf(c, NewSocket(c), sequence[c])}
  /\ UNCHANGED <<state, sequence>>

(* zctx_destroy closes the socket: no number of a later one is this one's. *)
End(c) ==
  /\ state' = [state EXCEPT ![c] = "done"]
  /\ socket' = [socket EXCEPT ![c] = @ + 1]
  /\ reply' = [reply EXCEPT ![c] = None]
  /\ poll' = [poll EXCEPT ![c] = 0]
  /\ wire' \in Closed(c)
  /\ UNCHANGED sequence

Abandon(c) ==
  /\ Silence(c) /\ retries_left[c] = 1
  /\ retries_left' = [retries_left EXCEPT ![c] = 0]
  /\ End(c)

(* zctx_interrupted. *)
Interrupt(c) == ~healthy /\ state[c] # "done" /\ End(c) /\ UNCHANGED retries_left

ClientLoop(c) == Ask(c) \/ Receive(c) \/ Retry(c) \/ Abandon(c)

ClientRunnable(c) ==
  \/ state[c] = "ask" /\ sequence[c] < MaxSequence
  \/ state[c] = "expect_reply" /\ (reply[c] # None \/ poll[c] = 0)

Lower(t) == IF t > 0 THEN t - 1 ELSE 0

-----------------------------------------------------------------------------

(* No answer to an earlier request, and no late answer to an earlier try,  *)
(* is ever taken for the answer: the branch of client.c:40-42 is dead code.*)
NoStaleReply ==
  \A c \in Clients : reply[c] # None =>
    state[c] = "expect_reply" /\ reply[c] = sequence[c]

(* A client never waits for ever, whatever becomes of the server: it gets  *)
(* on to its next request or gives up.                                     *)
NobodyWaitsForever ==
  \A c \in Clients : state[c] = "expect_reply" ~> state[c] # "expect_reply"

=============================================================================
