-------------------------- MODULE MDPClient_proofs --------------------------
(***************************************************************************)
(* Proofs about MDPClient, for any services, numbers of tries and of calls.*)
(***************************************************************************)
EXTENDS MDPClient, TLAPS

LEMMA LateInit == Init => LateInv
<1> SUFFICES ASSUME Init PROVE LateInv
  OBVIOUS
<1>1. TypeOK
  <2>1. result \in [Calls -> 0 .. MaxCalls]
    BY ConstantsAssumption DEF Init
  <2>2. count \in 0 .. MaxCalls /\ retries_left \in Nat
    BY ConstantsAssumption DEF Init
  <2>3. /\ careful \in BOOLEAN /\ sent \in BOOLEAN
        /\ pending = None /\ reply = None
    BY Zenon DEF Init
  <2>4. session = "ready" /\ service \in Services /\ retries \in Retries
    BY DEF Init
  <2> QED BY <2>1, <2>2, <2>3, <2>4 DEF TypeOK
<1> QED BY <1>1 DEF Init, LateInv, LateReply, UnderWay, Calls

LEMMA CallLate ==
  ASSUME LateInv, NEW s \in Services, Call(s)
  PROVE  LateInv'
<1> USE ConstantsAssumption DEF LateInv, TypeOK, Calls, Request, Call
<1>0. /\ count < MaxCalls /\ count' = count + 1 /\ result' = result
      /\ count \in 0 .. MaxCalls
      /\ \A m \in Calls : m > count => result[m] = 0
  OBVIOUS
<1>1. count' \in Calls /\ count' = count + 1 /\ result'[count'] = 0
  <2> HIDE DEF Call, LateInv, TypeOK
  <2>1. count' \in 1 .. MaxCalls /\ count' > count
    BY <1>0
  <2> QED BY <1>0, <2>1
<1>2. TypeOK'
  <2>1. [call |-> count + 1, service |-> s] \in Request
    BY <1>0, <1>1
  <2>2. sent' \in BOOLEAN /\ pending' \in Request \union {None}
    BY <2>1 DEF Send
  <2>3. /\ session' \in {"ready", "poll", "done"}
        /\ session' = "poll" => retries # 0
    BY DEF AfterFailure
  <2>4. retries \in Nat /\ retries' = retries /\ retries_left' = retries
    OBVIOUS
  <2> QED BY <1>0, <1>1, <2>2, <2>3, <2>4
<1>3. LateReply'
  BY DEF LateReply
<1>4. UnderWay(pending)' /\ UnderWay(reply)'
  BY <1>1, NoneAssumption DEF UnderWay, Send
<1> QED BY <1>1, <1>2, <1>3, <1>4 DEF Send, AfterFailure

LEMMA ReceiveLate ==
  ASSUME LateInv, Receive
  PROVE  LateInv'
<1> USE ConstantsAssumption DEF LateInv, TypeOK, Calls, Request, Receive
<1>1. /\ pending' = None /\ reply' = None
      /\ reply \in Request /\ reply.call \in 1 .. count
  BY DEF UnderWay
<1>2. TypeOK'
  <2>1. reply.call \in 0 .. MaxCalls
    BY <1>1
  <2>2. result' \in [Calls -> 0 .. MaxCalls]
    BY <2>1
  <2>3. session' \in {"ready", "poll", "aborted", "done"} /\ session' # "poll"
    OBVIOUS
  <2> QED BY <1>1, <2>2, <2>3
<1>3. LateReply'
  BY <1>1 DEF LateReply, UnderWay
<1>4. UnderWay(pending)' /\ UnderWay(reply)'
  BY <1>1 DEF UnderWay
<1>5. \A m \in Calls : m > count' => result'[m] = 0
  OBVIOUS
<1> QED BY <1>1, <1>2, <1>3, <1>4, <1>5

LEMMA RetryLate ==
  ASSUME LateInv, Retry
  PROVE  LateInv'
<1> USE ConstantsAssumption DEF LateInv, TypeOK, Calls, Request, Retry, Reconnect
<1>1. TypeOK'
  OBVIOUS
<1>2. LateReply' /\ UnderWay(pending)' /\ UnderWay(reply)'
  BY DEF LateReply, UnderWay
<1> QED BY <1>1, <1>2

(* The steps that change neither the count nor the results. *)
LEMMA OtherLate ==
  ASSUME LateInv,
         \/ \E n \in Retries : SetRetries(n)
         \/ Answer \/ Abandon \/ Interrupt \/ Destroy \/ UNCHANGED vars
  PROVE  LateInv'
<1> USE ConstantsAssumption DEF LateInv, TypeOK, Calls, Request
<1>1. CASE \E n \in Retries : SetRetries(n)
  BY <1>1 DEF SetRetries, LateReply, UnderWay
<1>2. CASE Answer
  BY <1>2 DEF Answer, LateReply, UnderWay
<1>3. CASE Abandon
  BY <1>3 DEF Abandon, AfterFailure, LateReply, UnderWay
<1>4. CASE Interrupt \/ Destroy
  BY <1>4 DEF Interrupt, Destroy, LateReply, UnderWay
<1>5. CASE UNCHANGED vars
  BY <1>5 DEF vars, LateReply, UnderWay
<1> QED BY <1>1, <1>2, <1>3, <1>4, <1>5

LEMMA LateStep == LateInv /\ [Next]_vars => LateInv'
BY CallLate, ReceiveLate, RetryLate, OtherLate DEF Next

(* Whatever the application does after a failure: a reply that is not the  *)
(* call's own belongs to a call since which every one has failed.          *)
THEOREM RepliesAreLateAtWorst == Spec => []LateReply
<1>1. LateInv => LateReply
  BY DEF LateInv
<1> QED BY <1>1, LateInit, LateStep, PTL DEF Spec

-----------------------------------------------------------------------------
(* The application of the repository, which ends on the first failure.     *)

LEMMA PromptInit == Init => PromptInv
BY LateInit, Zenon DEF Init, PromptInv, OwnReply

LEMMA CallPrompt ==
  ASSUME PromptInv, NEW s \in Services, Call(s)
  PROVE  PromptInv'
<1>1. LateInv'
  BY CallLate DEF PromptInv
<1> SUFFICES ASSUME careful PROVE PromptInv'
  BY <1>1 DEF PromptInv, OwnReply, Call
<1>2. /\ session = "ready" /\ ~sent /\ pending = None /\ reply = None
      /\ count' = count + 1 /\ service' = s
      /\ result' = result /\ reply' = reply
  BY DEF PromptInv, LateInv, Call
<1>3. session' \in {"poll", "done"}
  BY DEF Call, AfterFailure
<1>4. session' = "poll" => pending' = [call |-> count + 1, service |-> s]
  BY <1>2 DEF Call, AfterFailure, Send
<1>5. OwnReply'
  BY <1>2 DEF PromptInv, OwnReply
<1> QED BY <1>1, <1>2, <1>3, <1>4, <1>5 DEF PromptInv

LEMMA ReceivePrompt ==
  ASSUME PromptInv, Receive
  PROVE  PromptInv'
<1>1. LateInv'
  BY ReceiveLate DEF PromptInv
<1> SUFFICES ASSUME careful PROVE PromptInv'
  BY <1>1 DEF PromptInv, OwnReply, Receive
<1>2. reply.call = count /\ reply.service = service /\ reply # None
  BY DEF PromptInv, Receive
<1>3. session' = "ready" /\ result' = [result EXCEPT ![count] = count]
  BY <1>2 DEF Receive
<1>4. OwnReply'
  BY <1>3 DEF PromptInv, LateInv, TypeOK, OwnReply
<1> QED BY <1>1, <1>3, <1>4 DEF Receive, PromptInv

LEMMA RetryPrompt ==
  ASSUME PromptInv, Retry
  PROVE  PromptInv'
<1>1. LateInv'
  BY RetryLate DEF PromptInv
<1>2. /\ session = "poll" /\ session' = session /\ reply' = None
      /\ pending' = [call |-> count, service |-> service]
      /\ count' = count /\ service' = service /\ result' = result
      /\ careful' = careful
  BY DEF Retry, Reconnect
<1> QED BY <1>1, <1>2 DEF PromptInv, OwnReply

LEMMA OtherPrompt ==
  ASSUME PromptInv,
         \/ \E n \in Retries : SetRetries(n)
         \/ Answer \/ Abandon \/ Interrupt \/ Destroy \/ UNCHANGED vars
  PROVE  PromptInv'
<1>1. LateInv'
  BY OtherLate DEF PromptInv
<1>2. CASE (\E n \in Retries : SetRetries(n)) \/ UNCHANGED vars
  BY <1>1, <1>2 DEF SetRetries, vars, PromptInv, OwnReply
<1>3. CASE Answer
  BY <1>1, <1>3 DEF Answer, PromptInv, OwnReply
<1>4. CASE Abandon \/ Interrupt \/ Destroy
  <2>1. /\ careful' = careful /\ result' = result
        /\ careful => session' = "done"
    BY <1>4 DEF Abandon, AfterFailure, Interrupt, Destroy
  <2> QED BY <1>1, <2>1 DEF PromptInv, OwnReply
<1> QED BY <1>2, <1>3, <1>4

LEMMA PromptStep == PromptInv /\ [Next]_vars => PromptInv'
BY CallPrompt, ReceivePrompt, RetryPrompt, OtherPrompt DEF Next

(* src/MDP/client.c gets, with every call that returns, the reply to that  *)
(* call: it ends with the first failure, before a late reply can reach a   *)
(* later call.                                                             *)
THEOREM EveryReplyIsOwn == Spec => []OwnReply
<1>1. PromptInv => OwnReply
  BY DEF PromptInv
<1> QED BY <1>1, PromptInit, PromptStep, PTL DEF Spec

(* Every variable of the session keeps its type; above all, a call that is *)
(* polling has a try left and no more than it was given.                   *)
THEOREM TypeCorrect == Spec => []TypeOK
<1>1. LateInv => TypeOK
  BY DEF LateInv
<1> QED BY <1>1, LateInit, LateStep, PTL DEF Spec

=============================================================================
