------------------------ MODULE KeycloakTokenProofs ------------------------
(***************************************************************************)
(* Proofs about KeycloakToken, for any max_retries and any status codes.   *)
(***************************************************************************)
EXTENDS KeycloakToken, TLAPS

(* Every answer is classified.                                             *)
LEMMA ParseOutcomes ==
  ASSUME NEW status \in Statuses, NEW body \in Bodies
  PROVE  /\ Parse(status, body) \in {"success", "raw", "token", "authentication",
                                     "temporary"}
         /\ Parse(status, body) = "success" =>
              status \in 200..299 /\ body = "token"
         /\ status \in 200..299 => Parse(status, body) # "temporary"
<1>1. CASE status \in 200..299
  <2>1. body = "token" => Parse(status, body) = "success"
    BY <1>1 DEF Parse
  <2>2. body = "bad expiry" => Parse(status, body) = "raw"
    BY <1>1 DEF Parse
  <2>3. body = "incomplete" => Parse(status, body) = "token"
    BY <1>1 DEF Parse
  <2> QED BY <1>1, <2>1, <2>2, <2>3 DEF Bodies
<1>2. CASE status \notin 200..299
  <2>1. Parse(status, body) =
          IF status \in {400, 401, 403} THEN "authentication"
          ELSE IF status \in {408, 429} \/ status >= 500 THEN "temporary"
          ELSE "token"
    BY <1>2 DEF Parse
  <2> QED BY <1>2, <2>1
<1> QED BY <1>1, <1>2

(* What the reply to a post does, whichever it is.                         *)
LEMMA Replies ==
  ASSUME TypeOK, Reply
  PROVE  /\ pc = "posting" /\ pc' = "emitting"
         /\ pending' \in Outcomes \ {"logger"}
         /\ issued' \in {issued, issued \cup {attempt}}
         /\ received' \in Nat
         /\ answered' \in {answered, answered \cup {attempt}}
         /\ attempt \in answered' \/ issued' = issued \/ pending' = "raw"
         /\ pending' = "success" => received' = attempt /\ attempt \in issued'
         /\ UNCHANGED <<call, attempt, slept, attemptIndex, events, result>>
<1> USE DEF AttemptEnds, Outcomes, Errors
<1>1. ASSUME NEW status \in Statuses, NEW body \in Bodies, Answer(status, body)
      PROVE  /\ pc = "posting" /\ pc' = "emitting"
             /\ pending' \in Outcomes \ {"logger"}
             /\ issued' \in {issued, issued \cup {attempt}}
             /\ received' \in Nat
             /\ answered' \in {answered, answered \cup {attempt}}
             /\ attempt \in answered' \/ issued' = issued \/ pending' = "raw"
             /\ pending' = "success" => received' = attempt /\ attempt \in issued'
             /\ UNCHANGED <<call, attempt, slept, attemptIndex, events, result>>
  <2>1. /\ pc = "posting" /\ pc' = "emitting" /\ pending' = Parse(status, body)
        /\ UNCHANGED <<call, attempt, slept, attemptIndex, events, result>>
    BY <1>1 DEF Answer
  <2>2. /\ IF status \in 200..299 /\ body # "incomplete" THEN issued' = issued \cup {attempt}
           ELSE MayHaveIssued
        /\ answered' = answered \cup {attempt}
    BY <1>1 DEF Answer
  <2>3. received' = IF Parse(status, body) = "success" THEN attempt ELSE 0
    BY <1>1 DEF Answer
  <2>4. /\ issued' \in {issued, issued \cup {attempt}}
        /\ received' \in Nat /\ attempt \in answered'
    BY <2>2, <2>3 DEF TypeOK, MayHaveIssued
  <2>5. pending' \in Outcomes \ {"logger"}
    BY <2>1, ParseOutcomes
  <2>6. pending' = "success" => received' = attempt /\ attempt \in issued'
    <3>1. ASSUME Parse(status, body) = "success"
          PROVE  status \in 200..299 /\ body # "incomplete"
      BY <3>1, ParseOutcomes
    <3> QED BY <2>1, <2>2, <2>3, <3>1
  <2> QED BY <2>1, <2>2, <2>4, <2>5, <2>6
<1>2. CASE Unreachable
  BY <1>2 DEF Unreachable, TypeOK
<1>3. CASE AnswerLost
  BY <1>3 DEF AnswerLost, MayHaveIssued, TypeOK
<1> QED BY <1>1, <1>2, <1>3 DEF Reply

(* One more element at the end of a sequence.                              *)
LEMMA Appended ==
  ASSUME NEW S, NEW s \in Seq(S), NEW e \in S
  PROVE  /\ Append(s, e) \in Seq(S) /\ Len(Append(s, e)) = Len(s) + 1
         /\ Len(s) \in Nat
         /\ \A i \in 1..Len(s) : Append(s, e)[i] = s[i]
         /\ Append(s, e)[Len(s) + 1] = e
  OBVIOUS

(* Every step keeps the types; a sleep is one of the delays because the    *)
(* attempt before it was not the last.                                     *)
LEMMA TypeStep == ASSUME TypeOK, CallInv, [Next]_vars PROVE TypeOK'
<1> USE TokenAssumption DEF TypeOK, call, PCs, Outcomes, Errors
<1>1. CASE Reply
  <2>1. UNCHANGED maxAttempts
    BY <1>1, Replies DEF maxAttempts
  <2>2. attempt \in 1..attempt' /\ UNCHANGED attempt
    BY <1>1, Replies DEF CallInv
  <2>3. issued' \subseteq 1..attempt'
    BY <1>1, <2>2, Replies
  <2>4. answered' \subseteq 1..attempt'
    BY <1>1, <2>2, Replies
  <2>5. /\ maxRetries' \in Retries /\ missingLogin' \in BOOLEAN /\ pc' \in PCs
        /\ attempt' \in Nat /\ slept' \in Seq({Delay(n) : n \in 1..maxAttempts'})
        /\ attemptIndex' \in Nat /\ pending' \in Outcomes \cup {"none"}
        /\ received' \in Nat /\ events' \in Seq(Events)
        /\ result' \in Outcomes \cup {"none", "configuration"}
    BY <1>1, <2>1, Replies
  <2> QED BY <2>3, <2>4, <2>5
<1>2. CASE Sleep
  <2>1. /\ slept' = Append(slept, Delay(attempt)) /\ maxAttempts' = maxAttempts
        /\ attempt \in 1..maxAttempts
    BY <1>2 DEF Sleep, Retryable, maxAttempts, CallInv
  <2>2. slept' \in Seq({Delay(n) : n \in 1..maxAttempts})
    BY <2>1
  <2> QED BY <1>2, <2>1, <2>2 DEF Sleep
<1>3. CASE Emit
  <2>1. EventOutcome \in {"success", "temporary_error", "error"}
    BY DEF EventOutcome
  <2>2. [outcome |-> EventOutcome, retry_count |-> attemptIndex] \in Events
    BY <2>1 DEF Events
  <2> QED BY <1>3, <2>2 DEF Emit, maxAttempts
<1>4. CASE Post
  <2>1. issued' \subseteq 1..attempt' /\ answered' \subseteq 1..attempt'
    <3>1. 1..attempt \subseteq 1..attempt'
      BY <1>4 DEF Post
    <3> QED BY <1>4, <3>1 DEF Post
  <2> QED BY <1>4, <2>1 DEF Post, maxAttempts
<1>5. CASE Finish
  BY <1>5 DEF Finish, maxAttempts, CallInv
<1>6. CASE UNCHANGED vars
  BY <1>6 DEF vars, maxAttempts
<1>7. CASE RejectGrant \/ EmitFails
  BY <1>7 DEF RejectGrant, EmitFails, maxAttempts
<1> QED BY <1>1, <1>2, <1>3, <1>4, <1>5, <1>6, <1>7 DEF Next

(* The loop of retry_call: what is known of the attempt at each place of   *)
(* the call (retry.py 17-24).                                              *)
LEMMA CallStep == ASSUME TypeOK, CallInv, [Next]_vars PROVE CallInv'
<1> USE TokenAssumption DEF TypeOK, CallInv, call, maxAttempts, Outcomes, Errors,
        Retryable
<1>1. CASE Reply
  BY <1>1, Replies
<1>2. CASE Sleep
  BY <1>2 DEF Sleep
<1>3. CASE Emit \/ EmitFails
  BY <1>3 DEF Emit, EmitFails
<1>4. CASE RejectGrant
  BY <1>4 DEF RejectGrant
<1>5. CASE Post
  BY <1>5 DEF Post
<1>6. CASE Finish
  BY <1>6 DEF Finish
<1>7. CASE UNCHANGED vars
  BY <1>7 DEF vars
<1> QED BY <1>1, <1>2, <1>3, <1>4, <1>5, <1>6, <1>7 DEF Next

(* The events number the attempts and tell how each of them ended          *)
(* (keycloak.py 192-197).                                                  *)
LEMMA EventStep == ASSUME TypeOK, CallInv, EventInv, [Next]_vars PROVE EventInv'
<1> USE DEF TypeOK, CallInv, call
<1>1. CASE Reply
  BY <1>1, Replies DEF EventInv
<1>2. CASE Post
  <2>1. pc = "sleeping" => /\ Len(events) = attempt
                           /\ attempt >= 1
                           /\ events[attempt].outcome = "temporary_error"
    BY DEF EventInv, EventOutcome
  <2> QED BY <1>2, <2>1 DEF Post, EventInv
<1>3. CASE Emit
  <2> DEFINE e == [outcome |-> EventOutcome, retry_count |-> attemptIndex]
  <2>1. /\ events' = Append(events, e) /\ attemptIndex' = attemptIndex + 1
        /\ pc' = "settling" /\ UNCHANGED <<attempt, pending>>
        /\ pc = "emitting"
    BY <1>3 DEF Emit
  <2>2. /\ attempt >= 1 /\ Len(events) = attempt - 1 /\ attemptIndex = Len(events)
    BY <2>1 DEF EventInv
  <2>3. e \in Events
    BY DEF EventOutcome, Events
  <2>4. /\ Len(events') = attempt
        /\ \A i \in 1..Len(events) : events'[i] = events[i]
        /\ events'[attempt] = e
    BY <2>1, <2>2, <2>3, Appended
  <2>5. EventOutcome' = EventOutcome
    BY <2>1 DEF EventOutcome
  <2>6. \A i \in 1..attempt : i \in 1..Len(events) \/ i = attempt
    BY <2>2
  <2>7. \A i \in 1..attempt :
          /\ events'[i].retry_count = i - 1
          /\ i < attempt => events'[i].outcome = "temporary_error"
    <3>1. \A i \in 1..Len(events) :
            /\ events'[i].retry_count = i - 1
            /\ i < attempt => events'[i].outcome = "temporary_error"
      BY <2>4 DEF EventInv
    <3>2. events'[attempt].retry_count = attempt - 1
      BY <2>2, <2>4
    <3> QED BY <2>2, <2>6, <3>1, <3>2
  <2>8. pending # "logger"
    BY <2>1
  <2> QED BY <2>1, <2>2, <2>4, <2>5, <2>7, <2>8 DEF EventInv
<1>4. CASE EmitFails
  BY <1>4 DEF EmitFails, EventInv
<1>5. CASE Sleep \/ Finish \/ RejectGrant
  BY <1>5 DEF Sleep, Finish, RejectGrant, EventInv, EventOutcome
<1>6. CASE UNCHANGED vars
  BY <1>6 DEF vars, EventInv, EventOutcome
<1> QED BY <1>1, <1>2, <1>3, <1>4, <1>5, <1>6 DEF Next

(* An attempt that is made again leaves no token without an answer         *)
(* (keycloak.py 97-105, 189-199).                                          *)
LEMMA IssueStep == ASSUME TypeOK, CallInv, IssueInv, [Next]_vars PROVE IssueInv'
<1> USE DEF TypeOK, CallInv, IssueInv, call
<1>1. CASE Reply
  BY <1>1, Replies
<1>2. CASE Emit \/ EmitFails
  BY <1>2 DEF Emit, EmitFails
<1>3. CASE Post
  BY <1>3 DEF Post
<1>4. CASE Sleep
  BY <1>4 DEF Sleep, Retryable
<1>5. CASE Finish \/ RejectGrant
  BY <1>5 DEF Finish, RejectGrant
<1>6. CASE UNCHANGED vars
  BY <1>6 DEF vars
<1> QED BY <1>1, <1>2, <1>3, <1>4, <1>5, <1>6 DEF Next

(* The inductive invariant holds throughout.                               *)
LEMMA Invariance == Spec => []IInv
<1>1. Init => IInv
  BY TokenAssumption DEF Init, IInv, TypeOK, PCs, Outcomes, Errors, CallInv,
     EventInv, IssueInv, maxAttempts
<1>2. IInv /\ [Next]_vars => IInv'
  BY TypeStep, CallStep, EventStep, IssueStep DEF IInv
<1> QED BY <1>1, <1>2, PTL DEF Spec

(* The variables stay within their types.                                  *)
THEOREM TypeCorrect == Spec => []TypeOK
  BY Invariance, PTL DEF IInv

(* One event per attempt, numbered from 0; only temporary errors are       *)
(* followed by another attempt; the last event agrees with the result.     *)
THEOREM EventsAreTrue == Spec => []EventsTellTheCall
<1>1. IInv => EventsTellTheCall
  <2> SUFFICES ASSUME IInv PROVE EventsTellTheCall
    OBVIOUS
  <2> USE DEF IInv, TypeOK, CallInv, EventInv
  <2>1. pc = "done" => Len(events) = IF result = "logger" THEN attempt - 1
                                     ELSE attempt
    OBVIOUS
  <2>2. ASSUME pc = "done", attempt > 0, result # "logger"
        PROVE  /\ (events[attempt].outcome = "success") <=> (result = "success")
               /\ (events[attempt].outcome = "temporary_error")
                    <=> (result = "temporary")
    BY <2>2 DEF EventOutcome
  <2> QED BY <2>1, <2>2 DEF EventsTellTheCall
<1> QED BY <1>1, Invariance, PTL

(* A token whose answer was lost is the last the call costs, and a caller  *)
(* who gets a token gets the last one (keycloak.py 97-105, 189-199).       *)
THEOREM LostTokensEnd == Spec => []LostTokenEndsTheCall
<1>1. IInv => LostTokenEndsTheCall
  BY DEF IInv, TypeOK, CallInv, IssueInv, LostTokenEndsTheCall
<1> QED BY <1>1, Invariance, PTL

(* fetch_access_token implements retry_call.                               *)
THEOREM Refinement == Spec => ImplementsRetry
<1> USE DEF RetryPhase, Errors
<1>1. Init => RetryCall!Init
  BY DEF Init, RetryCall!Init, maxAttempts
<1>2. IInv /\ [Next]_vars => [RetryCall!Next]_(RetryCall!vars)
  <2> SUFFICES ASSUME IInv, [Next]_vars
               PROVE  RetryCall!Next \/ UNCHANGED RetryCall!vars
    OBVIOUS
  <2> USE DEF IInv, TypeOK, CallInv, RetryCall!vars, RetryCall!Next, maxAttempts,
              call
  <2>1. CASE RejectGrant
    <3>1. /\ pc = "enter" /\ pc' = "done" /\ result' = "configuration"
          /\ UNCHANGED <<maxRetries, attempt, slept>>
      BY <2>1 DEF RejectGrant
    <3>2. RetryPhase = "enter" /\ RetryPhase' = "enter"
      BY <3>1
    <3> QED BY <3>1, <3>2
  <2>2. CASE Post
    <3>1. RetryCall!Call
      BY <2>2, TokenAssumption DEF Post, RetryCall!Call
    <3> QED BY <3>1
  <2>3. CASE Reply
    <3>1. /\ pc = "posting" /\ pc' = "emitting"
          /\ UNCHANGED <<maxRetries, attempt, slept, result>>
      BY <2>3, Replies
    <3>2. result = "none" /\ RetryPhase = "calling" /\ RetryPhase' = "calling"
      BY <3>1
    <3> QED BY <3>1, <3>2
  <2>4. CASE Emit \/ EmitFails
    BY <2>4 DEF Emit, EmitFails
  <2>5. CASE Sleep
    <3>1. RetryCall!Backoff
      BY <2>5 DEF Sleep, Retryable, RetryCall!Backoff, RetryCall!Delay, Delay
    <3> QED BY <3>1
  <2>6. CASE Finish
    <3>1. result = "none" /\ result' = pending /\ pc' = "done"
      BY <2>6 DEF Finish
    <3>2. CASE pending = "success"
      BY <2>6, <3>1, <3>2 DEF Finish, RetryCall!OperationReturns
    <3>3. CASE pending = "temporary"
      BY <2>6, <3>1, <3>3 DEF Finish, Retryable, RetryCall!GiveUp
    <3>4. CASE pending \in Outcomes \ {"success", "temporary"}
      BY <2>6, <3>1, <3>4 DEF Finish, Outcomes, Errors, RetryCall!OperationFails
    <3> QED BY <2>6, <3>2, <3>3, <3>4 DEF Finish
  <2>7. CASE UNCHANGED vars
    BY <2>7 DEF vars
  <2> QED BY <2>1, <2>2, <2>3, <2>4, <2>5, <2>6, <2>7 DEF Next
<1> QED BY <1>1, <1>2, Invariance, PTL DEF Spec, RetryCall!Spec, ImplementsRetry

=============================================================================
