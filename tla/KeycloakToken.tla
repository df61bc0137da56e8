--------------------------- MODULE KeycloakToken ---------------------------
(***************************************************************************)
(* KeycloakAuthService.fetch_access_token (keycloak.py 168-199, 384-411):  *)
(* a token request inside retry_call, the urllib client below it and the   *)
(* structured event each attempt logs.  Keycloak, what stands between it   *)
(* and the client, and the caller's event logger are the environment.      *)
(***************************************************************************)
EXTENDS Naturals, Sequences

CONSTANTS
  Retries,   \* the values of max_retries
  Statuses   \* the HTTP status codes an answer may have

ASSUME TokenAssumption == Retries \subseteq Nat /\ Statuses \subseteq Nat

VARIABLES
  maxRetries,   \* config.max_retries
  missingLogin, \* a password grant called without username or password
  pc,           \* where the call is
  attempt,      \* retry_call's counter
  slept,        \* retry_call's sleeps, in units of its base delay
  attemptIndex, \* attempt_index, the retry_count of the next event
  pending,      \* how the current attempt ended
  received,     \* the current attempt if it parsed a token, or 0
  events,       \* the events handed to the event logger
  issued,       \* the attempts Keycloak issued a token for
  answered,     \* the attempts that were answered, by whomever
  result        \* how the call ended

vars == <<maxRetries, missingLogin, pc, attempt, slept, attemptIndex, pending,
          received, events, issued, answered, result>>

call == <<maxRetries, missingLogin>>

maxAttempts == maxRetries + 1
Delay(n)    == 2 ^ (n - 1)

PCs      == {"enter", "posting", "emitting", "settling", "sleeping", "done"}
Errors   == {"temporary", "authentication", "token", "raw", "logger"}
Outcomes == Errors \cup {"success"}
Events   == [outcome : {"success", "temporary_error", "error"}, retry_count : Nat]

(* What the body of an answer holds: a complete token, one whose           *)
(* expires_in is no number, or not all of the required fields.             *)
Bodies == {"token", "bad expiry", "incomplete"}

(* _parse_token_response                                                   *)
Parse(status, body) ==
  IF status \in 200..299 THEN CASE body = "token"      -> "success"
                                [] body = "bad expiry" -> "raw"
                                [] body = "incomplete" -> "token"
  ELSE IF status \in {400, 401, 403} THEN "authentication"
  ELSE IF status \in {408, 429} \/ status >= 500 THEN "temporary"
  ELSE "token"

Init ==
  /\ maxRetries \in Retries
  /\ missingLogin \in BOOLEAN
  /\ pc = "enter"
  /\ attempt = 0 /\ slept = << >>
  /\ attemptIndex = 0 /\ pending = "none" /\ received = 0
  /\ events = << >>
  /\ issued = {} /\ answered = {}
  /\ result = "none"

RejectGrant ==
  /\ pc = "enter" /\ missingLogin
  /\ pc' = "done" /\ result' = "configuration"
  /\ UNCHANGED <<call, attempt, slept, attemptIndex, pending, received, events,
                 issued, answered>>

(* retry_call calls _request_token, which posts.                           *)
Post ==
  /\ (pc = "enter" /\ ~ missingLogin) \/ pc = "sleeping"
  /\ pc' = "posting"
  /\ attempt' = attempt + 1
  /\ pending' = "none" /\ received' = 0
  /\ UNCHANGED <<call, slept, attemptIndex, events, issued, answered, result>>

AttemptEnds(outcome) ==
  /\ pc = "posting"
  /\ pc' = "emitting"
  /\ pending' = outcome
  /\ UNCHANGED <<call, attempt, slept, attemptIndex, events, result>>

(* Keycloak may or may not have issued a token that does not arrive.       *)
MayHaveIssued == issued' \in {issued, issued \cup {attempt}}

(* The client gets an answer.  A success carries the token Keycloak issued *)
(* for this attempt; an error tells nothing of the kind: a gateway may     *)
(* have given up on a Keycloak that issued one.                            *)
Answer(status, body) ==
  LET outcome == Parse(status, body)
      carries == status \in 200..299 /\ body # "incomplete"
  IN /\ AttemptEnds(outcome)
     /\ IF carries THEN issued' = issued \cup {attempt} ELSE MayHaveIssued
     /\ answered' = answered \cup {attempt}
     /\ received' = IF outcome = "success" THEN attempt ELSE 0

(* The connection cannot be made or the request cannot be sent: urlopen    *)
(* raises URLError, which the client maps.                                 *)
Unreachable ==
  /\ AttemptEnds("temporary")
  /\ UNCHANGED <<issued, answered, received>>

(* Slip: it is taken for a failure to connect.                             *)
AnswerLostRetried ==
  /\ AttemptEnds("temporary")
  /\ MayHaveIssued
  /\ UNCHANGED <<answered, received>>

(* The connection breaks or times out while the answer is awaited or read, *)
(* which urlopen and read() do not wrap; Keycloak may have done its part.  *)
AnswerLost ==
  /\ AttemptEnds("raw")
  /\ MayHaveIssued
  /\ UNCHANGED <<answered, received>>

EventOutcome == CASE pending = "success"   -> "success"
                  [] pending = "temporary" -> "temporary_error"
                  [] OTHER                 -> "error"

(* Slips: the outcome is not classified, the attempt is not counted.       *)
EmitRaw ==
  /\ pc = "emitting"
  /\ pc' = "settling"
  /\ events' = Append(events, [outcome |-> pending, retry_count |-> attemptIndex])
  /\ attemptIndex' = attemptIndex + 1
  /\ UNCHANGED <<call, attempt, slept, pending, received, issued,
                 answered, result>>

EmitUncounted ==
  /\ pc = "emitting"
  /\ pc' = "settling"
  /\ events' = Append(events, [outcome |-> EventOutcome, retry_count |-> attemptIndex])
  /\ UNCHANGED <<call, attempt, slept, attemptIndex, pending, received, issued,
                 answered, result>>

(* The attempt's event is logged before its outcome leaves _request_token. *)
Emit ==
  /\ pc = "emitting"
  /\ pc' = "settling"
  /\ events' = Append(events, [outcome |-> EventOutcome, retry_count |-> attemptIndex])
  /\ attemptIndex' = attemptIndex + 1
  /\ UNCHANGED <<call, attempt, slept, pending, received, issued,
                 answered, result>>

(* event_logger raises: its exception replaces the attempt's outcome, be   *)
(* it an error or a token.                                                 *)
EmitFails ==
  /\ pc = "emitting"
  /\ pc' = "settling"
  /\ pending' = "logger"
  /\ UNCHANGED <<call, attempt, slept, attemptIndex, received, events, issued,
                 answered, result>>

(* Slip: one attempt too many.                                             *)
RetryableOnceMore == pending = "temporary" /\ attempt <= maxAttempts

(* Back in retry_call: only a temporary error is retried.                  *)
Retryable == pending = "temporary" /\ attempt < maxAttempts

(* Slip: an error that is not temporary does not leave the loop.           *)
FinishOnSuccess ==
  /\ pc = "settling" /\ pending \in {"success", "temporary"} /\ ~ Retryable
  /\ pc' = "done" /\ result' = pending
  /\ UNCHANGED <<call, attempt, slept, attemptIndex, pending, received, events,
                 issued, answered>>

Finish ==
  /\ pc = "settling" /\ ~ Retryable
  /\ pc' = "done" /\ result' = pending
  /\ UNCHANGED <<call, attempt, slept, attemptIndex, pending, received, events,
                 issued, answered>>

Sleep ==
  /\ pc = "settling" /\ Retryable
  /\ pc' = "sleeping"
  /\ slept' = Append(slept, Delay(attempt))
  /\ UNCHANGED <<call, attempt, attemptIndex, pending, received, events, issued,
                 answered, result>>

Reply == (\E status \in Statuses, body \in Bodies : Answer(status, body))
         \/ Unreachable \/ AnswerLost

Next == RejectGrant \/ Post \/ Reply \/ Emit \/ EmitFails \/ Finish \/ Sleep

Spec == Init /\ [][Next]_vars

(* request_timeout_seconds makes every post end, and a sleep is over some  *)
(* day.                                                                    *)
FairSpec == Spec /\ WF_vars(Next)

(***************************************************************************)
(* Properties.                                                             *)
(***************************************************************************)

TypeOK ==
  /\ maxRetries \in Retries /\ missingLogin \in BOOLEAN
  /\ pc \in PCs
  /\ attempt \in Nat /\ slept \in Seq({Delay(n) : n \in 1..maxAttempts})
  /\ attemptIndex \in Nat /\ pending \in Outcomes \cup {"none"}
  /\ received \in Nat
  /\ events \in Seq(Events)
  /\ issued \subseteq 1..attempt /\ answered \subseteq 1..attempt
  /\ result \in Outcomes \cup {"none", "configuration"}

(* fetch_access_token uses retry_call as retry.py means it: it is an       *)
(* instance of Retry whose operation is one attempt and its event.         *)
RetryPhase ==
  CASE pc = "enter"             -> "enter"
    [] pc = "sleeping"          -> "sleeping"
    [] result = "success"       -> "returned"
    [] result = "temporary"     -> "exhausted"
    [] result = "configuration" -> "enter"
    [] result \in Errors \ {"temporary"} -> "failed"
    [] OTHER                    -> "calling"

RetryCall == INSTANCE Retry WITH Limits <- {r + 1 : r \in Retries},
                                 phase <- RetryPhase

ImplementsRetry == RetryCall!Spec

(* The log tells what happened: one event for every attempt, numbered from *)
(* 0, all but the last of them temporary errors, so nothing permanent was  *)
(* ever tried again; the last one agrees with the caller's result.  Only a *)
(* logger that raises leaves its own attempt out.                          *)
(* (keycloak.py 182-199)                                                   *)
EventsTellTheCall ==
  /\ \A i \in 1..Len(events) : events[i].retry_count = i - 1
  /\ \A i \in 1..Len(events) : i < attempt => events[i].outcome = "temporary_error"
  /\ pc = "done" => Len(events) = IF result = "logger" THEN attempt - 1 ELSE attempt
  /\ pc = "done" /\ attempt > 0 /\ result # "logger" =>
       /\ (events[attempt].outcome = "success") <=> (result = "success")
       /\ (events[attempt].outcome = "temporary_error") <=> (result = "temporary")

(* A token whose answer never arrived ends the call: the attempt is not    *)
(* made again, and what the caller gets does not ask for another call.     *)
(* Whatever else an attempt that is made again left behind, an answer with *)
(* a temporary status asked for it.  A caller who gets a token gets that   *)
(* of the last attempt.  (keycloak.py 97-105, 189-199)                     *)
LostTokenEndsTheCall ==
  /\ \A n \in issued \ answered :
       n = attempt /\ (pc = "done" => result \in {"raw", "logger"})
  /\ result = "success" => received = attempt /\ attempt \in issued

(* The call ends.                                                          *)
CallEnds == <>(pc = "done")

(***************************************************************************)
(* The inductive invariant behind them.                                    *)
(***************************************************************************)

CallInv ==
  /\ attempt <= maxAttempts
  /\ pc = "enter" => attempt = 0
  /\ pc \notin {"enter", "done"} => attempt >= 1
  /\ pc = "done" <=> result # "none"
  /\ pc = "sleeping" => pending = "temporary" /\ attempt < maxAttempts
  /\ pc \in {"emitting", "settling"} => pending \in Outcomes
  /\ pc = "emitting" => pending # "logger"
  /\ pc = "done" => \/ result = "configuration" /\ attempt = 0
                    \/ attempt >= 1 /\ result = pending /\ pending \in Outcomes
                       /\ ~ Retryable

(* While an attempt is under way, its event is still missing.              *)
EventInv ==
  LET logged == attempt > 0 /\ pc \notin {"posting", "emitting"} /\ pending # "logger"
  IN /\ attemptIndex = Len(events)
     /\ Len(events) = IF attempt = 0 \/ logged THEN attempt ELSE attempt - 1
     /\ \A i \in 1..Len(events) :
          /\ events[i].retry_count = i - 1
          /\ i < attempt => events[i].outcome = "temporary_error"
     /\ logged => events[attempt].outcome = EventOutcome

(* Only an attempt that cannot be made again leaves a token unanswered.    *)
IssueInv ==
  /\ issued \ answered \subseteq {attempt}
  /\ \/ issued \subseteq answered
     \/ pc \in {"emitting", "settling", "done"} /\ pending \in {"raw", "logger"}
  /\ pc # "posting" /\ pending = "success" => received = attempt /\ attempt \in issued

IInv == TypeOK /\ CallInv /\ EventInv /\ IssueInv

=============================================================================
