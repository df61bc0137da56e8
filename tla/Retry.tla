------------------------------- MODULE Retry -------------------------------
(***************************************************************************)
(* retry_call (retry.py 13-24): one operation, called until it returns,    *)
(* raises something that is not to be retried, or has failed maxAttempts   *)
(* times, with a sleep between two calls that doubles each time.           *)
(***************************************************************************)
EXTENDS Naturals, Sequences

CONSTANT Limits  \* the values of max_attempts callers pass

ASSUME LimitsAssumption == Limits \subseteq Nat

VARIABLES
  maxAttempts, \* the argument max_attempts
  attempt,     \* the local counter
  slept,       \* the sleeps so far, in units of base_delay_seconds
  phase        \* where the call is, or how it ended

vars == <<maxAttempts, attempt, slept, phase>>

Phases == {"enter", "calling", "sleeping", "returned", "exhausted", "failed",
           "refused"}

(* sleep(base_delay_seconds * 2 ** (attempt - 1))                          *)
Delay(n) == 2 ^ (n - 1)
Delays   == {Delay(n) : n \in 1..maxAttempts}

Init ==
  /\ maxAttempts \in Limits
  /\ attempt = 0
  /\ slept = << >>
  /\ phase = "enter"

(* max_attempts must be at least 1                                         *)
Refuse ==
  /\ phase = "enter" /\ maxAttempts < 1
  /\ phase' = "refused"
  /\ UNCHANGED <<maxAttempts, attempt, slept>>

Call ==
  /\ (phase = "enter" /\ maxAttempts >= 1) \/ phase = "sleeping"
  /\ attempt' = attempt + 1
  /\ phase' = "calling"
  /\ UNCHANGED <<maxAttempts, slept>>

OperationReturns ==
  /\ phase = "calling"
  /\ phase' = "returned"
  /\ UNCHANGED <<maxAttempts, attempt, slept>>

(* It raises an exception outside retry_on.                                *)
OperationFails ==
  /\ phase = "calling"
  /\ phase' = "failed"
  /\ UNCHANGED <<maxAttempts, attempt, slept>>

(* It raises one of retry_on.                                              *)
GiveUp ==
  /\ phase = "calling" /\ attempt >= maxAttempts
  /\ phase' = "exhausted"
  /\ UNCHANGED <<maxAttempts, attempt, slept>>

(* Slips: a sleep that grows by steps, one that never grows, one attempt   *)
(* too many, a failed attempt that does not count.                         *)
BackoffLinear ==
  /\ phase = "calling" /\ attempt < maxAttempts
  /\ phase' = "sleeping"
  /\ slept' = Append(slept, attempt - 1)
  /\ UNCHANGED <<maxAttempts, attempt>>

BackoffConstant ==
  /\ phase = "calling" /\ attempt < maxAttempts
  /\ phase' = "sleeping"
  /\ slept' = Append(slept, Delay(1))
  /\ UNCHANGED <<maxAttempts, attempt>>

BackoffOnceMore ==
  /\ phase = "calling" /\ attempt <= maxAttempts
  /\ phase' = "sleeping"
  /\ slept' = Append(slept, Delay(attempt))
  /\ UNCHANGED <<maxAttempts, attempt>>

BackoffUncounted ==
  /\ phase = "calling" /\ attempt < maxAttempts
  /\ phase' = "sleeping"
  /\ attempt' = attempt - 1
  /\ UNCHANGED <<maxAttempts, slept>>

Backoff ==
  /\ phase = "calling" /\ attempt < maxAttempts
  /\ phase' = "sleeping"
  /\ slept' = Append(slept, Delay(attempt))
  /\ UNCHANGED <<maxAttempts, attempt>>

Next == Refuse \/ Call \/ OperationReturns \/ OperationFails \/ GiveUp \/ Backoff

Spec == Init /\ [][Next]_vars

(* The operation always ends and a sleep is over some day.                 *)
FairSpec == Spec /\ WF_vars(Next)

(***************************************************************************)
(* Properties.                                                             *)
(***************************************************************************)

TypeOK ==
  /\ maxAttempts \in Limits
  /\ attempt \in Nat
  /\ slept \in Seq(Delays)
  /\ phase \in Phases

(* A retryable error reaches the caller only after all the attempts it     *)
(* paid for, and no call makes one more.  (retry.py 17-23)                 *)
AttemptsAreUsed ==
  /\ attempt <= maxAttempts
  /\ phase = "exhausted" => attempt = maxAttempts

(* Between two attempts the call sleeps once, twice as long as before; it  *)
(* does not sleep after the last one.  (retry.py 18-24)                    *)
BackoffIsExponential ==
  /\ Len(slept) = IF phase \in {"enter", "refused", "sleeping"} THEN attempt
                  ELSE attempt - 1
  /\ \A i \in 1..Len(slept) : slept[i] = Delay(i)

(* The loop ends.                                                          *)
CallEnds == <>(phase \in {"returned", "exhausted", "failed", "refused"})

(* What AttemptsAreUsed and BackoffIsExponential rest on.                  *)
LoopInv ==
  /\ phase \in {"enter", "refused"} <=> attempt = 0
  /\ phase = "enter" \/ phase = "refused" \/ maxAttempts >= 1
  /\ phase = "sleeping" => attempt < maxAttempts

=============================================================================
