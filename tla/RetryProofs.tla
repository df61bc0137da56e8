---------------------------- MODULE RetryProofs ----------------------------
(***************************************************************************)
(* Proofs about Retry, for any value of max_attempts.                      *)
(***************************************************************************)
EXTENDS Retry, TLAPS

IInv == TypeOK /\ LoopInv /\ AttemptsAreUsed /\ BackoffIsExponential

(* Appending the sleep after attempt n keeps the sleeps exponential.       *)
LEMMA BackoffStep ==
  ASSUME NEW S, NEW s \in Seq(S), NEW d \in S, NEW n \in Nat, n = Len(s) + 1,
         \A i \in 1..Len(s) : s[i] = Delay(i), d = Delay(n)
  PROVE  /\ Append(s, d) \in Seq(S)
         /\ Len(Append(s, d)) = n
         /\ \A i \in 1..n : Append(s, d)[i] = Delay(i)
<1>1. /\ Append(s, d) \in Seq(S) /\ Len(Append(s, d)) = n
      /\ \A i \in 1..Len(s) : Append(s, d)[i] = s[i]
      /\ Append(s, d)[n] = d
  OBVIOUS
<1>2. \A i \in 1..n : i \in 1..Len(s) \/ i = n
  OBVIOUS
<1> QED BY <1>1, <1>2

(* The loop invariant, from which the theorems below follow.               *)
LEMMA Invariance == Spec => []IInv
<1> USE LimitsAssumption
<1>1. Init => IInv
  BY DEF Init, IInv, TypeOK, LoopInv, AttemptsAreUsed, BackoffIsExponential,
     Phases
<1>2. IInv /\ [Next]_vars => IInv'
  <2> SUFFICES ASSUME IInv, [Next]_vars PROVE IInv'
    OBVIOUS
  <2> USE DEF IInv, TypeOK, LoopInv, AttemptsAreUsed, Phases
  <2>1. CASE Backoff
    <3>1. /\ maxAttempts' = maxAttempts /\ attempt' = attempt
          /\ phase' = "sleeping" /\ slept' = Append(slept, Delay(attempt))
          /\ attempt < maxAttempts /\ attempt \in 1..maxAttempts
          /\ attempt = Len(slept) + 1
      BY <2>1 DEF Backoff, BackoffIsExponential
    <3>2. Delay(attempt) \in Delays /\ Delays' = Delays
      BY <3>1 DEF Delays
    <3>3. /\ slept' \in Seq(Delays) /\ Len(slept') = attempt
          /\ \A i \in 1..attempt : slept'[i] = Delay(i)
      <4>1. PICK s \in Seq(Delays), n \in Nat : s = slept /\ n = attempt
        OBVIOUS
      <4>2. \A i \in 1..Len(s) : s[i] = Delay(i)
        BY <4>1 DEF BackoffIsExponential
      <4>3. /\ Append(s, Delay(n)) \in Seq(Delays)
            /\ Len(Append(s, Delay(n))) = n
            /\ \A i \in 1..n : Append(s, Delay(n))[i] = Delay(i)
        BY <3>1, <3>2, <4>1, <4>2, BackoffStep
      <4> QED BY <3>1, <4>1, <4>3
    <3> QED BY <3>1, <3>2, <3>3 DEF BackoffIsExponential
  <2>2. CASE Call
    BY <2>2 DEF Call, BackoffIsExponential, Delays
  <2>3. CASE Refuse \/ OperationReturns \/ OperationFails \/ GiveUp
    BY <2>3 DEF Refuse, OperationReturns, OperationFails, GiveUp,
       BackoffIsExponential, Delays
  <2>4. CASE UNCHANGED vars
    BY <2>4 DEF vars, BackoffIsExponential, Delays
  <2> QED BY <2>1, <2>2, <2>3, <2>4 DEF Next
<1> QED BY <1>1, <1>2, PTL DEF Spec

(* The variables keep their types: the attempts and sleeps of retry_call   *)
(* stay within max_attempts (retry.py).                                    *)
THEOREM TypeCorrect == Spec => []TypeOK
  BY Invariance, PTL DEF IInv

(* A retryable error reaches the caller exactly after max_attempts calls.  *)
THEOREM RetryBudget == Spec => []AttemptsAreUsed
  BY Invariance, PTL DEF IInv

(* The sleeps double, one between two attempts and none after the last.    *)
THEOREM RetryBackoff == Spec => []BackoffIsExponential
  BY Invariance, PTL DEF IInv

=============================================================================
