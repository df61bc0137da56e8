---------------------------- MODULE HealthReport ----------------------------
(***************************************************************************)
(* What check_all_services promises, however it schedules the checks: the  *)
(* outcomes of the checks arrive in any order, and one answer is drawn     *)
(* from them in the order the caller listed the services.                  *)
(***************************************************************************)
EXTENDS Naturals, Sequences

CONSTANT Sizes  \* how many services callers pass

VARIABLES
  n,        \* how many services this call checks
  required, \* those whose failure is an exception
  outcome,  \* of each check
  answer    \* what the caller gets

vars == <<n, required, outcome, answer>>

Services == 1..n
Settled  == {"ok", "failed", "aborted"}

NoAnswer  == [kind |-> "none", at |-> 0, statuses |-> << >>]
Report(s) == [kind |-> "report", at |-> 0, statuses |-> s]
ErrorAt(i)   == [kind |-> "error", at |-> i, statuses |-> << >>]
AbortAt(i)   == [kind |-> "abort", at |-> i, statuses |-> << >>]
NotStarted   == [kind |-> "not started", at |-> 0, statuses |-> << >>]

Init ==
  /\ n \in Sizes
  /\ required \in SUBSET Services
  /\ outcome = [i \in Services |-> "pending"]
  /\ answer = NoAnswer

Probe(i) ==
  /\ outcome[i] = "pending"
  /\ \E o \in Settled : outcome' = [outcome EXCEPT ![i] = o]
  /\ UNCHANGED <<n, required, answer>>

Known(i)  == outcome[i] \in {"ok", "failed"}
Passed(i) == outcome[i] = "ok" \/ (outcome[i] = "failed" /\ i \notin required)

Answer(a) == answer = NoAnswer /\ answer' = a /\ UNCHANGED <<n, required, outcome>>

(* Every service was checked and no required one failed.                   *)
GiveReport == (\A i \in Services : Passed(i)) /\ Answer(Report(outcome))

(* The first required service that failed.                                 *)
RaiseError(i) ==
  /\ outcome[i] = "failed" /\ i \in required
  /\ \A j \in 1..(i - 1) : Passed(j)
  /\ Answer(ErrorAt(i))

(* A check ended in an exception that is no Exception, which the caller    *)
(* gets as it is: the first of them.                                       *)
RaiseAbort(i) ==
  /\ outcome[i] = "aborted"
  /\ \A j \in 1..(i - 1) : Known(j)
  /\ Answer(AbortAt(i))

(* The checks cannot be started.                                           *)
RaiseNotStarted == Answer(NotStarted)

Next ==
  \/ \E i \in Services : Probe(i) \/ RaiseError(i) \/ RaiseAbort(i)
  \/ GiveReport
  \/ RaiseNotStarted

Spec == Init /\ [][Next]_vars

=============================================================================
