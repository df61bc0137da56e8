---------------------------- MODULE HealthCheck ----------------------------
(***************************************************************************)
(* check_all_services (health.py 30-69), sequential and with a thread      *)
(* pool.  "truth" is what each check function does when it is called; the  *)
(* caller's thread and the pool's tasks interleave.                        *)
(***************************************************************************)
EXTENDS Naturals, Sequences

CONSTANT Sizes  \* how many services callers pass

ASSUME SizesAssumption == Sizes \subseteq Nat

VARIABLES
  n,         \* len(service_checks)
  required,  \* required_services, of those in the mapping
  parallel,  \* the argument
  truth,     \* what each check does
  pc,        \* where the caller's thread is
  next,      \* the loop variable
  queued,    \* the checks handed to the pool
  check,     \* the state of each check
  statuses,  \* the list of statuses
  answer     \* what the caller gets

inputs == <<n, required, parallel, truth>>
vars   == <<inputs, pc, next, queued, check, statuses, answer>>

Services == 1..n

(* A check returns, raises an Exception, raises something else that        *)
(* "except Exception" lets through, is a coroutine function, which returns *)
(* a coroutine nobody awaits, or never ends.                               *)
Truths == {"ok", "failed", "aborted", "unawaited", "hangs"}

Does(t) == IF t = "unawaited" THEN "ok" ELSE t

HR == INSTANCE HealthReport WITH outcome <-
        [i \in 1..n |-> IF check[i] = "running" THEN "pending" ELSE check[i]]

Init ==
  /\ n \in Sizes
  /\ required \in SUBSET Services
  /\ parallel \in BOOLEAN
  /\ truth \in [Services -> Truths]
  /\ pc = "loop"
  /\ next = 1
  /\ queued = {}
  /\ check = [i \in Services |-> "pending"]
  /\ statuses = << >>
  /\ answer = HR!NoAnswer

Return(a) == pc' = "done" /\ answer' = a

(***************************************************************************)
(* One check, on whatever thread runs it.                                  *)
(***************************************************************************)

CheckEnds(i) ==
  /\ check[i] = "running" /\ truth[i] # "hangs"
  /\ check' = [check EXCEPT ![i] = Does(truth[i])]
  /\ UNCHANGED <<inputs, pc, next, queued, statuses, answer>>

(***************************************************************************)
(* parallel=False                                                          *)
(***************************************************************************)

CallCheck ==
  /\ ~ parallel /\ pc = "loop" /\ next <= n
  /\ check' = [check EXCEPT ![next] = "running"]
  /\ pc' = "checking"
  /\ UNCHANGED <<inputs, next, queued, statuses, answer>>

(* Slip: the loop goes on after a required service failed.                 *)
CheckReturnedGoesOn ==
  /\ ~ parallel /\ pc = "checking" /\ check[next] \in {"ok", "failed"}
  /\ statuses' = Append(statuses, check[next])
  /\ next' = next + 1
  /\ pc' = "loop"
  /\ UNCHANGED <<inputs, queued, check, answer>>

CheckReturned ==
  /\ ~ parallel /\ pc = "checking" /\ check[next] # "running"
  /\ \/ /\ check[next] = "aborted"
        /\ Return(HR!AbortAt(next))
        /\ UNCHANGED <<next, statuses>>
     \/ /\ check[next] = "failed" /\ next \in required
        /\ statuses' = Append(statuses, check[next])
        /\ Return(HR!ErrorAt(next))
        /\ UNCHANGED next
     \/ /\ check[next] = "ok" \/ (check[next] = "failed" /\ next \notin required)
        /\ statuses' = Append(statuses, check[next])
        /\ next' = next + 1
        /\ pc' = "loop"
        /\ UNCHANGED answer
  /\ UNCHANGED <<inputs, queued, check>>

ReportSequential ==
  /\ ~ parallel /\ pc = "loop" /\ next > n
  /\ Return(HR!Report(statuses))
  /\ UNCHANGED <<inputs, next, queued, check, statuses>>

(***************************************************************************)
(* parallel=True                                                           *)
(***************************************************************************)

ReportEmpty ==
  /\ parallel /\ pc = "loop" /\ n = 0
  /\ Return(HR!Report(<< >>))
  /\ UNCHANGED <<inputs, next, queued, check, statuses>>

(* Slip: the loop never notices that it is through.                        *)
SubmitForever ==
  /\ parallel /\ pc = "loop" /\ next <= n
  /\ queued' = queued \cup {next}
  /\ next' = next + 1
  /\ UNCHANGED <<inputs, pc, check, statuses, answer>>

Submit ==
  /\ parallel /\ pc = "loop" /\ next <= n
  /\ queued' = queued \cup {next}
  /\ next' = next + 1
  /\ pc' = IF next = n THEN "joining" ELSE "loop"
  /\ UNCHANGED <<inputs, check, statuses, answer>>

(* submit() cannot start another thread.  The task it has already queued   *)
(* is left to the threads there are.                                       *)
SubmitFails ==
  /\ parallel /\ pc = "loop" /\ next <= n
  /\ queued' = IF queued = {} THEN {} ELSE queued \cup {next}
  /\ pc' = "leaving"
  /\ UNCHANGED <<inputs, next, check, statuses, answer>>

StartTask(i) ==
  /\ i \in queued /\ check[i] = "pending"
  /\ check' = [check EXCEPT ![i] = "running"]
  /\ UNCHANGED <<inputs, pc, next, queued, statuses, answer>>

(* The end of the with statement waits for all the pool's tasks.           *)
PoolIsIdle == \A i \in queued : check[i] \notin {"pending", "running"}

Join ==
  /\ pc = "joining" /\ PoolIsIdle
  /\ pc' = "collecting" /\ next' = 1
  /\ UNCHANGED <<inputs, queued, check, statuses, answer>>

(* Slip: shutdown(wait=False).                                             *)
LeaveAtOnce ==
  /\ pc = "leaving"
  /\ Return(HR!NotStarted)
  /\ UNCHANGED <<inputs, next, queued, check, statuses>>

Leave ==
  /\ pc = "leaving" /\ PoolIsIdle
  /\ Return(HR!NotStarted)
  /\ UNCHANGED <<inputs, next, queued, check, statuses>>

(* Slip: what future.result() raises is kept like a status.                *)
CollectBlindly ==
  /\ pc = "collecting" /\ next <= n
  /\ statuses' = Append(statuses, check[next])
  /\ next' = next + 1
  /\ UNCHANGED <<inputs, pc, queued, check, answer>>

(* future.result() returns the status, or raises what the check raised.    *)
Collect ==
  /\ pc = "collecting" /\ next <= n
  /\ IF check[next] = "aborted"
     THEN Return(HR!AbortAt(next)) /\ UNCHANGED <<next, statuses>>
     ELSE /\ statuses' = Append(statuses, check[next])
          /\ next' = next + 1
          /\ UNCHANGED <<pc, answer>>
  /\ UNCHANGED <<inputs, queued, check>>

Culprits == {i \in required : statuses[i] = "failed"}

(* Slips: any required failure will do, or none is an error.               *)
ReportAnyCulprit ==
  /\ pc = "collecting" /\ next > n
  /\ \/ \E i \in Culprits : Return(HR!ErrorAt(i))
     \/ Culprits = {} /\ Return(HR!Report(statuses))
  /\ UNCHANGED <<inputs, next, queued, check, statuses>>

ReportAlways ==
  /\ pc = "collecting" /\ next > n
  /\ Return(HR!Report(statuses))
  /\ UNCHANGED <<inputs, next, queued, check, statuses>>

ReportParallel ==
  /\ pc = "collecting" /\ next > n
  /\ \/ \E i \in Culprits : (\A j \in Culprits : i <= j) /\ Return(HR!ErrorAt(i))
     \/ Culprits = {} /\ Return(HR!Report(statuses))
  /\ UNCHANGED <<inputs, next, queued, check, statuses>>

CallerStep ==
  \/ CallCheck \/ CheckReturned \/ ReportSequential
  \/ ReportEmpty \/ Submit \/ Join \/ Leave \/ Collect \/ ReportParallel

CheckStep(i) == StartTask(i) \/ CheckEnds(i)

Next == CallerStep \/ SubmitFails \/ \E i \in Services : CheckStep(i)

Spec == Init /\ [][Next]_vars

(* The threads are scheduled, and a check that does not hang ends.         *)
FairSpec ==
  /\ Spec
  /\ WF_vars(CallerStep)
  /\ \A i \in UNION {1..m : m \in Sizes} : WF_vars(i \in Services /\ CheckStep(i))

(***************************************************************************)
(* Properties.                                                             *)
(***************************************************************************)

TypeOK ==
  /\ n \in Sizes /\ required \subseteq Services /\ parallel \in BOOLEAN
  /\ truth \in [Services -> Truths]
  /\ pc \in {"loop", "checking", "joining", "leaving", "collecting", "done"}
  /\ next \in 1..(n + 1)
  /\ queued \subseteq Services
  /\ check \in [Services -> {"pending", "running", "ok", "failed", "aborted"}]
  /\ statuses \in Seq({"ok", "failed"})
  /\ answer \in {HR!NoAnswer, HR!NotStarted}
            \cup {HR!ErrorAt(i) : i \in Services} \cup {HR!AbortAt(i) : i \in Services}
            \cup {HR!Report(s) : s \in [Services -> {"ok", "failed"}]}

(* Both ways of scheduling the checks keep the one promise: the answer is  *)
(* drawn from the outcomes in the caller's order.  (health.py 43-69)       *)
KeepsThePromise == HR!Spec

(* The answer depends on what the checks do and on what is required, not   *)
(* on the order in which the checks end.  It depends on parallel only when *)
(* a check raises past "except Exception": the sequential call ends with   *)
(* the first check that does so or that is required and fails; to the      *)
(* parallel call any such exception comes before all required failures,    *)
(* since future.result() raises it before a status is looked at.           *)
(* (health.py 47-52, 61-69)                                                *)
Failing  == {i \in required : truth[i] = "failed"}
Aborting == {i \in Services : truth[i] = "aborted"}
Decisive == IF parallel /\ Aborting # {} THEN Aborting ELSE Failing \cup Aborting

AnswerIsFunctional ==
  answer.kind \in {"report", "error", "abort"} =>
    answer = IF Decisive = {} THEN HR!Report([i \in Services |-> Does(truth[i])])
             ELSE LET first == CHOOSE i \in Decisive : \A j \in Decisive : i <= j
                  IN  IF first \in Aborting THEN HR!AbortAt(first) ELSE HR!ErrorAt(first)

(* No check is still running, or will run, after the call has ended,       *)
(* even if not all of them could be started.  (health.py 56-58)            *)
NoCheckOutlivesTheCall ==
  pc = "done" => PoolIsIdle /\ \A i \in Services : check[i] # "running"

(* The sequential call runs the checks one at a time, and none after the   *)
(* required one that failed or the one that aborted.  (health.py 46-51)    *)
SequentialStopsAtFailure ==
  ~ parallel =>
    /\ \A i, j \in Services : check[i] = "running" /\ check[j] = "running" => i = j
    /\ \A i, j \in Services :
         i < j /\ (check[i] = "aborted" \/ (check[i] = "failed" /\ i \in required)) =>
           check[j] = "pending"

(* The call has no timeout: it ends unless a check it has called hangs, so *)
(* one that hangs behind a required failure does not keep the sequential   *)
(* call.  (health.py 46-58)                                                *)
Hung == \E i \in Services : check[i] = "running" /\ truth[i] = "hangs"

CallEnds == <>(answer # HR!NoAnswer \/ Hung)

(***************************************************************************)
(* The inductive invariant behind the safety properties, in parts.         *)
(***************************************************************************)

(* The statuses are those of the checks the loop has passed.               *)
Recorded ==
  /\ Len(statuses) = next - 1
  /\ \A i \in 1..(next - 1) : statuses[i] = check[i] /\ check[i] \in {"ok", "failed"}

SequentialInv == ~ parallel =>
  /\ queued = {} /\ pc \in {"loop", "checking", "done"}
  /\ pc # "done" => Recorded /\ \A i \in 1..(next - 1) : i \in required => check[i] = "ok"
  /\ pc = "loop" => \A i \in Services : i >= next => check[i] = "pending"
  /\ pc = "checking" => /\ next \in Services /\ check[next] # "pending"
                        /\ \A i \in Services : i > next => check[i] = "pending"

ParallelInv == parallel =>
  /\ pc # "checking"
  /\ \A i \in Services : check[i] # "pending" => i \in queued
  /\ pc = "loop" => queued = 1..(next - 1)
  /\ pc \in {"loop", "joining", "leaving"} => statuses = << >>
  /\ pc \in {"joining", "collecting"} => queued = Services
  /\ pc = "collecting" => PoolIsIdle /\ Recorded

(* A check ends the way it does, and the call ends once.                   *)
EndInv ==
  /\ \A i \in Services : check[i] \in {"ok", "failed", "aborted"} =>
                          check[i] = Does(truth[i]) /\ truth[i] # "hangs"
  /\ answer = HR!NoAnswer <=> pc # "done"

IInv ==
  /\ TypeOK /\ SequentialInv /\ ParallelInv /\ EndInv
  /\ NoCheckOutlivesTheCall /\ SequentialStopsAtFailure

=============================================================================
