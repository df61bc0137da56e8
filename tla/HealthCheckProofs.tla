------------------------- MODULE HealthCheckProofs -------------------------
(***************************************************************************)
(* The promise of check_all_services (health.py 43-69), proved for every   *)
(* number of services, for both ways of scheduling their checks.           *)
(***************************************************************************)
EXTENDS HealthCheck, TLAPS

(* What an answer is not.                                                  *)
LEMMA AnswersDiffer ==
  /\ \A i : HR!ErrorAt(i) # HR!NoAnswer /\ HR!AbortAt(i) # HR!NoAnswer
  /\ \A s : HR!Report(s) # HR!NoAnswer
  /\ HR!NotStarted # HR!NoAnswer
BY DEF HR!ErrorAt, HR!AbortAt, HR!Report, HR!NoAnswer, HR!NotStarted

(* A full list of statuses is a function of the services.                  *)
LEMMA FullList ==
  ASSUME TypeOK, Recorded, next > n
  PROVE  statuses = [i \in Services |-> check[i]] /\ \A i \in Services : check[i] \in {"ok", "failed"}
<1>1. n \in Nat /\ next = n + 1
  BY SizesAssumption DEF TypeOK, Services
<1>2. statuses \in Seq({"ok", "failed"}) /\ Len(statuses) = n
  BY <1>1 DEF TypeOK, Recorded
<1>3. \A i \in 1..n : statuses[i] = check[i] /\ check[i] \in {"ok", "failed"}
  BY <1>1 DEF Recorded
<1>4. statuses = [i \in 1..n |-> statuses[i]]
  BY <1>2
<1> QED BY <1>3, <1>4 DEF Services

LEMMA InitIInv == Init => IInv
<1> SUFFICES ASSUME Init PROVE IInv
  OBVIOUS
<1>1. n \in Nat
  BY SizesAssumption DEF Init
<1>2. TypeOK
  BY <1>1 DEF Init, TypeOK, Services
<1>3. SequentialInv /\ ParallelInv
  BY <1>1 DEF Init, SequentialInv, ParallelInv, Recorded, Services
<1>4. EndInv /\ NoCheckOutlivesTheCall /\ SequentialStopsAtFailure
  BY DEF Init, EndInv, NoCheckOutlivesTheCall, SequentialStopsAtFailure, Services
<1> QED BY <1>2, <1>3, <1>4 DEF IInv

(* Types.                                                                  *)
LEMMA TypeStep == ASSUME IInv, [Next]_vars PROVE TypeOK'
<1> USE SizesAssumption DEF TypeOK, inputs, Services
<1>0. TypeOK /\ n \in Nat
  BY DEF IInv
<1>1. CASE CallCheck
  BY <1>0, <1>1 DEF CallCheck
<1>2. CASE CheckReturned
  <2>1. ~ parallel /\ pc = "checking" /\ next \in Services /\ check[next] # "pending"
    BY <1>2 DEF CheckReturned, IInv, SequentialInv
  <2>2. next + 1 \in 1..(n + 1) /\ UNCHANGED <<inputs, queued, check>>
    BY <1>0, <1>2, <2>1 DEF CheckReturned
  <2>3. CASE check[next] = "aborted" /\ Return(HR!AbortAt(next)) /\ UNCHANGED <<next, statuses>>
    BY <1>0, <2>1, <2>2, <2>3 DEF Return
  <2>4. CASE check[next] \in {"ok", "failed"} /\ statuses' = Append(statuses, check[next])
    <3>1. statuses' \in Seq({"ok", "failed"})
      BY <1>0, <2>4
    <3>2. CASE Return(HR!ErrorAt(next)) /\ UNCHANGED next
      BY <1>0, <2>1, <2>2, <3>1, <3>2 DEF Return
    <3>3. CASE next' = next + 1 /\ pc' = "loop" /\ UNCHANGED answer
      BY <1>0, <2>1, <2>2, <3>1, <3>3
    <3> QED BY <1>2, <2>4, <3>2, <3>3 DEF CheckReturned
  <2> QED BY <1>2, <2>3, <2>4 DEF CheckReturned
<1>3. CASE ReportSequential
  <2>1. Recorded /\ next > n
    BY <1>0, <1>3 DEF ReportSequential, IInv, SequentialInv
  <2>2. statuses \in [Services -> {"ok", "failed"}]
    BY <1>0, <2>1, FullList
  <2> QED BY <1>0, <1>3, <2>2 DEF ReportSequential, Return
<1>4. CASE ReportEmpty
  <2>1. << >> \in [Services -> {"ok", "failed"}]
    BY <1>4 DEF ReportEmpty
  <2> QED BY <1>0, <1>4, <2>1 DEF ReportEmpty, Return
<1>5. CASE Submit
  BY <1>0, <1>5 DEF Submit
<1>6. CASE Join
  BY <1>0, <1>6 DEF Join
<1>7. CASE Leave
  BY <1>0, <1>7 DEF Leave, Return
<1>8. CASE Collect
  <2>1. next \in Services /\ check[next] \in {"ok", "failed", "aborted"}
    BY <1>0, <1>8 DEF Collect, IInv, ParallelInv, SequentialInv, PoolIsIdle
  <2>2. CASE Return(HR!AbortAt(next)) /\ UNCHANGED <<inputs, next, statuses, queued, check>>
    BY <1>0, <2>1, <2>2 DEF Return
  <2>3. CASE /\ check[next] # "aborted" /\ statuses' = Append(statuses, check[next])
             /\ next' = next + 1 /\ UNCHANGED <<inputs, pc, answer, queued, check>>
    <3>1. statuses' \in Seq({"ok", "failed"})
      BY <1>0, <2>1, <2>3
    <3> QED BY <1>0, <2>1, <2>3, <3>1
  <2> QED BY <1>8, <2>2, <2>3 DEF Collect
<1>9. CASE ReportParallel
  <2>1. Recorded /\ next > n
    BY <1>0, <1>9 DEF ReportParallel, IInv, ParallelInv, SequentialInv
  <2>2. statuses \in [Services -> {"ok", "failed"}]
    BY <1>0, <2>1, FullList
  <2>3. Culprits \subseteq Services
    BY <1>0 DEF Culprits
  <2> QED BY <1>0, <1>9, <2>2, <2>3 DEF ReportParallel, Return
<1>10. CASE SubmitFails
  <2>1. queued' = {} \/ queued' = queued \cup {next}
    BY <1>10 DEF SubmitFails
  <2>2. next \in 1..n /\ queued \subseteq 1..n
    BY <1>0, <1>10 DEF SubmitFails
  <2>3. queued' \subseteq Services
    BY <2>1, <2>2
  <2> QED BY <1>0, <1>10, <2>3 DEF SubmitFails
<1>11. ASSUME NEW i \in Services, CheckStep(i) PROVE TypeOK'
  BY <1>0, <1>11 DEF CheckStep, StartTask, CheckEnds, Does, Truths
<1>12. CASE UNCHANGED vars
  BY <1>0, <1>12 DEF vars
<1> QED BY <1>1, <1>2, <1>3, <1>4, <1>5, <1>6, <1>7, <1>8, <1>9, <1>10, <1>11, <1>12
  DEF Next, CallerStep

(* The sequential loop.                                                    *)
LEMMA SequentialStep == ASSUME IInv, [Next]_vars PROVE SequentialInv' /\ SequentialStopsAtFailure'
<1> SUFFICES ASSUME ~ parallel
             PROVE  SequentialInv' /\ SequentialStopsAtFailure'
  BY DEF SequentialInv, SequentialStopsAtFailure, Next, CallerStep, CheckStep, CallCheck, CheckReturned,
     ReportSequential, ReportEmpty, Submit, Join, Leave, Collect, ReportParallel, SubmitFails,
     StartTask, CheckEnds, vars, inputs
<1> USE SizesAssumption DEF inputs, Services
<1>0. /\ TypeOK /\ SequentialInv /\ SequentialStopsAtFailure /\ n \in Nat /\ next \in Nat
      /\ check \in [Services -> {"pending", "running", "ok", "failed", "aborted"}]
      /\ queued = {} /\ pc \in {"loop", "checking", "done"}
  BY DEF IInv, TypeOK, SequentialInv
<1>1. CASE CallCheck
  BY <1>0, <1>1 DEF CallCheck, SequentialInv, SequentialStopsAtFailure, Recorded
<1>2. CASE CheckReturned
  BY <1>0, <1>2 DEF CheckReturned, Return, SequentialInv, SequentialStopsAtFailure, Recorded, TypeOK
<1>3. CASE ReportSequential
  BY <1>0, <1>3 DEF ReportSequential, Return, SequentialInv, SequentialStopsAtFailure
<1>4. ASSUME NEW i \in Services, CheckEnds(i)
      PROVE  SequentialInv' /\ SequentialStopsAtFailure'
  <2>1. pc = "checking" /\ i = next /\ \A j \in Services : j > next => check[j] = "pending"
    BY <1>0, <1>4 DEF CheckEnds, SequentialInv, IInv, NoCheckOutlivesTheCall, Recorded
  <2>2. /\ check' = [check EXCEPT ![next] = Does(truth[next])] /\ Does(truth[next]) # "pending"
        /\ Does(truth[next]) # "running"
        /\ UNCHANGED <<n, required, parallel, pc, next, queued, statuses>>
    BY <1>0, <1>4, <2>1 DEF CheckEnds, Does, TypeOK, Truths
  <2>3. SequentialInv'
    BY <1>0, <2>1, <2>2 DEF SequentialInv, Recorded
  <2>4. SequentialStopsAtFailure'
    BY <1>0, <2>1, <2>2 DEF SequentialInv, SequentialStopsAtFailure, Recorded
  <2> QED BY <2>3, <2>4
<1>5. CASE UNCHANGED vars
  BY <1>0, <1>5 DEF vars, SequentialInv, SequentialStopsAtFailure, Recorded
<1> QED BY <1>0, <1>1, <1>2, <1>3, <1>4, <1>5
  DEF Next, CallerStep, CheckStep, ReportEmpty, Submit, Join, Leave, Collect, ReportParallel,
      SubmitFails, StartTask

(* The pool.                                                               *)
LEMMA ParallelStep == ASSUME IInv, [Next]_vars PROVE ParallelInv'
<1> SUFFICES ASSUME parallel PROVE ParallelInv'
  BY DEF ParallelInv, Next, CallerStep, CheckStep, CallCheck, CheckReturned, ReportSequential,
     ReportEmpty, Submit, Join, Leave, Collect, ReportParallel, SubmitFails, StartTask, CheckEnds,
     vars, inputs
<1> USE SizesAssumption DEF inputs, Services
<1>0. /\ TypeOK /\ ParallelInv /\ n \in Nat /\ next \in Nat /\ next >= 1
      /\ check \in [Services -> {"pending", "running", "ok", "failed", "aborted"}]
  BY DEF IInv, TypeOK
<1>1. CASE ReportEmpty
  BY <1>0, <1>1 DEF ReportEmpty, Return, ParallelInv
<1>2. CASE Submit
  BY <1>0, <1>2 DEF Submit, ParallelInv
<1>3. CASE SubmitFails
  BY <1>0, <1>3 DEF SubmitFails, ParallelInv
<1>4. CASE Join
  BY <1>0, <1>4 DEF Join, ParallelInv, PoolIsIdle, Recorded
<1>5. CASE Leave \/ ReportParallel
  BY <1>0, <1>5 DEF Leave, ReportParallel, Return, ParallelInv
<1>6. CASE Collect
  <2>1. /\ pc = "collecting" /\ next \in 1..n /\ queued = Services /\ PoolIsIdle /\ Recorded
        /\ UNCHANGED <<n, queued, check>>
    BY <1>0, <1>6 DEF Collect, ParallelInv
  <2>2. CASE pc' = "done"
    BY <1>0, <2>1, <2>2 DEF ParallelInv
  <2>3. CASE pc' # "done"
    <3>1. /\ pc' = "collecting" /\ next' = next + 1 /\ check[next] \in {"ok", "failed"}
          /\ statuses' = Append(statuses, check[next])
      BY <1>0, <1>6, <2>1, <2>3 DEF Collect, Return, PoolIsIdle
    <3>2. statuses \in Seq({"ok", "failed"}) /\ Len(statuses) = next - 1
      BY <2>1 DEF Recorded, IInv, TypeOK
    <3>3. /\ Len(statuses') = next /\ statuses'[next] = check[next]
          /\ \A i \in 1..(next - 1) : statuses'[i] = statuses[i]
      BY <1>0, <3>1, <3>2
    <3>4. Recorded'
      BY <1>0, <2>1, <3>1, <3>3 DEF Recorded
    <3> QED BY <1>0, <2>1, <3>1, <3>4 DEF ParallelInv, PoolIsIdle
  <2> QED BY <2>2, <2>3
<1>7. ASSUME NEW i \in Services, StartTask(i) PROVE ParallelInv'
  BY <1>0, <1>7 DEF StartTask, ParallelInv, PoolIsIdle
<1>8. ASSUME NEW i \in Services, CheckEnds(i) PROVE ParallelInv'
  BY <1>0, <1>8 DEF CheckEnds, ParallelInv, PoolIsIdle
<1>9. CASE UNCHANGED vars
  BY <1>0, <1>9 DEF vars, ParallelInv, PoolIsIdle, Recorded
<1> QED BY <1>0, <1>1, <1>2, <1>3, <1>4, <1>5, <1>6, <1>7, <1>8, <1>9
  DEF Next, CallerStep, CheckStep, CallCheck, CheckReturned, ReportSequential

(* The end of a check, and of the call.                                    *)
LEMMA EndStep == ASSUME IInv, [Next]_vars PROVE EndInv' /\ NoCheckOutlivesTheCall'
<1> USE SizesAssumption DEF inputs, Services
<1>0. /\ TypeOK /\ EndInv /\ NoCheckOutlivesTheCall /\ n \in Nat
      /\ check \in [Services -> {"pending", "running", "ok", "failed", "aborted"}]
  BY DEF IInv, TypeOK
<1>1. CASE CallerStep \/ SubmitFails
  <2>1. EndInv'
    BY <1>0, <1>1, AnswersDiffer DEF CallerStep, CallCheck, CheckReturned, ReportSequential,
       ReportEmpty, Submit, SubmitFails, Join, Leave, Collect, ReportParallel, Return, EndInv
  <2>2. NoCheckOutlivesTheCall'
    <3>1. CASE CheckReturned \/ ReportSequential
      <4>1. queued' = {} /\ n' = n /\ check' = check /\ \A i \in Services : check[i] # "running"
        <5>1. /\ ~ parallel /\ queued = {} /\ n' = n /\ check' = check /\ queued' = queued
              /\ pc \in {"checking", "loop"} /\ Recorded /\ next \in Nat
          BY <1>0, <3>1 DEF IInv, SequentialInv, CheckReturned, ReportSequential, TypeOK
        <5>2. \A i \in Services : i < next => check[i] # "running"
          BY <1>0, <5>1 DEF Recorded
        <5>3. CASE CheckReturned
          <6>1. check[next] # "running" /\ \A i \in Services : i > next => check[i] = "pending"
            BY <5>1, <5>3 DEF CheckReturned, IInv, SequentialInv
          <6>2. \A i \in Services : i < next \/ i = next \/ i > next
            BY <1>0, <5>1
          <6> QED BY <5>1, <5>2, <6>1, <6>2
        <5>4. CASE ReportSequential
          BY <1>0, <5>1, <5>2, <5>4 DEF ReportSequential
        <5> QED BY <3>1, <5>3, <5>4
      <4> QED BY <4>1 DEF NoCheckOutlivesTheCall, PoolIsIdle
    <3>2. CASE ReportEmpty
      BY <1>0, <3>2 DEF ReportEmpty, NoCheckOutlivesTheCall, PoolIsIdle, TypeOK
    <3>3. CASE Leave \/ Collect \/ ReportParallel
      <4>1. PoolIsIdle /\ \A i \in Services : check[i] # "pending" => i \in queued
        BY <3>3 DEF IInv, SequentialInv, ParallelInv, Leave, Collect, ReportParallel
      <4>2. n' = n /\ check' = check /\ queued' = queued
        BY <3>3 DEF Leave, Collect, ReportParallel
      <4> QED BY <1>0, <4>1, <4>2 DEF NoCheckOutlivesTheCall, PoolIsIdle
    <3>4. CASE CallCheck \/ Submit \/ SubmitFails \/ Join
      BY <3>4 DEF CallCheck, Submit, SubmitFails, Join, NoCheckOutlivesTheCall
    <3> QED BY <1>1, <3>1, <3>2, <3>3, <3>4 DEF CallerStep
  <2> QED BY <2>1, <2>2
<1>2. ASSUME NEW i \in Services, StartTask(i) PROVE EndInv' /\ NoCheckOutlivesTheCall'
  BY <1>0, <1>2 DEF StartTask, EndInv, NoCheckOutlivesTheCall, PoolIsIdle
<1>3. ASSUME NEW i \in Services, CheckEnds(i) PROVE EndInv' /\ NoCheckOutlivesTheCall'
  BY <1>0, <1>3 DEF CheckEnds, EndInv, NoCheckOutlivesTheCall, Does
<1>4. CASE UNCHANGED vars
  BY <1>0, <1>4 DEF vars, EndInv, NoCheckOutlivesTheCall, PoolIsIdle
<1> QED BY <1>1, <1>2, <1>3, <1>4 DEF Next, CheckStep

(* The invariant behind the theorems.                                      *)
LEMMA Invariance == Spec => []IInv
<1>1. IInv /\ [Next]_vars => IInv'
  BY TypeStep, SequentialStep, ParallelStep, EndStep DEF IInv
<1> QED BY <1>1, InitIInv, PTL DEF Spec

(* The variables keep their types, for every number of services.           *)
THEOREM TypeCorrect == Spec => []TypeOK
  BY Invariance, PTL DEF IInv

(* Nothing a call started is running, or will run, when it has ended.      *)
THEOREM NothingOutlives == Spec => []NoCheckOutlivesTheCall
  BY Invariance, PTL DEF IInv

(* The sequential call runs one check at a time, and none after a required *)
(* one failed or one aborted.                                              *)
THEOREM SequentialStops == Spec => []SequentialStopsAtFailure
  BY Invariance, PTL DEF IInv

(* The least of a set of numbers is the one CHOOSE takes.                  *)
LEMMA LeastIsChosen ==
  ASSUME NEW S \in SUBSET Nat, NEW i \in S, \A j \in S : i <= j
  PROVE  i = CHOOSE k \in S : \A j \in S : k <= j
<1>1. \A k \in S : (\A j \in S : k <= j) => k = i
  OBVIOUS
<1> QED BY <1>1

(* The answer is drawn from what the checks do and what is required, the   *)
(* same way in whatever order the checks end; the first decisive check     *)
(* makes it an exception (health.py 47-52, 61-69).                         *)
THEOREM AnswersAreFunctional == Spec => []AnswerIsFunctional
<1> USE SizesAssumption DEF inputs, Services
<1> DEFINE First    == CHOOSE i \in Decisive : \A j \in Decisive : i <= j
           Expected == IF Decisive = {} THEN HR!Report([i \in 1..n |-> Does(truth[i])])
                       ELSE IF First \in Aborting THEN HR!AbortAt(First) ELSE HR!ErrorAt(First)
<1>1. Init => AnswerIsFunctional
  BY DEF Init, AnswerIsFunctional, HR!NoAnswer
<1>2. IInv /\ AnswerIsFunctional /\ [Next]_vars => AnswerIsFunctional'
  <2> SUFFICES ASSUME IInv, AnswerIsFunctional, [Next]_vars,
                      answer'.kind \in {"report", "error", "abort"}
               PROVE  answer' = Expected'
    BY DEF AnswerIsFunctional
  <2>0. /\ n \in Nat /\ next \in Nat /\ required \subseteq 1..n
        /\ \A i \in 1..n : check[i] \in {"ok", "failed", "aborted"} => check[i] = Does(truth[i])
    BY DEF IInv, TypeOK, EndInv
  <2>1. Expected' = Expected
    <3>1. n' = n /\ required' = required /\ truth' = truth /\ parallel' = parallel
      BY DEF Next, CallerStep, CheckStep, CallCheck, CheckReturned, ReportSequential, ReportEmpty,
         Submit, Join, Leave, Collect, ReportParallel, SubmitFails, StartTask, CheckEnds, vars
    <3> QED BY <3>1 DEF Decisive, Failing, Aborting
  <2>2. CASE answer' = answer
    BY <2>1, <2>2 DEF AnswerIsFunctional
  <2>3. /\ Decisive \in SUBSET Nat
        /\ \A i \in 1..n : check[i] \in {"ok", "failed"} => i \notin Aborting
        /\ \A i \in 1..n : check[i] = "aborted" => i \in Aborting
        /\ \A i \in 1..n : check[i] = "ok" => i \notin Failing
        /\ \A i \in required : check[i] = "failed" => i \in Failing
        /\ \A i \in Failing : i \in required /\ i \in 1..n
        /\ \A i \in Aborting : i \in 1..n
    <3>1. \A i \in 1..n : /\ check[i] = "aborted" => truth[i] = "aborted"
                          /\ check[i] = "failed" => truth[i] = "failed"
                          /\ check[i] = "ok" => truth[i] \in {"ok", "unawaited"}
      BY <2>0 DEF Does
    <3>2. Failing \subseteq 1..n /\ Aborting \subseteq 1..n
      BY <2>0 DEF Failing, Aborting
    <3>3. Decisive \subseteq Nat
      BY <2>0, <3>2 DEF Decisive
    <3>4. \A i \in 1..n : /\ i \in Aborting <=> truth[i] = "aborted"
                          /\ i \in Failing <=> i \in required /\ truth[i] = "failed"
      BY DEF Failing, Aborting
    <3> QED BY <2>0, <3>1, <3>2, <3>3, <3>4
  <2>4. ASSUME NEW i \in Decisive, \A j \in Decisive : i <= j,
               answer' = IF i \in Aborting THEN HR!AbortAt(i) ELSE HR!ErrorAt(i)
        PROVE  answer' = Expected
    <3>1. i = First
      BY <2>3, <2>4, LeastIsChosen
    <3> HIDE DEF First
    <3> QED BY <2>4, <3>1
  <2>5. ASSUME Recorded, next > n, \A i \in required : check[i] = "ok",
               answer' = HR!Report(statuses)
        PROVE  answer' = Expected
    <3>1. statuses = [i \in 1..n |-> check[i]] /\ \A i \in 1..n : check[i] \in {"ok", "failed"}
      BY <2>5, FullList DEF IInv
    <3>2. statuses = [i \in 1..n |-> Does(truth[i])]
      BY <2>0, <3>1
    <3>3. Failing = {} /\ Aborting = {}
      BY <2>0, <2>3, <2>5, <3>1
    <3> QED BY <2>5, <3>2, <3>3 DEF Decisive
  <2> HIDE DEF Expected
  <2>6. CASE CheckReturned /\ answer' # answer
    <3>1. /\ ~ parallel /\ next \in 1..n
          /\ \A j \in 1..n : j < next => check[j] \in {"ok", "failed"}
          /\ \A j \in required : j < next => check[j] = "ok"
      BY <2>0, <2>6 DEF CheckReturned, IInv, SequentialInv, Recorded
    <3>2. Decisive = Failing \cup Aborting
      BY <3>1 DEF Decisive
    <3>3. \A j \in Decisive : next <= j
      BY <2>0, <2>3, <3>1, <3>2
    <3>4. CASE check[next] = "aborted" /\ answer' = HR!AbortAt(next)
      <4>1. next \in Aborting
        BY <2>3, <3>1, <3>4
      <4> QED BY <2>1, <2>4, <3>2, <3>3, <3>4, <4>1
    <3>5. CASE check[next] = "failed" /\ next \in required /\ answer' = HR!ErrorAt(next)
      <4>1. next \in Failing /\ next \notin Aborting
        BY <2>3, <3>1, <3>5
      <4> QED BY <2>1, <2>4, <3>2, <3>3, <3>5, <4>1
    <3> QED BY <2>6, <3>4, <3>5 DEF CheckReturned, Return
  <2>7. CASE ReportSequential
    <3>1. Recorded /\ next > n /\ \A i \in required : check[i] = "ok"
      BY <2>0, <2>7 DEF ReportSequential, IInv, SequentialInv
    <3> QED BY <2>1, <2>5, <2>7, <3>1 DEF ReportSequential, Return
  <2>8. CASE ReportEmpty
    <3>1. n = 0 /\ 1..n = {}
      BY <2>0, <2>8 DEF ReportEmpty
    <3>2. Decisive = {}
      BY <2>0, <3>1 DEF Failing, Aborting, Decisive
    <3>3. [i \in 1..n |-> Does(truth[i])] = << >>
      BY <3>1
    <3> QED BY <2>1, <2>8, <3>2, <3>3 DEF ReportEmpty, Return, Expected
  <2>9. CASE ReportParallel
    <3>1. Recorded /\ next > n
      BY <2>9 DEF ReportParallel, IInv, ParallelInv, SequentialInv
    <3>2. \A i \in 1..n : statuses[i] = check[i] /\ check[i] \in {"ok", "failed"}
      BY <3>1, FullList DEF IInv
    <3>3. Culprits = {i \in required : check[i] = "failed"}
      BY <2>0, <3>2 DEF Culprits
    <3>4. Aborting = {} /\ Decisive = Failing
      BY <2>3, <3>2 DEF Decisive
    <3>5. Failing = Culprits
      BY <2>0, <2>3, <3>2, <3>3
    <3>6. ASSUME NEW i \in Culprits, \A j \in Culprits : i <= j, answer' = HR!ErrorAt(i)
          PROVE  answer' = Expected
      BY <2>4, <3>4, <3>5, <3>6
    <3>7. CASE Culprits = {} /\ answer' = HR!Report(statuses)
      <4>1. \A i \in required : check[i] = "ok"
        BY <2>0, <3>2, <3>3, <3>7
      <4> QED BY <2>1, <2>5, <3>1, <3>7, <4>1
    <3> QED BY <2>1, <2>9, <3>6, <3>7 DEF ReportParallel, Return
  <2>10. CASE Collect /\ answer' # answer
    <3>1. /\ parallel /\ Recorded /\ next \in 1..n /\ check[next] = "aborted"
          /\ answer' = HR!AbortAt(next)
      BY <2>10 DEF Collect, Return, IInv, TypeOK, ParallelInv, SequentialInv
    <3>2. next \in Aborting /\ Decisive = Aborting
      BY <2>3, <3>1 DEF Decisive
    <3>3. \A j \in 1..n : j < next => check[j] \in {"ok", "failed"}
      BY <2>0, <3>1 DEF Recorded
    <3>4. \A j \in Decisive : next <= j
      BY <2>0, <2>3, <3>2, <3>3
    <3> QED BY <2>1, <2>4, <3>1, <3>2, <3>4
  <2>11. CASE Leave
    <3>1. answer'.kind = "not started"
      BY <2>11 DEF Leave, Return, HR!NotStarted
    <3> QED BY <3>1
  <2>12. CASE CallCheck \/ Submit \/ Join \/ SubmitFails \/ UNCHANGED vars
    BY <2>2, <2>12 DEF CallCheck, Submit, Join, SubmitFails, vars
  <2>13. ASSUME NEW i \in Services, CheckStep(i) PROVE answer' = answer
    BY <2>13 DEF CheckStep, StartTask, CheckEnds
  <2> QED BY <2>2, <2>6, <2>7, <2>8, <2>9, <2>10, <2>11, <2>12, <2>13 DEF Next, CallerStep
<1> QED BY <1>1, <1>2, Invariance, PTL DEF Spec

(* Both schedules implement HealthReport: every step maps to one of its    *)
(* steps or to none.                                                       *)
THEOREM Refinement == Spec => KeepsThePromise
<1> USE SizesAssumption DEF inputs, Services, HR!Services
<1>1. Init => HR!Init
  BY DEF Init, HR!Init
<1>2. IInv /\ [Next]_vars => [HR!Next]_HR!vars
  <2> SUFFICES ASSUME IInv, [Next]_vars PROVE [HR!Next]_HR!vars
    OBVIOUS
  <2> DEFINE outcome == [i \in 1..n |-> IF check[i] = "running" THEN "pending" ELSE check[i]]
  <2>0. /\ n \in Nat /\ next \in Nat /\ required \subseteq 1..n
        /\ check \in [1..n -> {"pending", "running", "ok", "failed", "aborted"}]
        /\ answer = HR!NoAnswer <=> pc # "done"
    BY DEF IInv, TypeOK, EndInv
  <2>1. CASE CallCheck \/ Submit \/ SubmitFails \/ Join \/ UNCHANGED vars
    <3>1. n' = n /\ required' = required /\ answer' = answer /\ outcome' = outcome
      BY <2>0, <2>1 DEF CallCheck, Submit, SubmitFails, Join, vars, IInv, SequentialInv
    <3> QED BY <3>1 DEF HR!vars
  <2>2. ASSUME NEW i \in 1..n, StartTask(i) PROVE [HR!Next]_HR!vars
    <3>1. n' = n /\ required' = required /\ answer' = answer /\ outcome' = outcome
      BY <2>0, <2>2 DEF StartTask
    <3> QED BY <3>1 DEF HR!vars
  <2>3. ASSUME NEW i \in 1..n, CheckEnds(i) PROVE [HR!Next]_HR!vars
    <3>1. /\ outcome[i] = "pending" /\ UNCHANGED <<n, required, answer>>
          /\ Does(truth[i]) \in HR!Settled /\ Does(truth[i]) # "running"
      BY <2>0, <2>3 DEF CheckEnds, Does, HR!Settled, IInv, TypeOK, Truths
    <3>2. outcome' = [outcome EXCEPT ![i] = Does(truth[i])]
      BY <2>0, <2>3, <3>1 DEF CheckEnds
    <3>3. HR!Probe(i)
      BY <3>1, <3>2 DEF HR!Probe
    <3> QED BY <3>3 DEF HR!Next
  <2>4. ASSUME NEW a, pc # "done", answer' = a, UNCHANGED <<n, required, check>>
        PROVE  HR!Answer(a)
    BY <2>0, <2>4 DEF HR!Answer
  <2>5. ASSUME Recorded, next \in 1..n, check[next] = "aborted", pc # "done",
               answer' = HR!AbortAt(next), UNCHANGED <<n, required, check>>
        PROVE  HR!Next
    <3>1. outcome[next] = "aborted" /\ \A j \in 1..(next - 1) : HR!Known(j)
      BY <2>0, <2>5 DEF Recorded, HR!Known
    <3>2. HR!RaiseAbort(next)
      BY <2>4, <2>5, <3>1 DEF HR!RaiseAbort
    <3> QED BY <2>5, <3>2 DEF HR!Next
  <2>6. ASSUME NEW i \in required, check[i] = "failed", pc # "done", answer' = HR!ErrorAt(i),
               \A j \in 1..(i - 1) : check[j] = "ok" \/ (check[j] = "failed" /\ j \notin required),
               UNCHANGED <<n, required, check>>
        PROVE  HR!Next
    <3>1. outcome[i] = "failed" /\ \A j \in 1..(i - 1) : HR!Passed(j)
      BY <2>0, <2>6 DEF HR!Passed
    <3>2. HR!RaiseError(i)
      BY <2>4, <2>6, <3>1 DEF HR!RaiseError
    <3> QED BY <2>0, <2>6, <3>2 DEF HR!Next
  <2>7. ASSUME Recorded, next > n, \A i \in required : check[i] = "ok", pc # "done",
               answer' = HR!Report(statuses), UNCHANGED <<n, required, check>>
        PROVE  HR!Next
    <3>1. statuses = [i \in 1..n |-> check[i]] /\ \A i \in 1..n : check[i] \in {"ok", "failed"}
      BY <2>7, FullList DEF IInv
    <3>2. statuses = outcome /\ \A i \in 1..n : HR!Passed(i)
      BY <2>0, <2>7, <3>1 DEF HR!Passed
    <3>3. HR!GiveReport
      BY <2>4, <2>7, <3>2 DEF HR!GiveReport
    <3> QED BY <3>3 DEF HR!Next
  <2>8. CASE CheckReturned
    <3>1. /\ pc # "done" /\ next \in 1..n /\ Recorded /\ UNCHANGED <<n, required, check>>
          /\ \A i \in 1..(next - 1) : i \in required => check[i] = "ok"
      BY <2>8 DEF CheckReturned, IInv, SequentialInv
    <3>2. CASE check[next] = "failed" /\ next \in required /\ answer' = HR!ErrorAt(next)
      <4>1. \A j \in 1..(next - 1) : check[j] = "ok" \/ (check[j] = "failed" /\ j \notin required)
        <5> TAKE j \in 1..(next - 1)
        <5>1. check[j] \in {"ok", "failed"}
          BY <3>1 DEF Recorded
        <5> QED BY <3>1, <5>1
      <4> QED BY <2>6, <3>1, <3>2, <4>1
    <3>3. CASE answer' = answer
      BY <3>1, <3>3 DEF HR!vars
    <3>4. CASE check[next] = "aborted" /\ answer' = HR!AbortAt(next)
      BY <2>5, <3>1, <3>4
    <3> QED BY <2>8, <3>2, <3>3, <3>4 DEF CheckReturned, Return
  <2>9. CASE ReportSequential
    <3>1. Recorded /\ next > n /\ (\A i \in required : check[i] = "ok") /\ pc # "done"
      BY <2>0, <2>9 DEF ReportSequential, IInv, SequentialInv
    <3> QED BY <2>7, <2>9, <3>1 DEF ReportSequential, Return
  <2>10. CASE ReportEmpty
    <3>1. n = 0 /\ outcome = << >> /\ HR!Answer(HR!Report(outcome))
      BY <2>0, <2>4, <2>10 DEF ReportEmpty, Return
    <3>2. HR!GiveReport
      BY <3>1 DEF HR!GiveReport
    <3> QED BY <3>2 DEF HR!Next
  <2>11. CASE Leave
    BY <2>4, <2>11 DEF Leave, Return, HR!RaiseNotStarted, HR!Next
  <2>12. CASE Collect
    <3>1. pc # "done" /\ next \in 1..n /\ Recorded /\ UNCHANGED <<n, required, check>>
      BY <2>0, <2>12 DEF Collect, IInv, TypeOK, ParallelInv, SequentialInv
    <3>2. CASE answer' = answer
      BY <3>1, <3>2 DEF HR!vars
    <3> QED BY <2>5, <2>12, <3>1, <3>2 DEF Collect, Return
  <2>13. CASE ReportParallel
    <3>1. Recorded /\ next > n /\ pc # "done" /\ UNCHANGED <<n, required, check>>
      BY <2>13 DEF ReportParallel, IInv, ParallelInv, SequentialInv
    <3>2. \A i \in 1..n : statuses[i] = check[i] /\ check[i] \in {"ok", "failed"}
      BY <3>1, FullList DEF IInv
    <3>3. Culprits = {i \in required : check[i] = "failed"}
      BY <2>0, <3>2 DEF Culprits
    <3>4. ASSUME NEW i \in Culprits, \A j \in Culprits : i <= j, answer' = HR!ErrorAt(i)
          PROVE  HR!Next
      <4>1. \A j \in 1..(i - 1) : check[j] = "ok" \/ (check[j] = "failed" /\ j \notin required)
        <5> TAKE j \in 1..(i - 1)
        <5>1. i \in 1..n /\ j \in 1..n /\ j < i
          BY <2>0, <3>3
        <5>2. j \notin Culprits /\ check[j] \in {"ok", "failed"}
          BY <3>2, <3>4, <5>1
        <5> QED BY <3>3, <5>2
      <4> QED BY <2>6, <3>1, <3>3, <3>4, <4>1
    <3>5. CASE Culprits = {} /\ answer' = HR!Report(statuses)
      <4>1. \A i \in required : check[i] = "ok"
        BY <2>0, <3>2, <3>3, <3>5
      <4> QED BY <2>7, <3>1, <3>5, <4>1
    <3> QED BY <2>13, <3>4, <3>5 DEF ReportParallel, Return
  <2> QED BY <2>1, <2>2, <2>3, <2>8, <2>9, <2>10, <2>11, <2>12, <2>13
    DEF Next, CallerStep, CheckStep
<1> QED BY <1>1, <1>2, Invariance, PTL DEF Spec, KeepsThePromise, HR!Spec

=============================================================================
