----------------------- MODULE ClientLifecycleProofs -----------------------
(***************************************************************************)
(* Proofs about ClientLifecycle, for any list of clients and any number of *)
(* shutdowns.                                                              *)
(***************************************************************************)
EXTENDS ClientLifecycle, TLAPS

LEMMA InitIInv == Init => IInv
<1> SUFFICES ASSUME Init PROVE IInv
  OBVIOUS
<1> USE BoundsAssumption
<1>1. PICK k \in 0..MaxClients : clients \in [1..k -> Elements]
  BY DEF Init
<1>2. clients \in Seq(Elements) /\ Len(clients) = k
  BY <1>1
<1>3. Positions = 1..k
  BY <1>2 DEF Positions
<1>4. TypeOK
  BY <1>2, <1>3 DEF Init, TypeOK
<1>5. /\ AskedInv /\ LoopInv /\ ShutdownIsOrdered
      /\ FailureBlocksTheRest
  BY <1>3 DEF Init, AskedInv, LoopInv, ShutdownIsOrdered, FailureBlocksTheRest
<1> QED BY <1>4, <1>5 DEF IInv

(* A shutdown begins: each client was asked at most once by each shutdown  *)
(* before it.                                                              *)
LEMMA BeginStep == IInv /\ Begin => IInv'
<1> SUFFICES ASSUME IInv, Begin PROVE IInv'
  OBVIOUS
<1> USE BoundsAssumption DEF IInv, Begin, Positions, Closable
<1>1. TypeOK'
  BY DEF TypeOK
<1>2. AskedInv'
  BY DEF TypeOK, AskedInv
<1>4. \A j \in Positions : asked'[j] < calls'
  <2> TAKE j \in Positions
  <2>1. asked[j] \in 0..MaxCalls /\ asked[j] <= calls /\ calls \in 0..MaxCalls
    BY DEF TypeOK, AskedInv
  <2> QED BY <2>1
<1>5. LoopInv'
  BY <1>4 DEF TypeOK, LoopInv
<1>3. ShutdownIsOrdered' /\ FailureBlocksTheRest'
  BY DEF TypeOK, ShutdownIsOrdered, FailureBlocksTheRest
<1> QED BY <1>1, <1>2, <1>3, <1>5

(* The loop variable moves on behind a client that was asked once more, if *)
(* it has a close function, and that is closed, if it can be.              *)
LEMMA AdvanceStep ==
  ASSUME IInv, Skip \/ CloseReturns \/ CloseIsCoroutine
  PROVE  IInv'
<1> USE BoundsAssumption DEF IInv, Positions
<1>1. /\ pc = "loop" /\ pc' = "loop" /\ result' = result /\ result = "none"
      /\ next \in 1..Len(clients) /\ next' = next + 1
      /\ clients' = clients /\ calls' = calls
  BY DEF Skip, CloseReturns, CloseIsCoroutine, Looping, Advance, LoopInv
<1>2. /\ asked' = asked \/ asked' = [asked EXCEPT ![next] = @ + 1]
      /\ Closer(clients[next]) # "none" => asked' = [asked EXCEPT ![next] = @ + 1]
  BY DEF Skip, CloseReturns, CloseIsCoroutine, Looping, Ask
<1>3. /\ closed' = closed \/ (closed' = closed \cup {next} /\ Closable(next))
      /\ Closable(next) => next \in closed'
  BY DEF Skip, CloseReturns, CloseIsCoroutine, Looping, Closable
<1>4. asked[next] < calls /\ asked[next] \in Nat /\ calls \in 0..MaxCalls
  BY <1>1 DEF LoopInv, TypeOK
<1>5. TypeOK'
  <2>1. asked' \in [Positions -> 0..MaxCalls]
    <3>1. asked[next] + 1 \in 0..MaxCalls
      BY <1>4
    <3>2. [asked EXCEPT ![next] = @ + 1] \in [Positions -> 0..MaxCalls]
      BY <1>1, <3>1 DEF TypeOK
    <3> QED BY <1>2, <3>2 DEF TypeOK
  <2>2. closed' \subseteq Positions
    BY <1>1, <1>3 DEF TypeOK
  <2> QED BY <1>1, <2>1, <2>2 DEF TypeOK
<1>6. AskedInv'
  BY <1>1, <1>2, <1>4 DEF AskedInv, TypeOK
<1>7. \A i \in Positions : Closable(i)' <=> Closable(i)
  BY <1>1 DEF Closable
<1>8. \A i \in 1..next : Closable(i) => i \in closed'
  BY <1>1, <1>3 DEF LoopInv, TypeOK
<1>9. \A j \in Positions : j > next =>
        /\ asked'[j] = asked[j] /\ asked[j] < calls
        /\ \A i \in 1..next : Closer(clients[i]) # "none" => asked'[i] > asked'[j]
  <2> SUFFICES ASSUME NEW j \in Positions, j > next
               PROVE  /\ asked'[j] = asked[j] /\ asked[j] < calls
                      /\ \A i \in 1..next :
                           Closer(clients[i]) # "none" => asked'[i] > asked'[j]
    OBVIOUS
  <2>1. asked'[j] = asked[j] /\ asked[j] < calls /\ asked[j] \in Nat
    BY <1>1, <1>2 DEF LoopInv, TypeOK
  <2>2. ASSUME NEW i \in 1..next, i # next, Closer(clients[i]) # "none"
        PROVE  asked'[i] > asked'[j]
    BY <1>1, <1>2, <2>1, <2>2 DEF LoopInv, TypeOK
  <2>3. ASSUME Closer(clients[next]) # "none" PROVE asked'[next] > asked'[j]
    BY <1>1, <1>2, <1>4, <2>1, <2>3 DEF FailureBlocksTheRest, TypeOK
  <2> QED BY <2>1, <2>2, <2>3
<1>10. LoopInv'
  BY <1>1, <1>7, <1>8, <1>9 DEF LoopInv
<1>11. ShutdownIsOrdered'
  BY <1>1 DEF ShutdownIsOrdered
<1>12. FailureBlocksTheRest'
  <2> SUFFICES ASSUME NEW i \in Positions, NEW j \in Positions, i < j
               PROVE  /\ Closable(i) /\ j \in closed' => i \in closed'
                      /\ Closer(clients[i]) # "none" => asked'[i] >= asked'[j]
    BY <1>1, <1>7 DEF FailureBlocksTheRest
  <2>1. Closable(i) /\ j \in closed' => i \in closed'
    BY <1>1, <1>3, <1>8 DEF FailureBlocksTheRest
  <2>2. ASSUME Closer(clients[i]) # "none" PROVE asked'[i] >= asked'[j]
    <3>1. asked[i] >= asked[j] /\ asked[i] \in Nat /\ asked[j] \in Nat
      BY <2>2 DEF FailureBlocksTheRest, TypeOK
    <3>2. CASE j # next
      BY <1>2, <3>1, <3>2 DEF TypeOK
    <3>3. CASE j = next
      <4>1. asked[i] > asked[j] /\ asked'[i] = asked[i]
        BY <1>1, <1>2, <2>2, <3>3 DEF LoopInv, TypeOK
      <4> QED BY <1>2, <3>1, <3>3, <4>1 DEF TypeOK
    <3> QED BY <3>2, <3>3
  <2> QED BY <2>1, <2>2
<1> QED BY <1>5, <1>6, <1>10, <1>11, <1>12

(* A close that raises ends the shutdown where it is.                      *)
LEMMA RaiseStep == IInv /\ CloseRaises => IInv'
<1> SUFFICES ASSUME IInv, CloseRaises PROVE IInv'
  OBVIOUS
<1> USE BoundsAssumption DEF IInv, Positions
<1>1. /\ pc = "loop" /\ pc' = "running" /\ result' = "raised"
      /\ next \in 1..Len(clients) /\ next' = next
      /\ clients' = clients /\ calls' = calls /\ closed' = closed
      /\ asked' = [asked EXCEPT ![next] = @ + 1]
  BY DEF CloseRaises, Looping, Ask
<1>2. asked[next] < calls /\ asked[next] \in Nat /\ calls \in 0..MaxCalls
  BY <1>1 DEF LoopInv, TypeOK
<1>3. TypeOK' /\ AskedInv' /\ LoopInv'
  BY <1>1, <1>2 DEF TypeOK, AskedInv, LoopInv
<1>4. ShutdownIsOrdered'
  BY <1>1 DEF ShutdownIsOrdered, LoopInv, Closable
<1>5. FailureBlocksTheRest'
  <2> SUFFICES ASSUME NEW i \in Positions, NEW j \in Positions, i < j
               PROVE  /\ Closable(i) /\ j \in closed => i \in closed
                      /\ Closer(clients[i]) # "none" => asked'[i] >= asked'[j]
    BY <1>1 DEF FailureBlocksTheRest, Closable
  <2>1. Closable(i) /\ j \in closed => i \in closed
    BY DEF FailureBlocksTheRest
  <2>2. ASSUME Closer(clients[i]) # "none" PROVE asked'[i] >= asked'[j]
    <3>1. asked[i] >= asked[j] /\ asked[i] \in Nat /\ asked[j] \in Nat
      BY <2>2 DEF FailureBlocksTheRest, TypeOK
    <3>2. j = next => asked[i] > asked[j]
      BY <1>1, <2>2 DEF LoopInv, TypeOK
    <3> QED BY <1>1, <3>1, <3>2 DEF TypeOK
  <2> QED BY <2>1, <2>2
<1> QED BY <1>3, <1>4, <1>5

(* A shutdown that returns has passed the whole list.                      *)
LEMMA ReturnStep == IInv /\ Return => IInv'
<1> SUFFICES ASSUME IInv, Return PROVE IInv'
  OBVIOUS
<1> USE DEF IInv, Return, Positions, Closable
<1>1. TypeOK' /\ AskedInv' /\ LoopInv'
  BY DEF TypeOK, AskedInv, LoopInv
<1>2. ShutdownIsOrdered' /\ FailureBlocksTheRest'
  BY DEF TypeOK, LoopInv, ShutdownIsOrdered, FailureBlocksTheRest
<1> QED BY <1>1, <1>2

THEOREM Invariance == Spec => []IInv
<1>1. IInv /\ UNCHANGED vars => IInv'
  BY DEF IInv, TypeOK, AskedInv, LoopInv, ShutdownIsOrdered,
         FailureBlocksTheRest, Closable, Positions, vars
<1>2. IInv /\ Next => IInv'
  BY BeginStep, AdvanceStep, RaiseStep, ReturnStep DEF Next
<1> QED
  BY InitIInv, <1>1, <1>2, PTL DEF Spec

(* The variables keep their types: the loop variable stays in the list and *)
(* no shutdown asks a client twice (factories.py 217-224).                 *)
THEOREM TypeCorrect == Spec => []TypeOK
BY Invariance, PTL DEF IInv

(* A shutdown that returns has closed whatever can be closed without an    *)
(* event loop; one that raises, everything before the client at fault      *)
(* (factories.py 219-224).                                                 *)
THEOREM ShutdownInOrder == Spec => []ShutdownIsOrdered
BY Invariance, PTL DEF IInv

(* No client is closed behind one that never was, or asked more often than *)
(* one before it (factories.py 219-224).                                   *)
THEOREM FailureBlocks == Spec => []FailureBlocksTheRest
BY Invariance, PTL DEF IInv

=============================================================================
