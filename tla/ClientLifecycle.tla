-------------------------- MODULE ClientLifecycle --------------------------
(***************************************************************************)
(* ServiceClientWrapper.close and close_service_clients (factories.py      *)
(* 62-69, 217-224): what a shutdown does to the clients an application     *)
(* holds.  The clients' own close functions are the environment.  A        *)
(* shutdown that failed may be tried again.                                *)
(***************************************************************************)
EXTENDS Naturals, Sequences

CONSTANTS
  MaxClients, \* bound of the model on the clients of the application
  MaxCalls    \* bound of the model on its calls of close_service_clients

ASSUME BoundsAssumption == MaxClients \in Nat /\ MaxCalls \in Nat

(* How an element of the list offers to be closed.  A wrapper has a close  *)
(* method that prefers close_fn to the client's own close; other objects   *)
(* have a close method or none, and None is no client at all.              *)
Methods  == {"none", "plain", "coroutine"}
Elements == [kind : {"wrapper"}, close_fn : Methods, close : Methods]
            \cup [kind : {"object"}, close_fn : {"none"}, close : Methods]
            \cup [kind : {"None"}, close_fn : {"none"}, close : {"none"}]

VARIABLES
  clients, \* the list
  pc,      \* where the application is
  next,    \* the loop variable
  asked,   \* how often the close function of each element was called
  closed,  \* the elements that are closed
  result,  \* how the last call ended
  calls    \* how many calls of close_service_clients began

vars == <<clients, pc, next, asked, closed, result, calls>>

Positions == 1..Len(clients)

(* The function that ServiceClientWrapper.close, or the loop, calls.       *)
Closer(e) ==
  IF e.kind = "wrapper" /\ e.close_fn # "none" THEN e.close_fn ELSE e.close

Init ==
  /\ clients \in UNION {[1..k -> Elements] : k \in 0..MaxClients}
  /\ pc = "running"
  /\ next = 1
  /\ asked = [i \in Positions |-> 0]
  /\ closed = {}
  /\ result = "none"
  /\ calls = 0

(* Slip: a second shutdown goes on where the first one stopped.            *)
BeginWhereItStopped ==
  /\ pc = "running" /\ calls < MaxCalls
  /\ pc' = "loop"
  /\ calls' = calls + 1
  /\ result' = "none"
  /\ UNCHANGED <<clients, next, asked, closed>>

Begin ==
  /\ pc = "running" /\ calls < MaxCalls
  /\ pc' = "loop"
  /\ next' = 1
  /\ calls' = calls + 1
  /\ result' = "none"
  /\ UNCHANGED <<clients, asked, closed>>

Advance == next' = next + 1 /\ UNCHANGED <<pc, result>>

Looping(methods) ==
  /\ pc = "loop" /\ next \in Positions
  /\ Closer(clients[next]) \in methods
  /\ UNCHANGED <<clients, calls>>

Skip == Looping({"none"}) /\ Advance /\ UNCHANGED <<asked, closed>>

(* Slip: the wrapper calls close_fn and the client's close.                *)
AskTwice == asked' = [asked EXCEPT ![next] = @ + 2]

Ask == asked' = [asked EXCEPT ![next] = @ + 1]

CloseReturns ==
  /\ Looping({"plain"})
  /\ Ask
  /\ closed' = closed \cup {next}
  /\ Advance

(* The coroutine that comes back is dropped: close_service_clients is not  *)
(* async and awaits nothing.                                               *)
CloseIsCoroutine ==
  /\ Looping({"coroutine"})
  /\ Ask
  /\ Advance
  /\ UNCHANGED closed

(* Slip: it is swallowed.                                                  *)
CloseRaisesQuietly ==
  /\ Looping({"plain"})
  /\ Ask
  /\ Advance
  /\ UNCHANGED closed

(* Nothing catches what close raises.                                      *)
CloseRaises ==
  /\ Looping({"plain"})
  /\ Ask
  /\ pc' = "running" /\ result' = "raised"
  /\ UNCHANGED <<next, closed>>

Return ==
  /\ pc = "loop" /\ next > Len(clients)
  /\ pc' = "running" /\ result' = "returned"
  /\ UNCHANGED <<clients, next, asked, closed, calls>>

Next == Begin \/ Skip \/ CloseReturns \/ CloseIsCoroutine \/ CloseRaises \/ Return

Spec == Init /\ [][Next]_vars

(***************************************************************************)
(* Properties.                                                             *)
(***************************************************************************)

TypeOK ==
  /\ clients \in Seq(Elements)
  /\ pc \in {"running", "loop"}
  /\ next \in 1..(Len(clients) + 1)
  /\ asked \in [Positions -> 0..MaxCalls]
  /\ closed \subseteq Positions
  /\ result \in {"none", "returned", "raised"}
  /\ calls \in 0..MaxCalls

Closable(i) == Closer(clients[i]) = "plain"

(* A shutdown that returns has closed every client that can be closed      *)
(* without an event loop, and after one that raised everything before the  *)
(* client at fault is closed.  (factories.py 219-224)                      *)
ShutdownIsOrdered ==
  /\ result = "returned" => \A i \in Positions : Closable(i) => i \in closed
  /\ result = "raised"   => \A i \in 1..(next - 1) : Closable(i) => i \in closed

(* The first client that fails keeps the later ones from being closed, and *)
(* a shutdown tried again closes the earlier ones again: a client is asked *)
(* at least as often as any after it, and none was closed behind one that  *)
(* never was.  (factories.py 219-224)                                      *)
FailureBlocksTheRest ==
  \A i, j \in Positions : i < j =>
    /\ Closable(i) /\ j \in closed => i \in closed
    /\ Closer(clients[i]) # "none" => asked[i] >= asked[j]

(* What a shutdown under way has done: all behind the loop variable is     *)
(* closed and was asked more often than what is still before it.           *)
LoopInv ==
  pc = "loop" =>
    /\ result = "none"
    /\ \A i \in 1..(next - 1) : Closable(i) => i \in closed
    /\ \A j \in Positions : j >= next =>
         /\ asked[j] < calls
         /\ \A i \in 1..(next - 1) :
              Closer(clients[i]) # "none" => asked[i] > asked[j]

AskedInv == \A i \in Positions : asked[i] <= calls

(* The inductive invariant of the proofs.                                  *)
IInv ==
  TypeOK /\ AskedInv /\ LoopInv /\ ShutdownIsOrdered /\ FailureBlocksTheRest

=============================================================================
