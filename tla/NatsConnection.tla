--------------------------- MODULE NatsConnection ---------------------------
(***************************************************************************)
(* NatsConnectionBuilder.ping (factories.py 107-127, 273-285): a temporary *)
(* connection is made, flushed and cleaned up inside one asyncio task,     *)
(* which may be cancelled wherever it awaits.  The client, the server and  *)
(* the network are the environment: nats-py reconnects a lost connection   *)
(* by itself until it gives up.  Pings share nothing, so one is enough.    *)
(***************************************************************************)

CONSTANT Clients  \* what the client object offers, see Interfaces

(* Of the methods, flush is awaited and has to be a coroutine function;    *)
(* drain and close may be coroutine functions, plain ones or missing.      *)
Styles     == {"async", "sync", "none"}
Interfaces == [flush : BOOLEAN, drain : Styles, close : Styles]

ASSUME ClientsAssumption == Clients \subseteq Interfaces

VARIABLES
  client,  \* the interface of the client object
  limited, \* max_reconnect_attempts is not 0
  conn,    \* the connection, as the client object sees it
  pc,      \* where the ping is
  pending, \* what leaves the try block: the client or an exception
  tried,   \* the cleanup methods called
  result   \* what leaves ping

vars == <<client, limited, conn, pc, pending, tried, result>>

(* What a ping is given, and keeps.                                        *)
given == <<client, limited>>

PCs     == {"start", "connecting", "flush", "flushing", "drain", "draining",
            "close", "closing", "done"}
Awaits  == {"connecting", "flushing", "draining", "closing"}
Conns   == {"none", "up", "reconnecting", "closed"}
Open    == {"up", "reconnecting"}
Results == {"returned", "connect error", "flush error", "cleanup error", "cancelled"}

Init ==
  /\ client \in Clients /\ limited \in BOOLEAN
  /\ conn = "none"
  /\ pc = "start"
  /\ pending = "none"
  /\ tried = {}
  /\ result = "none"

(***************************************************************************)
(* The environment.                                                        *)
(***************************************************************************)

Drop      == conn = "up" /\ conn' = "reconnecting"
Reconnect == conn = "reconnecting" /\ conn' = "up"
GiveUp    == conn = "reconnecting" /\ conn' = "closed"

Network == (Drop \/ Reconnect \/ GiveUp)
           /\ UNCHANGED <<given, pc, pending, tried, result>>

(***************************************************************************)
(* The ping.                                                               *)
(***************************************************************************)

End(outcome) == pc' = "done" /\ result' = outcome

Connect ==
  /\ pc = "start"
  /\ pc' = "connecting"
  /\ UNCHANGED <<given, conn, pending, tried, result>>

ConnectEnds ==
  /\ pc = "connecting"
  /\ \/ conn' = "up" /\ pc' = "flush" /\ UNCHANGED result
     \/ End("connect error") /\ UNCHANGED conn
  /\ UNCHANGED <<given, pending, tried>>

(* Slip: the finally block forgets what left the try block.                *)
LeaveTryEmpty(outcome) ==
  /\ pc' = "drain"
  /\ UNCHANGED <<given, conn, pending, tried, result>>

(* Whatever leaves the try block, the finally block comes next.            *)
LeaveTry(outcome) ==
  /\ pc' = "drain"
  /\ pending' = outcome
  /\ UNCHANGED <<given, conn, tried, result>>

SkipFlush == pc = "flush" /\ ~ client.flush /\ LeaveTry("returned")

Flush ==
  /\ pc = "flush" /\ client.flush
  /\ pc' = "flushing"
  /\ UNCHANGED <<given, conn, pending, tried, result>>

(* Slip: a flush has no timeout.                                           *)
FlushEndsAnswered ==
  /\ pc = "flushing" /\ conn = "up"
  /\ LeaveTry("returned")

(* Only a server that is there answers; the client times out otherwise.    *)
FlushEnds ==
  /\ pc = "flushing"
  /\ \/ conn = "up" /\ LeaveTry("returned")
     \/ LeaveTry("flush error")

(* _close_async_client.  A cleanup that raises replaces what left the try  *)
(* block.                                                                  *)
SkipDrain ==
  /\ pc = "drain" /\ client.drain = "none"
  /\ pc' = "close"
  /\ UNCHANGED <<given, conn, pending, tried, result>>

(* Slip: a drain that returns no awaitable is the end of the cleanup.      *)
DrainSyncOnly ==
  /\ pc = "drain" /\ client.drain = "sync"
  /\ tried' = tried \cup {"drain"}
  /\ End(pending)
  /\ UNCHANGED <<given, conn, pending>>

(* A drain that returns no awaitable is followed by close.                 *)
DrainSync ==
  /\ pc = "drain" /\ client.drain = "sync"
  /\ tried' = tried \cup {"drain"}
  /\ \/ pc' = "close" /\ UNCHANGED result
     \/ End("cleanup error")
  /\ UNCHANGED <<given, conn, pending>>

DrainAsync ==
  /\ pc = "drain" /\ client.drain = "async"
  /\ tried' = tried \cup {"drain"}
  /\ pc' = "draining"
  /\ UNCHANGED <<given, conn, pending, result>>

(* Slip: the finally block returns, which drops the pending exception.     *)
DrainEndsReturning ==
  /\ pc = "draining"
  /\ \/ conn = "up" /\ conn' = "closed" /\ End("returned")
     \/ UNCHANGED conn /\ End("cleanup error")
  /\ UNCHANGED <<given, pending, tried>>

(* drain closes the connection when it is up.  It refuses one that is      *)
(* reconnecting or closed, and a connection lost under it makes its last   *)
(* flush fail before it closes anything.                                   *)
DrainEnds ==
  /\ pc = "draining"
  /\ \/ conn = "up" /\ conn' = "closed" /\ End(pending)
     \/ UNCHANGED conn /\ End("cleanup error")
  /\ UNCHANGED <<given, pending, tried>>

SkipClose ==
  /\ pc = "close" /\ client.close = "none"
  /\ End(pending)
  /\ UNCHANGED <<given, conn, pending, tried>>

CloseSync ==
  /\ pc = "close" /\ client.close = "sync"
  /\ tried' = tried \cup {"close"}
  /\ \/ conn' = "closed" /\ End(pending)
     \/ UNCHANGED conn /\ End("cleanup error")
  /\ UNCHANGED <<given, pending>>

CloseAsync ==
  /\ pc = "close" /\ client.close = "async"
  /\ tried' = tried \cup {"close"}
  /\ pc' = "closing"
  /\ UNCHANGED <<given, conn, pending, result>>

CloseEnds ==
  /\ pc = "closing"
  /\ \/ conn' = "closed" /\ End(pending)
     \/ UNCHANGED conn /\ End("cleanup error")
  /\ UNCHANGED <<given, pending, tried>>

(* Slip: the cleanup is no finally block.                                  *)
CancelFlushAway ==
  /\ pc = "flushing"
  /\ End("cancelled")
  /\ UNCHANGED <<given, conn, pending, tried>>

(* CancelledError is raised in the task where it awaits, and no except     *)
(* clause catches it.                                                      *)
CancelFlush == pc = "flushing" /\ LeaveTry("cancelled")

CancelAway ==
  /\ pc \in Awaits \ {"flushing"}
  /\ End("cancelled")
  /\ UNCHANGED <<given, conn, pending, tried>>

Cancel == CancelFlush \/ CancelAway

Step ==
  \/ Connect \/ ConnectEnds \/ SkipFlush \/ Flush \/ FlushEnds
  \/ SkipDrain \/ DrainSync \/ DrainAsync \/ DrainEnds
  \/ SkipClose \/ CloseSync \/ CloseAsync \/ CloseEnds

Next == Step \/ Cancel \/ Network

Spec == Init /\ [][Next]_vars

(* An await ends: flushing by its timeout, draining by the drain timeout   *)
(* and that of its flush, closing at once.  Connecting ends when no server *)
(* is left that max_reconnect_attempts allows to try again, a try being    *)
(* limited by connect_timeout; with 0 nats-py never gives up a server that *)
(* cannot be reached, and ping sets connect no timeout of its own.         *)
Ends == pc = "connecting" => limited

FairSpec == Spec /\ WF_vars(Step /\ Ends)

(***************************************************************************)
(* Properties.                                                             *)
(***************************************************************************)

(* The client can be closed, one way or the other.                         *)
Closable == client.drain = "async" \/ client.close # "none"

TypeOK ==
  /\ client \in Clients /\ limited \in BOOLEAN
  /\ conn \in Conns
  /\ pc \in PCs
  /\ pending \in Results \cup {"none"}
  /\ tried \subseteq {"drain", "close"}
  /\ result \in Results \cup {"none"} /\ (result # "none" <=> pc = "done")

(* The connection of a client that can be closed outlives its ping only if *)
(* the caller gets the cleanup's own exception or was cancelled: a ping    *)
(* that returns, and one that fails because the flush did, leave nothing   *)
(* behind.  (factories.py 117-123, 275-285)                                *)
LeakIsReported ==
  Closable /\ pc = "done" /\ conn \in Open => result \in {"cleanup error", "cancelled"}

(* No ping that got a client it can close ends before it has tried to, not *)
(* even one cancelled in the flush; close is tried only where drain did    *)
(* not do the job.  (factories.py 122-123, 275-285)                        *)
CleanupIsTried ==
  /\ Closable /\ pc = "done" /\ conn # "none" => tried # {}
  /\ "close" \in tried /\ client.drain # "none" =>
       "drain" \in tried /\ client.drain = "sync"

(* A flush that fails or is cancelled never looks like a good ping; only   *)
(* an exception of the cleanup may take the place of its own.              *)
(* (factories.py 117-123)                                                  *)
FailureIsNotMasked ==
  /\ result = "returned" => pending = "returned"
  /\ pc = "done" /\ pending \in {"flush error", "cancelled"} =>
       result \in {pending, "cleanup error", "cancelled"}

(* The ping ends, cleanup included, once it has its client, however the    *)
(* connection fares; it gets to that point, or ends before it, unless      *)
(* max_reconnect_attempts is 0, which config.py allows.                    *)
(* (factories.py 91-96, 107-127, 273-285; config.py 307)                   *)
PingEnds ==
  /\ pc = "flush" ~> pc = "done"
  /\ limited => <>(pc = "done")

(* docs/api.md:221 and docs/examples.md:231 say that ping() cleans its     *)
(* temporary connection up when it is done.                                *)
PingCleansUp == pc = "done" => conn \notin Open

(***************************************************************************)
(* The inductive invariant behind the three of them: what is known of the  *)
(* cleanup at each place of the ping.                                      *)
(***************************************************************************)

CleanupInv ==
  /\ pc \in {"start", "connecting"} => conn = "none" /\ pending = "none"
  /\ pc \in {"start", "connecting", "flush", "flushing", "drain"} => tried = {}
  /\ pc = "draining" => client.drain = "async" /\ tried = {"drain"}
  /\ pc \in {"close", "closing"} =>
       /\ client.drain # "async"
       /\ client.drain = "sync" => "drain" \in tried
  /\ pc = "close" => "close" \notin tried
  /\ pc = "closing" => "close" \in tried
  /\ pc \in {"drain", "draining", "close", "closing"} => pending \in Results

IInv == TypeOK /\ CleanupInv /\ LeakIsReported /\ CleanupIsTried /\ FailureIsNotMasked

=============================================================================
