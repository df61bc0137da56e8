----------------------------- MODULE LoggedPing -----------------------------
(***************************************************************************)
(* NatsConnectionBuilder.check with the records log_function_boundary      *)
(* (function_logging.py 47-80) writes of it and of the functions below it: *)
(* check calls ping, ping calls connect and, whatever happens,             *)
(* _close_async_client.  The records carry no name of their task, so they  *)
(* are all a reader of the log has.                                        *)
(***************************************************************************)
EXTENDS NatsConnection, Naturals, Sequences, FiniteSets, Functions

VARIABLES
  open, \* the decorated calls that are running, the innermost last
  log   \* the records: [message, function]

loggedVars == <<vars, open, log>>

Decorated == {"check", "ping", "connect", "connect_kwargs", "_close_async_client"}

Write(message, functions) == [i \in DOMAIN functions |-> [message |-> message, function |-> functions[i]]]

(* The innermost n calls, in the order they end.                           *)
Innermost(n) == [i \in 1..n |-> open[Len(open) + 1 - i]]

Enter(functions) ==
  /\ open' = open \o functions
  /\ log' = log \o Write("function_start", functions)

(* Slip: a finally block writes the last record.                           *)
RecordAlways(outcome, functions) ==
  Write(IF outcome = "returned" THEN "function_end" ELSE "function_error", functions)

(* The wrapper records a return and an Exception; CancelledError is none.  *)
Record(outcome, functions) ==
  IF outcome = "cancelled" THEN << >>
  ELSE Write(IF outcome = "returned" THEN "function_end" ELSE "function_error", functions)

(* The innermost n calls end with one outcome, those around them with      *)
(* another.                                                                *)
Unwind(n, inner, outer) ==
  LET ended == Innermost(Len(open))
  IN  /\ open' = << >>
      /\ log' = log \o Record(inner, SubSeq(ended, 1, n)) \o Record(outer, SubSeq(ended, n + 1, Len(open)))

(* connect_kwargs is evaluated before connect_fn is called.                *)
BeginCheck ==
  /\ Connect
  /\ open' = <<"check", "ping", "connect">>
  /\ log' = log \o Write("function_start", <<"check", "ping", "connect", "connect_kwargs">>)
                \o Write("function_end", <<"connect_kwargs">>)

Connected ==
  /\ ConnectEnds
  /\ IF result' = "none"
     THEN open' = SubSeq(open, 1, Len(open) - 1) /\ log' = log \o Record("returned", Innermost(1))
     ELSE Unwind(Len(open), "connect error", "connect error")

Flushing == Flush /\ UNCHANGED <<open, log>>

(* The finally block calls _close_async_client at once.                    *)
BeginCleanup == (SkipFlush \/ FlushEnds) /\ Enter(<<"_close_async_client">>)

CancelledFlush == CancelFlush /\ Enter(<<"_close_async_client">>)

(* An end of the cleanup is the end of the check.  The innermost call has  *)
(* returned unless its own exception is what leaves.                       *)
Cleanup ==
  /\ \/ SkipDrain \/ DrainSync \/ DrainAsync \/ DrainEnds
     \/ SkipClose \/ CloseSync \/ CloseAsync \/ CloseEnds
  /\ IF result' = "none" THEN UNCHANGED <<open, log>>
     ELSE Unwind(1, IF result' = "cleanup error" THEN result' ELSE "returned", result')

Cancelled == CancelAway /\ Unwind(Len(open), "cancelled", "cancelled")

LoggedStep == BeginCheck \/ Connected \/ Flushing \/ BeginCleanup \/ Cleanup

LoggedNext ==
  \/ LoggedStep
  \/ CancelledFlush \/ Cancelled
  \/ Network /\ UNCHANGED <<open, log>>

LoggedInit == Init /\ open = << >> /\ log = << >>

LoggedSpec == LoggedInit /\ [][LoggedNext]_loggedVars

LoggedFairSpec == LoggedSpec /\ WF_loggedVars(LoggedStep /\ Ends)

(***************************************************************************)
(* Properties.                                                             *)
(***************************************************************************)

At(message, f) == {i \in DOMAIN log : log[i] = [message |-> message, function |-> f]}
Starts(f)      == At("function_start", f)
Closings(f)    == At("function_end", f) \cup At("function_error", f)

(* What a reader takes for still running.                                  *)
Unclosed == {f \in Decorated : Cardinality(Starts(f)) > Cardinality(Closings(f))}

(* The records of a check, read by themselves, tell how it ended, except   *)
(* that a cancelled one looks like one that still runs: until the end the  *)
(* unclosed records are those of the running calls; at the end they are    *)
(* none, or the task was cancelled and neither check nor ping is ever      *)
(* closed; both are closed by function_end just when the caller gets the   *)
(* client, also when a cleanup that fails takes the place of a             *)
(* cancellation; and a call is closed only after all those it started.     *)
(* (function_logging.py 55-78, factories.py 107-127, 273-285)              *)
LogTellsTheFate ==
  /\ result = "none" => Unclosed = Range(open)
  /\ result \notin {"none", "cancelled"} => Unclosed = {}
  /\ result = "cancelled" => {"check", "ping"} \subseteq Unclosed
  /\ \A f \in {"check", "ping"} :
       /\ At("function_end", f) # {} <=> result = "returned"
       /\ At("function_error", f) # {} <=> result \notin {"none", "returned", "cancelled"}
  /\ \A f, g \in Decorated : \A i \in Starts(f), j \in Starts(g), k \in Closings(f) :
       i < j /\ j < k => \E l \in Closings(g) : j < l /\ l < k

(***************************************************************************)
(* The inductive invariant behind it: the whole log, at every place of the *)
(* ping.                                                                   *)
(***************************************************************************)

Records ==
  [message : {"function_start", "function_end", "function_error"}, function : Decorated]

(* The log l has these messages, of these functions.                       *)
Reads(l, messages, functions) ==
  /\ l \in Seq(Records) /\ Len(l) = Len(messages)
  /\ \A i \in 1..Len(messages) : l[i] = [message |-> messages[i], function |-> functions[i]]

(* Who the records are about, in a ping that gets a client and in one that *)
(* does not.                                                               *)
Story ==
  <<"check", "ping", "connect", "connect_kwargs", "connect_kwargs", "connect",
    "_close_async_client", "_close_async_client", "ping", "check">>
ShortStory ==
  <<"check", "ping", "connect", "connect_kwargs", "connect_kwargs", "connect", "ping", "check">>

LogInv ==
  LET s == "function_start"
      e == "function_end"
      x == "function_error"
      Says(messages) == Reads(log, messages, Story)
  IN  /\ pending \in {"none", "returned", "flush error", "cancelled"}
      /\ pc = "start" => open = << >> /\ Says(<< >>)
      /\ pc = "connecting" => open = <<"check", "ping", "connect">> /\ Says(<<s, s, s, s, e>>)
      /\ pc \in {"flush", "flushing"} => open = <<"check", "ping">> /\ Says(<<s, s, s, s, e, e>>)
      /\ pc \in {"drain", "draining", "close", "closing"} =>
           open = <<"check", "ping", "_close_async_client">> /\ Says(<<s, s, s, s, e, e, s>>)
      /\ pc = "done" => open = << >>
      /\ result = "connect error" => Reads(log, <<s, s, s, s, e, x, x, x>>, ShortStory)
      /\ result = "returned" => Says(<<s, s, s, s, e, e, s, e, e, e>>)
      /\ result = "flush error" => Says(<<s, s, s, s, e, e, s, e, x, x>>)
      /\ result = "cleanup error" => Says(<<s, s, s, s, e, e, s, x, x, x>>)
      /\ result = "cancelled" =>
           \/ Says(<<s, s, s, s, e>>)
           \/ Says(<<s, s, s, s, e, e, s>>) \/ Says(<<s, s, s, s, e, e, s, e>>)

=============================================================================
