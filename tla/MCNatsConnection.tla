-------------------------- MODULE MCNatsConnection --------------------------
(* NatsConnection for TLC: every object connect_fn may return, or only     *)
(* nats-py's client, whose methods are coroutine functions.                *)
EXTENDS NatsConnection

NatsPy == {[flush |-> TRUE, drain |-> "async", close |-> "async"]}

=============================================================================
