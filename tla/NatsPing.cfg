SPECIFICATION Spec
CONSTANT Clients <- NatsPy
INVARIANT PingCleansUp
CHECK_DEADLOCK FALSE
