------------------------------ MODULE MCRetry ------------------------------
(* Retry for TLC: every max_attempts from 0 to 9, so the loop runs up to   *)
(* nine times.                                                             *)
EXTENDS Retry

MCLimits == 0..9

=============================================================================
