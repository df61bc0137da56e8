--------------------------- MODULE MCHealthCheck ---------------------------
(* HealthCheck for TLC: no service to three of them, every combination of  *)
(* what they do and of which are required.                                 *)
EXTENDS HealthCheck

MCSizes == 0..3

=============================================================================
