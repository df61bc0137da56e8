-------------------------- MODULE MCKeycloakToken --------------------------
(* KeycloakToken for TLC: no retry to three of them, and status codes on   *)
(* both sides of every boundary _parse_token_response tests.               *)
EXTENDS KeycloakToken

MCRetries  == 0..3
MCStatuses == {199, 200, 299, 300, 400, 401, 403, 404, 408, 429, 499, 500, 503}

=============================================================================
