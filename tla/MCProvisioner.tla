--------------------------- MODULE MCProvisioner ---------------------------
(* Provisioner for TLC: the realm, the client and a client role, against   *)
(* every state Keycloak may start from.                                    *)
EXTENDS Provisioner, TLC

CONSTANTS p1, p2, p3

NoRoles   == << >>
TwiceRole == <<"admin", "admin">>

Symmetry == Permutations({p1, p2})

=============================================================================
