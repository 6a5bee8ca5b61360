--------------------------- MODULE MCLdapSession ---------------------------
(* LdapSession with one or two connection slots and one known account. *)
EXTENDS LdapSession, TLC

CONSTANTS c1, c2, alice

OneConn == {c1}
MCConns == {c1, c2}
MCUsers == {alice}
Symmetry == Permutations(MCConns)
=============================================================================
