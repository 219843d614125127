---------------------------- MODULE MCAuthSessions ----------------------------
(* Symmetry for AuthSessions: users and request slots are compared for     *)
(* equality only.                                                          *)
EXTENDS AuthSessions, TLC

Symmetry == Permutations(Users) \cup Permutations(Requests)
=============================================================================
