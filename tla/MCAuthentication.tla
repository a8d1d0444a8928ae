-------------------------- MODULE MCAuthentication --------------------------
(***************************************************************************)
(* Two request threads on one user, who may become a super admin, enrol,   *)
(* log in with codes, and disable MFA or change the password again.        *)
(***************************************************************************)
EXTENDS Authentication, TLC

Symmetry == Permutations(Sessions) \cup Permutations(Passwords)
=============================================================================
