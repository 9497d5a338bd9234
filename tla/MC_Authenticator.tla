-------------------------- MODULE MC_Authenticator --------------------------
(* Two connections submitting up to three logins, with and without a      *)
(* matching password.                                                     *)
EXTENDS Authenticator

MCClientIDs == {1, 2}
=============================================================================
