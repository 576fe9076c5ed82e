------------------------------ MODULE MCSignIn ------------------------------
(* Instances of SignIn with short limits and a few paths. *)
EXTENDS SignIn

MCAsked == {"/login", "/scans", "/pricing"}
=============================================================================
