---------------------------- MODULE MCOnboarding ----------------------------
(* Model-checking Onboarding with TLC: the constants are in onboarding.cfg. *)
EXTENDS Onboarding
=============================================================================
