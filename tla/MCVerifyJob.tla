----------------------------- MODULE MCVerifyJob -----------------------------
(* Small instances of VerifyJob for TLC.                                   *)
EXTENDS VerifyJob
=============================================================================
