----------------------------- MODULE MCVerifier -----------------------------
(* Lists of up to MaxSecrets secrets; a cell for every handle.              *)
EXTENDS Verifier
=============================================================================
