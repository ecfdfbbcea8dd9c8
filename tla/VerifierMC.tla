----------------------------- MODULE VerifierMC -----------------------------
EXTENDS Verifier, TLC
=============================================================================
