------------------------------ MODULE CycleMC ------------------------------
EXTENDS Cycle
=============================================================================
