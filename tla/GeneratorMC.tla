---------------------------- MODULE GeneratorMC ----------------------------
EXTENDS Generator, TLC
=============================================================================
