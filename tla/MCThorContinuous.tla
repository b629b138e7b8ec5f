-------------------------- MODULE MCThorContinuous --------------------------
\* Finite instances of ThorContinuous.
EXTENDS ThorContinuous, TLC
=============================================================================
