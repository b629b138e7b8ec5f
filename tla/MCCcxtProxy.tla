---------------------------- MODULE MCCcxtProxy ----------------------------
\* Finite instances of CcxtProxy: the values are model values of the .cfg.
EXTENDS CcxtProxy, TLC
=============================================================================
