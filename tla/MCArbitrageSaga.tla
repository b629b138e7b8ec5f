--------------------------- MODULE MCArbitrageSaga ---------------------------
\* Finite instances of ArbitrageSaga: the trades are model values of the .cfg.
EXTENDS ArbitrageSaga, TLC
=============================================================================
