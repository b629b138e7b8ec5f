---------------------------- MODULE MCBotThreads ----------------------------
\* Finite instances of BotThreads; the close requests are model values.
EXTENDS BotThreads, TLC
=============================================================================
