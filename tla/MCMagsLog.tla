----------------------------- MODULE MCMagsLog -----------------------------
\* MagsLog for TLC.
EXTENDS MagsLog
=============================================================================
