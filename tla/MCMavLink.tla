---------------------------- MODULE MCMavLink ----------------------------
\* MavLink for TLC.
EXTENDS MavLink
=============================================================================
