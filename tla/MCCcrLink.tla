----------------------------- MODULE MCCcrLink -----------------------------
\* CcrLink for TLC.
EXTENDS CcrLink
=============================================================================
