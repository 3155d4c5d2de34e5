---------------------------- MODULE MCMagsWindow ----------------------------
\* MagsBoard, and MagsWindow in it, for TLC.
EXTENDS MagsBoard
=============================================================================
