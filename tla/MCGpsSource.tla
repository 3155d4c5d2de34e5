---------------------------- MODULE MCGpsSource ----------------------------
\* GpsSource for TLC.
EXTENDS GpsSource
=============================================================================
