---------------------------- MODULE MCGpsSerial ----------------------------
\* GpsSerial for TLC.
EXTENDS GpsSerial
=============================================================================
