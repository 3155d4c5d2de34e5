----------------------------- MODULE MCGpsInput -----------------------------
\* GpsInput for TLC: days of two ticks, a clock that is stepped either way, and
\* damaged dates before and after the days there are.
EXTENDS GpsInput

WrongDay == {0, 3}
Stepped == {-3, 0, 2}
=============================================================================
