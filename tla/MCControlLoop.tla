---------------------------- MODULE MCControlLoop ----------------------------
\* An instance of ControlLoop for TLC: c_alpha in halves, within its range, on
\* both sides of it, infinite and NaN; setpoints and gains that are finite (the
\* products and sums of the largest overflow), infinite and NaN.
EXTENDS ControlLoop

MCAlphas == {-1, 1, 3, PosInf, NaN}
MCSetpoints == {-3, PosInf, NaN}
MCGains == {2, PosInf, NaN}
=============================================================================
