------------------------------- MODULE MCFifo -------------------------------
EXTENDS CdiFifo
CONSTANTS w1, w2, a, b
=============================================================================
