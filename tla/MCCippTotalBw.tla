---------------------------- MODULE MCCippTotalBw ----------------------------
EXTENDS CippTotalBw
MCBandwidths == {0, 900, 1000, 1060, 250000}
=============================================================================
