---------------------------- MODULE MCFeeConsensus ----------------------------
EXTENDS FeeConsensus
CONSTANTS r1, r2, r3
===============================================================================
