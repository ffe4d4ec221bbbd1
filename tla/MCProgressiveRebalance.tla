----------------------- MODULE MCProgressiveRebalance -----------------------
EXTENDS ProgressiveRebalance
=============================================================================
