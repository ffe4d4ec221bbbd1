----------------------------- MODULE MCHedgeManager -----------------------------
EXTENDS HedgeManager
=================================================================================
