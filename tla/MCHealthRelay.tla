--------------------------- MODULE MCHealthRelay ---------------------------
EXTENDS HealthRelay
=============================================================================
