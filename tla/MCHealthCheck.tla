---------------------------- MODULE MCHealthCheck -----------------------------
EXTENDS HealthCheck

MCFds == 1..6
=============================================================================
