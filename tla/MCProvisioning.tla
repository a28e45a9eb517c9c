--------------------------- MODULE MCProvisioning ---------------------------
EXTENDS Provisioning, TLC

CONSTANTS p1, t1, t2
=============================================================================
