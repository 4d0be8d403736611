-------------------------- MODULE MCCapacityRecovery --------------------------
EXTENDS CapacityRecovery
===============================================================================
