------------------------------ MODULE MCEventLog ------------------------------
EXTENDS EventLog
=============================================================================
