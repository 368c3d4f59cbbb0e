---------------------------- MODULE MCEventDrive ----------------------------
EXTENDS EventDrive

MCClocks == [r \in {50, 60} |-> IF r = 50 THEN 8 ELSE 7]
=============================================================================
