--------------------------- MODULE MCEventManager ---------------------------
EXTENDS EventManager

MCDevices == {"sound", "mixer"}
=============================================================================
