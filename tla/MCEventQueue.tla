--------------------------- MODULE MCEventQueue ----------------------------
EXTENDS EventQueue
=============================================================================
