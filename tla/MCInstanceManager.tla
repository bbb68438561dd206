------------------------- MODULE MCInstanceManager -------------------------
\* Three callers, two keys, two objects.
EXTENDS InstanceManager, TLC
=============================================================================
