------------------------ MODULE MCSimulatorInstance ------------------------
\* Two callers and one channel of each kind.
EXTENDS SimulatorInstance, TLC
=============================================================================
