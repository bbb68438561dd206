-------------------------- MODULE MCModbusServer --------------------------
\* Three connections, a limit of two, two accept goroutines.
EXTENDS ModbusServer, TLC
=============================================================================
