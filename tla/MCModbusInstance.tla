-------------------------- MODULE MCModbusInstance --------------------------
\* Two callers, two channel models and room for two pollers.
EXTENDS ModbusInstance, TLC
=============================================================================
