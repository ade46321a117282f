--------------------------- MODULE MCPairingExecutor ---------------------------
EXTENDS PairingExecutor
=============================================================================
