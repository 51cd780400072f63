----------------------------- MODULE MCPairing ------------------------------
EXTENDS Pairing
=============================================================================
