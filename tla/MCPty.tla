-------------------------------- MODULE MCPty ---------------------------------
EXTENDS Pty
==============================================================================
