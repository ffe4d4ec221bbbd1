-------------------------- MODULE MCPauseController --------------------------
EXTENDS PauseController
=============================================================================
