--------------------------- MODULE MCAgentSessions ---------------------------
EXTENDS AgentSessions, TLC
=============================================================================
