------------------------------ MODULE MCAgentRun ------------------------------
EXTENDS AgentRun
=============================================================================
