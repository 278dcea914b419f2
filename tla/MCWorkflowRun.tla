---------------------------- MODULE MCWorkflowRun ----------------------------
EXTENDS WorkflowRun
=============================================================================
