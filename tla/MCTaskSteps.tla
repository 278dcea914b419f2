----------------------------- MODULE MCTaskSteps -----------------------------
EXTENDS TaskSteps
=============================================================================
