---------------------------- MODULE MCResultProbe ----------------------------
EXTENDS ResultProbe
=============================================================================
