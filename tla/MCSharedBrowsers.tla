-------------------------- MODULE MCSharedBrowsers --------------------------
EXTENDS SharedBrowsers

CONSTANTS s1
=============================================================================
