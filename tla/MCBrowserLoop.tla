---------------------------- MODULE MCBrowserLoop ----------------------------
EXTENDS BrowserLoop
=============================================================================
