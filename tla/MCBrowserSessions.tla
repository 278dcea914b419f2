-------------------------- MODULE MCBrowserSessions --------------------------
EXTENDS BrowserSessions, TLC

CONSTANTS s1, s2, c1, c2

Symmetry == Permutations(Closers) \cup Permutations(Sessions)
=============================================================================
