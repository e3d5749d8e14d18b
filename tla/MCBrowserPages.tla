----------------------------- MODULE MCBrowserPages -----------------------------
\* BrowserPages for TLC: the addresses are interchangeable.
EXTENDS BrowserPages, TLC

Symmetry == Permutations(Urls)
=============================================================================
