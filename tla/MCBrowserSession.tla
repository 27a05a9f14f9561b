--------------------------- MODULE MCBrowserSession --------------------------
EXTENDS BrowserSession, TLC

\* Requests are alike.
Interchangeable == Permutations(Request)
=============================================================================
