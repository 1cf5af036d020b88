---------------------------- MODULE MCBrowserSession ----------------------------
EXTENDS BrowserSession
CONSTANTS t1, t2
=============================================================================
