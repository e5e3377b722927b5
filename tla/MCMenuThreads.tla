----------------------------- MODULE MCMenuThreads -----------------------------
EXTENDS MenuThreads
=============================================================================
