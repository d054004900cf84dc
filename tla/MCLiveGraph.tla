----------------------------- MODULE MCLiveGraph ---------------------------
EXTENDS LiveGraph
=============================================================================
