--------------------------- MODULE MCForwardPass ---------------------------
EXTENDS ForwardPass
=============================================================================
