--------------------------- MODULE MCLayerLoader ---------------------------
EXTENDS LayerLoader
=============================================================================
