--------------------------- MODULE MCNetworkMaker ---------------------------
\* A market maker that quotes two symbols over the wire.
EXTENDS NetworkMaker

CONSTANTS s1, s2
=============================================================================
