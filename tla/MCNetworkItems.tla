--------------------------- MODULE MCNetworkItems ---------------------------
EXTENDS NetworkItems
CONSTANTS c1, c2
MCFirstItems == <<"banana">>
=============================================================================
