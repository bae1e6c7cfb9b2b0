--------------------------- MODULE MCConnectivity ---------------------------
EXTENDS Connectivity, TLC
CONSTANTS a, b
Both == {joiner, shell}
=============================================================================
