--------------------------- MODULE MCWlToX11Transfer ---------------------------
EXTENDS WlToX11Transfer
================================================================================
