--------------------------- MODULE MCVfioWrapper ---------------------------
\* Two wrappers on one endpoint and two signals, to either of them or to one twice.
EXTENDS VfioWrapper
=============================================================================
