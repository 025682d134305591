--------------------------- MODULE MCRuntimeLoad ---------------------------
\* The load tool with files of one to five words in pages of two.
EXTENDS RuntimeLoad
=============================================================================
