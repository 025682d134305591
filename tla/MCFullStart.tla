---------------------------- MODULE MCFullStart ----------------------------
\* The tool on a card of two DSPs with one page per ring.
EXTENDS FullStart
=============================================================================
