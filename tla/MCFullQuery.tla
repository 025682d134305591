---------------------------- MODULE MCFullQuery ----------------------------
\* The query tool on a card of two DSPs with one page per ring.
EXTENDS FullQuery
=============================================================================
