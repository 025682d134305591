------------------------------ MODULE MCBench ------------------------------
\* Two processes, each any of the tools, on a card of one DSP.
EXTENDS Bench
=============================================================================
