-------------------------- MODULE MCTransportTest --------------------------
\* TransportTest.cfg checks three rounds of the reset loop.
EXTENDS TransportTest
=============================================================================
