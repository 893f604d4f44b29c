---------------------------- MODULE MCAudioFeeder ----------------------------
\* The feeders of one call for TLC: the bounds are in the configuration.
EXTENDS AudioFeeder
=============================================================================
