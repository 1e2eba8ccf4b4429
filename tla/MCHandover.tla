---------------------------- MODULE MCHandover ----------------------------
EXTENDS Handover
CONSTANTS a1, a2
===========================================================================
