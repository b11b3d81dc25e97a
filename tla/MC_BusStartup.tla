---------------------------- MODULE MC_BusStartup ----------------------------
EXTENDS BusStartup, TLC
=============================================================================
