---------------------------- MODULE MCConnector -----------------------------
EXTENDS Connector

CONSTANTS s0, s1, r1

MCShards   == {s0, s1}
MCOne      == {r1}
MCNone     == {}
MCSilent   == {s1}
=============================================================================
