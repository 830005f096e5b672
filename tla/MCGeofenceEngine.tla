--------------------------- MODULE MCGeofenceEngine ---------------------------
\* Instances of the engine for TLC: two tags, zone 2 inside zone 1, so
\* that a tag stands outside, in zone 1, or in both.
EXTENDS EngineHistory

CONSTANTS t1, t2

MCSerial == {t1, t2}
MCZone == {1, 2}
MCPlacement == {{}, {1}, {1, 2}}
=============================================================================
