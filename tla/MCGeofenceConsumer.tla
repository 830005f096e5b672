-------------------------- MODULE MCGeofenceConsumer --------------------------
\* Zones 1 and 2 are disjoint, zone 3 lies inside zone 2.
EXTENDS GeofenceConsumer

CONSTANTS t1, t2

MCSerial == {t1, t2}
MCZone == {1, 2, 3}
MCPlacement == {{}, {1}, {2}, {2, 3}}
=============================================================================
