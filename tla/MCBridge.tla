------------------------------ MODULE MCBridge ------------------------------
\* One sender, two disjoint zones, and datagrams that cannot be decoded, that
\* move the sender to either zone, or that hold an item json refuses.
EXTENDS Bridge

CONSTANT t1

MCSerial == {t1}
MCZone == {1, 2}
MCPlacement == {{}, {1}, {2}}
Position(zones) == [marshals |-> TRUE, position |-> TRUE, zones |-> zones]
Unmarshalable == [marshals |-> FALSE, position |-> FALSE, zones |-> {}]
Packet(items) == [malformed |-> FALSE, sender |-> t1, items |-> items]
Malformed == [malformed |-> TRUE, sender |-> t1, items |-> <<>>]
MCDatagram == {Malformed,
    Packet(<<Position({2}), Unmarshalable>>), Packet(<<Position({1})>>)}
=============================================================================
