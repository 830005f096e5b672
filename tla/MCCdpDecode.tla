---------------------------- MODULE MCCdpDecode ----------------------------
\* Every registered type alone, with every length up to three array entries and
\* one byte more; and up to three items of the types and sizes of Several: a
\* fixed one, two arrays, an unregistered one.
EXTENDS CdpDecode

CONSTANTS Entries, Several, Size, MaxItems

MaxLen(t) == Layout(t).min + Entries * Layout(t).stride + 1
Item(t, n, start) == [type |-> t, size |-> n, start |-> start]
Alone == UNION {{<<Item(t, n, HeaderSize)>> : n \in 0..MaxLen(t)} : t \in Types}

Behind(s) == IF s = <<>> THEN HeaderSize ELSE AfterItem(s[Len(s)])
Lists[n \in 0..MaxItems] ==
    IF n = 0 THEN {<<>>}
    ELSE Lists[n - 1] \cup {Append(s, Item(t, size, Behind(s))) :
                               s \in Lists[n - 1], t \in Several, size \in Size}

MCSent == Alone \cup Lists[MaxItems]
=============================================================================
