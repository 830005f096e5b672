---------------------------- MODULE MCZoneEvents ----------------------------
\* Names in byte order.  The first is blank for TrimSpace only, the second leaves
\* no slug, and "B" and "b ", and "C" and "c", leave the same.
EXTENDS ZoneEvents, TLC

MCName == 1..8
MCSpelling ==
    << <<"\f">>, <<"*", ".">>, <<"A", ".", "B">>, <<"B">>, <<"C">>, <<"a">>,
       <<"b", " ">>, <<"c">> >>
MCLower == ("A" :> "a") @@ ("B" :> "b") @@ ("C" :> "c") @@ ("a" :> "a") @@ ("b" :> "b")
    @@ ("c" :> "c") @@ ("\f" :> "\f")
MCZoneConfig == [name : MCName, vertices : {3}] \cup {[name |-> 4, vertices |-> 2]}
MCKnob == {-1, 0}
=============================================================================
