---------------------------- MODULE MCConfigLoad ----------------------------
\* One prefix, one integer and one Boolean field, two files and a text that is no
\* path.  "10" is read in base 10 by Atoi and ParseInt, "0x" by ParseInt only, "010"
\* differently by the two.
EXTENDS ConfigLoad, TLC

MCCharacter == {"prefix", "port", "echo", "config", "none", "help", "-", "=", ".", " ",
    "a", "b", "c", "d", "f", "g", "h", "t", "x", "0", "1"}
MCDefaults == [prefix |-> <<"a">>, port |-> 1, echo |-> FALSE]
MCAtoi == (<<"1", "0">> :> 10) @@ (<<"0", "1", "0">> :> 10)
MCParseInt == (<<"1", "0">> :> 10) @@ (<<"0", "1", "0">> :> 8) @@ (<<"0", "x">> :> 0)
MCParseBool == (<<"t">> :> TRUE) @@ (<<"f">> :> FALSE)
MCLower == "a" :> "a"
MCPath == {<<"f">>, <<"g">>}
Held(values) == [readable |-> TRUE, values |-> values]
MCFile == {[readable |-> FALSE, values |-> <<>>], Held([prefix |-> <<"b", ".">>]),
    Held([port |-> 2, echo |-> TRUE])}
Nothing == [f \in {} |-> {}]
MCEnvironment == {Nothing, "prefix" :> <<>>,
    [config |-> <<"f">>, prefix |-> <<".", "a">>, port |-> <<"0", "x">>],
    [config |-> <<"g">>, port |-> <<"0", "1", "0">>, echo |-> <<"f">>],
    [prefix |-> <<"c", ".", "a">>, echo |-> <<"1">>]}
Set(flag, joined, text) == [flag |-> flag, joined |-> joined, value |-> Plain(text)]
ConfigWord == [flag |-> "config", joined |-> FALSE, value |-> <<>>]
MCSetting == {Set("config", FALSE, <<"f">>), Set("config", TRUE, <<"g">>),
    Set("config", TRUE, <<>>), Set("config", FALSE, <<"h">>),
    Set("prefix", FALSE, <<"d", ".", "a">>), Set("prefix", TRUE, <<"a", " ">>),
    Set("prefix", TRUE, <<"a", ".", ".", "a">>),
    [flag |-> "prefix", joined |-> FALSE, value |-> ConfigWord],
    Set("port", FALSE, <<"0", "1", "0">>), Set("port", TRUE, <<"x">>),
    Set("echo", FALSE, <<"t">>), Set("echo", TRUE, <<"f">>)}
MCTrailing == {<<>>, <<ConfigWord>>, <<[ConfigWord EXCEPT !.flag = "h"]>>,
    <<[ConfigWord EXCEPT !.flag = "-"], ConfigWord, Plain(<<"g">>)>>,
    <<Plain(<<"t">>), ConfigWord, Plain(<<"g">>)>>}
=============================================================================
