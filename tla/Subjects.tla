------------------------------ MODULE Subjects ------------------------------
(***************************************************************************)
(* What the bridge puts into NATS subjects: zone slugs and prefixes.  A    *)
(* text is a sequence of characters.                                       *)
(***************************************************************************)
EXTENDS Integers, Sequences, FiniteSetsExt

CONSTANT Lower      \* strings.ToLower: character |-> character

Whitespace == {" ", "\t", "\n", "\r"}
Illegal == Whitespace \cup {"*", ">"}

\* strings.TrimSpace leaves nothing; it knows more whitespace than the slugs.
Blank(name) == \A k \in DOMAIN name : name[k] \in Whitespace \cup {"\f"}

slugifyZoneName(name) ==
    LET slug == [k \in DOMAIN name |->
                    IF name[k] \in Illegal \cup {"."} THEN "_" ELSE Lower[name[k]]]
        kept == {k \in DOMAIN name : slug[k] # "_"}
    IN  IF kept = {} THEN <<>> ELSE SubSeq(slug, Min(kept), Max(kept))

\* strings.Split(text, "."), as a set.
Tokens(text) ==
    LET dots == {k \in DOMAIN text : text[k] = "."}
        cuts == {0, Len(text) + 1} \cup dots
    IN  {SubSeq(text, cut + 1, Min({k \in cuts : k > cut}) - 1) :
             cut \in cuts \ {Len(text) + 1}}

\* Mutant: a dot at the end is let through.
ValidUpToLastDot(prefix) ==
    prefix # <<>> => \A token \in Tokens(prefix) :
        /\ token = <<>> => prefix[Len(prefix)] = "."
        /\ \A k \in DOMAIN token : token[k] \notin Illegal

\* validateSubjectPrefix returns nil.
ValidPrefix(prefix) ==
    prefix # <<>> => \A token \in Tokens(prefix) :
        /\ token # <<>>
        /\ \A k \in DOMAIN token : token[k] \notin Illegal
-----------------------------------------------------------------------------
\* What NATS takes for a subject to publish on, and for one token of it.
IsSubject(text) ==
    /\ text # <<>> /\ text[1] # "." /\ text[Len(text)] # "."
    /\ \A k \in DOMAIN text :
          /\ text[k] \notin Illegal
          /\ text[k] = "." => k < Len(text) /\ text[k + 1] # "."

IsToken(text) == IsSubject(text) /\ \A k \in DOMAIN text : text[k] # "."
=============================================================================
