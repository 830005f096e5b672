------------------------------ MODULE CdpDecode ------------------------------
(***************************************************************************)
(* cdp.Decode (pkg/cdp/cdp.go): the framing of one datagram.  A sender put *)
(* the items of sent behind a header; what arrives may be cut anywhere, or *)
(* padded with fewer bytes than an item header has.  Decode walks over it  *)
(* and has each item of a registered type decoded by CdpItemReads.  An     *)
(* item is its type and the size its header declares.                      *)
(***************************************************************************)
EXTENDS CdpItemReads, Sequences

HeaderSize == 20
DataItemHeaderSize == 4

\* What a sender puts into a datagram: items of a type and a size, the header of
\* the first where the packet header ends, each of the others where the payload
\* before it ends.
CONSTANT Sent

AfterItem(i) == i.start + DataItemHeaderSize + i.size

LaidOut(s) ==
    /\ s # <<>> => s[1].start = HeaderSize
    /\ \A k \in 1..Len(s) - 1 : s[k + 1].start = AfterItem(s[k])

ASSUME DecodeAssumption ==
    /\ Sent \subseteq Seq([type : Nat, size : Nat, start : Nat])
    /\ \A s \in Sent : LaidOut(s)

VARIABLES
    sent,       \* the items of the sender
    arrived,    \* how many bytes arrived
    known,      \* are the marker and the header string known ones
    idx,        \* where Decode is
    header,     \* the item header it read last, as a sequence
    items,      \* Packet.Items: type, offset and size of the payload
    outcome     \* "reading", "packet" or "error"

frameVars == <<sent, arrived, known, idx, header, items, outcome>>
vars == <<itemVars, frameVars>>

\* Where the first n items of sent end.
EndOf(n) == IF n = 0 THEN HeaderSize ELSE AfterItem(sent[n])

Return(result) ==
    /\ outcome' = result
    /\ UNCHANGED <<itemVars, sent, arrived, known, idx, header, items>>
-----------------------------------------------------------------------------
Init ==
    /\ ItemInit
    /\ sent \in Sent
    /\ arrived \in 0..EndOf(Len(sent)) + DataItemHeaderSize - 1
    /\ known \in BOOLEAN
    /\ idx = 0 /\ header = <<>> /\ items = <<>>
    /\ outcome = "reading"

\* A datagram too short for a header, a bad marker, a bad header string.
BadHeader ==
    /\ outcome = "reading" /\ idx = 0
    /\ arrived < HeaderSize \/ ~ known
    /\ Return("error")

GoodHeader ==
    /\ outcome = "reading" /\ idx = 0
    /\ arrived >= HeaderSize /\ known
    /\ idx' = HeaderSize
    /\ UNCHANGED <<itemVars, sent, arrived, known, header, items, outcome>>

InLoop == outcome = "reading" /\ idx >= HeaderSize /\ header = <<>>

\* Mutant: an item without a payload at the very end is taken for padding.
MoreThanHeader == arrived - idx > DataItemHeaderSize

More == arrived - idx >= DataItemHeaderSize

\* The type and the size at idx, which is the start of an item of sent.
ReadItemHeader ==
    /\ InLoop /\ More
    /\ \E k \in DOMAIN sent : sent[k].start = idx /\ header' = <<sent[k]>>
    /\ idx' = idx + DataItemHeaderSize
    /\ UNCHANGED <<itemVars, sent, arrived, known, items, outcome>>

InItem == outcome = "reading" /\ header # <<>>

\* Mutant: the bytes of the item header are counted as payload.
FitsWithHeader == arrived - idx + DataItemHeaderSize >= header[1].size

Fits == arrived - idx >= header[1].size

TruncatedItem ==
    /\ InItem /\ ~ Fits /\ decoder = "none"
    /\ Return("error")

Registered == header[1].type \in Types

StartItem ==
    /\ InItem /\ Fits /\ Registered /\ decoder = "none"
    /\ CallDecoder(header[1].type, header[1].size)
    /\ UNCHANGED frameVars

InDecoder ==
    /\ DecodeItem
    /\ UNCHANGED frameVars

BadItem ==
    /\ InItem /\ decoder = "error"
    /\ Return("error")

\* Mutant: an item that its decoder refuses is kept as an unknown one.
AppendAnyway ==
    /\ InItem /\ Fits
    /\ Registered => decoder \in {"item", "error"}
    /\ DecoderReturns
    /\ items' = Append(items, [type |-> header[1].type, from |-> idx,
                               size |-> header[1].size])
    /\ idx' = idx + header[1].size
    /\ header' = <<>>
    /\ UNCHANGED <<sent, arrived, known, outcome>>

\* What is decoded, or of an unregistered type, is appended.
AppendItem ==
    /\ InItem /\ Fits
    /\ \/ Registered /\ decoder = "item" /\ DecoderReturns
       \/ ~ Registered /\ UNCHANGED itemVars
    /\ items' = Append(items, [type |-> header[1].type, from |-> idx,
                               size |-> header[1].size])
    /\ idx' = idx + header[1].size
    /\ header' = <<>>
    /\ UNCHANGED <<sent, arrived, known, outcome>>

TrailingBytes ==
    /\ InLoop /\ ~ More /\ arrived - idx # 0
    /\ Return("error")

Accept ==
    /\ InLoop /\ ~ More /\ arrived - idx = 0
    /\ Return("packet")

Next ==
    \/ BadHeader \/ GoodHeader \/ ReadItemHeader \/ TruncatedItem \/ StartItem
    \/ InDecoder \/ BadItem \/ AppendItem \/ TrailingBytes \/ Accept

Spec == Init /\ [][Next]_vars
-----------------------------------------------------------------------------
\* The items found so far lie one behind the other from the end of the header
\* to idx, and idx stays in the datagram: no slice expression panics and no
\* payload overlaps another (cdp.go:131-142).
ItemsTile ==
    /\ idx <= arrived
    /\ items # <<>> => items[1].from = HeaderSize + DataItemHeaderSize
    /\ \A k \in 1..Len(items) - 1 :
          items[k + 1].from = items[k].from + items[k].size + DataItemHeaderSize
    /\ InLoop /\ items # <<>> =>
          items[Len(items)].from + items[Len(items)].size = idx

\* The datagram is the header and the first n items of sent, and each of those
\* of a registered type has a length that suits it.
IsWhole(n) ==
    /\ known /\ arrived = EndOf(n)
    /\ \A k \in 1..n : sent[k].type \in Types =>
          Suits(Layout(sent[k].type), sent[k].size)

\* Decode accepts only whole datagrams, and returns the items that were sent,
\* all of them and in their order, the unknown ones included: a cut in the
\* middle of an item never gives a packet (cdp.go:97-170).
PacketIsWhole ==
    outcome = "packet" =>
        /\ IsWhole(Len(items))
        /\ \A k \in DOMAIN items :
              items[k] = [type |-> sent[k].type, size |-> sent[k].size,
                          from |-> sent[k].start + DataItemHeaderSize]

\* It refuses no whole datagram, an empty item at its end included
\* (cdp.go:95-105, 130-170).
WholeIsAccepted == outcome = "error" => \A n \in 0..Len(sent) : ~ IsWhole(n)
-----------------------------------------------------------------------------
\* What carries them: the items found are the first of those sent, idx is where
\* they end or behind the header of the next one, and what the decoder is at is
\* that item.
ItemsFound ==
    /\ sent \in Sent /\ arrived \in Nat /\ idx \in 0..arrived
    /\ items \in Seq([type : Nat, size : Nat, from : Nat]) /\ Len(items) <= Len(sent)
    /\ \A k \in 1..Len(items) :
          /\ items[k] = [type |-> sent[k].type, size |-> sent[k].size,
                         from |-> sent[k].start + DataItemHeaderSize]
          /\ sent[k].type \in Types => Suits(Layout(sent[k].type), sent[k].size)
    /\ IF idx = 0
       THEN items = <<>> /\ header = <<>>
       ELSE /\ known
            /\ IF header = <<>> THEN idx = EndOf(Len(items))
               ELSE /\ Len(items) < Len(sent)
                    /\ header = <<sent[Len(items) + 1]>>
                    /\ idx = sent[Len(items) + 1].start + DataItemHeaderSize

DecoderAtItem ==
    decoder # "none" =>
        header # <<>> /\ Fits /\ type = header[1].type /\ len = header[1].size

DecodeInv ==
    ItemInv /\ ItemsFound /\ DecoderAtItem /\ PacketIsWhole /\ WholeIsAccepted
=============================================================================
