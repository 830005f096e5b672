----------------------------- MODULE CdpItemReads -----------------------------
(***************************************************************************)
(* One data item being decoded by the decoder its type is registered with. *)
(* The state records which bytes of the payload the decoder has read.      *)
(***************************************************************************)
EXTENDS CdpItems

VARIABLES
    type, len,      \* the item
    at,             \* where the unread rest begins
    read,           \* offsets of the bytes read so far
    twice,          \* offsets of those read more than once
    decoder         \* where the decoder is, or what it returned

itemVars == <<type, len, at, read, twice, decoder>>

layout == Layout(type)

\* The offsets of the bytes of a field, or of some fields, of a structure at base.
Bytes(f, base) == base + f[1]..base + f[1] + f[2] - 1
Covered(fields, base) == UNION {Bytes(f, base) : f \in fields}
Overlap(fields, base) ==
    UNION {Bytes(p[1], base) \cap Bytes(p[2], base) :
              p \in {q \in fields \X fields : q[1] # q[2]}}

Reads(fields, base) ==
    /\ read' = read \cup Covered(fields, base)
    /\ twice' = twice \cup (read \cap Covered(fields, base)) \cup Overlap(fields, base)
-----------------------------------------------------------------------------
ItemInit ==
    /\ type = 0 /\ len = 0
    /\ at = 0 /\ read = {} /\ twice = {}
    /\ decoder = "none"

\* The decoder of type t is called with a payload of n bytes.
CallDecoder(t, n) ==
    /\ type' = t /\ len' = n
    /\ at' = 0 /\ read' = {} /\ twice' = {}
    /\ decoder' = "guard"

DecoderReturns ==
    /\ decoder' = "none"
    /\ UNCHANGED <<type, len, at, read, twice>>

\* The guard: errShort, or the fixed part is read.
TooShort ==
    /\ decoder = "guard" /\ len < layout.min
    /\ decoder' = "error"
    /\ UNCHANGED <<type, len, at, read, twice>>

ReadFixed ==
    /\ decoder = "guard" /\ len >= layout.min
    /\ Reads(layout.fields, 0)
    /\ at' = layout.from
    /\ decoder' = IF layout.tail = "ignored" THEN "item" ELSE "rest"
    /\ UNCHANGED <<type, len>>

ReadBytes ==
    /\ decoder = "rest" /\ layout.tail = "bytes"
    /\ Reads({bytes(at, len)}, 0)
    /\ at' = len
    /\ decoder' = "item"
    /\ UNCHANGED <<type, len>>

\* The decoders that divide refuse a remainder before they read an entry.
Uneven ==
    /\ decoder = "rest" /\ layout.tail = "counted"
    /\ (len - layout.from) % layout.stride # 0
    /\ decoder' = "error"
    /\ UNCHANGED <<type, len, at, read, twice>>

MoreEntries == len - at >= layout.stride

ReadEntry ==
    /\ decoder = "rest" /\ layout.tail \in {"array", "counted"} /\ MoreEntries
    /\ layout.tail = "counted" => (len - layout.from) % layout.stride = 0
    /\ Reads(layout.entry, at)
    /\ at' = at + layout.stride
    /\ UNCHANGED <<type, len, decoder>>

EndOfArray ==
    /\ decoder = "rest" /\ layout.tail \in {"array", "counted"} /\ ~ MoreEntries
    /\ layout.tail = "counted" => (len - layout.from) % layout.stride = 0
    /\ decoder' = IF at = len THEN "item" ELSE "error"
    /\ UNCHANGED <<type, len, at, read, twice>>

DecodeItem ==
    TooShort \/ ReadFixed \/ ReadBytes \/ Uneven \/ ReadEntry \/ EndOfArray
-----------------------------------------------------------------------------
\* No decoder reads past its payload, which would panic and end the bridge:
\* every guard covers every offset read after it (items.go:67-1381).
ReadsInPayload == read \subseteq 0..len - 1

\* An accepted item was read completely and no byte twice: the offsets of the
\* hand-written tables neither leave a gap nor overlap.  Only the bytes after
\* an item of fixed size are left unread (items.go:67-1381).
EveryByteOnce ==
    decoder = "item" =>
        /\ read = IF layout.tail = "ignored" THEN 0..layout.min - 1 ELSE 0..len - 1
        /\ twice = {}
-----------------------------------------------------------------------------
\* The payload lengths that suit a layout: its fixed part, and for an array a
\* whole number of entries.
Suits(layoutOf, n) ==
    /\ n >= layoutOf.min
    /\ layoutOf.tail \in {"array", "counted"} =>
          (n - layoutOf.from) % layoutOf.stride = 0

\* What carries these properties: the decoder is always right behind the bytes
\* it has read, at the end of the fixed part or of an entry, and what it returns
\* tells whether the length suits.
ItemInv ==
    /\ len \in Nat /\ at \in 0..len
    /\ read = 0..at - 1 /\ twice = {}
    /\ decoder # "none" => type \in Types
    /\ decoder = "guard" => at = 0
    /\ decoder = "rest" =>
          /\ layout.tail # "ignored" /\ len >= layout.min /\ at >= layout.from
          /\ layout.tail \in {"array", "counted"} => (at - layout.from) % layout.stride = 0
    /\ decoder = "item" =>
          Suits(layout, len) /\ at = IF layout.tail = "ignored" THEN layout.min ELSE len
    /\ decoder = "error" => ~ Suits(layout, len)
=============================================================================
