--------------------------- MODULE CdpDecodeProofs ---------------------------
(***************************************************************************)
(* Proofs about cdp.Decode and the decoders of the data items, for every   *)
(* list of items, of any length and sizes, cut or padded anywhere.         *)
(***************************************************************************)
EXTENDS CdpDecode, ListingProofs, TLAPS

\* The fields lie in the first n bytes, one behind the other.
Fills(fields, n) ==
    /\ n \in Nat
    /\ \A f \in fields : f[1] \in Nat /\ f[2] \in Nat \ {0} /\ f[1] + f[2] <= n
    /\ \A k \in 0..n - 1 : \E f \in fields : f[1] <= k /\ k < f[1] + f[2]
    /\ \A f, g \in fields :
          f # g => f[1] + f[2] <= g[1] \/ g[1] + g[2] <= f[1]

\* A table of offsets without a gap and without an overlap; an array is cut
\* into entries of one of seven sizes.
Tight(l) ==
    /\ Fills(l.fields, l.min) /\ l.from = l.min
    /\ l.tail \in {"ignored", "bytes", "array", "counted"}
    /\ l.tail \in {"array", "counted"} =>
          Fills(l.entry, l.stride) /\ l.stride \in {2, 4, 5, 8, 12, 53}

\* The tables of the fields, each with what it fills.
LEMMA TablesFill ==
  /\ Fills({u32(0), u8(4), u8(5)}, 6)
  /\ Fills({u32(0), u16(4), u32(6), u32(10), u16(14), u8(16)}, 17)
  /\ Fills({}, 0)
  /\ Fills({u16(0), u16(2), bytes(4, 260)}, 260)
  /\ Fills({u32(0), u32(4), u8(8), u8(9), u64(10), u32(18), u16(22)}, 24)
  /\ Fills({u32(0), u64(4), i32(12), i32(16), i32(20), u16(24), u8(26), u8(27),
           u16(28)}, 30)
  /\ Fills({u32(0), u64(4)}, 12)
  /\ Fills({u32(0), u8(4), u8(5), i16(6), i16(8), u16(10)}, 12)
  /\ Fills({u32(0), u8(4), i32(5), i32(9), i32(13), u8(17), u8(18), u8(19)}, 20)
  /\ Fills({u32(0), u32(4), u32(8), u16(12), u8(14), i8(15), u8(16)}, 17)
  /\ Fills({u32(0), u64(4), i32(12), i32(16), i32(20), u8(24)}, 25)
  /\ Fills({u32(0), u64(4), i32(12), i32(16), i32(20), u16(24)}, 26)
  /\ Fills({u32(0), u64(4), i32(12), u32(16)}, 20)
  /\ Fills({u32(0), u64(4), i32(12), i32(16), i32(20), i32(24), u8(28)}, 29)
  /\ Fills({u32(0), u64(4), i16(12), u16(14)}, 16)
  /\ Fills({u32(0)}, 4)
  /\ Fills({u16(0), u16(2), u16(4), u16(6)}, 8)
  /\ Fills({u16(0), u16(2), u16(4)}, 6)
  /\ Fills({u32(0), u64(4), u8(12)}, 13)
  /\ Fills({u32(0), u8(4), u32(5), u32(9), u32(13), u32(17), u32(21), u16(25), u8(27),
           u8(28)}, 29)
  /\ Fills({u32(0), u8(4)}, 5)
  /\ Fills({u32(0), u32(4)}, 8)
  /\ Fills({u64(0), u64(8), u64(16), u64(24)}, 32)
  /\ Fills({u32(0), u8(4), u16(5), bytes(7, 32), u8(32), u8(33), u16(34)}, 36)
  /\ Fills({u32(0), u8(4), u8(5), u16(6)}, 8)
  /\ Fills({u8(0), u8(1), u32(2)}, 6)
  /\ Fills({u32(0), u64(4), u32(12), f32(16), f32(20), u16(24), u8(26), u8(27),
           u16(28)}, 30)
  /\ Fills({u32(0), u32(4), u32(8), u32(12), u32(16), u32(20)}, 24)
  /\ Fills({u32(0), u32(4), u32(8), u32(12), u32(16)}, 20)
  /\ Fills({u8(0), u8(1), u8(2)}, 3)
  /\ Fills({u32(0), u64(4), i32(12), i32(16), i32(20), i32(24), u8(28), u16(29)}, 31)
  /\ Fills({bytes(0, 64), bytes(64, 96), u8(96)}, 97)
  /\ Fills({u8(0), bytes(1, 33), bytes(33, 53)}, 53)
  /\ Fills({u64(0), u64(8), u64(16), u32(24), u8(28), u8(41), u8(42), u8(43), u8(44)}
           \cup signalStrength(29), 45)
  /\ Fills({u64(0), u64(8), u8(16), u8(17)}, 18)
  /\ Fills({u32(0), u16(4), u8(6), u8(7), u64(8), u64(16), u8(36)} \cup
           signalStrength(24), 37)
  /\ Fills({u64(0), u64(8), u8(16), u8(17), u8(18)}, 19)
  /\ Fills({u64(0), u64(8), u32(16), u8(20), u8(33), u8(34), u8(35), u8(36)} \cup
           signalStrength(21), 37)
  /\ Fills({u32(0), u8(4), u8(5), u8(6), u8(7)}, 8)
  /\ Fills({u32(0), u32(4), u32(8), u16(12), u8(14), i8(15), u8(16), u16(17), u16(19),
           u16(21)}, 23)
  /\ Fills({u16(0), bytes(2, 52), i32(52), i32(56), u32(60)}, 64)
  /\ Fills({i32(0), i32(4)}, 8)
  /\ Fills({u16(0)}, 2)
  /\ Fills({bytes(0, 50), u8(50), u8(51), u8(52), u8(53), i32(54), i32(58)}, 62)
  /\ Fills({bytes(0, 50)}, 50)
BY DEF Fills, u8, i8, u16, i16, u32, i32, f32, u64, bytes, signalStrength

\* No decoder's table has a gap or an overlap (items.go:67-1381).
LEMMA DecodersTight ==
  /\ Tight(decodeNodeStatusChangeV2)
  /\ Tight(decodeCDPStreamInformation)
  /\ Tight(decodeHostnameAnnounce)
  /\ Tight(decodeInstanceAnnounce)
  /\ Tight(decodeAppSettingsChunk)
  /\ Tight(decodeDistanceV2)
  /\ Tight(decodePositionV3)
  /\ Tight(decodeAnchorPositionStatusV3)
  /\ Tight(decodeDeviceActivityState)
  /\ Tight(decodeDeviceHardwareStatusV2)
  /\ Tight(decodeAccelerometerV2)
  /\ Tight(decodeGyroscopeV2)
  /\ Tight(decodeMagnetometerV2)
  /\ Tight(decodePressureV2)
  /\ Tight(decodeQuaternionV2)
  /\ Tight(decodeTemperatureV2)
  /\ Tight(decodeDeviceNames)
  /\ Tight(decodeSynchronization)
  /\ Tight(decodeRoleReport)
  /\ Tight(decodeUserDefinedV2)
  /\ Tight(decodeNetworkTime)
  /\ Tight(decodeAnchorHealthV5)
  /\ Tight(decodeGlobalPingTimingReportV1)
  /\ Tight(decodeNtRealTimeMappingV1)
  /\ Tight(decodeBootloadProgress)
  /\ Tight(decodeAnchorPositionStatusV4)
  /\ Tight(decodeLinkMDStatus)
  /\ Tight(decodePolarCoordinatesV1)
  /\ Tight(decodeBoundingBoxReport)
  /\ Tight(decodeBoundingCylinderReport)
  /\ Tight(decodeImageDiscoveryV2)
  /\ Tight(decodeQuaternionV3)
  /\ Tight(decodeUserDefinedV3)
  /\ Tight(decodeAccelerometerV3)
  /\ Tight(decodeGyroscopeV3)
  /\ Tight(decodeMagnetometerV3)
  /\ Tight(decodeImageDiscoveryV1)
  /\ Tight(decodeTimedRxV5)
  /\ Tight(decodeTickV4)
  /\ Tight(decodePingV5)
  /\ Tight(decodeTickV5)
  /\ Tight(decodeTimedRxV6)
  /\ Tight(decodeDeviceColor)
  /\ Tight(decodeDeviceStatusV3)
  /\ Tight(decodeClearDeviceColor)
  /\ Tight(decodeGeofencerZoneInfo)
  /\ Tight(decodeTagZoneInfo)
  /\ Tight(decodeDrawPrism)
  /\ Tight(decodeClearObject)
BY TablesFill DEF Tight, Fixed, Rest, Array, Counted,
  decodeNodeStatusChangeV2, decodeCDPStreamInformation, decodeHostnameAnnounce,
  decodeInstanceAnnounce, decodeAppSettingsChunk, decodeDistanceV2, decodePositionV3,
  decodeAnchorPositionStatusV3, decodeDeviceActivityState,
  decodeDeviceHardwareStatusV2, decodeAccelerometerV2, decodeGyroscopeV2,
  decodeMagnetometerV2, decodePressureV2, decodeQuaternionV2, decodeTemperatureV2,
  decodeDeviceNames, decodeSynchronization, decodeRoleReport, decodeUserDefinedV2,
  decodeNetworkTime, decodeAnchorHealthV5, decodeGlobalPingTimingReportV1,
  decodeNtRealTimeMappingV1, decodeBootloadProgress, decodeAnchorPositionStatusV4,
  decodeLinkMDStatus, decodePolarCoordinatesV1, decodeBoundingBoxReport,
  decodeBoundingCylinderReport, decodeImageDiscoveryV2, decodeQuaternionV3,
  decodeUserDefinedV3, decodeAccelerometerV3, decodeGyroscopeV3, decodeMagnetometerV3,
  decodeImageDiscoveryV1, decodeTimedRxV5, decodeTickV4, decodePingV5, decodeTickV5,
  decodeTimedRxV6, decodeDeviceColor, decodeDeviceStatusV3, decodeClearDeviceColor,
  decodeGeofencerZoneInfo, decodeTagZoneInfo, decodeDrawPrism, decodeClearObject

\* A registered type has a tight table.
LEMMA LayoutTight == \A t \in Types : Tight(Layout(t))
<1>1. \A entry \in registry : Tight(entry[4])
  BY DecodersTight DEF registry
<1>2. \A t \in Types : \E entry \in registry : entry[1] = t
  BY DEF Types
<1> QED BY <1>1, <1>2 DEF Layout

\* Fields that fill n bytes are read from a structure at base without reading
\* a byte twice.
LEMMA FillsCovers ==
  ASSUME NEW fields, NEW n, NEW base \in Nat, Fills(fields, n)
  PROVE  Covered(fields, base) = base..base + n - 1 /\ Overlap(fields, base) = {}
<1>1. Covered(fields, base) = base..base + n - 1
  <2>1. ASSUME NEW k \in Covered(fields, base) PROVE k \in base..base + n - 1
    BY <2>1 DEF Covered, Bytes, Fills
  <2>2. ASSUME NEW k \in base..base + n - 1 PROVE k \in Covered(fields, base)
    <3>1. k - base \in 0..n - 1
      BY DEF Fills
    <3>2. PICK f \in fields : f[1] <= k - base /\ k - base < f[1] + f[2]
      BY <3>1 DEF Fills
    <3>3. k \in Bytes(f, base)
      BY <3>2 DEF Bytes, Fills
    <3> QED BY <3>3 DEF Covered
  <2> QED BY <2>1, <2>2
<1>2. Overlap(fields, base) = {}
  <2>1. ASSUME NEW f \in fields, NEW g \in fields, f # g
        PROVE  Bytes(f, base) \cap Bytes(g, base) = {}
    BY <2>1 DEF Bytes, Fills
  <2> QED BY <2>1 DEF Overlap
<1> QED BY <1>1, <1>2
-----------------------------------------------------------------------------
(***************************************************************************)
(* One item.                                                               *)
(***************************************************************************)
\* From the end of an entry to the end of the next one, or to one too short.
LEMMA Entries ==
  ASSUME NEW stride \in {2, 4, 5, 8, 12, 53}, NEW from \in Nat, NEW end \in Nat,
         from <= end, (end - from) % stride = 0
  PROVE  /\ (end + stride - from) % stride = 0
         /\ \A n \in Nat : end < n /\ n - end < stride => (n - from) % stride # 0
<1> DEFINE done == end - from
<1>1. done \in Nat /\ end + stride - from = done + stride /\ done % stride = 0
  OBVIOUS
<1>2. (done + stride) % stride = 0 /\ \A k \in 1..stride - 1 : (done + k) % stride # 0
  <2> HIDE DEF done
  <2> QED BY <1>1, Z3
<1>3. \A n \in Nat : end < n /\ n - end < stride =>
         n - end \in 1..stride - 1 /\ n - from = done + (n - end)
  OBVIOUS
<1> HIDE DEF done
<1> QED BY <1>1, <1>2, <1>3

\* The decoder's place after a read of what lies ahead of it.
LEMMA ReadsOn ==
  ASSUME NEW fields, NEW base, NEW next, ItemInv, at <= next, next \in Nat,
         Covered(fields, base) = at..next - 1, Overlap(fields, base) = {},
         Reads(fields, base)
  PROVE  read' = 0..next - 1 /\ twice' = {}
<1>1. at \in Nat /\ read = 0..at - 1 /\ twice = {}
  BY DEF ItemInv
<1> QED BY <1>1 DEF Reads

\* Before the first item nothing is read.
LEMMA ItemStart == ItemInit => ItemInv
BY DEF ItemInit, ItemInv

\* Decode calls a decoder with a fresh payload.
LEMMA ItemCalled ==
  ASSUME NEW t \in Types, NEW n \in Nat, CallDecoder(t, n) PROVE ItemInv'
BY DEF CallDecoder, ItemInv, layout

\* Each read of a decoder keeps to the payload and follows the last.
LEMMA ItemStep == ItemInv /\ DecodeItem => ItemInv'
<1> SUFFICES ASSUME ItemInv, DecodeItem PROVE ItemInv'
  OBVIOUS
<1>1. /\ type \in Types /\ type' = type /\ layout' = layout
      /\ len \in Nat /\ len' = len /\ at \in 0..len
  BY DEF ItemInv, DecodeItem, TooShort, ReadFixed, ReadBytes, Uneven, ReadEntry, EndOfArray,
    layout
<1>2. Tight(layout)
  BY <1>1, LayoutTight DEF layout
<1>3. /\ layout.min \in Nat /\ layout.from = layout.min
      /\ layout.tail \in {"ignored", "bytes", "array", "counted"}
      /\ layout.tail \in {"array", "counted"} => layout.stride \in {2, 4, 5, 8, 12, 53}
  BY <1>2 DEF Tight, Fills
<1>4. CASE TooShort
  BY <1>1, <1>3, <1>4 DEF TooShort, ItemInv, Suits
<1>5. CASE ReadFixed
  <2>1. /\ Covered(layout.fields, 0) = 0..layout.min - 1
        /\ Overlap(layout.fields, 0) = {}
    <3>1. Fills(layout.fields, layout.min)
      BY <1>2 DEF Tight
    <3>2. /\ Covered(layout.fields, 0) = 0..0 + layout.min - 1
          /\ Overlap(layout.fields, 0) = {}
      BY <3>1, FillsCovers
    <3> QED BY <1>3, <3>2
  <2>2. at = 0 /\ len >= layout.min /\ at' = layout.min
    BY <1>3, <1>5 DEF ReadFixed, ItemInv
  <2>3. read' = 0..at' - 1 /\ twice' = {}
    BY <1>3, <1>5, <2>1, <2>2, ReadsOn DEF ReadFixed
  <2>4. (at' - layout.from) % layout.stride = 0 \/ layout.tail \notin {"array", "counted"}
    BY <1>3, <2>2
  <2> QED BY <1>1, <1>3, <1>5, <2>2, <2>3, <2>4 DEF ReadFixed, ItemInv, Suits
<1>6. CASE ReadBytes
  <2>1. decoder = "rest" /\ layout.tail = "bytes" /\ at' = len /\ decoder' = "item"
    BY <1>6 DEF ReadBytes
  <2>2. /\ Covered({bytes(at, len)}, 0) = at..len - 1
        /\ Overlap({bytes(at, len)}, 0) = {}
    BY <1>1 DEF Covered, Overlap, Bytes, bytes
  <2>3. read' = 0..len - 1 /\ twice' = {}
    <3>1. Reads({bytes(at, len)}, 0) /\ at <= len
      BY <1>1, <1>6 DEF ReadBytes
    <3> QED BY <1>1, <2>2, <3>1, ReadsOn
  <2> QED BY <1>1, <1>3, <2>1, <2>3 DEF ItemInv, Suits
<1>7. CASE Uneven
  BY <1>1, <1>3, <1>7 DEF Uneven, ItemInv, Suits
<1>8. CASE ReadEntry
  <2>1. /\ decoder = "rest" /\ layout.tail \in {"array", "counted"} /\ decoder' = "rest"
        /\ at' = at + layout.stride /\ layout.stride \in Nat /\ at + layout.stride <= len
    BY <1>1, <1>3, <1>8 DEF ReadEntry, MoreEntries
  <2>2. /\ Covered(layout.entry, at) = at..at + layout.stride - 1
        /\ Overlap(layout.entry, at) = {}
    BY <1>1, <1>2, <2>1, FillsCovers DEF Tight
  <2>3. read' = 0..at' - 1 /\ twice' = {}
    <3>1. /\ Reads(layout.entry, at) /\ at <= at' /\ at' \in Nat
          /\ Covered(layout.entry, at) = at..at' - 1
      BY <1>1, <1>8, <2>1, <2>2 DEF ReadEntry
    <3> QED BY <2>2, <3>1, ReadsOn
  <2>4. (at - layout.from) % layout.stride = 0 /\ layout.from <= at
    BY <2>1 DEF ItemInv
  <2>5. (at' - layout.from) % layout.stride = 0
    BY <1>1, <1>3, <2>1, <2>4, Entries
  <2>6. len >= layout.min /\ at' \in 0..len /\ at' >= layout.from
    BY <1>1, <1>3, <2>1, <2>4 DEF ItemInv
  <2> QED BY <1>1, <2>1, <2>3, <2>5, <2>6 DEF ItemInv
<1>9. CASE EndOfArray
  <2>1. /\ decoder = "rest" /\ layout.tail \in {"array", "counted"}
        /\ at' = at /\ read' = read /\ twice' = twice /\ len - at < layout.stride
        /\ decoder' = IF at = len THEN "item" ELSE "error"
    BY <1>1, <1>3, <1>9 DEF EndOfArray, MoreEntries
  <2>2. /\ (at - layout.from) % layout.stride = 0 /\ layout.from <= at
        /\ len >= layout.min
    BY <2>1 DEF ItemInv
  <2>3. CASE at = len
    <3>1. Suits(layout, len)
      BY <1>1, <1>3, <2>1, <2>2, <2>3 DEF Suits
    <3> QED BY <1>1, <1>3, <2>1, <2>2, <2>3, <3>1 DEF ItemInv
  <2>4. CASE at # len
    <3>1. at < len /\ at \in Nat
      BY <1>1, <2>4
    <3>2. (len - layout.from) % layout.stride # 0
      <4>1. \A n \in Nat : at < n /\ n - at < layout.stride
                            => (n - layout.from) % layout.stride # 0
        <5> DEFINE stride == layout.stride
                   from == layout.from
        <5>1. /\ stride \in {2, 4, 5, 8, 12, 53} /\ from \in Nat
              /\ (at - from) % stride = 0 /\ from <= at
          BY <1>3, <2>1, <2>2
        <5> HIDE DEF stride, from
        <5>2. \A n \in Nat : at < n /\ n - at < stride => (n - from) % stride # 0
          BY <3>1, <5>1, Entries
        <5> QED BY <5>2 DEF stride, from
      <4>2. len \in Nat /\ at < len /\ len - at < layout.stride
        BY <1>1, <2>1, <3>1
      <4> QED BY <4>1, <4>2
    <3> QED BY <1>1, <1>3, <2>1, <2>4, <3>2 DEF ItemInv, Suits
  <2> QED BY <2>3, <2>4
<1> QED BY <1>4, <1>5, <1>6, <1>7, <1>8, <1>9 DEF DecodeItem
-----------------------------------------------------------------------------
(***************************************************************************)
(* The datagram.                                                           *)
(***************************************************************************)
LEMMA Elements ==
  ASSUME NEW S, NEW q \in Seq(S) PROVE Len(q) \in Nat /\ \A k \in 1..Len(q) : q[k] \in S
OBVIOUS

\* Where the items of a datagram begin and end.
LEMMA Ends ==
  ASSUME sent \in Sent
  PROVE  /\ sent \in Seq([type : Nat, size : Nat, start : Nat]) /\ Len(sent) \in Nat
         /\ \A n \in 0..Len(sent) : EndOf(n) \in Nat /\ EndOf(n) >= HeaderSize
         /\ \A n \in 0..Len(sent) - 1 :
               /\ sent[n + 1].start = EndOf(n)
               /\ EndOf(n + 1) = EndOf(n) + DataItemHeaderSize + sent[n + 1].size
         /\ \A m, n \in 0..Len(sent) : m < n => EndOf(m) + DataItemHeaderSize <= EndOf(n)
         /\ \A n \in 0..Len(sent) : \A k \in 1..Len(sent) :
               sent[k].start = EndOf(n) => k = n + 1
<1> DEFINE N == Len(sent)
<1>1. sent \in Seq([type : Nat, size : Nat, start : Nat]) /\ LaidOut(sent)
  BY DecodeAssumption
<1>2. N \in Nat /\ \A k \in 1..N : sent[k].size \in Nat /\ sent[k].start \in Nat
  <2>1. N \in Nat /\ \A k \in 1..N : sent[k] \in [type : Nat, size : Nat, start : Nat]
    BY <1>1, Elements
  <2> QED BY <2>1
<1>3. N # 0 => sent[1].start = HeaderSize
  BY <1>1 DEF LaidOut
<1>4. \A k \in 1..N - 1 : sent[k + 1].start = AfterItem(sent[k])
  BY <1>1 DEF LaidOut
<1> HIDE DEF N
<1> USE DEF HeaderSize, DataItemHeaderSize
<1>5. \A n \in 0..N : EndOf(n) \in Nat
  BY <1>2 DEF EndOf, AfterItem
<1>7. ASSUME NEW n \in 0..N - 1
      PROVE  sent[n + 1].start = EndOf(n) /\ EndOf(n + 1) = EndOf(n) + 4 + sent[n + 1].size
  <2>1. sent[n + 1].start = EndOf(n)
    <3>1. CASE n = 0
      BY <1>2, <1>3, <3>1 DEF EndOf
    <3>2. CASE n # 0
      BY <1>2, <1>4, <3>2 DEF EndOf
    <3> QED BY <3>1, <3>2
  <2> QED BY <1>2, <2>1 DEF EndOf, AfterItem
<1>8. \A m, n \in 0..N : m < n => EndOf(m) + 4 <= EndOf(n)
  <2> DEFINE Ordered == {n \in 0..N : \A m \in 0..n - 1 : EndOf(m) + 4 <= EndOf(n)}
  <2>1. 0 \in Ordered
    BY <1>2
  <2>2. ASSUME NEW k \in 0..N - 1, k \in Ordered PROVE k + 1 \in Ordered
    <3>1. EndOf(k + 1) >= EndOf(k) + 4 /\ EndOf(k) \in Nat
      <4>1. k \in 0..N /\ k + 1 \in 0..N /\ sent[k + 1].size \in Nat
        BY <1>2
      <4> QED BY <1>5, <1>7, <4>1
    <3>2. ASSUME NEW m \in 0..k PROVE EndOf(m) + 4 <= EndOf(k + 1)
      <4>1. EndOf(m) \in Nat /\ EndOf(k + 1) \in Nat
        BY <1>2, <1>5
      <4>2. m = k \/ EndOf(m) + 4 <= EndOf(k)
        BY <1>2, <2>2
      <4> QED BY <3>1, <4>1, <4>2
    <3> QED BY <1>2, <3>2
  <2>3. \A n \in 0..N : n \in Ordered
    <3> HIDE DEF Ordered
    <3> QED BY <1>2, <2>1, <2>2, Turns
  <2> QED BY <1>2, <2>3
<1>6. \A n \in 0..N : EndOf(n) \in Nat /\ EndOf(n) >= HeaderSize
  <2>1. EndOf(0) = HeaderSize
    BY DEF EndOf
  <2>2. ASSUME NEW n \in 0..N, n # 0 PROVE EndOf(0) + 4 <= EndOf(n)
    BY <1>2, <1>8, <2>2
  <2> QED BY <1>5, <2>1, <2>2
<1>9. ASSUME NEW n \in 0..N, NEW k \in 1..N, sent[k].start = EndOf(n) PROVE k = n + 1
  <2>1. k - 1 \in 0..N - 1 /\ k - 1 \in 0..N /\ (k - 1) + 1 = k
    BY <1>2
  <2>2. sent[k].start = EndOf(k - 1)
    BY <1>7, <2>1
  <2>3. k - 1 < n \/ n < k - 1 \/ k = n + 1
    BY <1>2
  <2>4. k - 1 < n => EndOf(k - 1) + 4 <= EndOf(n)
    BY <1>8, <2>1
  <2>5. n < k - 1 => EndOf(n) + 4 <= EndOf(k - 1)
    BY <1>8, <2>1
  <2>6. EndOf(n) \in Nat /\ EndOf(k - 1) = EndOf(n)
    BY <1>6, <1>9, <2>2
  <2> QED BY <2>3, <2>4, <2>5, <2>6
<1> QED BY <1>1, <1>2, <1>6, <1>7, <1>8, <1>9 DEF N

\* Where Decode stands between two items, or between a header and its payload.
LEMMA Standing ==
  ASSUME ItemsFound
  PROVE  /\ Len(items) \in 0..Len(sent)
         /\ InLoop => idx = EndOf(Len(items)) /\ known
         /\ InItem => /\ Len(items) + 1 \in 1..Len(sent) /\ Len(items) \in 0..Len(sent) - 1
                      /\ header[1] = sent[Len(items) + 1] /\ known
                      /\ idx = EndOf(Len(items)) + DataItemHeaderSize
                      /\ idx + header[1].size = EndOf(Len(items) + 1)
                      /\ header[1].type \in Nat /\ header[1].size \in Nat
<1>1. sent \in Sent /\ items \in Seq([type : Nat, size : Nat, from : Nat])
      /\ Len(items) <= Len(sent)
  BY DEF ItemsFound
<1>2. Len(items) \in 0..Len(sent)
  BY <1>1, Ends
<1>3. InLoop => idx = EndOf(Len(items)) /\ known
  BY DEF ItemsFound, InLoop, HeaderSize
<1>4. ASSUME InItem
      PROVE  /\ Len(items) + 1 \in 1..Len(sent) /\ Len(items) \in 0..Len(sent) - 1
             /\ header[1] = sent[Len(items) + 1] /\ known
             /\ idx = EndOf(Len(items)) + DataItemHeaderSize
             /\ idx + header[1].size = EndOf(Len(items) + 1)
             /\ header[1].type \in Nat /\ header[1].size \in Nat
  <2> DEFINE n == Len(items)
  <2>1. /\ known /\ n < Len(sent) /\ header = <<sent[n + 1]>>
        /\ idx = sent[n + 1].start + DataItemHeaderSize
    BY <1>4 DEF ItemsFound, InItem
  <2> HIDE DEF n
  <2>2. n + 1 \in 1..Len(sent) /\ n \in 0..Len(sent) - 1
    BY <1>1, <1>2, <2>1, Ends DEF n
  <2>3. header[1] = sent[n + 1] /\ sent[n + 1] \in [type : Nat, size : Nat, start : Nat]
    <3>1. sent \in Seq([type : Nat, size : Nat, start : Nat])
      BY <1>1, Ends
    <3>2. sent[n + 1] \in [type : Nat, size : Nat, start : Nat]
      BY <2>2, <3>1, Elements
    <3> QED BY <2>1, <3>2
  <2>4. /\ sent[n + 1].start = EndOf(n)
        /\ EndOf(n + 1) = EndOf(n) + DataItemHeaderSize + sent[n + 1].size
    BY <1>1, <2>2, Ends
  <2> QED BY <2>1, <2>2, <2>3, <2>4 DEF n, DataItemHeaderSize
<1> QED BY <1>2, <1>3, <1>4

\* Nothing has been found yet.
LEMMA FrameStart == Init => DecodeInv
<1> SUFFICES ASSUME Init PROVE DecodeInv
  OBVIOUS
<1>1. ItemInv /\ decoder = "none"
  BY ItemStart DEF Init, ItemInit
<1>2. sent \in Sent /\ idx = 0 /\ header = <<>> /\ items = <<>> /\ outcome = "reading"
  BY DEF Init
<1>3. EndOf(Len(sent)) \in Nat /\ Len(sent) \in Nat
  BY <1>2, Ends
<1>4. arrived \in Nat
  BY <1>3 DEF Init, DataItemHeaderSize
<1> QED BY <1>1, <1>2, <1>3, <1>4 DEF DecodeInv, ItemsFound, DecoderAtItem, PacketIsWhole,
     WholeIsAccepted

\* A step that goes on keeps the framing and what the decoder is at.
LEMMA HeaderStep ==
  ASSUME DecodeInv, GoodHeader \/ ReadItemHeader
  PROVE  ItemInv' /\ ItemsFound' /\ DecoderAtItem'
<1> USE DEF DecodeInv
<1>1. /\ UNCHANGED <<type, len, at, read, twice, decoder, sent, arrived, known, items>>
      /\ header = <<>>
  BY DEF GoodHeader, ReadItemHeader, itemVars, InLoop, ItemsFound
<1>2. ItemInv'
  BY <1>1 DEF ItemInv, layout
<1>3. decoder = "none" /\ DecoderAtItem'
  BY <1>1 DEF DecoderAtItem
<1>4. CASE GoodHeader
  <2>1. /\ idx = 0 /\ items = <<>> /\ header' = <<>> /\ idx' = HeaderSize /\ known
        /\ HeaderSize <= arrived
    BY <1>1, <1>4 DEF GoodHeader, ItemsFound, HeaderSize
  <2>2. Len(items) = 0 /\ EndOf(Len(items))' = HeaderSize
    BY <1>1, <2>1 DEF EndOf
  <2> QED BY <1>1, <1>2, <1>3, <2>1, <2>2 DEF ItemsFound, HeaderSize
<1>5. CASE ReadItemHeader
  <2> DEFINE n == Len(items)
  <2>1. /\ sent \in Sent /\ InLoop /\ arrived \in Nat /\ idx' = idx + 4 /\ idx' <= arrived
        /\ idx \in Nat
    BY <1>5 DEF ReadItemHeader, More, ItemsFound, DataItemHeaderSize
  <2>2. n \in 0..Len(sent) /\ idx = EndOf(n) /\ known
    BY <2>1, Standing
  <2>3. PICK k \in 1..Len(sent) : sent[k].start = idx /\ header' = <<sent[k]>>
    <3>1. DOMAIN sent = 1..Len(sent)
      BY <2>1, Ends
    <3> QED BY <1>5, <3>1 DEF ReadItemHeader
  <2> HIDE DEF n
  <2>4. k = n + 1
    BY <2>1, <2>2, <2>3, Ends
  <2>5. n < Len(sent) /\ header' = <<sent[n + 1]>> /\ idx' = sent[n + 1].start + 4
    <3>1. Len(sent) \in Nat
      BY <2>1, Ends
    <3> QED BY <2>1, <2>2, <2>3, <2>4, <3>1
  <2>6. header' # <<>>
    BY <2>5
  <2>7. idx' # 0 /\ idx' \in 0..arrived
    BY <2>1
  <2> QED BY <2>7, <1>1, <1>2, <1>3, <2>2, <2>5, <2>6 DEF ItemsFound, DataItemHeaderSize, n
<1> QED BY <1>4, <1>5

\* The decoder is called with the item that Decode is at.
LEMMA DecoderStep ==
  ASSUME DecodeInv, StartItem \/ InDecoder
  PROVE  ItemInv' /\ ItemsFound' /\ DecoderAtItem'
<1> USE DEF DecodeInv
<1>1. UNCHANGED <<sent, arrived, known, idx, header, items, outcome>>
  BY DEF StartItem, InDecoder, frameVars
<1>2. ItemsFound'
  BY <1>1 DEF ItemsFound, EndOf
<1>3. Fits' = Fits
  BY <1>1 DEF Fits
<1>4. CASE StartItem
  <2>1. /\ InItem /\ Fits /\ header[1].type \in Types
        /\ CallDecoder(header[1].type, header[1].size)
    BY <1>4 DEF StartItem, Registered
  <2>2. header[1].size \in Nat
    BY <2>1, Standing
  <2>3. ItemInv'
    BY <2>1, <2>2, ItemCalled
  <2>4. DecoderAtItem'
    BY <1>1, <1>3, <2>1 DEF DecoderAtItem, CallDecoder, InItem
  <2> QED BY <1>2, <2>3, <2>4
<1>5. CASE InDecoder
  <2>1. ItemInv'
    BY <1>5, ItemStep DEF InDecoder
  <2>2. type' = type /\ len' = len /\ decoder # "none"
    BY <1>5 DEF InDecoder, DecodeItem, TooShort, ReadFixed, ReadBytes, Uneven, ReadEntry,
      EndOfArray
  <2>3. DecoderAtItem'
    BY <1>1, <1>3, <2>2 DEF DecoderAtItem
  <2> QED BY <1>2, <2>1, <2>3
<1> QED BY <1>4, <1>5

\* An item is appended where the next one of those sent is.
LEMMA AppendStep ==
  ASSUME DecodeInv, AppendItem
  PROVE  ItemInv' /\ ItemsFound' /\ DecoderAtItem'
<1> USE DEF DecodeInv
<1> DEFINE n == Len(items)
           Found == [type : Nat, size : Nat, from : Nat]
           new == [type |-> header[1].type, from |-> idx, size |-> header[1].size]
<1>1. /\ InItem /\ Fits /\ items' = Append(items, new) /\ header' = <<>>
      /\ idx' = idx + header[1].size /\ UNCHANGED <<sent, arrived, known>>
  BY DEF AppendItem
<1>2. /\ sent \in Sent /\ items \in Seq(Found) /\ arrived \in Nat /\ idx \in Nat
      /\ Len(sent) \in Nat /\ n \in Nat
  BY Ends DEF ItemsFound
<1>3. /\ n + 1 \in 1..Len(sent) /\ header[1] = sent[n + 1] /\ known
      /\ idx = EndOf(n) + DataItemHeaderSize /\ idx' = EndOf(n + 1)
      /\ header[1].type \in Nat /\ header[1].size \in Nat
      /\ sent[n + 1].start = EndOf(n)
  BY <1>1, <1>2, Standing, Ends
<1>4. new \in Found
  BY <1>2, <1>3
<1>5. /\ items' \in Seq(Found) /\ Len(items') = n + 1 /\ items'[n + 1] = new
      /\ \A k \in 1..n : items'[k] = items[k]
  <2> HIDE DEF new, Found
  <2> QED BY <1>1, <1>2, <1>4
<1>6. new = [type |-> sent[n + 1].type, size |-> sent[n + 1].size,
             from |-> sent[n + 1].start + DataItemHeaderSize]
  BY <1>3
<1>7. sent[n + 1].type \in Types => Suits(Layout(sent[n + 1].type), sent[n + 1].size)
  <2> SUFFICES ASSUME sent[n + 1].type \in Types
               PROVE  Suits(Layout(sent[n + 1].type), sent[n + 1].size)
    OBVIOUS
  <2>1. decoder = "item"
    BY <1>3 DEF AppendItem, Registered
  <2> QED BY <1>3, <2>1 DEF ItemInv, DecoderAtItem, layout
<1>8. decoder' = "none" /\ ItemInv'
  <2>1. CASE Registered
    BY <2>1 DEF AppendItem, DecoderReturns, ItemInv
  <2>2. CASE ~ Registered
    <3>1. UNCHANGED <<type, len, at, read, twice, decoder>>
      BY <2>2 DEF AppendItem, itemVars
    <3>2. decoder = "none"
      BY <2>2 DEF ItemInv, DecoderAtItem, Registered
    <3> QED BY <3>1, <3>2 DEF ItemInv, layout
  <2> QED BY <2>1, <2>2
<1>9. DecoderAtItem'
  BY <1>8 DEF DecoderAtItem
<1>10. /\ idx' \in 0..arrived /\ idx' # 0 /\ Len(items') <= Len(sent)
       /\ idx' = EndOf(Len(items))'
  <2>1. idx' <= arrived /\ idx' \in Nat
    BY <1>1, <1>2, <1>3 DEF Fits
  <2>2. idx' >= HeaderSize
    BY <1>2, <1>3, Ends
  <2>3. idx' = EndOf(Len(items))'
    BY <1>1, <1>3, <1>5 DEF EndOf
  <2> QED BY <1>1, <1>2, <1>3, <1>5, <2>1, <2>2, <2>3 DEF HeaderSize
<1>11. \A k \in 1..n + 1 :
          /\ items'[k] = [type |-> sent[k].type, size |-> sent[k].size,
                          from |-> sent[k].start + DataItemHeaderSize]
          /\ sent[k].type \in Types => Suits(Layout(sent[k].type), sent[k].size)
  <2> SUFFICES ASSUME NEW k \in 1..n + 1
      PROVE /\ items'[k] = [type |-> sent[k].type, size |-> sent[k].size,
                            from |-> sent[k].start + DataItemHeaderSize]
            /\ sent[k].type \in Types => Suits(Layout(sent[k].type), sent[k].size)
    OBVIOUS
  <2>1. CASE k = n + 1
    <3> HIDE DEF new, n
    <3> QED BY <1>5, <1>6, <1>7, <2>1
  <2>2. CASE k # n + 1
    <3>1. k \in 1..n
      BY <1>2, <2>2
    <3> QED BY <1>5, <3>1 DEF ItemsFound
  <2> QED BY <2>1, <2>2
<1> HIDE DEF new, Found
<1>12. ItemsFound'
  <2> HIDE DEF n
  <2>1. \A k \in 1..Len(items') : k \in 1..n + 1
    BY <1>5
  <2> QED BY <1>1, <1>2, <1>3, <1>5, <1>10, <1>11, <2>1 DEF ItemsFound, Found
<1> QED BY <1>8, <1>9, <1>12
\* A datagram that ends before the item that Decode is at does, or goes on
\* behind what it has found by less than an item header, is not whole.
LEMMA NoWhole ==
  ASSUME sent \in Sent, NEW n \in 0..Len(sent), arrived \in Nat,
         \/ EndOf(n) < arrived /\ arrived < EndOf(n) + DataItemHeaderSize
         \/ n # Len(sent) /\ EndOf(n) < arrived /\ arrived < EndOf(n + 1)
         \/ /\ n # Len(sent) /\ arrived >= EndOf(n + 1) /\ sent[n + 1].type \in Types
            /\ ~ Suits(Layout(sent[n + 1].type), sent[n + 1].size)
  PROVE  \A m \in 0..Len(sent) : ~ IsWhole(m)
<1> SUFFICES ASSUME NEW m \in 0..Len(sent), IsWhole(m) PROVE FALSE
  OBVIOUS
<1>1. /\ Len(sent) \in Nat /\ EndOf(m) \in Nat /\ EndOf(n) \in Nat
      /\ arrived = EndOf(m)
  BY Ends DEF IsWhole
<1>2. /\ m < n => EndOf(m) + 4 <= EndOf(n)
      /\ n < m => EndOf(n) + 4 <= EndOf(m)
  BY Ends DEF DataItemHeaderSize
<1>3. ASSUME n # Len(sent)
      PROVE  EndOf(n + 1) \in Nat /\ (n + 1 < m => EndOf(n + 1) + 4 <= EndOf(m))
             /\ EndOf(n) + 4 <= EndOf(n + 1)
  <2>1. n + 1 \in 0..Len(sent) /\ n < n + 1
    BY <1>1, <1>3
  <2> QED BY <2>1, Ends DEF DataItemHeaderSize
<1>4. m < n \/ m = n \/ m = n + 1 \/ n + 1 < m
  BY <1>1
<1>5. CASE EndOf(n) < arrived /\ arrived < EndOf(n) + DataItemHeaderSize
  BY <1>1, <1>2, <1>4, <1>5 DEF DataItemHeaderSize
<1>6. CASE n # Len(sent) /\ EndOf(n) < arrived /\ arrived < EndOf(n + 1)
  BY <1>1, <1>2, <1>3, <1>4, <1>6
<1>7. CASE /\ n # Len(sent) /\ arrived >= EndOf(n + 1) /\ sent[n + 1].type \in Types
           /\ ~ Suits(Layout(sent[n + 1].type), sent[n + 1].size)
  <2>1. EndOf(n + 1) <= EndOf(m) /\ EndOf(n) + 4 <= EndOf(n + 1) /\ EndOf(n + 1) \in Nat
    BY <1>1, <1>3, <1>7
  <2>2. n + 1 \in 1..m
    BY <1>1, <1>2, <1>4, <2>1
  <2> QED BY <1>7, <2>2 DEF IsWhole
<1> QED BY <1>5, <1>6, <1>7

\* What Decode returns tells whether the datagram is whole.
LEMMA ReturnStep ==
  ASSUME DecodeInv, BadHeader \/ TruncatedItem \/ BadItem \/ TrailingBytes \/ Accept
  PROVE  DecodeInv'
<1> USE DEF DecodeInv
<1> DEFINE n == Len(items)
<1>1. /\ UNCHANGED <<type, len, at, read, twice, decoder, sent, arrived, known, idx, header,
                    items>>
      /\ outcome = "reading"
  BY DEF BadHeader, TruncatedItem, BadItem, TrailingBytes, Accept, Return, itemVars, InLoop,
    InItem
<1>2. ItemInv' /\ DecoderAtItem'
  BY <1>1 DEF ItemInv, DecoderAtItem, layout, Fits
<1>3. ItemsFound'
  BY <1>1 DEF ItemsFound, EndOf
<1>4. /\ \A m : IsWhole(m)' = IsWhole(m)
      /\ Len(items)' = Len(items) /\ DOMAIN items' = DOMAIN items
  BY <1>1 DEF IsWhole, EndOf
<1>5. /\ sent \in Sent /\ arrived \in Nat /\ idx \in 0..arrived /\ n \in 0..Len(sent)
      /\ Len(sent) \in Nat
  BY Standing, Ends DEF ItemsFound
<1>6. CASE Accept
  <2>1. InLoop /\ arrived - idx = 0 /\ outcome' = "packet"
    BY <1>6 DEF Accept, Return
  <2>2. idx = EndOf(n) /\ known
    BY <2>1, Standing
  <2>3. arrived = EndOf(n)
    BY <1>5, <2>1, <2>2
  <2>4. DOMAIN items = 1..n
    BY Elements DEF ItemsFound
  <2>5. /\ \A k \in 1..n :
              /\ items[k] = [type |-> sent[k].type, size |-> sent[k].size,
                             from |-> sent[k].start + DataItemHeaderSize]
              /\ sent[k].type \in Types => Suits(Layout(sent[k].type), sent[k].size)
    BY DEF ItemsFound
  <2>6. IsWhole(n)
    BY <2>2, <2>3, <2>5 DEF IsWhole
  <2>7. PacketIsWhole'
    BY <1>1, <1>4, <2>4, <2>5, <2>6 DEF PacketIsWhole
  <2>8. WholeIsAccepted'
    BY <2>1 DEF WholeIsAccepted
  <2> QED BY <1>2, <1>3, <2>7, <2>8
<1>7. CASE BadHeader \/ TruncatedItem \/ BadItem \/ TrailingBytes
  <2>1. outcome' = "error"
    BY <1>7 DEF BadHeader, TruncatedItem, BadItem, TrailingBytes, Return
  <2>2. \A m \in 0..Len(sent) : ~ IsWhole(m)
    <3>1. CASE BadHeader
      <4>1. \A m \in 0..Len(sent) : EndOf(m) \in Nat /\ EndOf(m) >= HeaderSize
        BY <1>5, Ends
      <4> QED BY <1>5, <3>1, <4>1 DEF BadHeader, IsWhole, HeaderSize
    <3>2. CASE TrailingBytes
      <4>1. idx = EndOf(n) /\ arrived - idx # 0 /\ ~ (arrived - idx >= DataItemHeaderSize)
        BY <3>2, Standing DEF TrailingBytes, More
      <4>2. EndOf(n) < arrived /\ arrived < EndOf(n) + DataItemHeaderSize
        BY <1>5, <4>1 DEF DataItemHeaderSize
      <4> QED BY <1>5, <4>2, NoWhole
    <3>3. CASE TruncatedItem \/ BadItem
      <4>1. InItem
        BY <3>3 DEF TruncatedItem, BadItem
      <4>2. /\ n # Len(sent) /\ header[1] = sent[n + 1] /\ EndOf(n) \in Nat
            /\ idx = EndOf(n) + DataItemHeaderSize /\ header[1].size \in Nat
            /\ idx + header[1].size = EndOf(n + 1)
        BY <1>5, <4>1, Standing, Ends
      <4>3. EndOf(n) < arrived
        BY <1>5, <4>2 DEF DataItemHeaderSize
      <4>4. CASE TruncatedItem
        <5>1. ~ (arrived - idx >= header[1].size)
          BY <4>4 DEF TruncatedItem, Fits
        <5>2. arrived < EndOf(n + 1)
          BY <1>5, <4>2, <5>1
        <5> QED BY <1>5, <4>2, <4>3, <5>2, NoWhole
      <4>5. CASE BadItem
        <5>1. decoder = "error" /\ Fits /\ type = header[1].type /\ len = header[1].size
          BY <4>5 DEF BadItem, DecoderAtItem
        <5>2. type \in Types /\ ~ Suits(Layout(type), len)
          BY <5>1 DEF ItemInv, layout
        <5>3. arrived >= EndOf(n + 1)
          BY <1>5, <4>2, <5>1 DEF Fits
        <5> QED BY <1>5, <4>2, <5>1, <5>2, <5>3, NoWhole
      <4> QED BY <3>3, <4>4, <4>5
    <3> QED BY <1>7, <3>1, <3>2, <3>3
  <2>3. WholeIsAccepted' /\ PacketIsWhole'
    BY <1>1, <1>4, <2>1, <2>2 DEF WholeIsAccepted, PacketIsWhole
  <2> QED BY <1>2, <1>3, <2>3
<1> QED BY <1>6, <1>7

\* Every step of the framing loop and of the decoders keeps the invariant.
LEMMA DecodeStep == DecodeInv /\ [Next]_vars => DecodeInv'
<1> SUFFICES ASSUME DecodeInv, [Next]_vars PROVE DecodeInv'
  OBVIOUS
<1>1. CASE BadHeader \/ TruncatedItem \/ BadItem \/ TrailingBytes \/ Accept
  BY <1>1, ReturnStep
<1>2. CASE GoodHeader \/ ReadItemHeader \/ StartItem \/ InDecoder \/ AppendItem
  <2>1. ItemInv' /\ ItemsFound' /\ DecoderAtItem'
    BY <1>2, HeaderStep, DecoderStep, AppendStep
  <2>2. CASE GoodHeader \/ ReadItemHeader \/ StartItem \/ AppendItem
    <3>1. outcome' = "reading"
      BY <2>2 DEF GoodHeader, ReadItemHeader, StartItem, AppendItem, InLoop, InItem, frameVars
    <3> QED BY <2>1, <3>1 DEF DecodeInv, PacketIsWhole, WholeIsAccepted
  <2>3. CASE InDecoder
    <3>1. UNCHANGED frameVars
      BY <2>3 DEF InDecoder
    <3>2. PacketIsWhole' /\ WholeIsAccepted'
      BY <3>1 DEF DecodeInv, PacketIsWhole, WholeIsAccepted, IsWhole, EndOf, frameVars
    <3> QED BY <2>1, <3>2 DEF DecodeInv
  <2> QED BY <1>2, <2>2, <2>3
<1>3. CASE UNCHANGED vars
  <2> USE DEF vars, itemVars, frameVars
  <2>1. ItemInv' /\ DecoderAtItem'
    BY <1>3 DEF DecodeInv, ItemInv, DecoderAtItem, layout, Fits
  <2>2. ItemsFound'
    BY <1>3 DEF DecodeInv, ItemsFound, EndOf
  <2>3. PacketIsWhole' /\ WholeIsAccepted'
    BY <1>3 DEF DecodeInv, PacketIsWhole, WholeIsAccepted, IsWhole, EndOf
  <2> QED BY <2>1, <2>2, <2>3 DEF DecodeInv
<1> QED BY <1>1, <1>2, <1>3 DEF Next

\* DecodeInv is an invariant of cdp.Decode.
THEOREM DecodeInvariant == Spec => []DecodeInv
BY FrameStart, DecodeStep, PTL DEF Spec

\* No decoder reads past its payload, which would panic and end the bridge:
\* every guard covers every offset read after it (items.go:67-1381), for
\* payloads of every length.
THEOREM DecodersReadInside == Spec => []ReadsInPayload
<1>1. DecodeInv => ReadsInPayload
  BY DEF DecodeInv, ItemInv, ReadsInPayload
<1> QED BY <1>1, DecodeInvariant, PTL

\* An accepted item was read completely and no byte twice: the offsets of the
\* hand-written tables neither leave a gap nor overlap (items.go:67-1381).
THEOREM DecodersReadAll == Spec => []EveryByteOnce
<1>1. DecodeInv => EveryByteOnce
  BY DEF DecodeInv, ItemInv, EveryByteOnce
<1> QED BY <1>1, DecodeInvariant, PTL

\* Decode accepts only whole datagrams, and returns the items that were sent,
\* all of them and in their order (cdp.go:97-170), however many there are and
\* wherever the datagram was cut.
THEOREM OnlyWhole == Spec => []PacketIsWhole
<1>1. DecodeInv => PacketIsWhole
  BY DEF DecodeInv
<1> QED BY <1>1, DecodeInvariant, PTL

\* It refuses no whole datagram (cdp.go:95-105, 130-170).
THEOREM EveryWhole == Spec => []WholeIsAccepted
<1>1. DecodeInv => WholeIsAccepted
  BY DEF DecodeInv
<1> QED BY <1>1, DecodeInvariant, PTL

\* The items found so far lie one behind the other from the end of the header
\* to idx, and idx stays in the datagram (cdp.go:131-142).
THEOREM Tiling == Spec => []ItemsTile
<1>1. DecodeInv => ItemsTile
  <2> SUFFICES ASSUME DecodeInv PROVE ItemsTile
    OBVIOUS
  <2> USE DEF DecodeInv
  <2> DEFINE n == Len(items)
  <2>1. sent \in Sent /\ idx \in 0..arrived /\ arrived \in Nat /\ n \in 0..Len(sent)
        /\ Len(sent) \in Nat /\ n \in Nat
    BY Standing, Ends DEF ItemsFound
  <2>2. \A k \in 1..n : items[k].size = sent[k].size
                       /\ items[k].from = EndOf(k - 1) + DataItemHeaderSize
                       /\ items[k].from + items[k].size = EndOf(k)
    <3> SUFFICES ASSUME NEW k \in 1..n
                 PROVE  /\ items[k].size = sent[k].size
                        /\ items[k].from = EndOf(k - 1) + DataItemHeaderSize
                        /\ items[k].from + items[k].size = EndOf(k)
      OBVIOUS
    <3>1. items[k] = [type |-> sent[k].type, size |-> sent[k].size,
                      from |-> sent[k].start + DataItemHeaderSize]
      BY DEF ItemsFound
    <3>2. k - 1 \in 0..Len(sent) - 1 /\ (k - 1) + 1 = k
      BY <2>1
    <3>3. sent[k].start = EndOf(k - 1)
          /\ EndOf(k) = EndOf(k - 1) + DataItemHeaderSize + sent[k].size
      BY <2>1, <3>2, Ends
    <3> QED BY <3>1, <3>3
  <2>3. items # <<>> => n \in 1..n /\ 1 \in 1..n
    BY DEF ItemsFound
  <2>4. items # <<>> => items[1].from = HeaderSize + DataItemHeaderSize
    BY <2>2, <2>3 DEF EndOf
  <2>5. ASSUME NEW k \in 1..n - 1
        PROVE  items[k + 1].from = items[k].from + items[k].size + DataItemHeaderSize
    <3>1. k \in 1..n /\ k + 1 \in 1..n /\ (k + 1) - 1 = k
      BY <2>1
    <3> QED BY <2>2, <3>1
  <2>6. InLoop /\ items # <<>> => items[n].from + items[n].size = idx
    BY <2>2, <2>3, Standing
  <2>7. idx <= arrived
    BY <2>1
  <2> QED BY <2>4, <2>5, <2>6, <2>7 DEF ItemsTile
<1> QED BY <1>1, DecodeInvariant, PTL
=============================================================================
