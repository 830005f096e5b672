------------------------------- MODULE CdpItems -------------------------------
(***************************************************************************)
(* The data item decoders of pkg/cdp/items.go.  A decoder is its layout:   *)
(* the shortest payload its guard lets through, the fields it reads from   *)
(* the fixed part, and what it does with the rest.  A field is an offset   *)
(* and a width; its value is not modelled.  The layouts keep the           *)
(* decoders' names and the order of the registry.                          *)
(***************************************************************************)
EXTENDS Integers

u8(off) == <<off, 1>>
i8(off) == u8(off)
u16(off) == <<off, 2>>
i16(off) == u16(off)
u32(off) == <<off, 4>>
i32(off) == u32(off)
f32(off) == u32(off)
u64(off) == <<off, 8>>
bytes(from, to) == <<from, to - from>>      \* b[from:to]

signalStrength(off) ==
    {u16(off), u16(off + 2), u16(off + 4), u16(off + 6), u16(off + 8), u16(off + 10)}

\* What follows the fixed part is ignored, taken whole as bytes or text, or is
\* an array of entries that a loop or a division cuts off.
Fixed(min, fields) ==
    [min |-> min, fields |-> fields, tail |-> "ignored", from |-> min,
     stride |-> 1, entry |-> {}]
Rest(min, fields, from) ==
    [min |-> min, fields |-> fields, tail |-> "bytes", from |-> from,
     stride |-> 1, entry |-> {}]
Array(min, fields, from, stride, entry) ==
    [min |-> min, fields |-> fields, tail |-> "array", from |-> from,
     stride |-> stride, entry |-> entry]
Counted(min, fields, from, stride, entry) ==
    [Array(min, fields, from, stride, entry) EXCEPT !.tail = "counted"]
-----------------------------------------------------------------------------
decodeNodeStatusChangeV2 == Fixed(6, {u32(0), u8(4), u8(5)})
decodeCDPStreamInformation ==
    Rest(17, {u32(0), u16(4), u32(6), u32(10), u16(14), u8(16)}, 17)
decodeHostnameAnnounce == Rest(0, {}, 0)
decodeInstanceAnnounce == Rest(0, {}, 0)
decodeAppSettingsChunk == Rest(260, {u16(0), u16(2), bytes(4, 260)}, 260)
decodeDistanceV2 ==
    Fixed(24, {u32(0), u32(4), u8(8), u8(9), u64(10), u32(18), u16(22)})
\* Mutant: the smoothing is read one byte early, over the flags.
PositionOverlapping ==
    Fixed(30, {u32(0), u64(4), i32(12), i32(16), i32(20), u16(24), u8(26), u8(27),
        u16(27)})
decodePositionV3 ==
    Fixed(30, {u32(0), u64(4), i32(12), i32(16), i32(20), u16(24), u8(26), u8(27),
        u16(28)})
decodeAnchorPositionStatusV3 ==
    Array(12, {u32(0), u64(4)}, 12, 12, {u32(0), u8(4), u8(5), i16(6), i16(8),
        u16(10)})
decodeDeviceActivityState ==
    Fixed(20, {u32(0), u8(4), i32(5), i32(9), i32(13), u8(17), u8(18), u8(19)})
decodeDeviceHardwareStatusV2 ==
    Rest(17, {u32(0), u32(4), u32(8), u16(12), u8(14), i8(15), u8(16)}, 17)
decodeAccelerometerV2 ==
    Fixed(25, {u32(0), u64(4), i32(12), i32(16), i32(20), u8(24)})
decodeGyroscopeV2 == Fixed(26, {u32(0), u64(4), i32(12), i32(16), i32(20), u16(24)})
decodeMagnetometerV2 ==
    Fixed(26, {u32(0), u64(4), i32(12), i32(16), i32(20), u16(24)})
decodePressureV2 == Fixed(20, {u32(0), u64(4), i32(12), u32(16)})
decodeQuaternionV2 ==
    Fixed(29, {u32(0), u64(4), i32(12), i32(16), i32(20), i32(24), u8(28)})
decodeTemperatureV2 == Fixed(16, {u32(0), u64(4), i16(12), u16(14)})
decodeDeviceNames == Rest(4, {u32(0)}, 4)
decodeSynchronization == Fixed(8, {u16(0), u16(2), u16(4), u16(6)})
decodeRoleReport == Rest(6, {u16(0), u16(2), u16(4)}, 6)
decodeUserDefinedV2 == Rest(4, {u32(0)}, 4)
decodeNetworkTime == Fixed(13, {u32(0), u64(4), u8(12)})
decodeAnchorHealthV5 ==
    Array(29, {u32(0), u8(4), u32(5), u32(9), u32(13), u32(17), u32(21), u16(25),
        u8(27), u8(28)}, 29, 5, {u32(0), u8(4)})
decodeGlobalPingTimingReportV1 == Counted(8, {u32(0), u32(4)}, 8, 4, {u32(0)})
decodeNtRealTimeMappingV1 == Fixed(32, {u64(0), u64(8), u64(16), u64(24)})
decodeBootloadProgress ==
    Fixed(36, {u32(0), u8(4), u16(5), bytes(7, 32), u8(32), u8(33), u16(34)})
decodeAnchorPositionStatusV4 ==
    Array(12, {u32(0), u64(4)}, 12, 8, {u32(0), u8(4), u8(5), u16(6)})
\* Mutant: the guard lets a payload one byte short through.
LinkMDStatusShort == Fixed(5, {u8(0), u8(1), u32(2)})
decodeLinkMDStatus == Fixed(6, {u8(0), u8(1), u32(2)})
decodePolarCoordinatesV1 ==
    Fixed(30, {u32(0), u64(4), u32(12), f32(16), f32(20), u16(24), u8(26), u8(27),
        u16(28)})
decodeBoundingBoxReport ==
    Fixed(24, {u32(0), u32(4), u32(8), u32(12), u32(16), u32(20)})
decodeBoundingCylinderReport ==
    Fixed(20, {u32(0), u32(4), u32(8), u32(12), u32(16)})
decodeImageDiscoveryV2 == Rest(3, {u8(0), u8(1), u8(2)}, 3)
decodeQuaternionV3 ==
    Fixed(31, {u32(0), u64(4), i32(12), i32(16), i32(20), i32(24), u8(28), u16(29)})
decodeUserDefinedV3 == Rest(12, {u32(0), u64(4)}, 12)
decodeAccelerometerV3 ==
    Fixed(25, {u32(0), u64(4), i32(12), i32(16), i32(20), u8(24)})
decodeGyroscopeV3 == Fixed(26, {u32(0), u64(4), i32(12), i32(16), i32(20), u16(24)})
decodeMagnetometerV3 ==
    Fixed(26, {u32(0), u64(4), i32(12), i32(16), i32(20), u16(24)})
decodeImageDiscoveryV1 ==
    Array(97, {bytes(0, 64), bytes(64, 96), u8(96)}, 97, 53, {u8(0), bytes(1, 33),
        bytes(33, 53)})
decodeTimedRxV5 ==
    Fixed(45, {u64(0), u64(8), u64(16), u32(24), u8(28), u8(41), u8(42), u8(43),
        u8(44)} \cup signalStrength(29))
decodeTickV4 == Fixed(18, {u64(0), u64(8), u8(16), u8(17)})
decodePingV5 ==
    Rest(37, {u32(0), u16(4), u8(6), u8(7), u64(8), u64(16), u8(36)} \cup
        signalStrength(24), 37)
decodeTickV5 == Fixed(19, {u64(0), u64(8), u8(16), u8(17), u8(18)})
decodeTimedRxV6 ==
    Fixed(37, {u64(0), u64(8), u32(16), u8(20), u8(33), u8(34), u8(35), u8(36)} \cup
        signalStrength(21))
decodeDeviceColor == Fixed(8, {u32(0), u8(4), u8(5), u8(6), u8(7)})
decodeDeviceStatusV3 ==
    Rest(23, {u32(0), u32(4), u32(8), u16(12), u8(14), i8(15), u8(16), u16(17),
        u16(19), u16(21)}, 23)
decodeClearDeviceColor == Fixed(5, {u32(0), u8(4)})
decodeGeofencerZoneInfo ==
    Array(64, {u16(0), bytes(2, 52), i32(52), i32(56), u32(60)}, 64, 8, {i32(0),
        i32(4)})
decodeTagZoneInfo == Counted(4, {u32(0)}, 4, 2, {u16(0)})
decodeDrawPrism ==
    Array(62, {bytes(0, 50), u8(50), u8(51), u8(52), u8(53), i32(54), i32(58)}, 62,
        8, {i32(0), i32(4)})
decodeClearObject == Fixed(50, {bytes(0, 50)})
-----------------------------------------------------------------------------
\* The registry: type ID, name, subject token, decoder.
registry == {
    <<\h010D, "NodeStatusChangeV2", "node_status_change", decodeNodeStatusChangeV2>>,
    <<\h011A, "CDPStreamInformation", "cdp_stream_information", decodeCDPStreamInformation>>,
    <<\h011B, "HostnameAnnounce", "hostname_announce", decodeHostnameAnnounce>>,
    <<\h011C, "InstanceAnnounce", "instance_announce", decodeInstanceAnnounce>>,
    <<\h0121, "AppSettingsChunk", "app_settings_chunk", decodeAppSettingsChunk>>,
    <<\h0127, "DistanceV2", "distance", decodeDistanceV2>>,
    <<\h0135, "PositionV3", "position", decodePositionV3>>,
    <<\h0136, "AnchorPositionStatusV3", "anchor_position_status", decodeAnchorPositionStatusV3>>,
    <<\h0137, "DeviceActivityState", "device_activity_state", decodeDeviceActivityState>>,
    <<\h0138, "DeviceHardwareStatusV2", "device_hardware_status", decodeDeviceHardwareStatusV2>>,
    <<\h0139, "AccelerometerV2", "accelerometer", decodeAccelerometerV2>>,
    <<\h013A, "GyroscopeV2", "gyroscope", decodeGyroscopeV2>>,
    <<\h013B, "MagnetometerV2", "magnetometer", decodeMagnetometerV2>>,
    <<\h013C, "PressureV2", "pressure", decodePressureV2>>,
    <<\h013D, "QuaternionV2", "quaternion", decodeQuaternionV2>>,
    <<\h013E, "TemperatureV2", "temperature", decodeTemperatureV2>>,
    <<\h013F, "DeviceNames", "device_names", decodeDeviceNames>>,
    <<\h0140, "Synchronization", "synchronization", decodeSynchronization>>,
    <<\h0141, "RoleReport", "role_report", decodeRoleReport>>,
    <<\h0148, "UserDefinedV2", "user_defined", decodeUserDefinedV2>>,
    <<\h0149, "NetworkTime", "network_time", decodeNetworkTime>>,
    <<\h014A, "AnchorHealthV5", "anchor_health", decodeAnchorHealthV5>>,
    <<\h014C, "GlobalPingTimingReportV1", "global_ping_timing_report", decodeGlobalPingTimingReportV1>>,
    <<\h015A, "NtRealTimeMappingV1", "nt_realtime_mapping", decodeNtRealTimeMappingV1>>,
    <<\h0160, "BootloadProgress", "bootload_progress", decodeBootloadProgress>>,
    <<\h0161, "AnchorPositionStatusV4", "anchor_position_status", decodeAnchorPositionStatusV4>>,
    <<\h0163, "LinkMDStatus", "link_md_status", decodeLinkMDStatus>>,
    <<\h0164, "PolarCoordinatesV1", "polar_coordinates", decodePolarCoordinatesV1>>,
    <<\h016A, "BoundingBoxReport", "bounding_box_report", decodeBoundingBoxReport>>,
    <<\h016B, "BoundingCylinderReport", "bounding_cylinder_report", decodeBoundingCylinderReport>>,
    <<\h0171, "ImageDiscoveryV2", "image_discovery", decodeImageDiscoveryV2>>,
    <<\h0178, "QuaternionV3", "quaternion", decodeQuaternionV3>>,
    <<\h0179, "UserDefinedV3", "user_defined", decodeUserDefinedV3>>,
    <<\h017A, "AccelerometerV3", "accelerometer", decodeAccelerometerV3>>,
    <<\h017B, "GyroscopeV3", "gyroscope", decodeGyroscopeV3>>,
    <<\h017C, "MagnetometerV3", "magnetometer", decodeMagnetometerV3>>,
    <<\h8009, "ImageDiscoveryV1", "image_discovery", decodeImageDiscoveryV1>>,
    <<\h802C, "TimedRxV5", "timed_rx", decodeTimedRxV5>>,
    <<\h802D, "TickV4", "tick", decodeTickV4>>,
    <<\h802F, "PingV5", "ping", decodePingV5>>,
    <<\h80B2, "TickV5", "tick", decodeTickV5>>,
    <<\h80B3, "TimedRxV6", "timed_rx", decodeTimedRxV6>>,
    <<\h80C0, "DeviceColor", "device_color", decodeDeviceColor>>,
    <<\h80D4, "DeviceStatusV3", "device_status", decodeDeviceStatusV3>>,
    <<\h80DA, "ClearDeviceColor", "clear_device_color", decodeClearDeviceColor>>,
    <<\h80DB, "GeofencerZoneInfo", "geofencer_zone_info", decodeGeofencerZoneInfo>>,
    <<\h80DC, "TagZoneInfo", "tag_zone_info", decodeTagZoneInfo>>,
    <<\h80DD, "DrawPrism", "draw_prism", decodeDrawPrism>>,
    <<\h80DE, "ClearObject", "clear_object", decodeClearObject>>}

Types == {entry[1] : entry \in registry}
Layout(type) == (CHOOSE entry \in registry : entry[1] = type)[4]
=============================================================================
