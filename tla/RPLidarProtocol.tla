--------------------------- MODULE RPLidarProtocol ---------------------------
(***************************************************************************)
(* The RPLIDAR serial protocol as AP_Proximity_RPLidarA2 encodes it: the   *)
(* command and response bytes it compares with, and the field extraction   *)
(* of the packed scan sample.  A received byte is a record [b, pos]: b is  *)
(* the value the code sees; pos is an auxiliary tag that no code reads,    *)
(* the byte's position 0..4 in a scan sample the sensor sent, or NoPos.    *)
(***************************************************************************)
EXTENDS Integers

(* Protocol constants of AP_Proximity_RPLidarA2.h and the .cpp.            *)
RPLIDAR_PREAMBLE  == 165   \* 0xA5
RPLIDAR_CMD_SCAN  == 32    \* 0x20
RPLIDAR_CMD_RESET == 64    \* 0x40
INFO_TAG          == 82    \* 0x52, 'R' of the firmware text after a reset
DESCRIPTOR_LEN    == 7     \* sizeof(_descriptor)
SCAN_TEMPLATE     == <<165, 90, 5, 0, 0, 64, 129>>   \* A5 5A 05 00 00 40 81
HEALTH_TEMPLATE   == <<165, 90, 3, 0, 0, 0, 6>>      \* A5 5A 03 00 00 00 06
SCAN_LEN          == 5     \* sizeof(payload.sensor_scan)
HEALTH_LEN        == 3     \* sizeof(payload.sensor_health)
DIST_MIN_Q2       == 800   \* distance_min() = 0.20 m as distance_q2 / 4000

States == {"rp_unknown", "rp_resetted", "rp_responding", "rp_measurements", "rp_health"}
ResponseTypes == {"Descriptor", "SCAN", "EXPRESS", "Health"}

NoPos == -1
NoByte == [b |-> 0, pos |-> NoPos]   \* a never-written buffer slot (zeroed)

Bytes == 0..255
RxElem == [b : Bytes, pos : {NoPos} \cup 0..4]

-----------------------------------------------------------------------------
(* Field extraction of struct _sensor_scan (PACKED bit-fields).            *)
StartBit(p)    == p[0].b % 2
NotStartBit(p) == (p[0].b \div 2) % 2
CheckBit(p)    == p[1].b % 2
AngleQ6(p)     == p[1].b \div 2 + p[2].b * 128     \* 15-bit angle_q6
DistanceQ2(p)  == p[3].b + p[4].b * 256            \* 16-bit distance_q2

\* startbit == !not_startbit && checkbit
ValidScan(p) == StartBit(p) = 1 - NotStartBit(p) /\ CheckBit(p) = 1

\* The revolution-start test of the resync branch: (c & 0x03) == 0x01
ResyncMarker(c) == c % 4 = 1

IsSampleFrame(p) == \A i \in 0..4 : p[i].pos = i

=============================================================================
