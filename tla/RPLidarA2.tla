----------------------------- MODULE RPLidarA2 -----------------------------
(***************************************************************************)
(* The serial decoder of AP_Proximity_RPLidarA2: update(), initialise(),   *)
(* reset_rplidar(), set_scan_mode(), the byte loop of get_readings() with  *)
(* its goto re-dispatch, parse_response_descriptor() and the framing half *)
(* of parse_response_data().                                               *)
(*                                                                         *)
(* The UART is two sequences shared with the environment: rx holds the     *)
(* bytes the sensor has sent and the driver not yet read, tx the commands  *)
(* the driver has written.  A received byte is a record [b, pos]: b is the *)
(* byte value the code sees, pos is an auxiliary tag the decoder never     *)
(* reads, giving the byte's position 0..4 in a scan sample the sensor sent *)
(* (NoPos for any other byte); it lets properties say whether a decoded    *)
(* sample was framed on the sensor's sample boundaries.                    *)
(*                                                                         *)
(* Time is the age of _last_distance_received_ms, counted in ticks and     *)
(* capped one above the longest timeout it is compared with, so every      *)
(* comparison the code makes keeps its outcome.                            *)
(***************************************************************************)
EXTENDS Integers, Sequences, RPLidarProtocol

CONSTANTS
  SYSINFO_LEN,       \* the 62 bytes of firmware text kept in _rp_systeminfo
  RESETTED_RETRIES,  \* _cnt > 5: bytes without 'R' tolerated in rp_resetted
  UNKNOWN_RETRIES,   \* _cnt > 10: bytes without a preamble in rp_unknown
  COMM_TIMEOUT,      \* COMM_ACTIVITY_TIMEOUT_MS, in ticks
  RESYNC_TIMEOUT     \* RESYNC_TIMEOUT, in ticks

ASSUME SYSINFO_LEN \in Nat \ {0}
ASSUME {RESETTED_RETRIES, UNKNOWN_RETRIES} \subseteq Nat
ASSUME COMM_TIMEOUT \in Nat /\ RESYNC_TIMEOUT \in Nat /\ COMM_TIMEOUT < RESYNC_TIMEOUT

VARIABLES
  rx, tx,               \* UART receive buffer and transmitted commands
  rpState,              \* _rp_state
  byteCount,            \* _byte_count, shared by all three frame buffers
  cnt,                  \* _cnt, shared by rp_resetted and rp_unknown
  syncError,            \* _sync_error (uint8_t)
  descriptorData,       \* _descriptor_data
  informationData,      \* _information_data
  payloadLength,        \* _payload_length
  responseType,         \* _response_type
  descriptor,           \* _descriptor[7]
  payload,              \* payload union, 5 bytes
  initialised,          \* _initialised
  sectorInitialised,    \* _sector_initialised
  distAge,              \* millis() - _last_distance_received_ms, capped
  distStamped,          \* _last_distance_received_ms != 0
  status,               \* status set by update() through set_status()
  nbytes,               \* loop counter of get_readings(); NotReading outside it
  decoded               \* history: the last sample parse_response_data()
                        \* accepted, and the ticks since (capped)

drvVars == <<rpState, byteCount, cnt, syncError, descriptorData, informationData,
             payloadLength, responseType, descriptor, payload, initialised,
             sectorInitialised, distAge, distStamped, status, nbytes, decoded>>

-----------------------------------------------------------------------------
(* Decoder values that depend on the model's constants.                  *)
AGE_CAP == RESYNC_TIMEOUT + 1
NotReading == -1
\* The age of the last accepted sample is only compared with COMM_TIMEOUT.
SAMPLE_AGE_CAP == COMM_TIMEOUT + 1
NoSample == [framed |-> TRUE, age |-> SAMPLE_AGE_CAP]
Statuses == {"NotConnected", "NoData", "Good"}

-----------------------------------------------------------------------------
(* Helpers that change state; each is used inside the action of the code  *)
(* path that calls it.                                                     *)

\* Mutant: the UART write of reset_rplidar() is missing.
reset_rplidar_nocmd ==
  /\ UNCHANGED tx
  /\ rpState' = "rp_resetted"

\* reset_rplidar(): write {A5, 40}, enter rp_resetted
reset_rplidar ==
  /\ tx' = Append(tx, RPLIDAR_CMD_RESET)
  /\ rpState' = "rp_resetted"

\* set_scan_mode(): write {A5, 20}, await the response descriptor
set_scan_mode ==
  /\ tx' = Append(tx, RPLIDAR_CMD_SCAN)
  /\ rpState' = "rp_responding"

\* Mutant: _payload_length taken from an unpacked sensor_scan struct whose
\* bit-fields are padded to 6 bytes.
parse_response_descriptor_unpacked(d) ==
  LET header == d[0].b = RPLIDAR_PREAMBLE /\ d[1].b = 90
      scan   == header /\ \A i \in 2..6 : d[i].b = SCAN_TEMPLATE[i+1]
      health == header /\ \A i \in 2..6 : d[i].b = HEALTH_TEMPLATE[i+1]
  IN /\ byteCount' = 0
     /\ descriptor' = [i \in 0..6 |-> NoByte]
     /\ rpState' = CASE scan   -> "rp_measurements"
                      [] health -> "rp_health"
                      [] header -> "rp_responding"
                      [] OTHER  -> "rp_unknown"
     /\ payloadLength' = CASE scan -> SCAN_LEN + 1 [] health -> HEALTH_LEN
                            [] OTHER -> payloadLength
     /\ responseType' = CASE scan -> "SCAN" [] health -> "Health"
                           [] OTHER -> "Descriptor"
     /\ distAge' = IF scan \/ health THEN 0 ELSE distAge
     /\ distStamped' = (distStamped \/ scan \/ health)

\* Mutant: the _byte_count = 0 after parse_response_descriptor() is missing.
parse_response_descriptor_keepcount(d) ==
  LET header == d[0].b = RPLIDAR_PREAMBLE /\ d[1].b = 90
      scan   == header /\ \A i \in 2..6 : d[i].b = SCAN_TEMPLATE[i+1]
      health == header /\ \A i \in 2..6 : d[i].b = HEALTH_TEMPLATE[i+1]
  IN /\ byteCount' = DESCRIPTOR_LEN
     /\ descriptor' = [i \in 0..6 |-> NoByte]
     /\ rpState' = CASE scan   -> "rp_measurements"
                      [] health -> "rp_health"
                      [] header -> "rp_responding"
                      [] OTHER  -> "rp_unknown"
     /\ payloadLength' = CASE scan -> SCAN_LEN [] health -> HEALTH_LEN
                            [] OTHER -> payloadLength
     /\ responseType' = CASE scan -> "SCAN" [] health -> "Health"
                           [] OTHER -> "Descriptor"
     /\ distAge' = IF scan \/ health THEN 0 ELSE distAge
     /\ distStamped' = (distStamped \/ scan \/ health)

\* parse_response_descriptor(d), followed by get_readings' _byte_count = 0.
\* The contents of _descriptor are overwritten before they are read again,
\* so the model clears them here.  The two templates exclude each other.
parse_response_descriptor(d) ==
  LET header == d[0].b = RPLIDAR_PREAMBLE /\ d[1].b = 90
      scan   == header /\ \A i \in 2..6 : d[i].b = SCAN_TEMPLATE[i+1]
      health == header /\ \A i \in 2..6 : d[i].b = HEALTH_TEMPLATE[i+1]
  IN /\ byteCount' = 0
     /\ descriptor' = [i \in 0..6 |-> NoByte]
     /\ rpState' = CASE scan   -> "rp_measurements"
                      [] health -> "rp_health"
                      [] header -> "rp_responding"
                      [] OTHER  -> "rp_unknown"
     /\ payloadLength' = CASE scan -> SCAN_LEN [] health -> HEALTH_LEN
                            [] OTHER -> payloadLength
     /\ responseType' = CASE scan -> "SCAN" [] health -> "Health"
                           [] OTHER -> "Descriptor"
     /\ distAge' = IF scan \/ health THEN 0 ELSE distAge
     /\ distStamped' = (distStamped \/ scan \/ health)

\* A payload parse_response_data() does not accept: an invalid SCAN sample
\* counts a sync error (uint8_t), a health payload is only logged, any
\* other response type falls to the default case.
PayloadRejected(se) ==
  /\ syncError' = IF responseType = "SCAN" THEN (se + 1) % 256 ELSE se
  /\ UNCHANGED <<decoded, distAge, distStamped>>

parse_response_data(p, se) ==
  /\ byteCount' = 0
  /\ payload' = [i \in 0..4 |-> NoByte]
  /\ IF responseType = "SCAN" /\ ValidScan(p)
       THEN /\ decoded' = [framed |-> IsSampleFrame(p), age |-> 0]
            /\ distAge' = 0
            /\ distStamped' = TRUE
            /\ syncError' = se
       ELSE PayloadRejected(se)

-----------------------------------------------------------------------------
(* One iteration of the while loop of get_readings(), by _rp_state.  Each  *)
(* handler assigns every decoder variable; rx and nbytes are advanced by   *)
(* ReadByte.                                                               *)

FixedInLoop == <<initialised, sectorInitialised, status>>

\* Mutant: _byte_count <= 62, one more byte of firmware text kept.
InfoRoom_oneMore == byteCount <= SYSINFO_LEN

\* _byte_count < 62: room left in _rp_systeminfo
InfoRoom == byteCount < SYSINFO_LEN

\* case rp_resetted: collect the firmware text that follows a reset, then
\* request SCAN mode; give up after RESETTED_RETRIES bytes without an 'R'.
Resetted(e) ==
  /\ IF (e.b = INFO_TAG \/ informationData) /\ InfoRoom
       THEN /\ informationData' = TRUE
            /\ byteCount' = byteCount + 1
            /\ UNCHANGED <<cnt, rpState, tx>>
       ELSE IF informationData
       THEN \* "GOT RPLIDAR INFORMATION": set_scan_mode()
            /\ informationData' = FALSE
            /\ byteCount' = 0
            /\ set_scan_mode
            /\ UNCHANGED cnt
       ELSE IF cnt > RESETTED_RETRIES
       THEN /\ rpState' = "rp_unknown"
            /\ cnt' = 0
            /\ UNCHANGED <<informationData, byteCount, tx>>
       ELSE /\ cnt' = cnt + 1
            /\ UNCHANGED <<informationData, byteCount, rpState, tx>>
  /\ UNCHANGED <<syncError, descriptorData, payloadLength, responseType,
                 descriptor, payload, distAge, distStamped, decoded>>

\* case rp_responding: collect the 7-byte response descriptor.  Once
\* _descriptor_data is set it is never cleared, so from then on every byte
\* is taken as descriptor data, a preamble or not.
Responding(e) ==
  /\ IF e.b = RPLIDAR_PREAMBLE \/ descriptorData
       THEN LET d == [descriptor EXCEPT ![byteCount] = e]
            IN /\ descriptorData' = TRUE
               /\ IF byteCount + 1 = DESCRIPTOR_LEN
                    THEN parse_response_descriptor(d)
                    ELSE /\ descriptor' = d
                         /\ byteCount' = byteCount + 1
                         /\ rpState' = "rp_responding"
                         /\ UNCHANGED <<payloadLength, responseType, distAge,
                                        distStamped>>
       ELSE /\ rpState' = "rp_unknown"
            /\ UNCHANGED <<descriptorData, descriptor, byteCount, payloadLength,
                           responseType, distAge, distStamped>>
  /\ UNCHANGED <<tx, cnt, syncError, informationData, payload, decoded>>

PayloadComplete_early(n) == n = payloadLength - 1

\* millis() - _last_distance_received_ms > RESYNC_TIMEOUT
ResyncTimedOut == distAge > RESYNC_TIMEOUT

\* _byte_count == _payload_length after the increment
PayloadComplete(n) == n = payloadLength

\* Mutant: the resync branch takes the marker byte but leaves _sync_error set.
Measurements_keepsync(e) ==
  /\ IF syncError # 0 /\ ~ResyncMarker(e.b)
       THEN /\ IF ResyncTimedOut
                 THEN reset_rplidar
                 ELSE UNCHANGED <<tx, rpState>>
            /\ UNCHANGED <<syncError, payload, byteCount, decoded, distAge,
                           distStamped>>
       ELSE LET p == [payload EXCEPT ![byteCount] = e]
            IN IF PayloadComplete(byteCount + 1)
                 THEN /\ parse_response_data(p, syncError)
                      /\ UNCHANGED <<tx, rpState>>
                 ELSE /\ payload' = p
                      /\ byteCount' = byteCount + 1
                      /\ UNCHANGED <<tx, rpState, syncError, decoded, distAge,
                                     distStamped>>
  /\ UNCHANGED <<cnt, descriptorData, informationData, payloadLength,
                 responseType, descriptor>>

\* case rp_measurements: after a sync error skip to a byte that looks like
\* the start of a revolution, resetting the sensor if none comes within
\* RESYNC_TIMEOUT; otherwise collect the payload and parse it when full.
Measurements(e) ==
  /\ IF syncError # 0 /\ ~ResyncMarker(e.b)
       THEN /\ IF ResyncTimedOut
                 THEN reset_rplidar
                 ELSE UNCHANGED <<tx, rpState>>
            /\ UNCHANGED <<syncError, payload, byteCount, decoded, distAge,
                           distStamped>>
       ELSE LET p == [payload EXCEPT ![byteCount] = e]
            IN IF PayloadComplete(byteCount + 1)
                 THEN /\ parse_response_data(p, 0)
                      /\ UNCHANGED <<tx, rpState>>
                 ELSE /\ payload' = p
                      /\ byteCount' = byteCount + 1
                      /\ syncError' = 0
                      /\ UNCHANGED <<tx, rpState, decoded, distAge, distStamped>>
  /\ UNCHANGED <<cnt, descriptorData, informationData, payloadLength,
                 responseType, descriptor>>

\* case rp_health: every byte is dropped.
Health(e) ==
  UNCHANGED <<tx, rpState, byteCount, cnt, syncError, descriptorData,
              informationData, payloadLength, responseType, descriptor,
              payload, distAge, distStamped, decoded>>

\* case rp_unknown: a preamble switches to rp_responding and re-dispatches
\* the same byte there (goto STATE); other bytes are counted and, past
\* UNKNOWN_RETRIES, the sensor is reset.
Unknown(e) ==
  IF e.b = RPLIDAR_PREAMBLE
    THEN Responding(e)
    ELSE /\ IF cnt + 1 > UNKNOWN_RETRIES
              THEN /\ reset_rplidar
                   /\ cnt' = 0
              ELSE /\ cnt' = cnt + 1
                   /\ UNCHANGED <<tx, rpState>>
         /\ UNCHANGED <<byteCount, syncError, descriptorData, informationData,
                        payloadLength, responseType, descriptor, payload,
                        distAge, distStamped, decoded>>

\* while (nbytes-- > 0) { c = _uart->read(); switch (_rp_state) ... }
ReadByte ==
  /\ nbytes > 0
  /\ nbytes' = nbytes - 1
  /\ rx' = Tail(rx)
  /\ LET e == Head(rx) IN
       CASE rpState = "rp_resetted"     -> Resetted(e)
         [] rpState = "rp_responding"   -> Responding(e)
         [] rpState = "rp_measurements" -> Measurements(e)
         [] rpState = "rp_health"       -> Health(e)
         [] rpState = "rp_unknown"      -> Unknown(e)
  /\ UNCHANGED FixedInLoop

-----------------------------------------------------------------------------
(* update(): initialise if necessary, drain the bytes available, then set  *)
(* the health status from the age of the last distance.                    *)

StatusNow == IF ~distStamped \/ distAge > COMM_TIMEOUT THEN "NoData" ELSE "Good"

\* First calls: initialise() runs init_sectors() and returns false, so no
\* bytes are read and the status is set at once.
UpdateInitSectors ==
  /\ nbytes = NotReading
  /\ ~initialised /\ ~sectorInitialised
  /\ sectorInitialised' = TRUE
  /\ status' = StatusNow
  /\ UNCHANGED <<rx, tx, rpState, byteCount, cnt, syncError, descriptorData,
                 informationData, payloadLength, responseType, descriptor,
                 payload, initialised, distAge, distStamped, nbytes, decoded>>

\* initialise() resets the sensor and returns true (when still
\* uninitialised), then get_readings() takes nbytes = _uart->available().
UpdateBegin ==
  /\ nbytes = NotReading
  /\ initialised \/ sectorInitialised
  /\ IF ~initialised
       THEN /\ reset_rplidar
            /\ initialised' = TRUE
       ELSE UNCHANGED <<tx, rpState, initialised>>
  /\ nbytes' = Len(rx)
  /\ UNCHANGED <<rx, byteCount, cnt, syncError, descriptorData, informationData,
                 payloadLength, responseType, descriptor, payload,
                 sectorInitialised, distAge, distStamped, status, decoded>>

\* The loop has drained its nbytes: the timeout check of update().
UpdateEnd ==
  /\ nbytes = 0
  /\ nbytes' = NotReading
  /\ status' = StatusNow
  /\ UNCHANGED <<rx, tx, rpState, byteCount, cnt, syncError, descriptorData,
                 informationData, payloadLength, responseType, descriptor,
                 payload, initialised, sectorInitialised, distAge, distStamped,
                 decoded>>

Older(age, cap) == IF age < cap THEN age + 1 ELSE cap

\* AP_HAL::millis() advances, between two update() calls: one call drains
\* the few bytes available in microseconds, far below the 200 ms and 5 s
\* the ticks stand for.
Tick ==
  /\ nbytes = NotReading
  /\ distAge' = Older(distAge, AGE_CAP)
  /\ decoded' = [decoded EXCEPT !.age = Older(@, SAMPLE_AGE_CAP)]
  /\ UNCHANGED <<rx, tx, rpState, byteCount, cnt, syncError, descriptorData,
                 informationData, payloadLength, responseType, descriptor,
                 payload, initialised, sectorInitialised, distStamped, status,
                 nbytes>>

\* The constructor zeroes the object (_rp_state = rp_unknown = 0).
Init ==
  /\ rpState = "rp_unknown"
  /\ byteCount = 0
  /\ cnt = 0
  /\ syncError = 0
  /\ descriptorData = FALSE
  /\ informationData = FALSE
  /\ payloadLength = 0
  /\ responseType = "Descriptor"
  /\ descriptor = [i \in 0..6 |-> NoByte]
  /\ payload = [i \in 0..4 |-> NoByte]
  /\ initialised = FALSE
  /\ sectorInitialised = FALSE
  /\ distAge = 0
  /\ distStamped = FALSE
  /\ status = "NotConnected"
  /\ nbytes = NotReading
  /\ decoded = NoSample

\* The driver's steps; rx grows and tx shrinks by the sensor's steps.
Next == ReadByte \/ UpdateInitSectors \/ UpdateBegin \/ UpdateEnd \/ Tick

=============================================================================
