---------------------------- MODULE RPLidarSystem ----------------------------
(***************************************************************************)
(* The driver of AP_Proximity_RPLidarA2 connected to the sensor through    *)
(* the UART.  The host's scheduler calls update() over and over, the      *)
(* sensor answers commands and streams samples, time passes, and a bounded *)
(* number of faults happen: a byte lost on the line, a noise byte received *)
(* that the sensor never sent, a command the sensor never executes.        *)
(***************************************************************************)
EXTENDS Integers, Sequences

CONSTANTS
  SYSINFO_LEN, RESETTED_RETRIES, UNKNOWN_RETRIES, COMM_TIMEOUT, RESYNC_TIMEOUT,
  InfoText, Frames, RX_CAP,
  NoiseBytes,       \* values a noise byte may take
  MAX_LOST_BYTES,   \* bytes lost on the line in one behaviour
  MAX_NOISE_BYTES,  \* noise bytes received in one behaviour
  MAX_LOST_COMMANDS \* commands the sensor never executes in one behaviour

VARIABLES
  rx, tx,
  rpState, byteCount, cnt, syncError, descriptorData, informationData,
  payloadLength, responseType, descriptor, payload, initialised,
  sectorInitialised, distAge, distStamped, status, nbytes, decoded,
  devState, devIdx, devFrame,
  faults   \* faults of each kind that have happened

Drv == INSTANCE RPLidarA2
Dev == INSTANCE RPLidarDevice

drvVars == <<rpState, byteCount, cnt, syncError, descriptorData, informationData,
             payloadLength, responseType, descriptor, payload, initialised,
             sectorInitialised, distAge, distStamped, status, nbytes, decoded>>
devVars == <<devState, devIdx, devFrame>>
vars == <<rx, tx, drvVars, devVars, faults>>

\* A noise byte arrives in the receive buffer.
Noise ==
  /\ faults.noise < MAX_NOISE_BYTES
  /\ Len(rx) < RX_CAP
  /\ \E v \in NoiseBytes : rx' = Append(rx, [b |-> v, pos |-> Drv!NoPos])
  /\ faults' = [faults EXCEPT !.noise = @ + 1]
  /\ UNCHANGED <<tx, drvVars, devVars>>

LostByte ==
  /\ faults.lost < MAX_LOST_BYTES
  /\ Dev!SendLost
  /\ faults' = [faults EXCEPT !.lost = @ + 1]
  /\ UNCHANGED drvVars

LostCommand ==
  /\ faults.cmd < MAX_LOST_COMMANDS
  /\ Dev!CommandLost
  /\ faults' = [faults EXCEPT !.cmd = @ + 1]
  /\ UNCHANGED drvVars

DriverStep == Drv!Next /\ UNCHANGED <<devVars, faults>>
DeviceStep == (Dev!Send \/ Dev!Command) /\ UNCHANGED <<drvVars, faults>>

Init ==
  /\ rx = <<>>
  /\ tx = <<>>
  /\ Drv!Init
  /\ Dev!Init
  /\ faults = [lost |-> 0, noise |-> 0, cmd |-> 0]

Next == DriverStep \/ DeviceStep \/ Noise \/ LostByte \/ LostCommand

\* The host calls update() on every scheduler cycle: the driver's steps are
\* weakly fair.  millis() always advances, but a tick is modelled between
\* two calls only, so it is enabled again and again rather than
\* continuously: time is strongly fair.  The sensor keeps sending
\* while it has something to send and executes the commands it receives.
\* Faults are not fair: they may happen, never must.
Fairness ==
  /\ WF_vars(Drv!UpdateInitSectors /\ UNCHANGED <<devVars, faults>>)
  /\ WF_vars(Drv!UpdateBegin /\ UNCHANGED <<devVars, faults>>)
  /\ WF_vars(Drv!ReadByte /\ UNCHANGED <<devVars, faults>>)
  /\ WF_vars(Drv!UpdateEnd /\ UNCHANGED <<devVars, faults>>)
  /\ SF_vars(Drv!Tick /\ UNCHANGED <<devVars, faults>>)
  /\ WF_vars(Dev!Send /\ UNCHANGED <<drvVars, faults>>)
  /\ WF_vars(Dev!Command /\ UNCHANGED <<drvVars, faults>>)

Spec == Init /\ [][Next]_vars /\ Fairness

\* The rp_state enum as the DecoderState of spec 3.
DecoderState ==
  [s \in Drv!States |->
     CASE s = "rp_unknown"      -> "Unknown"
       [] s = "rp_resetted"     -> "AwaitingReset"
       [] s = "rp_responding"   -> "AwaitingDescriptor"
       [] s = "rp_measurements" -> "ReceivingMeasurement"
       [] s = "rp_health"       -> "AwaitingHealth"]

\* The decoder's lifecycle (spec 4.1), seen through rp_state and the
\* commands on the UART.
Life == INSTANCE DecoderLifecycle
          WITH dstate <- DecoderState[rpState], cmds <- tx,
               ResetCmd <- Drv!RPLIDAR_CMD_RESET, ScanCmd <- Drv!RPLIDAR_CMD_SCAN


-----------------------------------------------------------------------------
TypeOK ==
  /\ rx \in Seq(Drv!RxElem) /\ Len(rx) <= RX_CAP
  \* the sensor takes a command before the driver can write another
  /\ tx \in Seq({Drv!RPLIDAR_CMD_RESET, Drv!RPLIDAR_CMD_SCAN}) /\ Len(tx) <= 1
  /\ rpState \in Drv!States
  /\ byteCount \in Nat /\ cnt \in Nat /\ syncError \in 0..255
  /\ descriptorData \in BOOLEAN /\ informationData \in BOOLEAN
  /\ payloadLength \in {0, Drv!SCAN_LEN, Drv!HEALTH_LEN}
  /\ responseType \in Drv!ResponseTypes
  /\ descriptor \in [0..6 -> Drv!RxElem] /\ payload \in [0..4 -> Drv!RxElem]
  /\ initialised \in BOOLEAN /\ sectorInitialised \in BOOLEAN
  /\ distAge \in 0..Drv!AGE_CAP /\ distStamped \in BOOLEAN
  /\ status \in Drv!Statuses
  /\ nbytes \in {Drv!NotReading} \cup 0..Len(rx)
  /\ devState \in Dev!DevStates

\* The shared _byte_count always indexes inside the buffer the current state
\* writes: _descriptor[7] in rp_responding and in rp_unknown (whose
\* preamble byte is re-dispatched into rp_responding), the 5-byte payload
\* in rp_measurements, _rp_systeminfo in rp_resetted.  The writes are
\* guarded by equality tests (_byte_count == 7, == _payload_length), so a
\* count carried over from another state would run past the buffer.
BuffersInBounds ==
  /\ rpState \in {"rp_unknown", "rp_responding"} => byteCount < Drv!DESCRIPTOR_LEN
  /\ rpState = "rp_measurements" =>
       byteCount < payloadLength /\ payloadLength <= Drv!SCAN_LEN
  /\ rpState = "rp_resetted" => byteCount <= SYSINFO_LEN

\* While rp_measurements waits for a resync marker, _sync_error is exactly
\* 1 (the uint8_t counter never counts on, so cannot wrap to 0) and no
\* partial payload is pending, so the marker byte becomes payload byte 0.
ResyncStartsFrame ==
  rpState = "rp_measurements" /\ syncError # 0 => syncError = 1 /\ byteCount = 0

\* The driver implements the lifecycle of spec 4.1 (DecoderLifecycle),
\* the one extra edge of rp_resetted to rp_unknown included: every change
\* of _rp_state is an allowed transition, reset_rplidar() and
\* set_scan_mode() write their command exactly on the transitions that
\* issue it and no other step writes one, rp_health is never left, and
\* whatever the line loses or adds, update(), initialise() and the goto
\* re-dispatch of get_readings() never skip or merge a step.
LifecycleRefined == Life!Spec

\* Every sample parse_response_data() accepts (and hands to the sector
\* and obstacle logic) is bytes 0..4 of one sample the sensor sent, not a
\* window straddling two samples or containing firmware text or noise.
AcceptedSamplesFramed == decoded.framed

\* Starting from power-up or from a sensor still scanning, the driver ends
\* up decoding samples for good: the reset / firmware text / SCAN
\* handshake of initialise(), rp_resetted and rp_responding completes, any
\* sync error left by a fault is cleared (by a resync marker or by the
\* RESYNC_TIMEOUT reset), and no later byte sends it back.
SettlesInMeasurements == <>[](rpState = "rp_measurements" /\ syncError = 0)

StatusFromMeasurement ==
  [][ nbytes = 0 /\ nbytes' = Drv!NotReading /\ status' = "Good"
        => decoded.age <= COMM_TIMEOUT ]_vars

=============================================================================
