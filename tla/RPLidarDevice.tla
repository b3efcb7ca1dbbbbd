---------------------------- MODULE RPLidarDevice ----------------------------
(***************************************************************************)
(* The RPLIDAR A2 sensor at the other end of the UART, as the driver's     *)
(* protocol comments and spec section 6 describe it.  It executes the      *)
(* commands the driver wrote to tx in order and appends its answers to rx: *)
(* after RESET the firmware text (first byte 'R'), then silence; after     *)
(* SCAN the 7-byte scan descriptor followed by 5-byte samples forever.     *)
(* A 2-byte command reaches the sensor within two byte times, far less   *)
(* than the seven or more bytes the driver reads between two commands:    *)
(* the sensor takes a pending command before it sends another byte, and   *)
(* a RESET restarts it whatever it was doing.  The sensor's bytes are     *)
(* tagged with their position in a sample.                                 *)
(***************************************************************************)
EXTENDS Integers, Sequences, RPLidarProtocol

CONSTANTS
  InfoText,  \* the firmware text sent after RESET, as a sequence of bytes
  Frames,    \* the 5-byte scan samples the sensor may send (sequences)
  RX_CAP     \* bytes the driver's UART receive buffer holds

VARIABLES rx, tx, devState, devIdx, devFrame

devVars == <<devState, devIdx, devFrame>>

DevStates == {"idle", "info", "descriptor", "scanning"}

\* A scan starts with a new revolution: the first sample after the scan
\* descriptor has the start flag set and the inverted start flag clear.
StartFrames == {f \in Frames : f[1] % 4 = 1}

\* The byte the sensor sends next, tagged with its sample position.
NextByte ==
  CASE devState = "info"       -> [b |-> InfoText[devIdx + 1], pos |-> NoPos]
    [] devState = "descriptor" -> [b |-> SCAN_TEMPLATE[devIdx + 1], pos |-> NoPos]
    [] devState = "scanning"   -> [b |-> devFrame[devIdx + 1], pos |-> devIdx]

\* The sensor's state once it has sent NextByte, choosing the next sample
\* when one is complete.
AfterSend ==
  CASE devState = "info" ->
         /\ devState' = IF devIdx + 1 = Len(InfoText) THEN "idle" ELSE "info"
         /\ devIdx' = IF devIdx + 1 = Len(InfoText) THEN 0 ELSE devIdx + 1
         /\ UNCHANGED devFrame
    [] devState = "descriptor" ->
         /\ devState' = IF devIdx + 1 = DESCRIPTOR_LEN THEN "scanning" ELSE "descriptor"
         /\ devIdx' = (devIdx + 1) % DESCRIPTOR_LEN
         /\ IF devIdx + 1 = DESCRIPTOR_LEN THEN devFrame' \in StartFrames
                                               ELSE UNCHANGED devFrame
    [] devState = "scanning" ->
         /\ devState' = "scanning"
         /\ devIdx' = (devIdx + 1) % SCAN_LEN
         /\ IF devIdx + 1 = SCAN_LEN THEN devFrame' \in Frames
                                          ELSE UNCHANGED devFrame

\* The sensor puts its next byte on the line and the UART receives it.
Send ==
  /\ devState # "idle"
  /\ tx = <<>>
  /\ Len(rx) < RX_CAP
  /\ rx' = Append(rx, NextByte)
  /\ AfterSend
  /\ UNCHANGED tx

\* The sensor puts its next byte on the line and it is lost (line noise or
\* a receive overrun).
SendLost ==
  /\ devState # "idle"
  /\ tx = <<>>
  /\ AfterSend
  /\ UNCHANGED <<rx, tx>>

\* The sensor takes the oldest command: RESET restarts it into the
\* firmware text, SCAN starts the descriptor and the sample stream.
Command ==
  /\ tx # <<>>
  /\ tx' = Tail(tx)
  /\ devState' = IF Head(tx) = RPLIDAR_CMD_RESET THEN "info" ELSE "descriptor"
  /\ devIdx' = 0
  /\ UNCHANGED <<rx, devFrame>>

\* A command written while the sensor does not listen (not yet powered,
\* still booting) is never executed.
CommandLost ==
  /\ tx # <<>>
  /\ tx' = Tail(tx)
  /\ UNCHANGED <<rx, devState, devIdx, devFrame>>

\* Powered up idle, or still scanning from before the flight controller
\* restarted, in the middle of any sample.
Init ==
  \/ /\ devState = "idle" /\ devIdx = 0 /\ devFrame \in Frames
  \/ /\ devState = "scanning" /\ devIdx \in 0..4 /\ devFrame \in Frames

=============================================================================
