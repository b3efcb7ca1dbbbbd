--------------------------- MODULE DecoderLifecycle ---------------------------
(***************************************************************************)
(* The frame decoder's lifecycle as spec 4.1 promises it: the decoder     *)
(* states, which of them may follow which, and the command written to     *)
(* the sensor on the transitions that write one.  Bytes, counters and     *)
(* buffers are left out: a transition is taken or not, nothing more.      *)
(* The commands written and not yet taken by the sensor form a FIFO       *)
(* queue; the sensor (or the line, losing one) takes them from the head.  *)
(***************************************************************************)
EXTENDS Sequences

CONSTANTS ResetCmd, ScanCmd   \* the reset and scan-mode requests

VARIABLES
  dstate,   \* DecoderState of spec 3
  cmds      \* commands written and not yet taken

lifeVars == <<dstate, cmds>>

DecoderStates == {"Unknown", "AwaitingReset", "AwaitingDescriptor",
                  "ReceivingMeasurement", "AwaitingHealth"}

\* The decoder starts in Unknown with nothing written.
Init ==
  /\ dstate = "Unknown"
  /\ cmds = <<>>

\* A reset command takes the decoder to AwaitingReset: at power-on and
\* after too many non-preamble bytes (from Unknown), or when no resync
\* marker comes within the resync window (from ReceivingMeasurement).
RequestReset ==
  /\ dstate \in {"Unknown", "ReceivingMeasurement"}
  /\ dstate' = "AwaitingReset"
  /\ cmds' = Append(cmds, ResetCmd)

\* The device-info text is over (or absent): a scan-mode request, then
\* the response descriptor is awaited.
RequestScan ==
  /\ dstate = "AwaitingReset"
  /\ dstate' = "AwaitingDescriptor"
  /\ cmds' = Append(cmds, ScanCmd)

\* Spec 4.1 has no such edge.  The code leaves AwaitingReset for Unknown,
\* writing nothing, when no device-info tag came within the retry count;
\* the edge is kept here so that the rest of the lifecycle is checked.
AbandonDeviceInfo ==
  /\ dstate = "AwaitingReset"
  /\ dstate' = "Unknown"
  /\ UNCHANGED cmds

\* A preamble byte starts a descriptor.
FindPreamble ==
  /\ dstate = "Unknown"
  /\ dstate' = "AwaitingDescriptor"
  /\ UNCHANGED cmds

\* The descriptor classifier (spec 4.2): a scan stream, a health stream,
\* or an invalid descriptor that forces Unknown.
Classify ==
  /\ dstate = "AwaitingDescriptor"
  /\ dstate' \in {"ReceivingMeasurement", "AwaitingHealth", "Unknown"}
  /\ UNCHANGED cmds

\* The sensor takes the oldest command written.
TakeCommand ==
  /\ cmds # <<>>
  /\ cmds' = Tail(cmds)
  /\ UNCHANGED dstate

Next ==
  \/ RequestReset \/ RequestScan \/ AbandonDeviceInfo
  \/ FindPreamble \/ Classify \/ TakeCommand

Spec == Init /\ [][Next]_lifeVars

=============================================================================
