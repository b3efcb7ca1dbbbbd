------------------------------ MODULE MC_RPLidar ------------------------------
(***************************************************************************)
(* Model values for RPLidarSystem.  The firmware text is one byte longer   *)
(* than the part the driver stores (63 against 62 in the code); retry      *)
(* counts and timeouts are scaled down so that every branch is reached in *)
(* a few bytes.  The two samples are a revolution start at 20 degrees,     *)
(* 2.56 m, whose check-bit byte 0x01 also passes the resync test, and an   *)
(* ordinary sample at 300 degrees inside the 0.20 m dead zone.             *)
(***************************************************************************)
EXTENDS RPLidarSystem

MC_InfoText == <<82, 80, 80>>
\* 'R' followed by 62 bytes of text: 63 bytes, as the comment of
\* reset_rplidar() announces.
MC_InfoText63 == [i \in 1..63 |-> IF i = 1 THEN 82 ELSE 80]
MC_Frames == {<<1, 1, 10, 0, 40>>, <<2, 3, 150, 0, 2>>}
MC_NoiseBytes == {165, 1}

=============================================================================
