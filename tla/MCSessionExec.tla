--------------------------- MODULE MCSessionExec ---------------------------
(* Instances of SessionExec for TLC.                                       *)
EXTENDS SessionExec, TLC

CONSTANTS i1, i2, i3, i4

(* One request without a payload, two of one byte and one of the largest   *)
(* size that the control plane can announce; only the last one names a     *)
(* function that exists.  All sizes are SafeSize.                          *)
FourI == {i1, i2, i3, i4}
KnownFour == {i3}
BytesFour == (i1 :> 0) @@ (i2 :> 1) @@ (i3 :> 65535) @@ (i4 :> 1)

(* Two functions that exist.                                               *)
TwoI == {i2, i3}
KnownTwo == {i2, i3}
BytesTwo == (i2 :> 1) @@ (i3 :> 65535)

One == {1}
Two == {2}
=============================================================================
