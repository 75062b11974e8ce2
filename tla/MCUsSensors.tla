------------------------------ MODULE MCUsSensors -----------------------------
(***************************************************************************)
(* A side line that misses echoes and the center line, which does not.     *)
(* Left and right are the same code on two channels.                       *)
(***************************************************************************)
EXTENDS UsSensors

CONSTANTS left, center

MCLine == {left, center}
MCMute == {left}
NoMute == {}

=============================================================================
