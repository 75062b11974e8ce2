------------------------------- MODULE Deadman -------------------------------
(***************************************************************************)
(* What the car node promises to whoever sends it commands: a dead man's   *)
(* switch.  The motors run only while the bus is heard; they may outlive   *)
(* the last frame, but not Limit ticks of silence.  How the switch counts, *)
(* and how the commands reach the motors, is left to the implementation.   *)
(***************************************************************************)
EXTENDS Naturals

CONSTANT Limit

VARIABLES
  heard,      \* a frame came since the last tick
  silence,    \* ticks in a row that heard no frame, counted up to Limit
  moving      \* the motors run

vars == <<heard, silence, moving>>

Init == heard = FALSE /\ silence = 0 /\ moving = FALSE

Hear ==
  /\ heard' = TRUE
  /\ UNCHANGED <<silence, moving>>

(* The tick that completes the silence finds the car at rest.              *)
Tick ==
  /\ silence' = IF heard THEN 0 ELSE IF silence < Limit THEN silence + 1 ELSE silence
  /\ silence' = Limit => ~moving
  /\ heard' = FALSE
  /\ UNCHANGED moving

(* A car at rest in a silence that long does not start again.              *)
Command ==
  /\ moving' \in BOOLEAN
  /\ moving' => heard \/ silence < Limit
  /\ UNCHANGED <<heard, silence>>

Next == Hear \/ Tick \/ Command

Spec == Init /\ [][Next]_vars

=============================================================================
