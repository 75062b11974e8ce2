------------------------------ MODULE MCRover ------------------------------
(***************************************************************************)
(* The composition with the front sensor alone, which hears nothing or a   *)
(* critical echo, two pictures, and a telemetry frame of each kind.        *)
(***************************************************************************)
EXTENDS Rover, TLC

FrontSideLeft == 2

MCSensor == {FrontSideLeft}
MCCloseDistance == FrontSideLeft :> 40
MCCriticalDistance == FrontSideLeft :> 20
MCDistance == {14}

(* The middle of the road, off the right edge.                             *)
MCImage == {<<10, 10>>, <<50, 70>>}

(* One frame of each kind; the direction does not fit its two bits.        *)
MCTelemetryFrame ==
  {[id |-> "SpeedData", data |-> 25], [id |-> "DirectionData", data |-> 4],
   [id |-> "BatteryData", data |-> 0]}

(* What the remote writes, and nothing else.                               *)
MCBleValue == {code * 32 + NoDirection : code \in StateCode}

(* Nothing that follows, but what the wheels are told and the screen       *)
(* shows, depends on directions and measures, on what the last callback    *)
(* sent or on what the last control tick saw, nor on anything but the      *)
(* motors once the process has ended.                                      *)
RoverView ==
  IF running
  THEN <<road, obstacles, requestedMode, moving, mode, speed, nextFrame,
         remote, radio, node, due, history>>
  ELSE <<due.tick, heard, motor, lost>>

=============================================================================
