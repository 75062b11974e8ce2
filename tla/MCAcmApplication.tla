-------------------------- MODULE MCAcmApplication --------------------------
(***************************************************************************)
(* The application with two of the six sensors: a side one with the short  *)
(* distances of the source and a front one with the long ones.             *)
(***************************************************************************)
EXTENDS AcmApplication, TLC

SideLeft == 0
FrontSideLeft == 2

MCSensor == {SideLeft, FrontSideLeft}

(* usSensorParams: detectionDistanceTurbo_cm and detectionDistanceNormal_cm *)
MCCloseDistance == (SideLeft :> 10) @@ (FrontSideLeft :> 40)
MCCriticalDistance == (SideLeft :> 5) @@ (FrontSideLeft :> 20)

(* 8 is close to the side and critical ahead, 30 is clear of the side and  *)
(* close ahead; 14, in the run about masked echoes, is clear of the side   *)
(* and critical ahead.                                                     *)
MCDistance == {8, 30}
MaskedDistance == {8, 14, 30}

(* The middle of the road, drifting left, off the right edge.              *)
MCImage == {<<10, 10>>, <<50, 10>>, <<50, 70>>}

(* State codes 0, 2, 4, 5 and 7, with the directions middle and "none".    *)
MCBleValue == {0 * 32 + 0, 2 * 32 + 7, 4 * 32 + 7, 5 * 32 + 0, 7 * 32 + 0}

=============================================================================
