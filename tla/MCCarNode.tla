------------------------------ MODULE MCCarNode ------------------------------
(***************************************************************************)
(* The car node with two speeds that move the car and the direction code   *)
(* 7, which the loop does not steer to and no speed frame carries.  The    *)
(* zeros come from the start and from the watchdog, the positions 1 and 2  *)
(* from speed frames mistaken for directions.                              *)
(***************************************************************************)
EXTENDS CarNode

MCSpeedValue == {1, 2}
MCDirValue == {7}

=============================================================================
