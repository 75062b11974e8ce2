------------------------------- MODULE MCRemote -------------------------------
(***************************************************************************)
(* The remote over two connections.  The joystick is pushed to where it    *)
(* has no direction, and never let go but by a handler: the direction      *)
(* travels in the same byte as the state and adds nothing to the races.    *)
(***************************************************************************)
EXTENDS Remote

MCAngle == {300}
MCStrength == {100}

=============================================================================
