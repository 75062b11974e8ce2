----------------------------- MODULE MCUltrasound -----------------------------
(***************************************************************************)
(* Two neighbours, and all six sensors for their numbers.  The counts are  *)
(* echoes of 13 and 15 cm, and the last one below and the first one above  *)
(* two metres.                                                             *)
(***************************************************************************)
EXTENDS Ultrasound

Neighbours == <<"FSL", "FL">>
AllSensors == <<"SL", "FSL", "FL", "FR", "FSR", "SR">>

MCCount == {500, 576, 7630, 7631}
MCSpeed == {0, 20}

FewCounts == {500, 7631}
NoSpeed == {0}

=============================================================================
