--------------------------- MODULE AcmApplication ---------------------------
(***************************************************************************)
(* The Raspberry Pi application (acm-rpi-app).  One thread runs an epoll   *)
(* main loop; every callback runs to completion, so each is one action:    *)
(*                                                                         *)
(*   SystemControl       the 50 ms timer: drive-mode state machine         *)
(*   CanOnTimeToSend     the 25 ms timer: alternate direction and speed    *)
(*   CameraProcess       the 200 ms timer: position on the road            *)
(*   CanOnDataReceived   a frame from the STM32, answered by a BLE notify  *)
(*   BleOnDataReceived   a command byte written by the Android remote      *)
(*   Quit                a signal, the loss of the BLE link (both quit the *)
(*                       loop) or a CAN read error (exits the process)     *)
(*                                                                         *)
(* The order in which the loop meets its events is not determined by the   *)
(* code, so any callback may come next.                                    *)
(***************************************************************************)
EXTENDS Integers

CONSTANTS
  Sensor,            \* ids of the ultrasound sensors, in std::map order
  CloseDistance,     \* per sensor, detectionDistanceTurbo_cm
  CriticalDistance,  \* per sensor, detectionDistanceNormal_cm
  Distance,          \* distances in cm an ultrasound byte may carry
  Image,             \* what a picture may show: pairs of shares of black
                     \* pixels in its left and right half, in %
  BleValue,          \* bytes the remote may write
  TelemetryFrame     \* frames [id, data] other than ultrasound ones

NoEcho == 128        \* larger than any distance a frame carries (6 bits * 2)

ASSUME SensorAssumption == Sensor \subseteq Nat

ASSUME DistanceAssumption ==
  /\ Distance \subseteq 0 .. (NoEcho - 1)
  /\ CloseDistance \in [Sensor -> 0 .. (NoEcho - 1)]
  /\ CriticalDistance \in [Sensor -> 0 .. (NoEcho - 1)]
  /\ \A s \in Sensor : CriticalDistance[s] <= CloseDistance[s]

ASSUME InputAssumption ==
  /\ Image \subseteq Nat \X Nat
  /\ BleValue \subseteq 0 .. 255
  /\ \A f \in TelemetryFrame :
       f.id \in {"SpeedData", "DirectionData", "BatteryData"} /\ f.data \in 0 .. 255

VARIABLES
  running,         \* the main loop runs
  mode,            \* m_carParamOut.mode
  requestedMode,
  dir,             \* direction code 0..7; the protocol names 0..4
  requestedDir,
  speed,
  turbo,
  requestedTurbo,
  moving,
  idle,            \* FALSE when the command says "not started"
  road,            \* m_carParamIn.roadDetection
  prevRoad,
  obstacles,       \* per sensor, distance in cm or NoEcho
  speedMeasure,
  dirMeasure,
  bat,
  nextFrame,       \* the static i of canOnTimeToSend
  sent,            \* CAN frame written by the last callback, or NoFrame
  notified,        \* notification sent by the last callback, or NoFrame
  seen             \* history: what the last control tick saw

inputs == <<road, obstacles, speedMeasure, dirMeasure, bat>>
request == <<requestedMode, requestedDir, requestedTurbo, moving, idle>>
command == <<mode, dir, speed, turbo, prevRoad, seen>>
events == <<sent, notified>>
vars == <<running, inputs, request, command, nextFrame, events>>

-----------------------------------------------------------------------------
(* Codes that travel on the wires.                                         *)

Middle == 0
LeftCrit == 1
RightCrit == 2
Left == 3
Right == 4

Stop == 0
Normal == 1
Turbo == 2

Mode == {"manual", "autonomous", "obstAvoiding", "emergencyStop"}
RoadDetection == {"middle", "right", "rightcrit", "left", "leftcrit"}
NoFrame == [id |-> "none"]

Echo == [Sensor -> Distance \cup {NoEcho}]

(* The camera's verdict on the shares of black pixels in the two halves.   *)
Low == 25
Critical == 35
Filled == 60

Side(share, drifting, atEdge) ==
  CASE share < Critical -> "middle"
    [] share >= Critical /\ share < Filled -> drifting
    [] share >= Filled -> atEdge

Placement(l, r) ==
  CASE r < Low /\ l < Low   -> "middle"
    [] r < Low /\ l >= Low  -> Side(l, "left", "leftcrit")
    [] r >= Low /\ l < Low  -> Side(r, "right", "rightcrit")
    [] r >= Low /\ l >= Low -> IF r > l THEN "rightcrit" ELSE "leftcrit"

-----------------------------------------------------------------------------
Init ==
  /\ running = TRUE
  /\ mode = "manual" /\ requestedMode = "manual"
  /\ dir = Middle /\ requestedDir = Middle
  /\ speed = Stop
  /\ turbo = FALSE /\ requestedTurbo = FALSE /\ moving = FALSE /\ idle = TRUE
  /\ road = "middle" /\ prevRoad = "middle"
  /\ obstacles = [s \in Sensor |-> NoEcho]
  /\ speedMeasure = 0 /\ dirMeasure = Middle /\ bat = 0
  /\ nextFrame = "DirectionCmd"
  /\ sent = NoFrame /\ notified = NoFrame
  /\ seen = [zone |-> "clear", road |-> "middle", streak |-> 0, course |-> {}]

Silent == sent' = NoFrame /\ notified' = NoFrame

-----------------------------------------------------------------------------
(* systemControl: the nearest echo alone decides how dangerous the         *)
(* surroundings are; the first sensor in map order wins a tie.             *)

Echoing == {s \in Sensor : obstacles[s] < NoEcho}

Nearest ==
  CHOOSE s \in Echoing :
    \A t \in Echoing \ {s} :
      \/ obstacles[s] < obstacles[t]
      \/ obstacles[s] = obstacles[t] /\ s < t

Zone ==
  CASE Echoing = {} -> "clear"
    [] Echoing # {} /\ obstacles[Nearest] <= CriticalDistance[Nearest] -> "critical"
    [] Echoing # {} /\ obstacles[Nearest] > CloseDistance[Nearest] -> "clear"
    [] OTHER -> "close"

RoadCritical == road \in {"leftcrit", "rightcrit"}

(* The state machine.  Leaving "autonomous" for "manual" tests the road    *)
(* with "or" where "and" would be needed: the test is always true.         *)
LeaveAutonomous ==
  /\ mode = "autonomous"
  /\ \/ Zone = "clear" /\ requestedMode = "manual" /\ mode' = "manual"
     \/ Zone = "clear" /\ requestedMode # "manual" /\ mode' = mode
     \/ Zone # "clear" /\ mode' = "obstAvoiding"

LeaveManual ==
  LET called == requestedMode = "autonomous" \/ RoadCritical
  IN  /\ mode = "manual"
      /\ \/ Zone = "clear" /\ called /\ mode' = "autonomous"
         \/ Zone = "clear" /\ ~called /\ mode' = mode
         \/ Zone # "clear" /\ mode' = "obstAvoiding"

(* Mutant: "and" for "or" in the danger test.                              *)
LeaveObstAvoidingOnBothDangers ==
  LET danger == Zone = "critical" /\ RoadCritical
  IN  /\ mode = "obstAvoiding"
      /\ \/ danger /\ mode' = "emergencyStop"
         \/ ~danger /\ Zone = "clear" /\ mode' = "manual"
         \/ ~danger /\ Zone # "clear" /\ mode' = mode

(* Mutant: the return to "manual" is missing.                              *)
LeaveObstAvoidingOnlyToStop ==
  /\ mode = "obstAvoiding"
  /\ mode' = IF Zone = "critical" \/ RoadCritical THEN "emergencyStop" ELSE mode

LeaveObstAvoiding ==
  LET danger == Zone = "critical" \/ RoadCritical
  IN  /\ mode = "obstAvoiding"
      /\ \/ danger /\ mode' = "emergencyStop"
         \/ ~danger /\ Zone = "clear" /\ mode' = "manual"
         \/ ~danger /\ Zone = "close" /\ mode' = mode

(* Mutant: the lane assist takes over without looking at the obstacles.    *)
LeaveEmergencyStopBlindly ==
  /\ mode = "emergencyStop"
  /\ \/ Zone # "critical" /\ ~RoadCritical /\ mode' = "obstAvoiding"
     \/ RoadCritical /\ mode' = "autonomous"
     \/ Zone = "critical" /\ ~RoadCritical /\ mode' = mode

(* Mutant: the way out on a critical road is missing.                      *)
LeaveEmergencyStopOffTheEdge ==
  /\ mode = "emergencyStop"
  /\ mode' = IF Zone # "critical" /\ ~RoadCritical THEN "obstAvoiding" ELSE mode

LeaveEmergencyStop ==
  /\ mode = "emergencyStop"
  /\ \/ Zone # "critical" /\ ~RoadCritical /\ mode' = "obstAvoiding"
     \/ Zone = "clear" /\ RoadCritical /\ mode' = "autonomous"
     \/ Zone = "close" /\ RoadCritical /\ mode' = mode
     \/ Zone = "critical" /\ mode' = mode

UpdateMode ==
  LeaveAutonomous \/ LeaveManual \/ LeaveObstAvoiding \/ LeaveEmergencyStop

Correction ==
  [left |-> Right, right |-> Left, leftcrit |-> RightCrit,
   rightcrit |-> LeftCrit, middle |-> Middle]

(* Mutant: the comparison with the previous verdict is missing.            *)
DriveAutonomousAtOnce ==
  /\ mode' = "autonomous"
  /\ turbo' = FALSE
  /\ speed' = Normal
  /\ dir' = Correction[road]
  /\ prevRoad' = road

(* The command that goes with the mode just chosen.                        *)
DriveAutonomous ==
  /\ mode' = "autonomous"
  /\ turbo' = FALSE
  /\ speed' = Normal
  /\ dir' = IF road = prevRoad THEN Correction[road] ELSE dir
  /\ prevRoad' = road

(* Mutant: the branch that stops is missing.                               *)
DriveManualWithoutStop ==
  /\ mode' = "manual"
  /\ turbo' = requestedTurbo
  /\ speed' = IF ~moving THEN speed ELSE IF requestedTurbo THEN Turbo ELSE Normal
  /\ dir' = requestedDir
  /\ UNCHANGED prevRoad

DriveManual ==
  /\ mode' = "manual"
  /\ turbo' = requestedTurbo
  /\ speed' = IF ~moving THEN Stop ELSE IF requestedTurbo THEN Turbo ELSE Normal
  /\ dir' = requestedDir
  /\ UNCHANGED prevRoad

(* Mutant: turbo is not reset.                                             *)
DriveAvoidingInTurbo ==
  /\ mode' = "obstAvoiding"
  /\ speed' = IF moving THEN Normal ELSE Stop
  /\ dir' = requestedDir
  /\ UNCHANGED <<turbo, prevRoad>>

DriveAvoiding ==
  /\ mode' = "obstAvoiding"
  /\ turbo' = FALSE
  /\ speed' = IF moving THEN Normal ELSE Stop
  /\ dir' = requestedDir
  /\ UNCHANGED prevRoad

DriveStopped ==
  /\ mode' = "emergencyStop"
  /\ speed' = Stop
  /\ dir' = Middle
  /\ UNCHANGED <<turbo, prevRoad>>

ExecuteMode == DriveAutonomous \/ DriveManual \/ DriveAvoiding \/ DriveStopped

(* The directions that the ticks up to this one allow the car to take      *)
(* while it drives itself: what it had or what the road asks for at the    *)
(* tick that enters the mode, and from the first two ticks in a row that   *)
(* agree on the road, the correction of the last verdict two ticks saw.    *)
Course ==
  CASE mode' # "autonomous" -> {}
    [] mode' = "autonomous" /\ mode # "autonomous" -> {dir, Correction[road]}
    [] mode' = "autonomous" /\ mode = "autonomous" ->
         IF road = seen.road THEN {Correction[road]} ELSE seen.course

(* The history variable: zone and road this tick saw, for how many ticks   *)
(* in a row (counted up to 2) the zone has been critical, and the course.  *)
Remember ==
  seen' = [zone |-> Zone, road |-> road,
           streak |-> IF Zone # "critical" THEN 0
                      ELSE IF seen.streak = 0 THEN 1 ELSE 2,
           course |-> Course]

SystemControl ==
  /\ running
  /\ UpdateMode
  /\ ExecuteMode
  /\ Remember
  /\ Silent
  /\ UNCHANGED <<running, inputs, request, nextFrame>>

-----------------------------------------------------------------------------
(* The other timers.                                                       *)

(* Mutant: a speed of zero is not sent, "the car stands anyway".           *)
CanOnTimeToSendMoving ==
  /\ running
  /\ \/ /\ nextFrame = "DirectionCmd" \/ speed = Stop
        /\ sent' = [id |-> "DirectionCmd", data |-> dir]
        /\ nextFrame' = "SpeedCmd"
     \/ /\ nextFrame = "SpeedCmd" /\ speed # Stop
        /\ sent' = [id |-> "SpeedCmd", data |-> speed]
        /\ nextFrame' = "DirectionCmd"
  /\ notified' = NoFrame
  /\ UNCHANGED <<running, inputs, request, command>>

CanOnTimeToSend ==
  /\ running
  /\ \/ /\ nextFrame = "DirectionCmd"
        /\ sent' = [id |-> "DirectionCmd", data |-> dir]
        /\ nextFrame' = "SpeedCmd"
     \/ /\ nextFrame = "SpeedCmd"
        /\ sent' = [id |-> "SpeedCmd", data |-> speed]
        /\ nextFrame' = "DirectionCmd"
  /\ notified' = NoFrame
  /\ UNCHANGED <<running, inputs, request, command>>

CameraProcess(img) ==
  /\ running
  /\ road' = Placement(img[1], img[2])
  /\ Silent
  /\ UNCHANGED <<running, obstacles, speedMeasure, dirMeasure, bat, request,
                 command, nextFrame>>

-----------------------------------------------------------------------------
(* canOnDataReceived: each frame updates one measure, then the whole       *)
(* feedback is notified.  Two modes of the state machine are reported as   *)
(* another one, and the bit fields cut what does not fit.                  *)

(* Mutant: every mode but "manual" is reported as "autonomous".            *)
ReportedModeUnlessManual == IF mode = "manual" THEN "manual" ELSE "autonomous"

ReportedMode ==
  IF mode \in {"emergencyStop", "autonomous"} THEN "autonomous" ELSE "manual"

(* Sensors 0 and 1 look left, 2 and 3 ahead, 4 and 5 right.                *)
Sides(echo) == {s \div 2 : s \in {t \in Sensor : echo[t] < NoEcho}}

SendNotification ==
  /\ notified' = [mode |-> ReportedMode, speed |-> speedMeasure' % 32,
                  dir |-> dirMeasure' % 4, road |-> road,
                  obst |-> Sides(obstacles'), bat |-> bat' % 4]
  /\ sent' = NoFrame

CanOnUltrasound(echo) ==
  /\ running
  /\ obstacles' = echo
  /\ UNCHANGED <<speedMeasure, dirMeasure, bat>>
  /\ SendNotification
  /\ UNCHANGED <<running, road, request, command, nextFrame>>

CanOnTelemetry(f) ==
  /\ running
  /\ \/ /\ f.id = "SpeedData"
        /\ speedMeasure' = f.data \div 10
        /\ UNCHANGED <<dirMeasure, bat>>
     \/ /\ f.id = "DirectionData"
        /\ dirMeasure' = IF speedMeasure = 0 THEN Left ELSE f.data
        /\ UNCHANGED <<speedMeasure, bat>>
     \/ /\ f.id = "BatteryData"
        /\ bat' = f.data
        /\ UNCHANGED <<speedMeasure, dirMeasure>>
  /\ UNCHANGED obstacles
  /\ SendNotification
  /\ UNCHANGED <<running, road, request, command, nextFrame>>

-----------------------------------------------------------------------------
(* bleOnDataReceived: three bits of state code, three bits of direction.   *)
(* State code 7 is not in the switch and leaves the other fields alone.    *)

(* Mutant: the state code is not masked out of the direction.              *)
BleOnDataReceivedUnmasked(value) ==
  LET state == value \div 32
  IN  /\ running
      /\ requestedDir' = value
      /\ \/ /\ state \in 0 .. 6
            /\ requestedMode' = IF state \in {5, 6} THEN "autonomous" ELSE "manual"
            /\ moving' = (state \in {2, 4})
            /\ requestedTurbo' = (state \in {3, 4})
            /\ idle' = (state \notin {0, 5})
         \/ /\ state = 7
            /\ UNCHANGED <<requestedMode, moving, requestedTurbo, idle>>
      /\ Silent
      /\ UNCHANGED <<running, inputs, command, nextFrame>>

BleOnDataReceived(value) ==
  LET state == value \div 32
  IN  /\ running
      /\ requestedDir' = value % 8
      /\ \/ /\ state \in 0 .. 6
            /\ requestedMode' = IF state \in {5, 6} THEN "autonomous" ELSE "manual"
            /\ moving' = (state \in {2, 4})
            /\ requestedTurbo' = (state \in {3, 4})
            /\ idle' = (state \notin {0, 5})
         \/ /\ state = 7
            /\ UNCHANGED <<requestedMode, moving, requestedTurbo, idle>>
      /\ Silent
      /\ UNCHANGED <<running, inputs, command, nextFrame>>

(* The process ends without a last command to the car.                     *)
Quit ==
  /\ running
  /\ running' = FALSE
  /\ Silent
  /\ UNCHANGED <<inputs, request, command, nextFrame>>

-----------------------------------------------------------------------------
Next ==
  \/ SystemControl
  \/ CanOnTimeToSend
  \/ \E img \in Image : CameraProcess(img)
  \/ \E echo \in Echo : CanOnUltrasound(echo)
  \/ \E f \in TelemetryFrame : CanOnTelemetry(f)
  \/ \E value \in BleValue : BleOnDataReceived(value)
  \/ Quit

(* While the loop runs each one-shot timer is armed again after its        *)
(* callback, so its callback keeps coming.                                 *)
Fairness == WF_vars(SystemControl) /\ WF_vars(CanOnTimeToSend)

Spec == Init /\ [][Next]_vars

FairSpec == Spec /\ Fairness

-----------------------------------------------------------------------------
(* Properties.                                                             *)

(* Every variable keeps its type; what is sent or notified fits its frame. *)
TypeOK ==
  /\ running \in BOOLEAN
  /\ mode \in Mode /\ requestedMode \in {"manual", "autonomous"}
  /\ dir \in 0 .. 7 /\ requestedDir \in 0 .. 7
  /\ speed \in {Stop, Normal, Turbo}
  /\ turbo \in BOOLEAN /\ requestedTurbo \in BOOLEAN
  /\ moving \in BOOLEAN /\ idle \in BOOLEAN
  /\ road \in RoadDetection /\ prevRoad \in RoadDetection
  /\ obstacles \in Echo
  /\ speedMeasure \in 0 .. 25 /\ dirMeasure \in 0 .. 255 /\ bat \in 0 .. 255
  /\ nextFrame \in {"DirectionCmd", "SpeedCmd"}
  /\ \/ sent = NoFrame
     \/ sent \in [id : {"DirectionCmd"}, data : 0 .. 7]
     \/ sent \in [id : {"SpeedCmd"}, data : {Stop, Normal, Turbo}]
  /\ \/ notified = NoFrame
     \/ notified \in [mode : {"manual", "autonomous"}, speed : 0 .. 31,
                      dir : 0 .. 3, road : RoadDetection,
                      obst : SUBSET {s \div 2 : s \in Sensor}, bat : 0 .. 3]
  /\ seen \in [zone : {"clear", "close", "critical"}, road : RoadDetection,
               streak : 0 .. 2, course : SUBSET (0 .. 7)]

(* Whatever mode the car was in and whatever the remote asks, an obstacle  *)
(* critically near for two control ticks in a row has stopped the car with *)
(* its wheels straight: no path through the state machine is longer.       *)
EmergencyStopOnPersistentDanger ==
  seen.streak = 2 => mode = "emergencyStop" /\ speed = Stop /\ dir = Middle

(* Turbo, which the emergency stop does not reset, never outlives the      *)
(* manual mode with clear surroundings that allowed it.                    *)
TurboOnlyInTheClear ==
  turbo \/ speed = Turbo => mode = "manual" /\ seen.zone = "clear"

(* The car drives itself only when the last tick saw no close obstacle,    *)
(* also when it got there from an emergency stop on a critical road.       *)
AutonomyOnlyInTheClear ==
  mode = "autonomous" => seen.zone = "clear"

(* While the car drives itself a verdict of the camera turns the wheels    *)
(* when two control ticks in a row see it, and then it does.  The tick     *)
(* that enters the mode compares with a verdict of long ago, so it may     *)
(* turn them for a verdict that it alone saw, or keep the direction of the *)
(* mode before; either ends with the first two ticks that agree.           *)
DebouncedSteering ==
  mode = "autonomous" => dir \in seen.course

(* Under FairSpec: on a road edge and in the clear the lane assist takes   *)
(* the wheel again and again, from every mode.                             *)
LaneAssistEngages ==
  <>[](running /\ RoadCritical /\ Zone = "clear") => []<>(mode = "autonomous")

(* Under FairSpec: away from the road edges, a manual stop request that    *)
(* stays ends with speed frames that say stop, and only those.             *)
StopIsObeyed ==
  <>[](running /\ requestedMode = "manual" /\ ~moving /\ ~RoadCritical)
    => <>[](speed = Stop) /\ []<>(sent = [id |-> "SpeedCmd", data |-> Stop])

(* Under FairSpec: after an emergency stop a clear road leads back to the  *)
(* autonomous drive the remote keeps asking for, with no new request.      *)
AutonomyResumes ==
  <>[](running /\ requestedMode = "autonomous" /\ Zone = "clear" /\ ~RoadCritical)
    => <>[](mode = "autonomous")

(* What the code says about itself and does not do.                        *)

(* AcmApplication.cpp:240, "check for each ultrasound if there is an       *)
(* obstacle": an obstacle inside its own sensor's critical distance takes  *)
(* the car out of the normal modes.  The state machine looks at the        *)
(* nearest echo only.                                                      *)
EachUltrasoundChecked ==
  [][SystemControl /\ (\E s \in Sensor : obstacles[s] <= CriticalDistance[s])
       => mode' \in {"obstAvoiding", "emergencyStop"}]_vars

=============================================================================
