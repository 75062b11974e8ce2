------------------------ MODULE AcmApplicationProofs ------------------------
(***************************************************************************)
(* The safety properties of AcmApplication, for any sensors, distances,    *)
(* images and bytes.  The inductive invariant says what the last control   *)
(* tick left behind: `seen` remembers what it saw, and each part ties the  *)
(* command to that.                                                        *)
(***************************************************************************)
EXTENDS AcmApplication, TLAPS

(* A tick that ends in a normal mode saw no close obstacle.                *)
ModeMatchesZone ==
  mode \in {"manual", "autonomous"} => seen.zone = "clear"

(* The first critical tick leaves the normal modes, the second one stops.  *)
StreakMatchesMode ==
  /\ seen.streak >= 1 <=> seen.zone = "critical"
  /\ seen.streak = 2 => mode = "emergencyStop"

(* "emergencyStop" does not touch turbo: it was reset on the way there.    *)
StopMatchesMode ==
  mode = "emergencyStop" => speed = Stop /\ dir = Middle /\ ~turbo

TurboMatchesMode ==
  /\ turbo => mode = "manual"
  /\ speed = Turbo => turbo

(* In the autonomous mode prevRoad is the road of the previous tick.       *)
SteeringMemory ==
  mode = "autonomous" => prevRoad = seen.road

IInv ==
  /\ TypeOK
  /\ ModeMatchesZone
  /\ StreakMatchesMode
  /\ StopMatchesMode
  /\ TurboMatchesMode
  /\ SteeringMemory
  /\ DebouncedSteering

-----------------------------------------------------------------------------
(* What the pure operators return.                                         *)

(* The state machine's three-way choice has no fourth outcome.             *)
LEMMA ZoneType == Zone \in {"clear", "close", "critical"}
BY DEF Zone

(* Every pair of shares of black pixels has a place on the road.           *)
LEMMA PlacementType ==
  ASSUME NEW l \in Nat, NEW r \in Nat
  PROVE  Placement(l, r) \in RoadDetection
BY DEF Placement, Side, RoadDetection, Low, Critical, Filled

(* Every verdict of the camera has a correction among the five directions. *)
LEMMA CorrectionType ==
  ASSUME NEW r \in RoadDetection
  PROVE  Correction[r] \in 0 .. 4
BY DEF Correction, RoadDetection, Middle, Left, Right, LeftCrit, RightCrit

-----------------------------------------------------------------------------
(* The control tick.                                                       *)

(* The mode only changes to what the zone allows.                          *)
LEMMA UpdateModeMatchesZone ==
  ASSUME IInv, UpdateMode
  PROVE  /\ mode' \in Mode
         /\ mode' \in {"manual", "autonomous"} => Zone = "clear"
         /\ Zone = "critical" /\ mode \notin {"manual", "autonomous"}
              => mode' = "emergencyStop"
         /\ mode' = "emergencyStop" => mode \in {"obstAvoiding", "emergencyStop"}
BY ZoneType DEF IInv, TypeOK, UpdateMode, LeaveAutonomous, LeaveManual,
                LeaveObstAvoiding, LeaveEmergencyStop, Mode

(* The command that goes with a mode.                                      *)
LEMMA ExecuteModeMatchesMode ==
  ASSUME IInv, UpdateMode, ExecuteMode
  PROVE  /\ dir' \in 0 .. 7
         /\ speed' \in {Stop, Normal, Turbo}
         /\ turbo' \in BOOLEAN
         /\ prevRoad' \in RoadDetection
         /\ StopMatchesMode'
         /\ TurboMatchesMode'
         /\ mode' = "autonomous" => prevRoad' = road
<1> USE DEF Stop, Normal, Turbo
<1>0. TypeOK
  BY DEF IInv
<1>1. CASE DriveAutonomous
  <2>1. dir' \in 0 .. 7
    BY <1>0, <1>1, CorrectionType DEF TypeOK, DriveAutonomous
  <2>2. prevRoad' \in RoadDetection /\ prevRoad' = road
    BY <1>0, <1>1 DEF TypeOK, DriveAutonomous
  <2>3. mode' = "autonomous" /\ speed' = Normal
    BY <1>1 DEF DriveAutonomous
  <2>4. ~turbo' /\ turbo' \in BOOLEAN
    BY <1>1 DEF DriveAutonomous
  <2> QED
    BY <2>1, <2>2, <2>3, <2>4 DEF StopMatchesMode, TurboMatchesMode
<1>2. CASE DriveManual
  <2>1. dir' \in 0 .. 7 /\ prevRoad' \in RoadDetection /\ turbo' \in BOOLEAN
    BY <1>0, <1>2 DEF TypeOK, DriveManual
  <2>2. mode' = "manual" /\ speed' \in {Stop, Normal, Turbo}
    BY <1>2 DEF DriveManual
  <2>3. speed' = Turbo => turbo'
    BY <1>2 DEF DriveManual
  <2> QED
    BY <2>1, <2>2, <2>3 DEF StopMatchesMode, TurboMatchesMode
<1>3. CASE DriveAvoiding
  <2>1. dir' \in 0 .. 7 /\ prevRoad' \in RoadDetection
    BY <1>0, <1>3 DEF TypeOK, DriveAvoiding
  <2>2. mode' = "obstAvoiding" /\ speed' \in {Stop, Normal}
    BY <1>3 DEF DriveAvoiding
  <2>3. ~turbo' /\ turbo' \in BOOLEAN
    BY <1>3 DEF DriveAvoiding
  <2> QED
    BY <2>1, <2>2, <2>3 DEF StopMatchesMode, TurboMatchesMode
<1>4. CASE DriveStopped
  <2>1. mode \in {"obstAvoiding", "emergencyStop"} /\ mode' = "emergencyStop"
    BY <1>4, UpdateModeMatchesZone DEF DriveStopped
  <2>2. ~turbo
    BY <2>1 DEF IInv, TurboMatchesMode
  <2> QED
    BY <1>0, <1>4, <2>1, <2>2
       DEF TypeOK, DriveStopped, StopMatchesMode, TurboMatchesMode, Middle
<1> QED
  BY <1>1, <1>2, <1>3, <1>4 DEF ExecuteMode

(* The course a tick remembers is a set of directions, and the wheels keep *)
(* to it: in the autonomous mode prevRoad tells whether two ticks agree.   *)
LEMMA CourseKept ==
  ASSUME IInv, UpdateMode, ExecuteMode, Remember
  PROVE  Course \in SUBSET (0 .. 7) /\ DebouncedSteering'
<1>1. /\ dir \in 0 .. 7 /\ Correction[road] \in 0 .. 7
      /\ seen.course \in SUBSET (0 .. 7)
  BY CorrectionType DEF IInv, TypeOK
<1>2. seen'.course = Course
  BY DEF Remember
<1>3. CASE mode' # "autonomous"
  BY <1>3 DEF Course, DebouncedSteering
<1>4. CASE mode' = "autonomous" /\ mode # "autonomous"
  <2>1. Course = {dir, Correction[road]}
    BY <1>4 DEF Course
  <2>2. dir' \in {dir, Correction[road]}
    BY <1>4 DEF ExecuteMode, DriveAutonomous, DriveManual, DriveAvoiding, DriveStopped
  <2> QED
    BY <1>1, <1>2, <2>1, <2>2 DEF DebouncedSteering
<1>5. CASE mode' = "autonomous" /\ mode = "autonomous"
  <2>1. Course = IF road = seen.road THEN {Correction[road]} ELSE seen.course
    BY <1>5 DEF Course
  <2>2. dir' = IF road = prevRoad THEN Correction[road] ELSE dir
    BY <1>5 DEF ExecuteMode, DriveAutonomous, DriveManual, DriveAvoiding, DriveStopped
  <2>3. prevRoad = seen.road /\ dir \in seen.course
    BY <1>5 DEF IInv, SteeringMemory, DebouncedSteering
  <2> QED
    BY <1>1, <1>2, <2>1, <2>2, <2>3 DEF DebouncedSteering
<1> QED
  BY <1>3, <1>4, <1>5

(* A control tick re-establishes the invariant, whatever came in since the *)
(* last one.                                                               *)
LEMMA SystemControlInductive ==
  ASSUME IInv, SystemControl
  PROVE  IInv'
<1>1. UpdateMode /\ ExecuteMode /\ Remember
  BY DEF SystemControl
<1>2. seen'.zone = Zone /\ seen'.road = road
  BY <1>1 DEF Remember
<1>3. seen'.streak = IF Zone # "critical" THEN 0
                     ELSE IF seen.streak = 0 THEN 1 ELSE 2
  BY <1>1 DEF Remember
<1>4. TypeOK'
  <2>1. mode' \in Mode
    BY <1>1, UpdateModeMatchesZone
  <2>2. seen' \in [zone : {"clear", "close", "critical"}, road : RoadDetection,
                   streak : 0 .. 2, course : SUBSET (0 .. 7)]
    <3>1. Course \in SUBSET (0 .. 7) /\ road \in RoadDetection
      BY <1>1, CourseKept DEF IInv, TypeOK
    <3>2. seen'.streak \in 0 .. 2
      BY <1>3
    <3> QED
      BY <1>1, <1>3, <3>1, <3>2, ZoneType DEF Remember
  <2>3. /\ dir' \in 0 .. 7
        /\ speed' \in {Stop, Normal, Turbo}
        /\ turbo' \in BOOLEAN
        /\ prevRoad' \in RoadDetection
    BY <1>1, ExecuteModeMatchesMode
  <2>4. sent' = NoFrame /\ notified' = NoFrame
    BY DEF SystemControl, Silent
  <2> QED
    BY <2>1, <2>2, <2>3, <2>4 DEF SystemControl, IInv, TypeOK, inputs, request
<1>5. ModeMatchesZone'
  BY <1>1, <1>2, UpdateModeMatchesZone DEF ModeMatchesZone
<1>6. StreakMatchesMode'
  <2>1. seen.streak \in 0 .. 2
    BY DEF IInv, TypeOK
  <2>2. ASSUME seen'.streak = 2 PROVE mode' = "emergencyStop"
    <3>1. Zone = "critical" /\ seen.streak >= 1
      BY <1>3, <2>1, <2>2
    <3>2. mode \notin {"manual", "autonomous"}
      BY <3>1 DEF IInv, ModeMatchesZone, StreakMatchesMode
    <3> QED
      BY <1>1, <3>1, <3>2, UpdateModeMatchesZone
  <2> QED
    BY <1>2, <1>3, <2>2 DEF StreakMatchesMode
<1>7. StopMatchesMode' /\ TurboMatchesMode' /\ SteeringMemory'
  BY <1>1, <1>2, ExecuteModeMatchesMode DEF SteeringMemory
<1>8. DebouncedSteering'
  BY <1>1, CourseKept
<1> QED
  BY <1>4, <1>5, <1>6, <1>7, <1>8 DEF IInv

-----------------------------------------------------------------------------
(* The other callbacks leave the command alone: only types are at stake.   *)

(* A callback that leaves the command alone preserves the invariant.       *)
LEMMA CommandPreserves ==
  ASSUME IInv, UNCHANGED command, TypeOK'
  PROVE  IInv'
BY DEF IInv, command, ModeMatchesZone, StreakMatchesMode, StopMatchesMode,
       TurboMatchesMode, SteeringMemory, DebouncedSteering

(* The frame that is sent carries the command of its kind.                 *)
LEMMA CanOnTimeToSendType ==
  ASSUME TypeOK, CanOnTimeToSend
  PROVE  TypeOK'
BY DEF TypeOK, CanOnTimeToSend, inputs, request, command

(* A picture leaves one of the five verdicts.                              *)
LEMMA CameraProcessType ==
  ASSUME TypeOK, NEW img \in Image, CameraProcess(img)
  PROVE  TypeOK'
<1>1. img[1] \in Nat /\ img[2] \in Nat
  BY InputAssumption
<1>2. road' \in RoadDetection
  BY <1>1, PlacementType DEF CameraProcess
<1> QED
  BY <1>2 DEF TypeOK, CameraProcess, Silent, request, command

(* What is notified fits the two bytes of the feedback.                    *)
LEMMA NotificationType ==
  ASSUME TypeOK, obstacles' \in Echo, speedMeasure' \in 0 .. 25,
         dirMeasure' \in 0 .. 255, bat' \in 0 .. 255, SendNotification
  PROVE  notified' \in [mode : {"manual", "autonomous"}, speed : 0 .. 31,
                        dir : 0 .. 3, road : RoadDetection,
                        obst : SUBSET {s \div 2 : s \in Sensor}, bat : 0 .. 3]
<1>1. \A n \in 0 .. 255 : n % 4 \in 0 .. 3 /\ n % 32 \in 0 .. 31
  OBVIOUS
<1>2. speedMeasure' % 32 \in 0 .. 31 /\ dirMeasure' % 4 \in 0 .. 3 /\ bat' % 4 \in 0 .. 3
  <2>1. speedMeasure' \in 0 .. 255
    OBVIOUS
  <2> QED
    BY <1>1, <2>1
<1>3. Sides(obstacles') \in SUBSET {s \div 2 : s \in Sensor}
  BY DEF Sides
<1>4. ReportedMode \in {"manual", "autonomous"} /\ road \in RoadDetection
  BY DEF ReportedMode, TypeOK
<1> QED
  BY <1>2, <1>3, <1>4 DEF SendNotification

(* An ultrasound frame leaves an echo per sensor and a feedback that fits. *)
LEMMA CanOnUltrasoundType ==
  ASSUME TypeOK, NEW echo \in Echo, CanOnUltrasound(echo)
  PROVE  TypeOK'
<1>1. obstacles' \in Echo /\ UNCHANGED <<speedMeasure, dirMeasure, bat>>
  BY DEF CanOnUltrasound
<1>2. SendNotification /\ sent' = NoFrame
  BY DEF CanOnUltrasound, SendNotification
<1>3. /\ speedMeasure' \in 0 .. 25
      /\ dirMeasure' \in 0 .. 255
      /\ bat' \in 0 .. 255
  BY <1>1 DEF TypeOK
<1> QED
  BY <1>1, <1>2, <1>3, NotificationType DEF TypeOK, CanOnUltrasound, request, command

(* A telemetry frame leaves a byte per measure and a feedback that fits.   *)
LEMMA CanOnTelemetryType ==
  ASSUME TypeOK, NEW f \in TelemetryFrame, CanOnTelemetry(f)
  PROVE  TypeOK'
<1>1. f.data \in 0 .. 255
  BY InputAssumption
<1>2. f.data \div 10 \in 0 .. 25
  BY <1>1
<1>3. /\ speedMeasure' \in 0 .. 25
      /\ dirMeasure' \in 0 .. 255
      /\ bat' \in 0 .. 255
  BY <1>1, <1>2 DEF TypeOK, CanOnTelemetry, Left
<1>4. obstacles' \in Echo /\ SendNotification /\ sent' = NoFrame
  BY DEF TypeOK, CanOnTelemetry, SendNotification
<1> QED
  BY <1>3, <1>4, NotificationType DEF TypeOK, CanOnTelemetry, request, command

(* A byte from the remote leaves a well-formed request.                    *)
LEMMA BleOnDataReceivedType ==
  ASSUME TypeOK, NEW value \in 0 .. 255, BleOnDataReceived(value)
  PROVE  TypeOK'
<1>2. requestedDir' \in 0 .. 7
  BY DEF BleOnDataReceived
<1>3. requestedMode' \in {"manual", "autonomous"}
  BY DEF TypeOK, BleOnDataReceived
<1>4. /\ moving' \in BOOLEAN
      /\ requestedTurbo' \in BOOLEAN
      /\ idle' \in BOOLEAN
  <2> DEFINE state == value \div 32
  <2>1. CASE UNCHANGED <<requestedMode, moving, requestedTurbo, idle>>
    BY <2>1 DEF TypeOK
  <2>2. CASE /\ moving' = (state \in {2, 4})
             /\ requestedTurbo' = (state \in {3, 4})
             /\ idle' = (state \notin {0, 5})
    <3>1. (state \in {2, 4}) \in BOOLEAN /\ (state \in {3, 4}) \in BOOLEAN
          /\ (state \notin {0, 5}) \in BOOLEAN
      OBVIOUS
    <3> QED
      BY <2>2, <3>1, Zenon
  <2> QED
    BY <2>1, <2>2, Zenon DEF BleOnDataReceived
<1> QED
  BY <1>2, <1>3, <1>4 DEF TypeOK, BleOnDataReceived, Silent, inputs, command

(* The end of the process leaves the other variables alone.                *)
LEMMA QuitType ==
  ASSUME TypeOK, Quit
  PROVE  TypeOK'
BY DEF TypeOK, Quit, Silent, inputs, request, command

-----------------------------------------------------------------------------
(* The invariant holds at the start.                                       *)
LEMMA InitIInv == Init => IInv
<1> SUFFICES ASSUME Init PROVE IInv
  OBVIOUS
<1>1. TypeOK
  <2>1. obstacles \in Echo
    BY DEF Init, Echo
  <2>2. /\ turbo \in BOOLEAN /\ requestedTurbo \in BOOLEAN
        /\ moving \in BOOLEAN /\ idle \in BOOLEAN /\ running \in BOOLEAN
    BY DEF Init
  <2>3. seen \in [zone : {"clear", "close", "critical"}, road : RoadDetection,
                  streak : 0 .. 2, course : SUBSET (0 .. 7)]
    BY DEF Init, RoadDetection
  <2> QED
    BY <2>1, <2>2, <2>3
       DEF Init, TypeOK, Mode, RoadDetection, Stop, Normal, Turbo, Middle
<1>2. ModeMatchesZone /\ StreakMatchesMode /\ SteeringMemory /\ DebouncedSteering
  BY DEF Init, ModeMatchesZone, StreakMatchesMode, SteeringMemory, DebouncedSteering
<1>3. StopMatchesMode /\ TurboMatchesMode
  <2>1. ~turbo /\ speed = Stop /\ mode = "manual"
    BY DEF Init
  <2> QED
    BY <2>1 DEF StopMatchesMode, TurboMatchesMode, Stop, Turbo
<1> QED
  BY <1>1, <1>2, <1>3 DEF IInv

(* Every callback preserves the invariant.                                 *)
LEMMA NextIInv == IInv /\ [Next]_vars => IInv'
<1> SUFFICES ASSUME IInv, [Next]_vars PROVE IInv'
  OBVIOUS
<1>0. TypeOK
  BY DEF IInv
<1>1. CASE SystemControl
  BY <1>1, SystemControlInductive
<1>2. CASE CanOnTimeToSend
  BY <1>0, <1>2, CanOnTimeToSendType, CommandPreserves DEF CanOnTimeToSend
<1>3. ASSUME NEW img \in Image, CameraProcess(img) PROVE IInv'
  BY <1>0, <1>3, CameraProcessType, CommandPreserves DEF CameraProcess
<1>4. ASSUME NEW echo \in Echo, CanOnUltrasound(echo) PROVE IInv'
  BY <1>0, <1>4, CanOnUltrasoundType, CommandPreserves DEF CanOnUltrasound
<1>5. ASSUME NEW f \in TelemetryFrame, CanOnTelemetry(f) PROVE IInv'
  BY <1>0, <1>5, CanOnTelemetryType, CommandPreserves DEF CanOnTelemetry
<1>6. ASSUME NEW value \in BleValue, BleOnDataReceived(value) PROVE IInv'
  <2>1. value \in 0 .. 255
    BY InputAssumption
  <2> QED
    BY <1>0, <1>6, <2>1, BleOnDataReceivedType, CommandPreserves DEF BleOnDataReceived
<1>7. CASE Quit
  BY <1>0, <1>7, QuitType, CommandPreserves DEF Quit
<1>8. CASE UNCHANGED vars
  <2>1. TypeOK'
    BY <1>0, <1>8 DEF TypeOK, vars, inputs, request, command, events
  <2> QED
    BY <1>8, <2>1, CommandPreserves DEF vars
<1> QED
  BY <1>1, <1>2, <1>3, <1>4, <1>5, <1>6, <1>7, <1>8 DEF Next

(* The inductive invariant holds in every reachable state.                 *)
THEOREM Invariance == Spec => []IInv
<1> QED
  BY InitIInv, NextIInv, PTL DEF Spec

(* Every variable keeps its type, and what is sent fits its frame.         *)
THEOREM TypeCorrectness == Spec => []TypeOK
<1>1. IInv => TypeOK
  BY DEF IInv
<1> QED
  BY <1>1, Invariance, PTL

(* Two critical control ticks in a row stop the car, from every mode.      *)
THEOREM PersistentDangerStops == Spec => []EmergencyStopOnPersistentDanger
<1>1. IInv => EmergencyStopOnPersistentDanger
  BY DEF IInv, StreakMatchesMode, StopMatchesMode, EmergencyStopOnPersistentDanger
<1> QED
  BY <1>1, Invariance, PTL

(* Turbo never outlives the manual mode in the clear.                      *)
THEOREM TurboIsManual == Spec => []TurboOnlyInTheClear
<1>1. IInv => TurboOnlyInTheClear
  BY DEF IInv, TurboMatchesMode, ModeMatchesZone, TurboOnlyInTheClear
<1> QED
  BY <1>1, Invariance, PTL

(* The car drives itself in the clear only.                                *)
THEOREM AutonomyIsInTheClear == Spec => []AutonomyOnlyInTheClear
<1>1. IInv => AutonomyOnlyInTheClear
  BY DEF IInv, ModeMatchesZone, AutonomyOnlyInTheClear
<1> QED
  BY <1>1, Invariance, PTL

(* From the first two ticks of a spell of autonomous drive that agree on   *)
(* the road, the wheels follow what two ticks in a row last agreed on.     *)
THEOREM SteeringIsDebounced == Spec => []DebouncedSteering
<1>1. IInv => DebouncedSteering
  BY DEF IInv
<1> QED
  BY <1>1, Invariance, PTL

=============================================================================
