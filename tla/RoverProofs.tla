---------------------------- MODULE RoverProofs ----------------------------
(***************************************************************************)
(* The deadlines of the composition and the stability of the manual mode,  *)
(* for any sensors, distances, pictures and telemetry.  The deadlines rest *)
(* on potentials: for each state on the way to a halt, how much of the     *)
(* history's count and of the running timer is left at most.               *)
(***************************************************************************)
EXTENDS Rover, AcmApplicationProofs

FeedbackMode == {"manual", "autonomous"}

(* Time goes on only when the links are empty, so what is on its way there *)
(* was put there by a timer that has just been armed again.                *)
Tidy ==
  /\ due.tick < Period.tick => frames = 0 /\ feedback = <<>>
  /\ due.task < Period.task => writing = <<>>
  /\ frames + Len(feedback) <= 2
  /\ ~running => frames = 0 /\ feedback = <<>> /\ writing = <<>>

(* The way to a halt before an obstacle: two control ticks, and then the   *)
(* next speed frame, which may have to wait for a direction frame.         *)
DangerBounded ==
  /\ Zone # "critical" => danger = 0
  /\ running /\ Zone = "critical" =>
       /\ mode \in {"manual", "autonomous"} => danger + due.control <= 2
       /\ mode = "obstAvoiding" => danger + due.control <= 4
       /\ mode = "emergencyStop" /\ motor # Stop =>
            danger + due.send <= IF nextFrame = "SpeedCmd" THEN 6 ELSE 5

(* The way to a halt without commands: one tick of the STM32 to find that  *)
(* it has heard something, and one to find that it has not.                *)
LostBounded ==
  /\ running => lost = 0
  /\ ~running /\ motor # Stop => lost + due.tick <= IF heard THEN 4 ELSE 8

RInv ==
  /\ IInv
  /\ RoverTypeOK
  /\ Tidy
  /\ DangerBounded
  /\ LostBounded

-----------------------------------------------------------------------------
(* Timers and histories.                                                   *)

Due == [control : 0 .. 2, send : 0 .. 1, tick : 0 .. 4, task : 0 .. 8]

(* The periods, in units.                                                  *)
LEMMA Periods ==
  /\ Period.control = 2 /\ Period.send = 1 /\ Period.tick = 4 /\ Period.task = 8
  /\ Period["control"] = 2 /\ Period["send"] = 1
  /\ Period["tick"] = 4 /\ Period["task"] = 8
BY DEF Period

(* An armed timer has its whole period before it, and the others go on.    *)
LEMMA RearmFields ==
  ASSUME due \in Due, NEW timer \in {"control", "send", "tick", "task"}, Rearm(timer)
  PROVE  /\ due' \in Due
         /\ due'.control = IF timer = "control" THEN 2 ELSE due.control
         /\ due'.send = IF timer = "send" THEN 1 ELSE due.send
         /\ due'.tick = IF timer = "tick" THEN 4 ELSE due.tick
         /\ due'.task = IF timer = "task" THEN 8 ELSE due.task
BY Periods DEF Rearm, Due

(* A unit of time takes one from each timer that has not expired.          *)
LEMMA ElapseFields ==
  ASSUME due \in Due, Elapse
  PROVE  /\ due' \in Due
         /\ due'.control = IF due.control > 0 THEN due.control - 1 ELSE 0
         /\ due'.send = IF due.send > 0 THEN due.send - 1 ELSE 0
         /\ due'.tick = IF due.tick > 0 THEN due.tick - 1 ELSE 0
         /\ due'.task = IF due.task > 0 THEN due.task - 1 ELSE 0
<1>1. due' = [timer \in {"control", "send", "tick", "task"} |->
               IF due[timer] > 0 THEN due[timer] - 1 ELSE 0]
  BY DEF Elapse, Due
<1> QED
  BY <1>1 DEF Due

(* A history counts up to its cap, and only with time.                     *)
LEMMA CountBounds ==
  ASSUME NEW cap \in Nat, NEW n \in 0 .. cap, NEW elapsed \in BOOLEAN
  PROVE  /\ Count(n, cap, elapsed) \in 0 .. cap
         /\ Count(n, cap, elapsed) <= n + 1
         /\ ~elapsed => Count(n, cap, elapsed) = n
BY DEF Count

(* What every step does to the histories.                                  *)
LEMMA WatchBounds ==
  ASSUME RoverTypeOK, NEW pressed \in BOOLEAN, NEW elapsed \in BOOLEAN,
         NEW asked \in {"any", "manual", "autonomous"},
         Watch(pressed, asked, elapsed)
  PROVE  /\ wanted' \in {"any", "manual", "autonomous"}
         /\ calm' \in 0 .. CalmCap /\ danger' \in 0 .. DangerCap /\ lost' \in 0 .. LostCap
         /\ Zone' # "critical" => danger' = 0
         /\ danger' <= danger + 1 /\ (~elapsed => danger' <= danger)
         /\ running' => lost' = 0
         /\ lost' <= lost + 1 /\ (~elapsed => lost' <= lost)
<1>1. calm \in 0 .. CalmCap /\ danger \in 0 .. DangerCap /\ lost \in 0 .. LostCap
  BY DEF RoverTypeOK
<1>2. CalmCap \in Nat /\ DangerCap \in Nat /\ LostCap \in Nat
  BY DEF CalmCap, DangerCap, LostCap
<1>3. wanted' \in {"any", "manual", "autonomous"}
  BY DEF Watch
<1>4. calm' = 0 \/ calm' = Count(calm, CalmCap, elapsed)
  BY DEF Watch
<1>5. danger' = IF Zone' # "critical" THEN 0 ELSE Count(danger, DangerCap, elapsed)
  BY DEF Watch
<1>6. lost' = IF running' THEN 0 ELSE Count(lost, LostCap, elapsed)
  BY DEF Watch
<1> DEFINE C == Count(calm, CalmCap, elapsed)
           D == Count(danger, DangerCap, elapsed)
           L == Count(lost, LostCap, elapsed)
<1>7. C \in 0 .. CalmCap
  BY <1>1, <1>2, CountBounds
<1>8. D \in 0 .. DangerCap /\ D <= danger + 1 /\ (~elapsed => D = danger)
  BY <1>1, <1>2, CountBounds
<1>9. L \in 0 .. LostCap /\ L <= lost + 1 /\ (~elapsed => L = lost)
  BY <1>1, <1>2, CountBounds
<1> HIDE DEF C, D, L
<1>10. calm' \in 0 .. CalmCap
  BY <1>2, <1>4, <1>7 DEF C
<1>11. /\ danger' \in 0 .. DangerCap
       /\ Zone' # "critical" => danger' = 0
       /\ danger' <= danger + 1 /\ (~elapsed => danger' <= danger)
  BY <1>1, <1>2, <1>5, <1>8 DEF D
<1>12. /\ lost' \in 0 .. LostCap
       /\ running' => lost' = 0
       /\ lost' <= lost + 1 /\ (~elapsed => lost' <= lost)
  BY <1>1, <1>2, <1>6, <1>9 DEF L
<1> QED
  BY <1>3, <1>10, <1>11, <1>12

(* The zone is where the obstacles are.                                    *)
LEMMA ZoneOfObstacles ==
  ASSUME UNCHANGED obstacles
  PROVE  Zone' = Zone
BY DEF Zone, Nearest, Echoing

-----------------------------------------------------------------------------
(* What the steps of the remote, the STM32 and time leave of the Raspberry *)
(* Pi's invariant.                                                         *)
LEMMA IInvStutters ==
  ASSUME IInv, UNCHANGED vars
  PROVE  IInv'
BY NextIInv

(* The callbacks of the Raspberry Pi, with the byte the remote makes of a  *)
(* state code.                                                             *)
LEMMA IInvSteps ==
  ASSUME RInv, Decide
  PROVE  IInv'
<1>0. IInv /\ TypeOK
  BY DEF RInv, IInv
<1>1. CASE Control
  BY <1>0, <1>1, SystemControlInductive DEF Control
<1>2. CASE Command
  BY <1>0, <1>2, CanOnTimeToSendType, CommandPreserves DEF Command, CanOnTimeToSend
<1>3. CASE Camera
  BY <1>0, <1>3, CameraProcessType, CommandPreserves DEF Camera, CameraProcess
<1>4. CASE ReadFrame
  <2>1. CASE \E echo \in Echo : CanOnUltrasound(echo)
    BY <1>0, <2>1, CanOnUltrasoundType, CommandPreserves DEF CanOnUltrasound
  <2>2. CASE \E f \in TelemetryFrame : CanOnTelemetry(f)
    BY <1>0, <2>2, CanOnTelemetryType, CommandPreserves DEF CanOnTelemetry
  <2> QED
    BY <1>4, <2>1, <2>2 DEF ReadFrame
<1>5. CASE ReadByte
  <2>1. Head(writing) \in StateCode
    BY <1>5 DEF ReadByte, RInv, RoverTypeOK
  <2>2. Head(writing) * 32 + NoDirection \in 0 .. 255
    BY <2>1 DEF StateCode, NoDirection, Rest, Started, Driving, Autonomous
  <2> QED
    BY <1>0, <1>5, <2>2, BleOnDataReceivedType, CommandPreserves
       DEF ReadByte, BleOnDataReceived
<1>6. CASE Part
  BY <1>0, <1>6, QuitType, CommandPreserves DEF Part, Quit
<1> QED
  BY <1>1, <1>2, <1>3, <1>4, <1>5, <1>6 DEF Decide

-----------------------------------------------------------------------------
(* Types, and links that are emptied before time goes on.                  *)

(* The part of the type invariant that is not about histories or the       *)
(* Raspberry Pi.                                                           *)
LinksOK ==
  /\ screen \in StateCode /\ patience \in 0 .. Patience /\ lastMessage \in StateCode
  /\ linked \in BOOLEAN /\ linked = running
  /\ writing \in Seq(StateCode) /\ Len(writing) <= 1
  /\ feedback \in Seq(FeedbackMode) /\ Len(feedback) <= 2
  /\ frames \in 0 .. 2 /\ heard \in BOOLEAN /\ motor \in {Stop, Normal, Turbo}
  /\ due \in Due

(* The type invariant, in the parts the proofs use.                        *)
LEMMA RoverTypeParts ==
  RoverTypeOK <=>
    /\ TypeOK /\ LinksOK
    /\ wanted \in {"any", "manual", "autonomous"}
    /\ calm \in 0 .. CalmCap /\ danger \in 0 .. DangerCap /\ lost \in 0 .. LostCap
BY Periods DEF RoverTypeOK, LinksOK, Due, FeedbackMode

(* What is put on a link.                                                  *)
LEMMA AppendToLink ==
  ASSUME NEW S, NEW link \in Seq(S), NEW e \in S
  PROVE  Append(link, e) \in Seq(S) /\ Len(Append(link, e)) = Len(link) + 1
OBVIOUS

(* What is taken from a link, and what stays.                              *)
LEMMA TakeFromLink ==
  ASSUME NEW S, NEW link \in Seq(S), link # <<>>
  PROVE  /\ Head(link) \in S
         /\ Tail(link) \in Seq(S) /\ Len(Tail(link)) = Len(link) - 1
OBVIOUS

(* The operator of the remote.                                             *)
LEMMA OperateTidy ==
  ASSUME RInv, Operate
  PROVE  LinksOK' /\ Tidy'
<1>0. LinksOK /\ Tidy /\ Patience \in Nat /\ due \in Due
  BY RoverTypeParts, PatienceAssumption DEF RInv, LinksOK
<1>1. CASE AutoClick \/ StartClick \/ OnMove
  <2>1. UNCHANGED <<vars, lastMessage, radio, node, due>> /\ screen' \in StateCode
    BY <1>1 DEF AutoClick, StartClick, OnMove, Press,
                StateCode, Rest, Started, Driving, Autonomous
  <2>2. patience' \in {patience, Patience}
    BY <1>1 DEF AutoClick, StartClick, OnMove
  <2> QED
    BY <1>0, <2>1, <2>2 DEF LinksOK, Tidy, radio, node, vars
<1>2. CASE ChangeMode
  <2>1. feedback' \in Seq(FeedbackMode) /\ Len(feedback') = Len(feedback) - 1
    BY <1>0, <1>2, TakeFromLink DEF ChangeMode, LinksOK
  <2>2. screen' \in StateCode
    BY <1>0, <1>2 DEF ChangeMode, LinksOK, StateCode, Rest, Autonomous
  <2>3. patience' \in 0 .. Patience
    BY <1>0, <1>2 DEF ChangeMode, LinksOK
  <2>4. UNCHANGED <<running, lastMessage, linked, writing, frames, heard, motor, due>>
    BY <1>2 DEF ChangeMode, vars, node
  <2>5. feedback # <<>>
    BY <1>2 DEF ChangeMode
  <2>6. LinksOK'
    BY <1>0, <2>1, <2>2, <2>3, <2>4 DEF LinksOK
  <2> QED
    BY <1>0, <2>1, <2>4, <2>5, <2>6 DEF LinksOK, Tidy
<1>3. CASE TaskRuns
  <2>1. Rearm("task") /\ Expired("task") /\ linked
    BY <1>3 DEF TaskRuns
  <2>2. due' \in Due /\ due'.task = 8 /\ due'.tick = due.tick
    BY <1>0, <2>1, RearmFields
  <2>3. writing = <<>>
    BY <1>0, <2>1, Periods DEF Tidy, Expired
  <2>4. writing' \in Seq(StateCode) /\ Len(writing') <= 1
    <3>1. writing' \in {writing, Append(writing, screen)}
      BY <1>3 DEF TaskRuns
    <3>2. writing \in Seq(StateCode) /\ screen \in StateCode
      BY <1>0 DEF LinksOK
    <3>3. Len(writing) = 0
      BY <2>3
    <3>4. Append(writing, screen) \in Seq(StateCode) /\ Len(Append(writing, screen)) = 1
      BY <3>2, <3>3, AppendToLink
    <3>5. CASE writing' = writing
      BY <3>2, <3>3, <3>5
    <3>6. CASE writing' = Append(writing, screen)
      BY <3>4, <3>6
    <3> QED
      BY <3>1, <3>5, <3>6
  <2>5. lastMessage' \in StateCode
    BY <1>0, <1>3 DEF TaskRuns, LinksOK
  <2>6. UNCHANGED <<running, screen, patience, linked, feedback, frames, heard, motor>>
    BY <1>3 DEF TaskRuns, vars, node
  <2>7. LinksOK'
    BY <1>0, <2>2, <2>4, <2>5, <2>6 DEF LinksOK
  <2>8. linked /\ linked = running /\ running' = running
    BY <1>0, <2>1, <2>6 DEF LinksOK
  <2> QED
    BY <1>0, <2>1, <2>2, <2>6, <2>7, <2>8, Periods DEF Tidy
<1> QED
  BY <1>1, <1>2, <1>3 DEF Operate

(* The callbacks of the Raspberry Pi.                                      *)
LEMMA DecideTidy ==
  ASSUME RInv, Decide
  PROVE  LinksOK' /\ Tidy'
<1>0. LinksOK /\ Tidy /\ TypeOK /\ due \in Due
  BY RoverTypeParts DEF RInv, LinksOK
<1>1. CASE Control
  <2>1. due' \in Due /\ due'.task = due.task /\ due'.tick = due.tick
    BY <1>0, <1>1, RearmFields DEF Control
  <2>2. UNCHANGED <<running, remote, radio, node>>
    BY <1>1 DEF Control, SystemControl
  <2> QED
    BY <1>0, <2>1, <2>2 DEF LinksOK, Tidy, remote, radio, node
<1>2. CASE Command
  <2>1. due' \in Due /\ due'.task = due.task /\ due'.tick = due.tick
    BY <1>0, <1>2, RearmFields DEF Command
  <2>2. heard' = TRUE /\ UNCHANGED <<running, remote, radio, frames>>
    BY <1>2 DEF Command, CanOnTimeToSend
  <2>3. motor' \in {motor, speed}
    BY <1>2 DEF Command, CanOnTimeToSend
  <2>4. motor' \in {Stop, Normal, Turbo}
    BY <1>0, <2>3 DEF LinksOK, TypeOK
  <2> QED
    BY <1>0, <2>1, <2>2, <2>4 DEF LinksOK, Tidy, remote, radio
<1>3. CASE Camera
  BY <1>0, <1>3 DEF Camera, CameraProcess, LinksOK, Tidy, remote, radio, node
<1>4. CASE ReadFrame
  <2>1. frames \in {1, 2} /\ frames' = frames - 1
    BY <1>4 DEF ReadFrame
  <2>2. /\ running /\ UNCHANGED running
        /\ notified'.mode \in FeedbackMode
    BY <1>0, <1>4
       DEF ReadFrame, CanOnUltrasound, CanOnTelemetry, SendNotification,
           ReportedMode, FeedbackMode
  <2>3. feedback' \in Seq(FeedbackMode) /\ Len(feedback') = Len(feedback) + 1
    BY <1>0, <1>4, <2>2, AppendToLink DEF ReadFrame, LinksOK
  <2>4. UNCHANGED <<remote, linked, writing, heard, motor, due>>
    BY <1>4 DEF ReadFrame
  <2>5. Len(feedback) \in Nat
    BY <1>0 DEF LinksOK
  <2>6. frames + Len(feedback) <= 2 /\ ~(due.tick < Period.tick)
    BY <1>0, <2>1 DEF Tidy
  <2> QED
    BY <1>0, <2>1, <2>2, <2>3, <2>4, <2>5, <2>6 DEF LinksOK, Tidy, remote
<1>5. CASE ReadByte
  <2>1. writing # <<>> /\ writing' = Tail(writing) /\ UNCHANGED running
    BY <1>5 DEF ReadByte, BleOnDataReceived
  <2>2. writing' \in Seq(StateCode) /\ Len(writing') = Len(writing) - 1
    BY <1>0, <2>1, TakeFromLink DEF LinksOK
  <2>3. UNCHANGED <<remote, linked, feedback, node, due>>
    BY <1>5 DEF ReadByte
  <2> QED
    BY <1>0, <2>1, <2>2, <2>3 DEF LinksOK, Tidy, remote, node
<1>6. CASE Part
  <2>1. /\ running' = FALSE /\ linked' = FALSE
        /\ writing' = <<>> /\ feedback' = <<>> /\ frames' = 0
        /\ screen' = Rest /\ patience' = 0 /\ lastMessage' = Rest
        /\ UNCHANGED <<heard, motor, due>>
    BY <1>6 DEF Part, Quit
  <2>2. Rest \in StateCode /\ 0 \in 0 .. Patience
    BY PatienceAssumption DEF StateCode
  <2>3. <<>> \in Seq(StateCode) /\ <<>> \in Seq(FeedbackMode) /\ Len(<<>>) = 0
    OBVIOUS
  <2>4. heard' \in BOOLEAN /\ motor' \in {Stop, Normal, Turbo} /\ due' \in Due
    BY <1>0, <2>1 DEF LinksOK
  <2>5. /\ writing' \in Seq(StateCode) /\ Len(writing') <= 1
        /\ feedback' \in Seq(FeedbackMode) /\ Len(feedback') <= 2
    BY <2>1, <2>3
  <2>6. /\ screen' \in StateCode /\ patience' \in 0 .. Patience /\ lastMessage' \in StateCode
    BY <2>1, <2>2
  <2>7. linked' \in BOOLEAN /\ linked' = running'
    BY <2>1, Zenon
  <2>8. frames' \in 0 .. 2
    BY <2>1
  <2>9. LinksOK'
    BY <2>4, <2>5, <2>6, <2>7, <2>8 DEF LinksOK
  <2> QED
    BY <2>1, <2>3, <2>9 DEF Tidy
<1> QED
  BY <1>1, <1>2, <1>3, <1>4, <1>5, <1>6 DEF Decide

(* The tick of the STM32.                                                  *)
LEMMA TickTidy ==
  ASSUME RInv, Tick
  PROVE  LinksOK' /\ Tidy'
<1>0. LinksOK /\ Tidy /\ due \in Due
  BY RoverTypeParts DEF RInv, LinksOK
<1>1. due' \in Due /\ due'.task = due.task /\ due'.tick = 4
  BY <1>0, RearmFields DEF Tick
<1>2. feedback = <<>> /\ Len(<<>>) = 0
  BY <1>0, Periods DEF Tidy, Tick, Expired
<1>3. /\ frames' = (IF running THEN 2 ELSE 0)
      /\ motor' \in {motor, Stop} /\ heard' = FALSE
      /\ UNCHANGED <<running, remote, radio>>
  BY DEF Tick, vars
<1>4. frames' \in 0 .. 2
  BY <1>3
<1>5. motor' \in {Stop, Normal, Turbo}
  BY <1>0, <1>3 DEF LinksOK
<1>6. heard' \in BOOLEAN
  BY <1>3
<1>7. LinksOK'
  BY <1>0, <1>1, <1>3, <1>4, <1>5, <1>6 DEF LinksOK, remote, radio
<1> QED
  BY <1>0, <1>1, <1>2, <1>3, <1>7, Periods DEF Tidy, remote, radio

(* A unit of time.                                                         *)
LEMMA ElapseTidy ==
  ASSUME RInv, Elapse
  PROVE  LinksOK' /\ Tidy'
<1>0. LinksOK /\ Tidy /\ due \in Due
  BY RoverTypeParts DEF RInv, LinksOK
<1>1. due' \in Due
  BY <1>0, ElapseFields
<1>2. UNCHANGED <<running, remote, radio, node>>
  BY DEF Elapse, vars
<1>3. frames = 0 /\ feedback = <<>> /\ writing = <<>>
  BY DEF Elapse
<1>4. Len(<<>>) = 0
  OBVIOUS
<1>5. LinksOK'
  BY <1>0, <1>1, <1>2 DEF LinksOK, remote, radio, node
<1> QED
  BY <1>2, <1>3, <1>4, <1>5 DEF Tidy, radio, node

-----------------------------------------------------------------------------
(* What any step does to the histories.                                    *)
LEMMA HistoryBounds ==
  ASSUME RInv, RoverNext
  PROVE  /\ wanted' \in {"any", "manual", "autonomous"}
         /\ calm' \in 0 .. CalmCap /\ danger' \in 0 .. DangerCap /\ lost' \in 0 .. LostCap
         /\ Zone' # "critical" => danger' = 0
         /\ danger' <= danger + 1 /\ (Operate \/ Decide \/ Tick => danger' <= danger)
         /\ running' => lost' = 0
         /\ lost' <= lost + 1 /\ (Operate \/ Decide \/ Tick => lost' <= lost)
<1>0. RoverTypeOK /\ wanted \in {"any", "manual", "autonomous"}
  BY DEF RInv, RoverTypeOK
<1> DEFINE Kept == /\ wanted' \in {"any", "manual", "autonomous"}
                   /\ calm' \in 0 .. CalmCap /\ danger' \in 0 .. DangerCap
                   /\ lost' \in 0 .. LostCap
                   /\ Zone' # "critical" => danger' = 0
                   /\ running' => lost' = 0
                   /\ danger' <= danger + 1 /\ lost' <= lost + 1
<1>1. ASSUME Elapse PROVE Kept
  <2>1. Watch(FALSE, wanted, TRUE)
    BY <1>1 DEF Elapse
  <2> QED
    BY <1>0, <1>1, <2>1, WatchBounds
<1>2. ASSUME Operate \/ Decide \/ Tick
      PROVE  Kept /\ danger' <= danger /\ lost' <= lost
  <2>1. \E pressed \in BOOLEAN, asked \in {"any", "manual", "autonomous"} :
           Watch(pressed, asked, FALSE)
    <3>1. CASE AutoClick
      <4>1. PICK code \in StateCode : Watch(TRUE, IF Agreed THEN ModeOf(code) ELSE "any", FALSE)
        BY <3>1 DEF AutoClick, StateCode
      <4>2. (IF Agreed THEN ModeOf(code) ELSE "any") \in {"any", "manual", "autonomous"}
        BY DEF ModeOf
      <4> QED
        BY <4>1, <4>2
    <3>2. CASE StartClick \/ OnMove
      BY <1>0, <3>2 DEF StartClick, OnMove
    <3>3. CASE Unseen
      BY <1>0, <3>3 DEF Unseen
    <3> QED
      BY <1>2, <3>1, <3>2, <3>3
         DEF Operate, Decide, ChangeMode, TaskRuns, Control, Command, Camera,
             ReadFrame, ReadByte, Part, Tick
  <2> QED
    BY <1>0, <2>1, WatchBounds
<1> QED
  BY <1>1, <1>2 DEF RoverNext

(* A timer armed again behind a count that does not grow.                  *)
LEMMA ArmedBehind ==
  \A new, old \in Int :
    new <= old => /\ old <= 2 => new + 2 <= 4
                  /\ old <= 5 => new + 1 <= 6
                  /\ old <= 4 => new + 4 <= 8
OBVIOUS

(* The way to a halt before an obstacle never gets longer.                 *)
LEMMA DangerStep ==
  ASSUME RInv, RoverNext
  PROVE  DangerBounded'
<1>0. /\ IInv /\ LinksOK /\ DangerBounded /\ due \in Due /\ danger \in 0 .. DangerCap
      /\ linked = running
  BY RoverTypeParts DEF RInv, LinksOK
<1>a. /\ due.control \in 0 .. 2 /\ due.send \in 0 .. 1
  BY <1>0 DEF Due
<1>b. /\ danger' \in 0 .. DangerCap
      /\ Zone' # "critical" => danger' = 0
      /\ danger' <= danger + 1 /\ (Operate \/ Decide \/ Tick => danger' <= danger)
  BY HistoryBounds
<1>c. danger \in Int /\ danger' \in Int
  BY <1>0, <1>b DEF DangerCap
<1> SUFFICES ASSUME running', Zone' = "critical"
             PROVE  /\ mode' \in {"manual", "autonomous"} => danger' + due'.control <= 2
                    /\ mode' = "obstAvoiding" => danger' + due'.control <= 4
                    /\ mode' = "emergencyStop" /\ motor' # Stop =>
                         danger' + due'.send <= IF nextFrame' = "SpeedCmd" THEN 6 ELSE 5
  BY <1>b DEF DangerBounded
<1>1. CASE UNCHANGED <<running, obstacles, mode, nextFrame, motor, due.control, due.send>>
           /\ danger' <= danger
  <2>1. Zone' = Zone
    BY <1>1, ZoneOfObstacles
  <2> QED
    BY <1>0, <1>1, <1>a, <1>c, <2>1 DEF DangerBounded
<1>2. CASE Elapse
  <2>1. UNCHANGED <<running, obstacles, mode, nextFrame, motor>>
    BY <1>2 DEF Elapse, vars, inputs, command, node
  <2>2. Zone' = Zone
    BY <2>1, ZoneOfObstacles
  <2>3. due.control > 0 /\ due.send > 0
    BY <1>2, <2>1, <1>a DEF Elapse, Expired
  <2>4. due'.control = due.control - 1 /\ due'.send = due.send - 1
    BY <1>0, <1>2, <2>3, ElapseFields
  <2> QED
    BY <1>0, <1>a, <1>b, <1>c, <2>1, <2>2, <2>3, <2>4 DEF DangerBounded
<1>3. CASE Control
  <2>1. due.control = 0
    BY <1>3 DEF Control, Expired
  <2>2. due'.control = 2 /\ due'.send = due.send /\ due'.control \in Int
    BY <1>0, <1>3, RearmFields DEF Control, Due
  <2>3. /\ UNCHANGED <<running, obstacles, nextFrame, motor>>
        /\ running /\ UpdateMode
    BY <1>3 DEF Control, SystemControl, inputs, node
  <2>4. Zone' = Zone /\ Zone = "critical"
    BY <2>3, ZoneOfObstacles
  <2>5. mode' = IF mode \in {"manual", "autonomous"} THEN "obstAvoiding" ELSE "emergencyStop"
    BY <2>3, <2>4 DEF UpdateMode, LeaveAutonomous, LeaveManual, LeaveObstAvoiding,
                      LeaveEmergencyStop
  <2>7. danger' <= danger
    BY <1>3, <1>b DEF Decide
  <2>8. mode \in Mode
    BY <1>0 DEF IInv, TypeOK
  <2>9. CASE mode \in {"manual", "autonomous"}
    <3>1. mode' = "obstAvoiding"
      BY <2>5, <2>9
    <3>2. danger <= 2
      BY <1>0, <1>c, <2>1, <2>3, <2>4, <2>9 DEF DangerBounded
    <3>3. danger' + 2 <= 4
      BY <1>c, <2>7, <3>2, ArmedBehind
    <3> QED
      BY <2>2, <3>1, <3>3
  <2>10. CASE mode = "obstAvoiding"
    BY <1>0, <1>a, <1>c, <2>1, <2>2, <2>3, <2>4, <2>5, <2>7, <2>10 DEF DangerBounded
  <2>11. CASE mode = "emergencyStop"
    BY <1>0, <1>a, <1>c, <2>2, <2>3, <2>4, <2>5, <2>7, <2>11 DEF DangerBounded
  <2> QED
    BY <2>8, <2>9, <2>10, <2>11 DEF Mode
<1>4. CASE Command
  <2>1. due.send = 0
    BY <1>4 DEF Command, Expired
  <2>2. due'.send = 1 /\ due'.control = due.control /\ due'.send \in Int
    BY <1>0, <1>4, RearmFields DEF Command, Due
  <2>3. UNCHANGED <<running, obstacles, mode>> /\ running
    BY <1>4 DEF Command, CanOnTimeToSend, inputs, command
  <2>4. Zone' = Zone
    BY <2>3, ZoneOfObstacles
  <2>5. danger' <= danger
    BY <1>4, <1>b DEF Decide
  <2>6. \/ nextFrame = "DirectionCmd" /\ nextFrame' = "SpeedCmd" /\ motor' = motor
        \/ nextFrame = "SpeedCmd" /\ motor' = speed
    BY <1>4 DEF Command, CanOnTimeToSend
  <2>7. mode = "emergencyStop" => speed = Stop
    BY <1>0 DEF IInv, StopMatchesMode
  <2>8. CASE mode # "emergencyStop"
    <3>1. danger' + due'.control <= danger + due.control
      BY <1>a, <1>c, <2>2, <2>5
    <3>2. /\ mode \in {"manual", "autonomous"} => danger + due.control <= 2
          /\ mode = "obstAvoiding" => danger + due.control <= 4
      BY <1>0, <2>3, <2>4 DEF DangerBounded
    <3>3. danger + due.control \in Int /\ danger' + due'.control \in Int
      BY <1>a, <1>c, <2>2
    <3> QED
      BY <2>3, <2>8, <3>1, <3>2, <3>3
  <2>9. CASE mode = "emergencyStop" /\ nextFrame = "SpeedCmd"
    BY <2>3, <2>6, <2>7, <2>9
  <2>10. CASE mode = "emergencyStop" /\ nextFrame = "DirectionCmd" /\ nextFrame' = "SpeedCmd"
              /\ motor' = motor
    <3>1. CASE motor = Stop
      BY <2>3, <2>10, <3>1
    <3>2. CASE motor # Stop
      <4>1. danger <= 5
        BY <1>0, <1>a, <1>c, <2>1, <2>3, <2>4, <2>10, <3>2 DEF DangerBounded
      <4>2. danger' + 1 <= 6
        BY <1>c, <2>5, <4>1, ArmedBehind
      <4> QED
        BY <2>2, <2>3, <2>10, <4>2
    <3> QED
      BY <3>1, <3>2
  <2> QED
    BY <2>6, <2>8, <2>9, <2>10
<1>5. CASE Tick
  <2>1. due'.control = due.control /\ due'.send = due.send
    BY <1>0, <1>5, RearmFields DEF Tick
  <2>2. UNCHANGED <<running, obstacles, mode, nextFrame>> /\ motor' \in {motor, Stop}
    BY <1>5 DEF Tick, vars, inputs, command
  <2>3. Zone' = Zone
    BY <2>2, ZoneOfObstacles
  <2>4. danger' <= danger
    BY <1>5, <1>b
  <2> QED
    BY <1>0, <1>a, <1>b, <1>c, <2>1, <2>2, <2>3, <2>4 DEF DangerBounded
<1>6. CASE ReadFrame
  <2>1. UNCHANGED <<running, mode, nextFrame, motor, due>>
    BY <1>6 DEF ReadFrame, CanOnUltrasound, CanOnTelemetry, command
  <2>2. danger' <= danger
    BY <1>6, <1>b DEF Decide
  <2>3. CASE Zone = "critical"
    BY <1>0, <1>a, <1>b, <1>c, <2>1, <2>2, <2>3 DEF DangerBounded
  <2>4. CASE Zone # "critical"
    <3>1. danger' <= 0
      BY <1>0, <1>b, <1>c, <2>2, <2>4 DEF DangerBounded
    <3> QED
      BY <1>a, <1>c, <2>1, <3>1
  <2> QED
    BY <2>3, <2>4
<1>7. CASE Part
  BY <1>7 DEF Part, Quit
<1>8. CASE Operate
  <2>1. UNCHANGED <<running, obstacles, mode, nextFrame, motor>>
    BY <1>8 DEF Operate, AutoClick, StartClick, OnMove, Press, ChangeMode, TaskRuns,
                vars, inputs, command, node
  <2>2. due'.control = due.control /\ due'.send = due.send
    <3>1. CASE TaskRuns
      BY <1>0, <3>1, RearmFields DEF TaskRuns
    <3>2. CASE UNCHANGED due
      BY <3>2
    <3> QED
      BY <1>8, <3>1, <3>2 DEF Operate, AutoClick, StartClick, OnMove, Press, ChangeMode
  <2>3. danger' <= danger
    BY <1>8, <1>b
  <2> QED
    BY <1>1, <2>1, <2>2, <2>3
<1>9. CASE Camera
  <2>1. UNCHANGED <<running, obstacles, mode, nextFrame, motor, due>>
    BY <1>9 DEF Camera, CameraProcess, command, node
  <2>2. danger' <= danger
    BY <1>9, <1>b DEF Decide
  <2> QED
    BY <1>1, <2>1, <2>2
<1>10. CASE ReadByte
  <2>1. UNCHANGED <<running, obstacles, mode, nextFrame, motor, due>>
    BY <1>10 DEF ReadByte, BleOnDataReceived, inputs, command, node
  <2>2. danger' <= danger
    BY <1>10, <1>b DEF Decide
  <2> QED
    BY <1>1, <2>1, <2>2
<1> QED
  BY <1>2, <1>3, <1>4, <1>5, <1>6, <1>7, <1>8, <1>9, <1>10 DEF RoverNext, Decide

(* The way to a halt without commands never gets longer, and once there    *)
(* the motors stay there.                                                  *)
LEMMA LostStep ==
  ASSUME RInv, RoverNext
  PROVE  LostBounded'
<1>0. /\ LinksOK /\ LostBounded /\ due \in Due /\ lost \in 0 .. LostCap
  BY RoverTypeParts DEF RInv, LinksOK
<1>a. due.tick \in 0 .. 4
  BY <1>0 DEF Due
<1>b. /\ lost' \in 0 .. LostCap
      /\ running' => lost' = 0
      /\ lost' <= lost + 1 /\ (Operate \/ Decide \/ Tick => lost' <= lost)
  BY HistoryBounds
<1>c. lost \in Int /\ lost' \in Int
  BY <1>0, <1>b DEF LostCap
<1> SUFFICES ASSUME ~running', motor' # Stop
             PROVE  lost' + due'.tick <= IF heard' THEN 4 ELSE 8
  BY <1>b DEF LostBounded
<1>1. CASE Elapse
  <2>1. UNCHANGED <<running, heard, motor>> /\ due.tick > 0
    BY <1>1, <1>a DEF Elapse, Expired, vars, node
  <2>2. due'.tick = due.tick - 1
    BY <1>0, <1>1, <2>1, ElapseFields
  <2> QED
    BY <1>0, <1>a, <1>b, <1>c, <2>1, <2>2 DEF LostBounded
<1>2. CASE Tick
  <2>1. due.tick = 0 /\ due'.tick = 4
    BY <1>0, <1>2, RearmFields DEF Tick, Expired
  <2>2. heard /\ motor # Stop /\ ~running /\ heard' = FALSE
    BY <1>2 DEF Tick, vars
  <2>3. lost <= 4
    BY <1>0, <1>c, <2>1, <2>2 DEF LostBounded
  <2>4. lost' <= lost
    BY <1>2, <1>b
  <2>5. lost' + 4 <= 8
    BY <1>c, <2>3, <2>4, ArmedBehind
  <2> QED
    BY <2>1, <2>2, <2>5
<1>3. CASE Part
  <2>1. running /\ UNCHANGED <<heard, motor, due>>
    BY <1>3 DEF Part, Quit
  <2>2. lost' <= 0
    BY <1>0, <1>3, <1>b, <2>1 DEF LostBounded, Decide
  <2>3. lost' + due'.tick <= 4
    BY <1>a, <1>c, <2>1, <2>2
  <2> QED
    BY <1>a, <1>c, <2>1, <2>2, <2>3
<1>4. CASE Operate
  <2>1. UNCHANGED <<running, heard, motor>>
    BY <1>4 DEF Operate, AutoClick, StartClick, OnMove, Press, ChangeMode, TaskRuns,
                vars, node
  <2>2. due'.tick = due.tick
    <3>1. CASE TaskRuns
      BY <1>0, <3>1, RearmFields DEF TaskRuns
    <3>2. CASE UNCHANGED due
      BY <3>2
    <3> QED
      BY <1>4, <3>1, <3>2 DEF Operate, AutoClick, StartClick, OnMove, Press, ChangeMode
  <2>3. lost' <= lost
    BY <1>4, <1>b
  <2> QED
    BY <1>0, <1>a, <1>c, <2>1, <2>2, <2>3 DEF LostBounded
<1>5. CASE Control \/ Command \/ Camera \/ ReadFrame \/ ReadByte
  BY <1>5 DEF Control, SystemControl, Command, CanOnTimeToSend, Camera, CameraProcess,
              ReadFrame, CanOnUltrasound, CanOnTelemetry, ReadByte, BleOnDataReceived
<1> QED
  BY <1>1, <1>2, <1>3, <1>4, <1>5 DEF RoverNext, Decide

-----------------------------------------------------------------------------
(* The invariant.                                                          *)

(* The state the remote, the car and the links start in.                   *)
LEMMA InitRInv == RoverInit => RInv
<1> SUFFICES ASSUME RoverInit PROVE RInv
  OBVIOUS
<1>1. IInv /\ TypeOK
  BY InitIInv DEF RoverInit, IInv
<1>2. due \in Due
  BY Periods DEF RoverInit, Due
<1>3. <<>> \in Seq(StateCode) /\ <<>> \in Seq(FeedbackMode) /\ Len(<<>>) = 0
  OBVIOUS
<1>4. running = TRUE /\ linked = TRUE /\ heard = FALSE
  BY DEF RoverInit, Init
<1>5. LinksOK
  <2>1. screen \in StateCode /\ patience \in 0 .. Patience /\ lastMessage \in StateCode
    BY PatienceAssumption DEF RoverInit, StateCode
  <2>2. linked \in BOOLEAN /\ linked = running /\ heard \in BOOLEAN
    BY <1>4
  <2>3. /\ writing \in Seq(StateCode) /\ Len(writing) <= 1
        /\ feedback \in Seq(FeedbackMode) /\ Len(feedback) <= 2
    BY <1>3 DEF RoverInit
  <2>4. frames \in 0 .. 2 /\ motor \in {Stop, Normal, Turbo}
    BY DEF RoverInit
  <2> QED
    BY <1>2, <2>1, <2>2, <2>3, <2>4 DEF LinksOK
<1>6. RoverTypeOK
  BY <1>1, <1>5, RoverTypeParts DEF RoverInit, CalmCap, DangerCap, LostCap
<1>7. Tidy
  BY <1>3, <1>4 DEF RoverInit, Tidy
<1>8. Zone = "clear"
  <2>1. Echoing = {}
    BY DEF RoverInit, Init, Echoing, NoEcho
  <2> QED
    BY <2>1 DEF Zone
<1>9. DangerBounded /\ LostBounded
  BY <1>4, <1>8 DEF RoverInit, DangerBounded, LostBounded
<1> QED
  BY <1>1, <1>6, <1>7, <1>9 DEF RInv

(* Every step of the operator, the Raspberry Pi, the STM32 and time.       *)
LEMMA NextRInv == RInv /\ [RoverNext]_roverVars => RInv'
<1> SUFFICES ASSUME RInv, [RoverNext]_roverVars PROVE RInv'
  OBVIOUS
<1>1. ASSUME RoverNext PROVE RInv'
  <2>1. IInv'
    <3>1. CASE Decide
      BY <3>1, IInvSteps
    <3>2. CASE UNCHANGED vars
      BY <3>2, IInvStutters DEF RInv
    <3> QED
      BY <1>1, <3>1, <3>2
         DEF RoverNext, Operate, AutoClick, StartClick, OnMove, Press, ChangeMode,
             TaskRuns, Tick, Elapse
  <2>2. LinksOK' /\ Tidy'
    BY <1>1, OperateTidy, DecideTidy, TickTidy, ElapseTidy DEF RoverNext
  <2>3. RoverTypeOK'
    <3>1. TypeOK'
      BY <2>1 DEF IInv
    <3>2. /\ wanted' \in {"any", "manual", "autonomous"}
          /\ calm' \in 0 .. CalmCap /\ danger' \in 0 .. DangerCap /\ lost' \in 0 .. LostCap
      BY <1>1, HistoryBounds
    <3> QED
      BY <2>2, <3>1, <3>2, Periods DEF RoverTypeOK, LinksOK, Due, FeedbackMode
  <2> QED
    BY <1>1, <2>1, <2>2, <2>3, DangerStep, LostStep DEF RInv
<1>2. ASSUME UNCHANGED roverVars PROVE RInv'
  <2>1. UNCHANGED <<vars, remote, radio, node, due, history>>
    BY <1>2 DEF roverVars
  <2>2. IInv'
    BY <2>1, IInvStutters DEF RInv
  <2>3. Zone' = Zone
    BY <2>1, ZoneOfObstacles DEF vars, inputs
  <2>4. RoverTypeOK'
    BY <2>1, <2>2 DEF RInv, IInv, RoverTypeOK, remote, radio, node, history, vars
  <2>5. Tidy' /\ LostBounded'
    BY <2>1 DEF RInv, Tidy, LostBounded, remote, radio, node, history, vars
  <2>6. DangerBounded'
    BY <2>1, <2>3 DEF RInv, DangerBounded, node, history, vars, command
  <2> QED
    BY <2>2, <2>4, <2>5, <2>6 DEF RInv
<1> QED
  BY <1>1, <1>2

(* The inductive invariant holds in every reachable state.                 *)
THEOREM RoverInvariance == RoverSpec => []RInv
<1> QED
  BY InitRInv, NextRInv, PTL DEF RoverSpec

(* Every variable keeps its type, and nothing piles up on the links.       *)
THEOREM RoverTypes == RoverSpec => []RoverTypeOK
<1>1. RInv => RoverTypeOK
  BY DEF RInv
<1> QED
  BY <1>1, RoverInvariance, PTL

(* A critical obstacle has stopped the motors 175 ms later.                *)
THEOREM DangerStops == RoverSpec => []DangerStopsInTime
<1>1. RInv => DangerStopsInTime
  <2> SUFFICES ASSUME RInv, danger = DangerCap, running, motor # Stop PROVE FALSE
    BY DEF DangerStopsInTime
  <2>1. danger = 7 /\ Zone = "critical" /\ mode \in Mode
    BY DEF RInv, DangerBounded, DangerCap, IInv, TypeOK
  <2>2. due.control \in 0 .. 2 /\ due.send \in 0 .. 1
    BY RoverTypeParts DEF RInv, LinksOK, Due
  <2> QED
    BY <2>1, <2>2 DEF RInv, DangerBounded, Mode
<1> QED
  BY <1>1, RoverInvariance, PTL

(* However the process ends, the motors stand 225 ms later for good.       *)
THEOREM LostLinkStops == RoverSpec => []LostLinkStopsInTime
<1>1. RInv => LostLinkStopsInTime
  <2> SUFFICES ASSUME RInv, lost = LostCap, motor # Stop PROVE FALSE
    BY DEF LostLinkStopsInTime
  <2>1. lost = 9 /\ ~running
    BY DEF RInv, LostBounded, LostCap
  <2>2. due.tick \in 0 .. 4
    BY RoverTypeParts DEF RInv, LinksOK, Due
  <2> QED
    BY <2>1, <2>2 DEF RInv, LostBounded
<1> QED
  BY <1>1, RoverInvariance, PTL

-----------------------------------------------------------------------------
(* What is on a link after something was put there or taken.               *)
LEMMA LinkElements ==
  ASSUME NEW S, NEW link \in Seq(S), NEW e \in S, NEW bad,
         \A i \in 1 .. Len(link) : link[i] # bad
  PROVE  /\ e # bad => \A i \in 1 .. Len(Append(link, e)) : Append(link, e)[i] # bad
         /\ link # <<>> =>
              /\ Head(link) # bad
              /\ \A i \in 1 .. Len(Tail(link)) : Tail(link)[i] # bad
OBVIOUS

(* A settled manual mode ends with a click, at the edge of the road or in  *)
(* an emergency stop only.                                                 *)
THEOREM ManualStays == RoverSpec => ManualIsStable
<1> DEFINE Step == SettledInManual /\ ~SettledInManual' =>
                     \/ AutoClick
                     \/ Control /\ (RoadCritical \/ mode' = "emergencyStop")
<1>1. ASSUME RInv, [RoverNext]_roverVars PROVE [Step]_roverVars
  <2> SUFFICES ASSUME RoverNext, SettledInManual, ~AutoClick,
                      Control => ~RoadCritical /\ mode' # "emergencyStop"
               PROVE  SettledInManual'
    BY <1>1
  <2>0. LinksOK
    BY <1>1, RoverTypeParts DEF RInv
  <2>1. /\ mode \in {"manual", "obstAvoiding"} /\ requestedMode = "manual"
        /\ screen # Autonomous
        /\ \A i \in 1 .. Len(writing) : writing[i] # Autonomous
        /\ \A i \in 1 .. Len(feedback) : feedback[i] # "autonomous"
    BY DEF SettledInManual
  <2>2. CASE UNCHANGED <<mode, requestedMode, screen, writing, feedback>>
    BY <2>2 DEF SettledInManual
  <2>3. CASE StartClick \/ OnMove
    <3>1. screen' \in {Rest, Started, Driving}
      BY <2>3 DEF StartClick, OnMove, Press
    <3>2. UNCHANGED <<mode, requestedMode, writing, feedback>>
      BY <2>3 DEF StartClick, OnMove, Press, vars, request, command, radio
    <3>3. screen' # Autonomous
      BY <3>1 DEF Rest, Started, Driving, Autonomous
    <3> QED
      BY <2>1, <3>2, <3>3 DEF SettledInManual
  <2>4. CASE ChangeMode
    <3>1. feedback # <<>> /\ feedback' = Tail(feedback)
      BY <2>4 DEF ChangeMode
    <3>2. /\ Head(feedback) \in FeedbackMode /\ Head(feedback) # "autonomous"
          /\ \A i \in 1 .. Len(feedback') : feedback'[i] # "autonomous"
      BY <2>0, <2>1, <3>1, LinkElements, TakeFromLink DEF LinksOK, FeedbackMode
    <3>3. Head(feedback) = ModeOf(screen)
      BY <2>1, <3>2 DEF ModeOf, FeedbackMode
    <3>4. UNCHANGED <<screen, mode, requestedMode, writing>>
      BY <2>4, <3>3 DEF ChangeMode, vars, request, command
    <3> QED
      BY <2>1, <3>2, <3>4 DEF SettledInManual
  <2>5. CASE TaskRuns
    <3>1. UNCHANGED <<screen, mode, requestedMode, feedback>>
      BY <2>5 DEF TaskRuns, vars, request, command
    <3>2. writing' \in {writing, Append(writing, screen)}
      BY <2>5 DEF TaskRuns
    <3>3. \A i \in 1 .. Len(writing') : writing'[i] # Autonomous
      BY <2>0, <2>1, <3>2, LinkElements DEF LinksOK
    <3> QED
      BY <2>1, <3>1, <3>3 DEF SettledInManual
  <2>6. CASE Control
    <3>1. /\ UNCHANGED <<requestedMode, screen, writing, feedback>>
          /\ UpdateMode /\ ~RoadCritical /\ mode' # "emergencyStop"
      BY <2>6 DEF Control, SystemControl, request, remote, radio
    <3>2. mode' \in {"manual", "obstAvoiding"}
      BY <2>1, <3>1 DEF UpdateMode, LeaveAutonomous, LeaveManual, LeaveObstAvoiding,
                        LeaveEmergencyStop
    <3> QED
      BY <2>1, <3>1, <3>2 DEF SettledInManual
  <2>7. CASE ReadFrame
    <3>1. UNCHANGED <<mode, requestedMode, screen, writing>>
      BY <2>7 DEF ReadFrame, CanOnUltrasound, CanOnTelemetry, request, command, remote
    <3>2. notified'.mode = "manual"
      BY <2>1, <2>7 DEF ReadFrame, CanOnUltrasound, CanOnTelemetry, SendNotification,
                        ReportedMode
    <3>3. feedback' = Append(feedback, "manual")
      BY <2>7, <3>2 DEF ReadFrame
    <3>4. \A i \in 1 .. Len(feedback') : feedback'[i] # "autonomous"
      BY <2>0, <2>1, <3>3, LinkElements DEF LinksOK, FeedbackMode
    <3> QED
      BY <2>1, <3>1, <3>4 DEF SettledInManual
  <2>8. CASE ReadByte
    <3>1. UNCHANGED <<mode, screen, feedback>> /\ writing' = Tail(writing) /\ writing # <<>>
      BY <2>8 DEF ReadByte, BleOnDataReceived, command, remote
    <3>2. /\ Head(writing) \in StateCode /\ Head(writing) # Autonomous
          /\ \A i \in 1 .. Len(writing') : writing'[i] # Autonomous
      BY <2>0, <2>1, <3>1, LinkElements, TakeFromLink DEF LinksOK
    <3>3. Head(writing) \in {0, 1, 2}
      BY <3>2 DEF StateCode, Rest, Started, Driving
    <3>4. (Head(writing) * 32 + NoDirection) \div 32 \in {0, 1, 2}
      BY <3>3 DEF NoDirection
    <3>5. requestedMode' = "manual"
      BY <2>8, <3>4 DEF ReadByte, BleOnDataReceived
    <3> QED
      BY <2>1, <3>1, <3>2, <3>5 DEF SettledInManual
  <2>9. CASE Part
    <3>1. /\ screen' = Rest /\ writing' = <<>> /\ feedback' = <<>>
          /\ UNCHANGED <<mode, requestedMode>>
      BY <2>9 DEF Part, Quit, request, command
    <3> QED
      BY <2>1, <3>1 DEF SettledInManual, Rest, Autonomous
  <2>10. CASE Command \/ Camera \/ Tick \/ Elapse
    BY <2>2, <2>10 DEF Command, CanOnTimeToSend, Camera, CameraProcess, Tick, Elapse,
                       vars, request, command, remote, radio
  <2> QED
    BY <2>3, <2>4, <2>5, <2>6, <2>7, <2>8, <2>9, <2>10 DEF RoverNext, Operate, Decide
<1> QED
  BY <1>1, RoverInvariance, PTL DEF RoverSpec, ManualIsStable

-----------------------------------------------------------------------------
(* A click prevails.  Two runs of the remote's task after the last click   *)
(* or disturbance the car and the screen agree: the first one tells the    *)
(* car what the screen says, and the car's feedback brings the screen back *)
(* to it before the second one.  What the screen shows in between does not *)
(* matter, but it may not turn before the first run, which is what the     *)
(* patience of a click is for.                                             *)

(* What the Raspberry Pi was asked for is the last message of the remote,  *)
(* unless that one is on its way.                                          *)
Synced ==
  /\ writing # <<>> => writing = <<lastMessage>>
  /\ writing = <<>> =>
       requestedMode = ModeOf(lastMessage) /\ moving = (lastMessage = Driving)
  /\ ~requestedTurbo

(* A disturbance forgets the click and starts the count again.             *)
Undisturbed ==
  /\ Disturbed => calm = 0 /\ wanted = "any"
  /\ calm > 0 => running

(* The STM32 hears something in every unit of time.                        *)
Fed == ~heard /\ motor # Stop => due.send < due.tick

(* The screen shows mode m and goes on showing it.                         *)
Shows(m) == ModeOf(screen) = m /\ \A i \in 1 .. Len(feedback) : feedback[i] = m

(* Feedback of mode m comes before the task runs again, behind any other.  *)
Corrected(m) ==
  \/ due.tick + 2 <= due.task
  \/ /\ due.task >= 2 /\ mode = m
     /\ frames > 0 \/ (feedback # <<>> /\ feedback[Len(feedback)] = m)

(* Mode m was sent: the car takes it at its next control tick, and the     *)
(* screen shows it when the task runs again.                               *)
Follows(m) ==
  /\ mode # m => due.control + 6 <= due.task
  /\ ModeOf(screen) # m => patience = 0
  /\ Shows(m) \/ Corrected(m)

(* The ticks of the STM32 that may come before the task runs.              *)
TicksBefore == IF due.task < due.tick THEN 0 ELSE IF due.task < due.tick + 4 THEN 1 ELSE 2

(* A click that was not sent yet has patience for what is on its way and   *)
(* for two more of each tick.                                              *)
Pending(m) ==
  /\ ModeOf(screen) = m /\ ModeOf(lastMessage) # m /\ mode # m
  /\ due.task < Period.task
  /\ \A i \in 1 .. Len(feedback) : feedback[i] # m
  /\ frames + Len(feedback) + 2 * TicksBefore <= patience

Clicked ==
  wanted # "any" =>
    Pending(wanted) \/ (ModeOf(lastMessage) = wanted /\ Follows(wanted))

Turn == IF nextFrame = "SpeedCmd" THEN 0 ELSE 1

(* The second run found everybody in the mode of the code; what it sent    *)
(* may still have to reach the motors.                                     *)
Settled(code) ==
  /\ screen = code /\ mode = ModeOf(code) /\ requestedMode = ModeOf(code)
  /\ Shows(ModeOf(code))
  /\ writing # <<>> => calm + due.task <= 24
  /\ speed # SpeedOf(code) => due.control + 6 <= due.task /\ calm + due.task <= 24
  /\ motor # SpeedOf(code) => due.send + Turn + 4 <= due.task /\ calm + due.task <= 24

(* In calm and task together, more than a period says that the task has    *)
(* run since the last disturbance, and more than two that it has run twice.*)
Calmer ==
  /\ calm + due.task >= 9 => Follows(ModeOf(lastMessage))
  /\ calm + due.task >= 17 => Settled(lastMessage)

CInv == RInv /\ Undisturbed /\ (running => Synced /\ Fed /\ Clicked /\ Calmer)

(* What the proofs know of the types.                                      *)
LEMMA Ranges ==
  ASSUME RInv
  PROVE  /\ due \in Due /\ due.control \in 0 .. 2 /\ due.send \in 0 .. 1
         /\ due.tick \in 0 .. 4 /\ due.task \in 0 .. 8
         /\ screen \in StateCode /\ lastMessage \in StateCode
         /\ patience \in 0 .. Patience /\ Patience \in Nat
         /\ feedback \in Seq(FeedbackMode) /\ Len(feedback) \in Nat
         /\ frames \in 0 .. 2 /\ frames + Len(feedback) <= 2
         /\ writing \in Seq(StateCode) /\ Len(writing) <= 1
         /\ linked = running /\ calm \in 0 .. 24
         /\ due.tick < 4 => frames = 0 /\ feedback = <<>>
         /\ due.task < 8 => writing = <<>>
<1>1. LinksOK /\ Tidy /\ calm \in 0 .. CalmCap
  BY RoverTypeParts DEF RInv
<1>2. Len(feedback) \in Nat
  BY <1>1 DEF LinksOK
<1> QED
  BY <1>1, <1>2, Periods, PatienceAssumption DEF LinksOK, Tidy, Due, CalmCap

(* What a queue of feedback ends with.                                     *)
LEMMA LastFeedback ==
  ASSUME NEW s \in Seq(FeedbackMode), NEW e \in FeedbackMode
  PROVE  /\ Append(s, e) # <<>> /\ Append(s, e)[Len(Append(s, e))] = e
         /\ s # <<>> => /\ Head(s) = s[1]
                        /\ Tail(s) # <<>> => Tail(s)[Len(Tail(s))] = s[Len(s)]
                        /\ Tail(s) = <<>> => s[Len(s)] = Head(s)
<1>1. Len(Append(s, e)) = Len(s) + 1 /\ Append(s, e)[Len(s) + 1] = e
  OBVIOUS
<1>2. Append(s, e) # <<>>
  <2>1. Len(s) \in Nat /\ Len(<<>>) = 0
    OBVIOUS
  <2> QED
    BY <1>1, <2>1
<1>3. ASSUME s # <<>>
      PROVE  /\ Head(s) = s[1]
             /\ Tail(s) # <<>> => Tail(s)[Len(Tail(s))] = s[Len(s)]
             /\ Tail(s) = <<>> => s[Len(s)] = Head(s)
  <2>1. Len(s) \in Nat \ {0} /\ Len(Tail(s)) = Len(s) - 1 /\ Head(s) = s[1]
    BY <1>3
  <2>2. Tail(s) # <<>> => Len(Tail(s)) \in Nat \ {0}
    BY <1>3
  <2>3. \A i \in 1 .. Len(Tail(s)) : Tail(s)[i] = s[i + 1]
    BY <1>3
  <2>4. Len(<<>>) = 0
    OBVIOUS
  <2> QED
    BY <2>1, <2>2, <2>3, <2>4
<1> QED
  BY <1>1, <1>2, <1>3

(* Elements of a queue that all are m, or none of which is.                *)
LEMMA EveryFeedback ==
  ASSUME NEW s \in Seq(FeedbackMode), NEW e \in FeedbackMode, NEW m
  PROVE  /\ e = m /\ (\A i \in 1 .. Len(s) : s[i] = m)
              => \A i \in 1 .. Len(Append(s, e)) : Append(s, e)[i] = m
         /\ s # <<>> /\ (\A i \in 1 .. Len(s) : s[i] = m)
              => Head(s) = m /\ \A i \in 1 .. Len(Tail(s)) : Tail(s)[i] = m
<1>1. /\ Len(s) \in Nat
      /\ \A i \in 1 .. Len(Append(s, e)) : Append(s, e)[i] = IF i = Len(s) + 1 THEN e ELSE s[i]
      /\ Len(Append(s, e)) = Len(s) + 1
  OBVIOUS
<1>2. s # <<>> => /\ Len(s) \in Nat \ {0} /\ Len(Tail(s)) = Len(s) - 1 /\ Head(s) = s[1]
                  /\ \A i \in 1 .. Len(Tail(s)) : Tail(s)[i] = s[i + 1]
  OBVIOUS
<1> QED
  BY <1>1, <1>2

-----------------------------------------------------------------------------
(* Disturbances and histories.                                             *)

(* A disturbance is one of obstacles, road and mode.                       *)
LEMMA SameDisturbance ==
  ASSUME UNCHANGED <<obstacles, road, mode>>
  PROVE  Disturbed' = Disturbed
BY ZoneOfObstacles DEF Disturbed, RoadCritical

(* What a step does to the histories of the click.                         *)
LEMMA WatchCalm ==
  ASSUME RInv, NEW pressed \in BOOLEAN, NEW elapsed \in BOOLEAN, NEW asked,
         Watch(pressed, asked, elapsed)
  PROVE  /\ Disturbed' => calm' = 0 /\ wanted' = "any"
         /\ ~Disturbed' => wanted' = asked
         /\ calm' > 0 => running'
         /\ pressed => calm' = 0
         /\ ~elapsed => calm' \in {0, calm}
         /\ elapsed => calm' \in {0, calm + 1} \/ (calm' = 24 /\ calm = 24)
<1>1. calm \in 0 .. 24
  BY Ranges
<1>2. /\ Count(calm, CalmCap, FALSE) = calm
      /\ Count(calm, CalmCap, TRUE) = IF calm < 24 THEN calm + 1 ELSE calm
  BY DEF Count, CalmCap
<1>3. /\ wanted' = IF Disturbed' THEN "any" ELSE asked
      /\ calm' = IF pressed \/ Disturbed' \/ ~running'
                 THEN 0 ELSE Count(calm, CalmCap, elapsed)
  BY DEF Watch
<1>4. Disturbed' => calm' = 0 /\ wanted' = "any"
  BY <1>3
<1>5. (~Disturbed' => wanted' = asked) /\ (pressed => calm' = 0)
  BY <1>3
<1>6. calm' > 0 => running'
  BY <1>3
<1>7. CASE elapsed
  <2>1. elapsed = TRUE
    BY <1>7
  <2>2. calm' = 0 \/ calm' = IF calm < 24 THEN calm + 1 ELSE calm
    BY <1>2, <1>3, <2>1
  <2>3. calm' \in {0, calm + 1} \/ (calm' = 24 /\ calm = 24)
    BY <1>1, <2>2
  <2> QED
    BY <1>4, <1>5, <1>6, <2>1, <2>3
<1>8. CASE ~elapsed
  <2>1. elapsed = FALSE
    BY <1>8
  <2>2. calm' \in {0, Count(calm, CalmCap, FALSE)}
    BY <1>3, <2>1
  <2>3. calm' \in {0, calm}
    BY <1>2, <2>2
  <2> QED
    BY <1>4, <1>5, <1>6, <2>1, <2>3
<1> QED
  BY <1>7, <1>8

(* Every step but those of the operator goes on with the same wish.        *)
LEMMA WatchKinds ==
  ASSUME RoverNext
  PROVE  \/ AutoClick /\ \E asked : Watch(TRUE, asked, FALSE)
         \/ (StartClick \/ OnMove) /\ Watch(TRUE, wanted, FALSE)
         \/ Elapse /\ Watch(FALSE, wanted, TRUE)
         \/ (ChangeMode \/ TaskRuns \/ Decide \/ Tick) /\ Watch(FALSE, wanted, FALSE)
<1>1. CASE AutoClick
  BY <1>1 DEF AutoClick
<1>2. CASE StartClick \/ OnMove
  BY <1>2 DEF StartClick, OnMove
<1>3. CASE Elapse
  BY <1>3 DEF Elapse
<1>4. CASE ChangeMode \/ TaskRuns \/ Decide \/ Tick
  BY <1>4 DEF ChangeMode, TaskRuns, Decide, Control, Command, Camera, ReadFrame, ReadByte,
              Part, Tick, Unseen
<1> QED
  BY <1>1, <1>2, <1>3, <1>4 DEF RoverNext, Operate

(* A disturbance forgets the click while it lasts and when it ends.        *)
LEMMA UndisturbedStep ==
  ASSUME RInv, Undisturbed, RoverNext
  PROVE  /\ Undisturbed'
         /\ Disturbed \/ Disturbed' => calm' = 0 /\ wanted' = "any"
<1>1. ASSUME NEW pressed \in BOOLEAN, NEW asked, Watch(pressed, asked, FALSE),
             Disturbed => Disturbed' \/ asked = "any"
      PROVE  /\ Undisturbed'
             /\ Disturbed \/ Disturbed' => calm' = 0 /\ wanted' = "any"
  <2>1. /\ Disturbed' => calm' = 0 /\ wanted' = "any"
        /\ ~Disturbed' => wanted' = asked
        /\ calm' > 0 => running'
        /\ calm' \in {0, calm}
    BY <1>1, WatchCalm
  <2> QED
    BY <1>1, <2>1 DEF Undisturbed
<1>2. CASE AutoClick
  <2>1. PICK asked : Watch(TRUE, asked, FALSE)
    BY <1>2 DEF AutoClick
  <2>2. Disturbed' = Disturbed
    BY <1>2, SameDisturbance DEF AutoClick, Press, vars, inputs, command
  <2> QED
    BY <1>1, <2>1, <2>2
<1>3. CASE Elapse
  <2>1. Watch(FALSE, wanted, TRUE)
    BY <1>3 DEF Elapse
  <2>2. Disturbed' = Disturbed
    BY <1>3, SameDisturbance DEF Elapse, vars, inputs, command
  <2>3. /\ Disturbed' => calm' = 0 /\ wanted' = "any"
        /\ calm' > 0 => running'
    BY <2>1, WatchCalm
  <2> QED
    BY <2>2, <2>3 DEF Undisturbed
<1>4. CASE ~AutoClick /\ ~Elapse
  <2>1. Disturbed => wanted = "any"
    BY DEF Undisturbed
  <2>2. Watch(TRUE, wanted, FALSE) \/ Watch(FALSE, wanted, FALSE)
    BY <1>4, WatchKinds
  <2> QED
    BY <1>1, <2>1, <2>2
<1> QED
  BY <1>2, <1>3, <1>4

-----------------------------------------------------------------------------
(* Synced and Fed.                                                         *)

(* The process does not come back.                                         *)
LEMMA StillRunning ==
  ASSUME RoverNext, running'
  PROVE  running /\ ~Part
<1>1. ~Part
  BY DEF Part, Quit
<1>2. running
  BY DEF RoverNext, Operate, AutoClick, StartClick, OnMove, Press, ChangeMode, TaskRuns,
         Decide, Control, SystemControl, Command, CanOnTimeToSend, Camera, CameraProcess,
         ReadFrame, CanOnUltrasound, CanOnTelemetry, ReadByte, BleOnDataReceived,
         Part, Quit, Tick, Elapse, vars
<1> QED
  BY <1>1, <1>2

(* What a byte asks for is what its state code means.                      *)
LEMMA ByteMeaning ==
  ASSUME NEW code \in StateCode, BleOnDataReceived(code * 32 + NoDirection)
  PROVE  requestedMode' = ModeOf(code) /\ moving' = (code = Driving) /\ ~requestedTurbo'
<1>1. code \in {0, 1, 2, 5} /\ Driving = 2 /\ Autonomous = 5
  BY DEF StateCode, Rest, Started, Driving, Autonomous
<1>2. (code * 32 + NoDirection) \div 32 = code
  BY <1>1 DEF NoDirection
<1>3. /\ requestedMode' = IF code \in {5, 6} THEN "autonomous" ELSE "manual"
      /\ moving' = (code \in {2, 4})
      /\ requestedTurbo' = (code \in {3, 4})
  BY <1>1, <1>2 DEF BleOnDataReceived
<1>4. /\ (code \in {2, 4}) <=> (code = Driving)
      /\ code \notin {3, 4}
      /\ code \in {5, 6} <=> code = Autonomous
  BY <1>1
<1>5. requestedMode' = ModeOf(code)
  BY <1>3, <1>4 DEF ModeOf
<1>6. moving' = (code = Driving)
  BY <1>3, <1>4
<1>7. ~requestedTurbo'
  BY <1>3, <1>4
<1> QED
  BY <1>5, <1>6, <1>7

(* One byte at a time is on its way, and it is the last message.           *)
LEMMA SyncedStep ==
  ASSUME RInv, Synced, RoverNext, running'
  PROVE  Synced'
<1>1. CASE UNCHANGED <<writing, lastMessage, requestedMode, moving, requestedTurbo>>
  BY <1>1 DEF Synced
<1>2. CASE TaskRuns
  <2>1. due.task = 0
    BY <1>2 DEF TaskRuns, Expired
  <2>2. writing = <<>>
    BY <2>1, Ranges
  <2>3. UNCHANGED <<requestedMode, moving, requestedTurbo>>
    BY <1>2 DEF TaskRuns, vars, request
  <2>4. CASE lastMessage' = screen /\ writing' = Append(writing, screen)
    <3>1. writing' = <<lastMessage'>> /\ writing' # <<>>
      BY <2>2, <2>4
    <3> QED
      BY <2>3, <3>1 DEF Synced
  <2>5. CASE UNCHANGED <<lastMessage, writing>>
    BY <1>1, <2>3, <2>5
  <2> QED
    BY <1>2, <2>4, <2>5 DEF TaskRuns
<1>3. CASE ReadByte
  <2>1. writing = <<lastMessage>> /\ lastMessage \in StateCode
    BY <1>3, Ranges DEF ReadByte, Synced
  <2>2. Head(writing) = lastMessage /\ Tail(writing) = <<>>
    BY <2>1
  <2>3. /\ BleOnDataReceived(lastMessage * 32 + NoDirection)
        /\ writing' = <<>> /\ UNCHANGED lastMessage
    BY <1>3, <2>2 DEF ReadByte, remote
  <2> QED
    BY <2>1, <2>3, ByteMeaning DEF Synced
<1>4. CASE Control \/ Command \/ Camera \/ ReadFrame
  BY <1>1, <1>4
     DEF Control, SystemControl, Command, CanOnTimeToSend, Camera, CameraProcess, ReadFrame,
         CanOnUltrasound, CanOnTelemetry, request, remote, radio
<1>5. CASE AutoClick \/ StartClick \/ OnMove \/ ChangeMode \/ Tick \/ Elapse
  BY <1>1, <1>5
     DEF AutoClick, StartClick, OnMove, Press, ChangeMode, Tick, Elapse, vars, request,
         remote, radio
<1> QED
  BY <1>2, <1>3, <1>4, <1>5, StillRunning DEF RoverNext, Operate, Decide

(* A speed that was heard is not forgotten by the watchdog.                *)
LEMMA FedStep ==
  ASSUME RInv, Fed, RoverNext, running'
  PROVE  Fed'
<1>0. /\ running /\ ~Part
      /\ due \in Due /\ due.send \in 0 .. 1 /\ due.tick \in 0 .. 4
  BY StillRunning, Ranges
<1>1. CASE UNCHANGED <<heard, motor, due>>
  BY <1>1 DEF Fed
<1>2. CASE UNCHANGED <<heard, motor>> /\ (Rearm("control") \/ Rearm("task"))
  <2>1. due'.send = due.send /\ due'.tick = due.tick
    BY <1>0, <1>2, RearmFields
  <2> QED
    BY <1>2, <2>1 DEF Fed
<1>3. CASE Command
  BY <1>3 DEF Command, Fed
<1>4. CASE Tick
  <2>1. due.tick = 0 /\ due'.tick = 4 /\ due'.send = due.send
    BY <1>0, <1>4, RearmFields DEF Tick, Expired
  <2> QED
    BY <1>0, <2>1 DEF Fed
<1>5. CASE Elapse
  <2>1. UNCHANGED <<heard, motor>> /\ due.send > 0 /\ due.tick > 0
    BY <1>0, <1>5 DEF Elapse, Expired, node
  <2>2. due'.send = due.send - 1 /\ due'.tick = due.tick - 1
    BY <1>0, <1>5, <2>1, ElapseFields
  <2> QED
    BY <1>0, <2>1, <2>2 DEF Fed
<1>6. CASE Control \/ TaskRuns
  BY <1>2, <1>6 DEF Control, TaskRuns, node
<1>7. CASE AutoClick \/ StartClick \/ OnMove \/ ChangeMode \/ Camera \/ ReadFrame \/ ReadByte
  BY <1>1, <1>7
     DEF AutoClick, StartClick, OnMove, Press, ChangeMode, Camera, ReadFrame, ReadByte, node
<1> QED
  BY <1>0, <1>3, <1>4, <1>5, <1>6, <1>7 DEF RoverNext, Operate, Decide

-----------------------------------------------------------------------------
(* The car and the screen follow the last message.                         *)

(* An undisturbed control tick takes the mode and the speed asked for.     *)
LEMMA ControlCalm ==
  ASSUME TypeOK, Control, ~Disturbed, ~requestedTurbo
  PROVE  /\ mode' = requestedMode
         /\ speed' = IF requestedMode = "autonomous" \/ moving THEN Normal ELSE Stop
<1>1. /\ Zone = "clear" /\ ~RoadCritical /\ mode \in {"manual", "autonomous"}
      /\ requestedMode \in {"manual", "autonomous"}
  BY DEF Disturbed, TypeOK, Mode
<1>2. UpdateMode /\ ExecuteMode
  BY DEF Control, SystemControl
<1>3. mode' = requestedMode
  BY <1>1, <1>2 DEF UpdateMode, LeaveAutonomous, LeaveManual, LeaveObstAvoiding,
                    LeaveEmergencyStop
<1>4. requestedMode = "autonomous" => speed' = Normal
  BY <1>2, <1>3 DEF ExecuteMode, DriveAutonomous, DriveManual, DriveAvoiding, DriveStopped
<1>5. requestedMode = "manual" => speed' = IF ~moving THEN Stop ELSE Normal
  BY <1>2, <1>3 DEF ExecuteMode, DriveAutonomous, DriveManual, DriveAvoiding, DriveStopped
<1> QED
  BY <1>1, <1>3, <1>4, <1>5

(* An undisturbed car reports its mode as it is.                           *)
LEMMA FrameCalm ==
  ASSUME TypeOK, ReadFrame, ~Disturbed
  PROVE  /\ mode \in FeedbackMode /\ feedback' = Append(feedback, mode)
         /\ frames \in {1, 2} /\ frames' = frames - 1
         /\ UNCHANGED <<running, request, command, nextFrame, remote, linked, writing, heard,
                        motor, due>>
<1>1. mode \in {"manual", "autonomous"}
  BY DEF Disturbed, TypeOK, Mode
<1>2. notified'.mode = mode
  BY <1>1 DEF ReadFrame, CanOnUltrasound, CanOnTelemetry, SendNotification, ReportedMode
<1> QED
  BY <1>1, <1>2 DEF ReadFrame, CanOnUltrasound, CanOnTelemetry, FeedbackMode

(* The operator's other handlers leave the mode of the screen alone.       *)
LEMMA ManualHandlers ==
  ASSUME StartClick \/ OnMove
  PROVE  /\ ModeOf(screen') = "manual" /\ ModeOf(screen) = "manual"
         /\ UNCHANGED <<vars, patience, lastMessage, radio, node, due>>
<1>1. /\ screen # Autonomous
      /\ screen' = Rest \/ screen' = Started \/ screen' = Driving
      /\ UNCHANGED <<vars, patience, lastMessage, radio, node, due>>
  <2>1. CASE StartClick
    BY <2>1 DEF StartClick, Press
  <2>2. CASE OnMove
    <3>1. screen # Autonomous
      BY <2>2 DEF OnMove, Started, Driving, Autonomous
    <3> QED
      BY <2>2, <3>1 DEF OnMove, Press
  <2> QED
    BY <2>1, <2>2
<1>2. screen' # Autonomous
  BY <1>1 DEF Rest, Started, Driving, Autonomous
<1> QED
  BY <1>1, <1>2 DEF ModeOf

(* What feedback makes of the screen.                                      *)
LEMMA FeedbackEffect ==
  ASSUME RInv, ChangeMode
  PROVE  /\ feedback # <<>> /\ feedback' = Tail(feedback)
         /\ Head(feedback) \in FeedbackMode
         /\ ModeOf(screen) \in FeedbackMode /\ ModeOf(screen') \in FeedbackMode
         /\ Head(feedback) = ModeOf(screen) => patience' = 0 /\ screen' = screen
         /\ Head(feedback) # ModeOf(screen) /\ patience > 0 =>
              patience' = patience - 1 /\ screen' = screen
         /\ Head(feedback) # ModeOf(screen) /\ patience = 0 =>
              patience' = 0 /\ ModeOf(screen') = Head(feedback)
         /\ UNCHANGED <<vars, lastMessage, linked, writing, node, due>>
<1>1. feedback # <<>> /\ feedback' = Tail(feedback) /\ feedback \in Seq(FeedbackMode)
  BY Ranges DEF ChangeMode
<1>2. Head(feedback) \in FeedbackMode
  BY <1>1, TakeFromLink
<1>3. ModeOf(screen) \in FeedbackMode /\ ModeOf(screen') \in FeedbackMode
  BY DEF ModeOf, FeedbackMode
<1>4. Rest # Autonomous
  BY DEF Rest, Autonomous
<1>5. ASSUME Head(feedback) # ModeOf(screen), patience = 0
      PROVE  patience' = 0 /\ ModeOf(screen') = Head(feedback)
  <2>1. patience' = 0 /\ screen' = IF screen = Autonomous THEN Rest ELSE Autonomous
    BY <1>5 DEF ChangeMode
  <2>2. ModeOf(screen') # ModeOf(screen)
    BY <1>4, <2>1 DEF ModeOf
  <2> QED
    BY <1>2, <1>3, <1>5, <2>1, <2>2 DEF FeedbackMode
<1>6. ASSUME Head(feedback) # ModeOf(screen), patience > 0
      PROVE  patience' = patience - 1 /\ screen' = screen
  BY <1>6, Ranges DEF ChangeMode
<1>7. ASSUME Head(feedback) = ModeOf(screen)
      PROVE  patience' = 0 /\ screen' = screen
  BY <1>7 DEF ChangeMode
<1>8. UNCHANGED <<vars, lastMessage, linked, writing, node, due>>
  BY DEF ChangeMode
<1> QED
  BY <1>1, <1>2, <1>3, <1>5, <1>6, <1>7, <1>8

(* A run of the task leaves a screen that says what was sent, and more     *)
(* than a control tick and a tick of the STM32 before the next run.        *)
LEMMA FollowsStart ==
  ASSUME RInv, TaskRuns, NEW m \in FeedbackMode, ModeOf(screen) = m
  PROVE  Follows(m)' /\ ModeOf(lastMessage') = m
<1>0. due \in Due /\ due.control \in 0 .. 2 /\ due.tick \in 0 .. 4
  BY Ranges
<1>1. due'.task = 8 /\ due'.control = due.control /\ due'.tick = due.tick
  BY <1>0, RearmFields DEF TaskRuns
<1>2. screen' = screen /\ lastMessage' = screen
  BY DEF TaskRuns
<1>3. due'.control + 6 <= due'.task /\ due'.tick + 2 <= due'.task
  BY <1>0, <1>1
<1> QED
  BY <1>2, <1>3 DEF Follows, Corrected

(* No other step of an undisturbed car ends it.                            *)
LEMMA FollowsStep ==
  ASSUME RInv, Synced, RoverNext, running', ~Disturbed, ~AutoClick, ~TaskRuns,
         NEW m \in FeedbackMode, ModeOf(lastMessage) = m, Follows(m)
  PROVE  Follows(m)' /\ ModeOf(lastMessage') = m
<1>0. /\ running /\ ~Part /\ linked = running /\ TypeOK
      /\ due \in Due /\ due.control \in 0 .. 2 /\ due.send \in 0 .. 1
      /\ due.tick \in 0 .. 4 /\ due.task \in 0 .. 8
      /\ feedback \in Seq(FeedbackMode) /\ frames \in 0 .. 2
      /\ due.tick < 4 => frames = 0 /\ feedback = <<>>
      /\ due.task < 8 => writing = <<>>
      /\ patience \in 0 .. Patience /\ Patience \in Nat
  BY StillRunning, Ranges DEF RInv, RoverTypeOK
<1>1. CASE UNCHANGED <<mode, screen, patience, lastMessage, feedback, frames, due>>
  BY <1>1 DEF Follows, Shows, Corrected
<1>2. CASE StartClick \/ OnMove
  <2>1. /\ ModeOf(screen') = ModeOf(screen)
        /\ UNCHANGED <<mode, patience, lastMessage, feedback, frames, due>>
    BY <1>2, ManualHandlers DEF vars, command, radio, node
  <2> QED
    BY <2>1 DEF Follows, Shows, Corrected
<1>3. CASE ChangeMode
  <2>1. /\ feedback # <<>> /\ feedback' = Tail(feedback)
        /\ Head(feedback) \in FeedbackMode
        /\ Head(feedback) = ModeOf(screen) => patience' = 0 /\ screen' = screen
        /\ Head(feedback) # ModeOf(screen) /\ patience > 0 =>
             patience' = patience - 1 /\ screen' = screen
        /\ Head(feedback) # ModeOf(screen) /\ patience = 0 =>
             patience' = 0 /\ ModeOf(screen') = Head(feedback)
        /\ UNCHANGED <<mode, lastMessage, frames, due>>
    BY <1>3, FeedbackEffect DEF vars, command, node
  <2>2. ModeOf(screen') # m => patience' = 0
    BY <1>0, <2>1 DEF Follows
  <2>3. CASE Shows(m)
    <3>1. Head(feedback) = m /\ \A i \in 1 .. Len(feedback') : feedback'[i] = m
      BY <1>0, <2>1, <2>3, EveryFeedback DEF Shows
    <3> QED
      BY <2>1, <2>2, <2>3, <3>1 DEF Follows, Shows
  <2>4. CASE due.tick + 2 <= due.task
    BY <2>1, <2>2, <2>4 DEF Follows, Corrected
  <2>5. CASE due.task >= 2 /\ mode = m /\ frames > 0
    BY <2>1, <2>2, <2>5 DEF Follows, Corrected
  <2>6. CASE due.task >= 2 /\ mode = m /\ feedback[Len(feedback)] = m
    <3>1. CASE feedback' # <<>>
      <4>1. feedback'[Len(feedback')] = m
        BY <1>0, <2>1, <2>6, <3>1, LastFeedback
      <4> QED
        BY <2>1, <2>2, <2>6, <3>1, <4>1 DEF Follows, Corrected
    <3>2. CASE feedback' = <<>>
      <4>1. Head(feedback) = m /\ Len(feedback') = 0
        BY <1>0, <2>1, <2>6, <3>2, LastFeedback
      <4>2. ModeOf(screen') = m
        BY <1>0, <2>1, <4>1 DEF Follows
      <4>3. Shows(m)'
        BY <4>1, <4>2 DEF Shows
      <4> QED
        BY <2>1, <2>2, <2>6, <4>3 DEF Follows
    <3> QED
      BY <3>1, <3>2
  <2> QED
    BY <2>1, <2>3, <2>4, <2>5, <2>6 DEF Follows, Corrected
<1>4. CASE Control
  <2>1. /\ due'.control = 2 /\ due'.task = due.task /\ due'.tick = due.tick
        /\ UNCHANGED <<screen, patience, lastMessage, feedback, frames>>
    BY <1>0, <1>4, RearmFields DEF Control, remote, radio, node
  <2>2. mode' = requestedMode
    BY <1>0, <1>4, ControlCalm DEF Synced
  <2>3. due.task < 8 => mode' = m
    BY <1>0, <2>2 DEF Synced
  <2>4. CASE due.task = 8
    <3>1. due'.control + 6 <= due'.task /\ due'.tick + 2 <= due'.task
      BY <1>0, <2>1, <2>4
    <3> QED
      BY <2>1, <3>1 DEF Follows, Corrected
  <2>5. CASE due.task < 8
    BY <2>1, <2>3, <2>5 DEF Follows, Shows, Corrected
  <2> QED
    BY <1>0, <2>4, <2>5
<1>5. CASE ReadFrame
  <2>1. /\ mode \in FeedbackMode /\ feedback' = Append(feedback, mode)
        /\ UNCHANGED <<mode, screen, patience, lastMessage, due>>
    BY <1>0, <1>5, FrameCalm DEF command, remote
  <2>2. feedback' # <<>> /\ feedback'[Len(feedback')] = mode
    BY <1>0, <2>1, LastFeedback
  <2>3. CASE mode # m
    <3>1. due.tick + 2 <= due.task
      BY <1>0, <2>3 DEF Follows
    <3> QED
      BY <2>1, <3>1 DEF Follows, Corrected
  <2>4. CASE mode = m /\ Shows(m)
    <3>1. \A i \in 1 .. Len(feedback') : feedback'[i] = m
      BY <1>0, <2>1, <2>4, EveryFeedback DEF Shows
    <3> QED
      BY <2>1, <2>4, <3>1 DEF Follows, Shows
  <2>5. CASE mode = m /\ Corrected(m)
    BY <2>1, <2>2, <2>5 DEF Follows, Corrected
  <2> QED
    BY <2>3, <2>4, <2>5 DEF Follows
<1>6. CASE Tick
  <2>1. due.tick = 0 /\ due'.tick = 4 /\ due'.control = due.control /\ due'.task = due.task
    BY <1>0, <1>6, RearmFields DEF Tick, Expired
  <2>2. frames' = 2 /\ UNCHANGED <<mode, screen, patience, lastMessage, feedback>>
    BY <1>0, <1>6 DEF Tick, vars, command, remote, radio
  <2>3. CASE Shows(m)
    BY <2>1, <2>2, <2>3 DEF Follows, Shows
  <2>4. CASE Corrected(m) /\ mode = m
    <3>1. due'.task >= 2 /\ mode' = m /\ frames' > 0
      BY <1>0, <2>1, <2>2, <2>4 DEF Corrected
    <3> QED
      BY <2>1, <2>2, <3>1 DEF Follows, Corrected
  <2>5. CASE mode # m
    <3>1. due'.tick + 2 <= due'.task
      BY <1>0, <2>1, <2>5 DEF Follows
    <3> QED
      BY <2>1, <2>2, <3>1 DEF Follows, Corrected
  <2> QED
    BY <2>3, <2>4, <2>5 DEF Follows
<1>7. CASE Elapse
  <2>1. /\ due.control > 0 /\ due.tick > 0 /\ due.task > 0
        /\ frames = 0 /\ feedback = <<>>
        /\ UNCHANGED <<mode, screen, patience, lastMessage, feedback>>
    BY <1>0, <1>7 DEF Elapse, Expired, vars, command, remote, radio
  <2>2. /\ due'.control = due.control - 1 /\ due'.tick = due.tick - 1
        /\ due'.task = due.task - 1
    BY <1>0, <1>7, <2>1, ElapseFields
  <2>3. mode' # m => due'.control + 6 <= due'.task
    BY <1>0, <2>1, <2>2 DEF Follows
  <2>4. CASE Shows(m)
    BY <2>1, <2>3, <2>4 DEF Follows, Shows
  <2>5. CASE Corrected(m)
    <3>1. due'.tick + 2 <= due'.task
      BY <1>0, <2>1, <2>2, <2>5 DEF Corrected
    <3> QED
      BY <2>1, <2>3, <3>1 DEF Follows, Corrected
  <2> QED
    BY <2>4, <2>5 DEF Follows
<1>8. CASE Command
  <2>1. /\ due'.control = due.control /\ due'.tick = due.tick /\ due'.task = due.task
        /\ UNCHANGED <<mode, screen, patience, lastMessage, feedback, frames>>
    BY <1>0, <1>8, RearmFields DEF Command, CanOnTimeToSend, command, remote, radio
  <2> QED
    BY <2>1 DEF Follows, Shows, Corrected
<1>9. CASE Camera \/ ReadByte
  BY <1>1, <1>9 DEF Camera, CameraProcess, ReadByte, BleOnDataReceived, command, remote,
                    radio, node
<1> QED
  BY <1>0, <1>2, <1>3, <1>4, <1>5, <1>6, <1>7, <1>8, <1>9 DEF RoverNext, Operate, Decide

(* A click on a car and a remote that agree finds enough patience: at most *)
(* two feedbacks are on their way or about to be, and two ticks come.      *)
LEMMA PendingStart ==
  ASSUME RInv, Synced, running, AutoClick, Agreed, Patience >= 4
  PROVE  Pending(ModeOf(screen))'
<1>0. /\ due.tick \in 0 .. 4 /\ due.task \in 0 .. 7 /\ Len(feedback) \in Nat
      /\ frames \in 0 .. 2 /\ frames + Len(feedback) <= 2
      /\ due.tick < 4 => frames = 0 /\ feedback = <<>>
      /\ writing = <<>> /\ Patience \in Nat
  BY Ranges, Periods DEF Agreed
<1>1. /\ screen' = IF screen = Autonomous THEN Rest ELSE Autonomous
      /\ patience' = Patience
      /\ UNCHANGED <<mode, lastMessage, feedback, frames, due>>
  BY DEF AutoClick, Press, vars, command, radio, node
<1>2. ModeOf(screen') # ModeOf(screen)
  <2>1. Rest # Autonomous
    BY DEF Rest, Autonomous
  <2> QED
    BY <1>1, <2>1 DEF ModeOf
<1>3. mode = ModeOf(screen) /\ \A i \in 1 .. Len(feedback) : feedback[i] = ModeOf(screen)
  BY DEF Agreed
<1>4. ModeOf(lastMessage) = ModeOf(screen)
  BY <1>0 DEF Agreed, Synced
<1>5. TicksBefore \in 0 .. 2 /\ (due.tick = 4 => TicksBefore <= 1)
  BY <1>0 DEF TicksBefore
<1>6. frames + Len(feedback) + 2 * TicksBefore <= Patience
  <2>1. CASE due.tick = 4
    BY <1>0, <1>5, <2>1
  <2>2. CASE due.tick < 4
    <3>1. Len(feedback) = 0
      BY <1>0, <2>2
    <3> QED
      BY <1>0, <1>5, <2>2, <3>1
  <2> QED
    BY <1>0, <2>1, <2>2
<1>7. TicksBefore' = TicksBefore
  BY <1>1 DEF TicksBefore
<1> QED
  BY <1>0, <1>1, <1>2, <1>3, <1>4, <1>6, <1>7, Periods DEF Pending

(* Until it is sent, no step of an undisturbed car turns the click round.  *)
LEMMA PendingStep ==
  ASSUME RInv, Synced, RoverNext, running', ~Disturbed, ~AutoClick, ~TaskRuns,
         NEW m \in FeedbackMode, Pending(m)
  PROVE  Pending(m)'
<1>0. /\ running /\ ~Part /\ linked = running /\ TypeOK
      /\ due \in Due /\ due.tick \in 0 .. 4 /\ due.task \in 0 .. 7
      /\ feedback \in Seq(FeedbackMode) /\ Len(feedback) \in Nat /\ frames \in 0 .. 2
      /\ due.tick < 4 => frames = 0 /\ feedback = <<>>
      /\ writing = <<>>
      /\ patience \in Nat
  BY StillRunning, Ranges, Periods DEF RInv, RoverTypeOK, Pending
<1>p. /\ ModeOf(screen) = m /\ ModeOf(lastMessage) # m /\ mode # m /\ Period.task = 8
      /\ \A i \in 1 .. Len(feedback) : feedback[i] # m
      /\ frames + Len(feedback) + 2 * TicksBefore <= patience
  BY Periods DEF Pending
<1>r. requestedMode # m
  BY <1>0, <1>p DEF Synced
<1>t. TicksBefore \in 0 .. 2
  BY DEF TicksBefore
<1>1. CASE UNCHANGED <<mode, screen, patience, lastMessage, feedback, frames, due>>
  BY <1>1 DEF Pending, TicksBefore
<1>2. CASE StartClick \/ OnMove
  <2>1. /\ ModeOf(screen') = ModeOf(screen)
        /\ UNCHANGED <<mode, patience, lastMessage, feedback, frames, due>>
    BY <1>2, ManualHandlers DEF vars, command, radio, node
  <2> QED
    BY <2>1 DEF Pending, TicksBefore
<1>3. CASE ChangeMode
  <2>1. /\ feedback # <<>> /\ feedback' = Tail(feedback)
        /\ Head(feedback) # ModeOf(screen) /\ patience > 0 =>
             patience' = patience - 1 /\ screen' = screen
        /\ UNCHANGED <<mode, lastMessage, frames, due>>
    BY <1>3, FeedbackEffect DEF vars, command, node
  <2>2. /\ Head(feedback) # m /\ \A i \in 1 .. Len(feedback') : feedback'[i] # m
        /\ Len(feedback') = Len(feedback) - 1 /\ Len(feedback') \in Nat
    BY <1>0, <1>p, <2>1, LinkElements, TakeFromLink
  <2>3. patience > 0
    BY <1>0, <1>p, <1>t, <2>2
  <2>4. patience' = patience - 1 /\ screen' = screen
    BY <1>p, <2>1, <2>2, <2>3
  <2>5. TicksBefore' = TicksBefore
    BY <2>1 DEF TicksBefore
  <2>6. frames' + Len(feedback') + 2 * TicksBefore' <= patience'
    BY <1>0, <1>p, <1>t, <2>1, <2>2, <2>4, <2>5
  <2> QED
    BY <1>0, <1>p, <2>1, <2>2, <2>4, <2>6 DEF Pending
<1>4. CASE Control
  <2>1. /\ due'.task = due.task /\ due'.tick = due.tick
        /\ UNCHANGED <<screen, patience, lastMessage, feedback, frames>>
    BY <1>0, <1>4, RearmFields DEF Control, remote, radio, node
  <2>2. mode' = requestedMode
    BY <1>0, <1>4, ControlCalm DEF Synced
  <2> QED
    BY <1>p, <1>r, <2>1, <2>2 DEF Pending, TicksBefore
<1>5. CASE ReadFrame
  <2>1. /\ mode \in FeedbackMode /\ feedback' = Append(feedback, mode)
        /\ frames' = frames - 1
        /\ UNCHANGED <<mode, screen, patience, lastMessage, due>>
    BY <1>0, <1>5, FrameCalm DEF command, remote
  <2>2. /\ \A i \in 1 .. Len(feedback') : feedback'[i] # m
        /\ Len(feedback') = Len(feedback) + 1
    BY <1>0, <1>p, <2>1, LinkElements
  <2>3. TicksBefore' = TicksBefore
    BY <2>1 DEF TicksBefore
  <2>4. frames' + Len(feedback') + 2 * TicksBefore' <= patience'
    BY <1>0, <1>p, <1>t, <2>1, <2>2, <2>3
  <2> QED
    BY <1>0, <1>p, <2>1, <2>2, <2>4 DEF Pending
<1>6. CASE Tick
  <2>1. due.tick = 0 /\ due'.tick = 4 /\ due'.task = due.task
    BY <1>0, <1>6, RearmFields DEF Tick, Expired
  <2>2. frames' = 2 /\ UNCHANGED <<mode, screen, patience, lastMessage, feedback>>
    BY <1>0, <1>6 DEF Tick, vars, command, remote, radio
  <2>3. frames = 0 /\ Len(feedback) = 0
    BY <1>0, <2>1
  <2>4. TicksBefore' = TicksBefore - 1
    BY <1>0, <2>1 DEF TicksBefore
  <2>5. frames' + Len(feedback') + 2 * TicksBefore' <= patience'
    BY <1>0, <1>p, <1>t, <2>2, <2>3, <2>4
  <2> QED
    BY <1>0, <1>p, <2>1, <2>2, <2>5 DEF Pending
<1>7. CASE Elapse
  <2>1. /\ due.tick > 0 /\ due.task > 0
        /\ UNCHANGED <<mode, screen, patience, lastMessage, feedback, frames>>
    BY <1>0, <1>7 DEF Elapse, Expired, vars, command, remote, radio, node
  <2>2. due'.tick = due.tick - 1 /\ due'.task = due.task - 1
    BY <1>0, <1>7, <2>1, ElapseFields
  <2>3. TicksBefore' = TicksBefore
    BY <1>0, <2>2 DEF TicksBefore
  <2>4. due'.task < 8
    BY <1>0, <2>2
  <2> QED
    BY <1>p, <2>1, <2>3, <2>4 DEF Pending
<1>8. CASE Command
  <2>1. /\ due'.tick = due.tick /\ due'.task = due.task
        /\ UNCHANGED <<mode, screen, patience, lastMessage, feedback, frames>>
    BY <1>0, <1>8, RearmFields DEF Command, CanOnTimeToSend, command, remote, radio
  <2> QED
    BY <1>p, <2>1 DEF Pending, TicksBefore
<1>9. CASE Camera \/ ReadByte
  BY <1>1, <1>9 DEF Camera, CameraProcess, ReadByte, BleOnDataReceived, command, remote,
                    radio, node
<1> QED
  BY <1>0, <1>2, <1>3, <1>4, <1>5, <1>6, <1>7, <1>8, <1>9 DEF RoverNext, Operate, Decide

(* The last click was not sent yet, or it is what the car follows.         *)
LEMMA ClickedStep ==
  ASSUME RInv, Synced, Undisturbed, Clicked, RoverNext, running', Patience >= 4
  PROVE  Clicked'
<1> SUFFICES ASSUME wanted' # "any" PROVE Clicked'
  BY DEF Clicked
<1>0. ~Disturbed /\ ~Disturbed' /\ running
  BY UndisturbedStep, StillRunning
<1>1. CASE AutoClick
  <2>1. Watch(TRUE, IF Agreed THEN ModeOf(screen') ELSE "any", FALSE)
    BY <1>1 DEF AutoClick, Press
  <2>2. wanted' = IF Agreed THEN ModeOf(screen') ELSE "any"
    BY <1>0, <2>1, WatchCalm
  <2>3. Agreed /\ wanted' = ModeOf(screen')
    BY <2>2
  <2> QED
    BY <1>0, <1>1, <2>3, PendingStart DEF Clicked, Pending
<1>2. CASE ~AutoClick
  <2>1. wanted' = wanted
    <3>1. \/ Watch(TRUE, wanted, FALSE) \/ Watch(FALSE, wanted, TRUE)
          \/ Watch(FALSE, wanted, FALSE)
      BY <1>2, WatchKinds
    <3> QED
      BY <1>0, <3>1, WatchCalm
  <2>2. PICK m \in FeedbackMode : m = wanted /\ m = wanted'
    BY <2>1 DEF RInv, RoverTypeOK, FeedbackMode
  <2>3. Pending(m) \/ (ModeOf(lastMessage) = m /\ Follows(m))
    BY <2>1, <2>2 DEF Clicked
  <2>4. CASE TaskRuns
    <3>1. due.task = 0
      BY <2>4 DEF TaskRuns, Expired
    <3>2. ModeOf(screen) = m
      <4>1. ~Corrected(m)
        BY <3>1, Ranges DEF Corrected
      <4> QED
        BY <2>3, <4>1 DEF Pending, Follows, Shows
    <3>3. Follows(m)' /\ ModeOf(lastMessage') = m
      BY <2>4, <3>2, FollowsStart
    <3> QED
      BY <2>2, <3>3 DEF Clicked, Follows, Shows, Corrected
  <2>5. CASE ~TaskRuns
    <3>1. Pending(m)' \/ (ModeOf(lastMessage') = m /\ Follows(m)')
      BY <1>0, <1>2, <2>3, <2>5, PendingStep, FollowsStep
    <3> QED
      BY <2>2, <3>1 DEF Clicked, Pending, Follows, Shows, Corrected
  <2> QED
    BY <2>4, <2>5
<1> QED
  BY <1>1, <1>2

-----------------------------------------------------------------------------
(* The car does what the screen says.                                      *)

(* A run of the task that finds car and screen in the mode of the last     *)
(* message leaves everybody with the code of the screen.                   *)
LEMMA SettledStart ==
  ASSUME RInv, Synced, Calmer, running, TaskRuns, calm' = calm, calm >= 9
  PROVE  Settled(lastMessage)'
<1>0. /\ due \in Due /\ due.control \in 0 .. 2 /\ due.send \in 0 .. 1 /\ due.task = 0
      /\ calm \in 9 .. 24
  <2>1. due.task = 0
    BY DEF TaskRuns, Expired
  <2>2. due \in Due /\ due.control \in 0 .. 2 /\ due.send \in 0 .. 1 /\ calm \in 0 .. 24
    BY Ranges
  <2> QED
    BY <2>1, <2>2
<1>r. writing = <<>> /\ requestedMode = ModeOf(lastMessage)
  BY <1>0, Ranges DEF Synced
<1>u. Turn \in 0 .. 1
  BY DEF Turn
<1>1. /\ due'.task = 8 /\ due'.control = due.control /\ due'.send = due.send
  BY <1>0, RearmFields DEF TaskRuns
<1>2. /\ lastMessage' = screen /\ screen' = screen
      /\ screen = lastMessage => writing' = <<>>
      /\ UNCHANGED <<mode, requestedMode, speed, feedback, motor, nextFrame>>
  BY <1>r DEF TaskRuns, vars, request, command, node
<1>3. mode = ModeOf(lastMessage) /\ Shows(ModeOf(lastMessage))
  <2>1. Follows(ModeOf(lastMessage))
    BY <1>0 DEF Calmer
  <2>2. ~Corrected(ModeOf(lastMessage))
    BY <1>0, Ranges DEF Corrected
  <2> QED
    BY <1>0, <2>1, <2>2 DEF Follows
<1>4. /\ screen' = lastMessage' /\ mode' = ModeOf(lastMessage')
      /\ requestedMode' = ModeOf(lastMessage') /\ Shows(ModeOf(lastMessage))'
  BY <1>r, <1>2, <1>3 DEF Shows
<1>5. Turn' = Turn
  BY <1>2 DEF Turn
<1>6. CASE calm <= 16
  <2>1. /\ calm' + due'.task <= 24
        /\ due'.control + 6 <= due'.task /\ due'.send + Turn' + 4 <= due'.task
    BY <1>0, <1>u, <1>1, <1>5, <1>6
  <2> QED
    BY <1>4, <2>1 DEF Settled
<1>7. CASE calm >= 17
  <2>1. Settled(lastMessage)
    BY <1>0, <1>7 DEF Calmer
  <2>2. /\ screen = lastMessage
        /\ speed # SpeedOf(lastMessage) => due.control + 6 <= due.task
        /\ motor # SpeedOf(lastMessage) => due.send + Turn + 4 <= due.task
    BY <2>1 DEF Settled
  <2>3. speed = SpeedOf(lastMessage) /\ motor = SpeedOf(lastMessage)
    BY <1>0, <1>u, <2>2
  <2>4. writing' = <<>> /\ speed' = SpeedOf(lastMessage') /\ motor' = SpeedOf(lastMessage')
    BY <1>2, <2>2, <2>3
  <2> QED
    BY <1>4, <2>4 DEF Settled
<1> QED
  BY <1>0, <1>6, <1>7

(* Without a click no other step of an undisturbed car changes that, and   *)
(* the speed reaches the motors.                                           *)
LEMMA SettledStep ==
  ASSUME RInv, Synced, Fed, RoverNext, running', ~Disturbed,
         ~AutoClick, ~StartClick, ~OnMove, ~TaskRuns,
         calm' + due'.task <= calm + due.task,
         NEW code \in StateCode, lastMessage = code, Settled(code)
  PROVE  Settled(code)' /\ lastMessage' = code
<1>0. /\ running /\ ~Part /\ linked = running /\ TypeOK
      /\ due \in Due /\ due.control \in 0 .. 2 /\ due.send \in 0 .. 1
      /\ due.tick \in 0 .. 4 /\ due.task \in 0 .. 8
      /\ feedback \in Seq(FeedbackMode)
      /\ due.task < 8 => writing = <<>>
      /\ calm \in 0 .. 24 /\ calm' \in 0 .. 24
      /\ Turn \in 0 .. 1
  <2>1. calm' \in 0 .. 24
    BY NextRInv DEF RInv, RoverTypeOK, CalmCap
  <2> QED
    BY <2>1, StillRunning, Ranges DEF RInv, RoverTypeOK, Turn
<1> DEFINE Late == calm + due.task <= 24
<1>s. /\ screen = code /\ mode = ModeOf(code) /\ requestedMode = ModeOf(code)
      /\ Shows(ModeOf(code))
      /\ writing # <<>> => Late
      /\ speed # SpeedOf(code) => due.control + 6 <= due.task /\ Late
      /\ motor # SpeedOf(code) => due.send + Turn + 4 <= due.task /\ Late
  BY DEF Settled
<1>l. Late => calm' + due'.task <= 24
  <2>1. due' \in Due
    BY NextRInv, Ranges DEF RInv, RoverTypeOK, Due, Period
  <2>2. due'.task \in 0 .. 8
    BY <2>1 DEF Due
  <2>3. calm \in 0 .. 24 /\ calm' \in 0 .. 24 /\ due.task \in 0 .. 8
    BY <1>0
  <2> QED
    BY <2>2, <2>3
<1> HIDE DEF Late
<1>1. ASSUME UNCHANGED <<screen, mode, lastMessage, speed, motor, nextFrame, due>>,
             writing' \in {writing, <<>>}, requestedMode' = ModeOf(code),
             \A i \in 1 .. Len(feedback') : feedback'[i] = ModeOf(code)
      PROVE  Settled(code)' /\ lastMessage' = code
  <2>1. Turn' = Turn /\ Shows(ModeOf(code))'
    BY <1>1, <1>s DEF Turn, Shows
  <2> QED
    BY <1>1, <1>s, <1>l, <2>1 DEF Settled
<1>2. CASE ChangeMode
  <2>1. /\ feedback # <<>> /\ feedback' = Tail(feedback)
        /\ Head(feedback) = ModeOf(screen) => screen' = screen
        /\ UNCHANGED <<mode, requestedMode, speed, lastMessage, motor, nextFrame, writing, due>>
    BY <1>2, <1>s, FeedbackEffect DEF vars, command, request, node
  <2>2. Head(feedback) = ModeOf(code) /\ \A i \in 1 .. Len(feedback') : feedback'[i] = ModeOf(code)
    BY <1>0, <1>s, <2>1, EveryFeedback DEF Shows
  <2> QED
    BY <1>1, <1>s, <2>1, <2>2
<1>3. CASE Control
  <2>1. /\ due'.control = 2 /\ due'.task = due.task /\ due'.send = due.send
        /\ UNCHANGED <<screen, requestedMode, lastMessage, feedback, writing, motor, nextFrame>>
    BY <1>0, <1>3, RearmFields
       DEF Control, SystemControl, request, remote, radio, node
  <2>2. /\ mode' = requestedMode
        /\ speed' = IF requestedMode = "autonomous" \/ moving THEN Normal ELSE Stop
    BY <1>0, <1>3, ControlCalm DEF Synced
  <2>3. speed' # SpeedOf(code) => due'.control + 6 <= due'.task /\ Late
    <3>1. CASE writing = <<>>
      <4>1. moving = (code = Driving)
        BY <3>1 DEF Synced
      <4>2. speed' = SpeedOf(code)
        BY <1>s, <2>2, <4>1 DEF SpeedOf, ModeOf, Driving, Autonomous
      <4> QED
        BY <4>2
    <3>2. CASE writing # <<>>
      BY <1>0, <1>s, <2>1, <3>2
    <3> QED
      BY <3>1, <3>2
  <2>4. Turn' = Turn /\ Shows(ModeOf(code))'
    BY <1>s, <2>1 DEF Turn, Shows
  <2> QED
    BY <1>s, <1>l, <2>1, <2>2, <2>3, <2>4 DEF Settled
<1>4. CASE Command
  <2>1. /\ due.send = 0 /\ due'.send = 1 /\ due'.control = due.control /\ due'.task = due.task
        /\ UNCHANGED <<screen, mode, requestedMode, speed, lastMessage, feedback, writing>>
    BY <1>0, <1>4, RearmFields
       DEF Command, CanOnTimeToSend, Expired, command, request, remote, radio
  <2>2. Shows(ModeOf(code))'
    BY <1>s, <2>1 DEF Shows
  <2>3. CASE nextFrame = "SpeedCmd"
    <3>1. motor' = speed /\ Turn' = 1
      BY <1>4, <2>3 DEF Command, CanOnTimeToSend, Turn
    <3>2. motor' # SpeedOf(code) => due'.send + Turn' + 4 <= due'.task /\ Late
      BY <1>0, <1>s, <2>1, <3>1
    <3> QED
      BY <1>s, <1>l, <2>1, <2>2, <3>2 DEF Settled
  <2>4. CASE nextFrame # "SpeedCmd"
    <3>1. motor' = motor /\ Turn = 1 /\ Turn' = 0
      BY <1>4, <2>4 DEF Command, CanOnTimeToSend, Turn
    <3>2. motor' # SpeedOf(code) => due'.send + Turn' + 4 <= due'.task /\ Late
      BY <1>0, <1>s, <2>1, <3>1
    <3> QED
      BY <1>s, <1>l, <2>1, <2>2, <3>2 DEF Settled
  <2> QED
    BY <2>3, <2>4
<1>5. CASE Camera
  BY <1>1, <1>5, <1>s DEF Camera, CameraProcess, command, request, remote, radio, node, Shows
<1>6. CASE ReadFrame
  <2>1. /\ mode \in FeedbackMode /\ feedback' = Append(feedback, mode)
        /\ UNCHANGED <<mode, requestedMode, speed, nextFrame, screen, lastMessage, writing,
                       motor, due>>
    BY <1>0, <1>6, FrameCalm DEF command, request, remote
  <2>2. \A i \in 1 .. Len(feedback') : feedback'[i] = ModeOf(code)
    BY <1>0, <1>s, <2>1, EveryFeedback DEF Shows
  <2> QED
    BY <1>1, <1>s, <2>1, <2>2
<1>7. CASE ReadByte
  <2>1. writing = <<lastMessage>>
    BY <1>7 DEF ReadByte, Synced
  <2>2. Head(writing) = code /\ Tail(writing) = <<>>
    BY <2>1
  <2>3. /\ BleOnDataReceived(code * 32 + NoDirection) /\ writing' = <<>>
        /\ UNCHANGED <<screen, mode, lastMessage, speed, motor, nextFrame, due, feedback>>
    BY <1>7, <2>2 DEF ReadByte, BleOnDataReceived, command, remote, node
  <2>4. requestedMode' = ModeOf(code)
    BY <2>3, ByteMeaning
  <2> QED
    BY <1>1, <1>s, <2>3, <2>4 DEF Shows
<1>8. CASE Tick
  <2>1. /\ due.tick = 0 /\ due'.control = due.control /\ due'.task = due.task
        /\ due'.send = due.send
    BY <1>0, <1>8, RearmFields DEF Tick, Expired
  <2>2. /\ motor' = IF heard THEN motor ELSE Stop
        /\ UNCHANGED <<screen, mode, requestedMode, speed, nextFrame, lastMessage, feedback,
                       writing>>
    BY <1>8 DEF Tick, vars, command, request, remote, radio
  <2>3. ~heard => motor = Stop
    BY <1>0, <2>1 DEF Fed
  <2>4. motor' = motor
    BY <2>2, <2>3
  <2>5. Turn' = Turn /\ Shows(ModeOf(code))'
    BY <1>s, <2>2 DEF Turn, Shows
  <2> QED
    BY <1>s, <1>l, <2>1, <2>2, <2>4, <2>5 DEF Settled
<1>9. CASE Elapse
  <2>1. /\ due.control > 0 /\ due.send > 0 /\ due.task > 0
        /\ UNCHANGED <<screen, mode, requestedMode, speed, nextFrame, lastMessage, feedback,
                       writing, motor>>
    BY <1>0, <1>9 DEF Elapse, Expired, vars, command, request, remote, radio, node
  <2>2. /\ due'.control = due.control - 1 /\ due'.send = due.send - 1
        /\ due'.task = due.task - 1
    BY <1>0, <1>9, <2>1, ElapseFields
  <2>3. Turn' = Turn /\ Turn \in 0 .. 1
    BY <2>1 DEF Turn
  <2>4. speed' # SpeedOf(code) => due'.control + 6 <= due'.task /\ Late
    BY <1>0, <1>s, <2>1, <2>2
  <2>5. motor' # SpeedOf(code) => due'.send + Turn' + 4 <= due'.task /\ Late
    <3>1. due.send + Turn + 4 <= due.task => due'.send + Turn' + 4 <= due'.task
      BY <1>0, <2>2, <2>3
    <3> QED
      BY <1>s, <2>1, <3>1
  <2>6. Shows(ModeOf(code))'
    BY <1>s, <2>1 DEF Shows
  <2> QED
    BY <1>s, <1>l, <2>1, <2>4, <2>5, <2>6 DEF Settled
<1> QED
  BY <1>0, <1>2, <1>3, <1>4, <1>5, <1>6, <1>7, <1>8, <1>9 DEF RoverNext, Operate, Decide

(* Without a disturbance the count and the task only get nearer.           *)
LEMMA CalmAndTask ==
  ASSUME RInv, RoverNext, running', ~TaskRuns, calm' > 0
  PROVE  /\ ~AutoClick /\ ~StartClick /\ ~OnMove
         /\ calm' + due'.task <= calm + due.task
<1>0. due \in Due /\ due.task \in 0 .. 8 /\ calm \in 0 .. 24 /\ linked = running
  BY Ranges
<1>1. ~AutoClick /\ ~StartClick /\ ~OnMove
  <2>1. ASSUME NEW asked, Watch(TRUE, asked, FALSE) PROVE calm' = 0
    BY <2>1, WatchCalm
  <2>2. calm' # 0
    BY <1>0
  <2>3. AutoClick \/ StartClick \/ OnMove => \E asked : Watch(TRUE, asked, FALSE)
    BY DEF AutoClick, StartClick, OnMove
  <2> QED
    BY <2>1, <2>2, <2>3
<1>2. CASE Elapse
  <2>1. calm' \in {0, calm + 1} \/ (calm' = 24 /\ calm = 24)
    BY <1>2, WatchCalm DEF Elapse
  <2>2. due.task > 0 /\ due'.task = due.task - 1
    <3>1. due.task > 0
      BY <1>0, <1>2, StillRunning DEF Elapse, Expired
    <3> QED
      BY <1>0, <1>2, <3>1, ElapseFields
  <2> QED
    BY <1>0, <1>1, <2>1, <2>2
<1>3. CASE ~Elapse
  <2>1. calm' = calm
    <3>1. Watch(FALSE, wanted, FALSE)
      BY <1>1, <1>3, WatchKinds
    <3>2. calm' \in {0, calm}
      BY <3>1, WatchCalm
    <3> QED
      BY <3>2
  <2>2. due'.task = due.task
    <3>1. CASE Control \/ Command \/ Tick
      BY <1>0, <3>1, RearmFields DEF Control, Command, Tick
    <3>2. CASE ChangeMode \/ Camera \/ ReadFrame \/ ReadByte
      BY <3>2 DEF ChangeMode, Camera, ReadFrame, ReadByte
    <3> QED
      BY <1>1, <1>3, <3>1, <3>2, StillRunning DEF RoverNext, Operate, Decide
  <2> QED
    BY <1>0, <1>1, <2>1, <2>2
<1> QED
  BY <1>2, <1>3

(* One run of the task makes the car follow the screen, two settle it.     *)
LEMMA CalmerStep ==
  ASSUME RInv, Synced, Fed, Undisturbed, Calmer, RoverNext, running'
  PROVE  Calmer'
<1>0. /\ due.task \in 0 .. 8 /\ calm \in 0 .. 24 /\ screen \in StateCode
      /\ lastMessage \in StateCode
  BY Ranges
<1>1. due'.task \in 0 .. 8 /\ calm' \in 0 .. 24
  BY NextRInv DEF RInv, RoverTypeOK, CalmCap, Period
<1>2. running
  BY StillRunning
<1>3. ModeOf(screen) \in FeedbackMode /\ ModeOf(lastMessage) \in FeedbackMode
  BY DEF ModeOf, FeedbackMode
<1>4. CASE TaskRuns
  <2>1. PICK m \in FeedbackMode : m = ModeOf(screen)
    BY <1>3
  <2>2. Follows(m)' /\ ModeOf(lastMessage') = m
    BY <1>4, <2>1, FollowsStart
  <2>3. Follows(ModeOf(lastMessage))'
    BY <2>2 DEF Follows, Shows, Corrected
  <2>4. due'.task = 8
    BY <1>4, Ranges, RearmFields DEF TaskRuns
  <2>5. calm' \in {0, calm}
    BY <1>4, WatchCalm DEF TaskRuns, Unseen
  <2>6. ASSUME calm' + due'.task >= 17 PROVE Settled(lastMessage)'
    <3>1. calm' = calm
      <4>1. calm' # 0
        BY <2>4, <2>6
      <4> QED
        BY <2>5, <4>1
    <3>2. calm >= 9
      BY <1>0, <2>4, <2>6, <3>1
    <3> QED
      BY <1>2, <1>4, <3>1, <3>2, SettledStart
  <2> QED
    BY <2>3, <2>6 DEF Calmer
<1>5. CASE ~TaskRuns /\ calm' > 0
  <2>1. /\ ~AutoClick /\ ~StartClick /\ ~OnMove
        /\ calm' + due'.task <= calm + due.task
    BY <1>5, CalmAndTask
  <2>2. ~Disturbed
    BY <1>1, <1>5, UndisturbedStep
  <2>3. ASSUME calm' + due'.task >= 9 PROVE Follows(ModeOf(lastMessage))'
    <3>1. calm + due.task >= 9
      BY <1>0, <1>1, <2>1, <2>3
    <3>2. PICK m \in FeedbackMode : m = ModeOf(lastMessage)
      BY <1>3
    <3>3. Follows(m)
      BY <3>1, <3>2 DEF Calmer
    <3>4. Follows(m)' /\ ModeOf(lastMessage') = m
      BY <1>5, <2>1, <2>2, <3>2, <3>3, FollowsStep
    <3> QED
      BY <3>4 DEF Follows, Shows, Corrected
  <2>4. ASSUME calm' + due'.task >= 17 PROVE Settled(lastMessage)'
    <3>1. calm + due.task >= 17
      BY <1>0, <1>1, <2>1, <2>4
    <3>2. PICK code \in StateCode : code = lastMessage
      BY <1>0
    <3>3. Settled(code)
      BY <3>1, <3>2 DEF Calmer
    <3>4. Settled(code)' /\ lastMessage' = code
      BY <1>5, <2>1, <2>2, <3>2, <3>3, SettledStep
    <3> QED
      BY <3>4 DEF Settled, Shows
  <2> QED
    BY <2>3, <2>4 DEF Calmer
<1>6. CASE calm' = 0
  BY <1>1, <1>6 DEF Calmer
<1> QED
  BY <1>1, <1>4, <1>5, <1>6

(* At the start nothing was sent and nothing was asked for.                *)
LEMMA InitCInv == RoverInit => CInv
<1> SUFFICES ASSUME RoverInit PROVE CInv
  OBVIOUS
<1>1. writing = <<>> /\ lastMessage = Rest /\ requestedMode = "manual"
  BY DEF RoverInit, Init
<1>2. moving = FALSE /\ requestedTurbo = FALSE
  BY DEF RoverInit, Init
<1>3. wanted = "any" /\ calm = 0 /\ motor = Stop /\ due.task = 8
  BY Periods DEF RoverInit
<1>4. Synced
  <2>1. Rest # Driving /\ Rest # Autonomous
    BY DEF Rest, Driving, Autonomous
  <2>2. ModeOf(Rest) = "manual"
    BY <2>1 DEF ModeOf
  <2>3. moving = (lastMessage = Driving) /\ ~requestedTurbo
    BY <1>1, <1>2, <2>1
  <2> QED
    BY <1>1, <2>2, <2>3 DEF Synced
<1>5. Undisturbed
  BY <1>3 DEF Undisturbed
<1>6. Fed /\ Clicked
  BY <1>3 DEF Fed, Clicked
<1>7. Calmer
  BY <1>3 DEF Calmer
<1> QED
  BY <1>4, <1>5, <1>6, <1>7, InitRInv DEF CInv

(* Every step keeps what a click needs to prevail.                         *)
LEMMA NextCInv ==
  ASSUME CInv, [RoverNext]_roverVars, Patience >= 4
  PROVE  CInv'
<1>1. CASE RoverNext
  <2>1. RInv' /\ Undisturbed'
    BY <1>1, NextRInv, UndisturbedStep DEF CInv
  <2>2. ASSUME running' PROVE Synced' /\ Fed' /\ Clicked' /\ Calmer'
    <3>1. RInv /\ Undisturbed /\ Synced /\ Fed /\ Clicked /\ Calmer
      BY <1>1, <2>2, StillRunning DEF CInv
    <3> QED
      BY <1>1, <2>2, <3>1, SyncedStep, FedStep, ClickedStep, CalmerStep
  <2> QED
    BY <2>1, <2>2 DEF CInv
<1>2. CASE UNCHANGED roverVars
  <2>1. UNCHANGED <<vars, remote, radio, node, due, history>>
    BY <1>2 DEF roverVars
  <2>2. Disturbed' = Disturbed
    BY <2>1, SameDisturbance DEF vars, inputs, command
  <2>3. RInv'
    BY NextRInv DEF CInv
  <2>4. Undisturbed'
    BY <2>1, <2>2 DEF CInv, Undisturbed, history, vars
  <2>5. Synced' = Synced /\ Fed' = Fed
    BY <2>1 DEF Synced, Fed, vars, request, remote, radio, node
  <2>6. /\ \A m : Follows(m)' = Follows(m) /\ Pending(m)' = Pending(m)
        /\ \A code : Settled(code)' = Settled(code)
    BY <2>1 DEF Follows, Shows, Corrected, Pending, TicksBefore, Settled, Turn,
                vars, request, command, remote, radio, node, history
  <2>7. Clicked' = Clicked /\ Calmer' = Calmer
    BY <2>1, <2>6 DEF Clicked, Calmer, remote, history,
       Follows, Shows, Corrected, Pending, TicksBefore, Settled, Turn, radio, node, vars,
       request, command
  <2>8. running' = running
    BY <2>1 DEF vars
  <2> QED
    BY <2>3, <2>4, <2>5, <2>7, <2>8 DEF CInv
<1> QED
  BY <1>1, <1>2

(* 600 ms after the last click or disturbance the car does what the screen *)
(* says, in the mode the last click asked for.  The patience this takes is *)
(* one less than what setAutoButton gives.                                 *)
THEOREM ClickWins ==
  ASSUME Patience >= 4
  PROVE  RoverSpec => []ClickPrevails
<1>1. CInv /\ [RoverNext]_roverVars => CInv'
  BY NextCInv
<1>2. CInv => ClickPrevails
  <2> SUFFICES ASSUME CInv, calm = CalmCap
               PROVE  /\ mode = ModeOf(screen) /\ motor = SpeedOf(screen)
                      /\ wanted \in {"any", ModeOf(screen)}
    BY DEF ClickPrevails
  <2>1. RInv /\ calm = 24 /\ due.task \in 0 .. 8 /\ due.send \in 0 .. 1
    BY Ranges DEF CInv, CalmCap
  <2>2. Clicked /\ Calmer
    BY <2>1 DEF CInv, Undisturbed
  <2>3. Settled(lastMessage)
    BY <2>1, <2>2 DEF Calmer
  <2>4. /\ screen = lastMessage /\ mode = ModeOf(lastMessage)
        /\ motor # SpeedOf(lastMessage) =>
             due.send + Turn + 4 <= due.task /\ calm + due.task <= 24
    BY <2>3 DEF Settled
  <2>5. Turn \in 0 .. 1
    BY DEF Turn
  <2>6. motor = SpeedOf(lastMessage)
    BY <2>1, <2>4, <2>5
  <2>7. wanted \in {"any", ModeOf(lastMessage)}
    BY <2>2, <2>4 DEF Clicked, Pending
  <2> QED
    BY <2>4, <2>6, <2>7
<1> QED
  BY InitCInv, <1>1, <1>2, PTL DEF RoverSpec

-----------------------------------------------------------------------------
(* The Raspberry Pi of the composition is an AcmApplication, whose remote  *)
(* writes the state codes of createMessage with no direction: the others   *)
(* and time leave it alone.  So the safety proved of it alone holds in the *)
(* car.                                                                    *)
THEOREM RoverRunsAcmApplication == RoverSpec => Spec
<1>1. RoverInit => Init
  BY DEF RoverInit
<1>2. RInv /\ [RoverNext]_roverVars => [Next]_vars
  <2> SUFFICES ASSUME RInv, [RoverNext]_roverVars PROVE [Next]_vars
    OBVIOUS
  <2>1. CASE Operate
    BY <2>1 DEF Operate, AutoClick, StartClick, OnMove, Press, ChangeMode, TaskRuns
  <2>2. CASE Control \/ Command \/ Camera \/ Part
    BY <2>2, Zenon DEF Control, Command, Camera, Part, Next
  <2>3. CASE ReadFrame
    BY <2>3, Zenon DEF ReadFrame, Next
  <2>4. CASE ReadByte
    <3>1. writing # <<>> /\ BleOnDataReceived(Head(writing) * 32 + NoDirection)
      BY <2>4 DEF ReadByte
    <3>2. writing \in Seq(StateCode)
      BY DEF RInv, RoverTypeOK
    <3>3. Head(writing) \in StateCode
      BY <3>1, <3>2
    <3>4. Head(writing) * 32 + NoDirection \in BleValue
      BY <3>3, RemoteAssumption, Zenon
    <3> QED
      BY <3>1, <3>4, Zenon DEF Next
  <2>5. CASE Tick \/ Elapse \/ UNCHANGED roverVars
    BY <2>5, Zenon DEF Tick, Elapse, roverVars
  <2> QED
    BY <2>1, <2>2, <2>3, <2>4, <2>5 DEF RoverNext, Decide
<1> QED
  BY RoverInvariance, <1>1, <1>2, PTL DEF RoverSpec, Spec

=============================================================================
