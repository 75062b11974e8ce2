------------------------------- MODULE Rover -------------------------------
(***************************************************************************)
(* The car and its remote as one system in discrete time: the activity     *)
(* remote.java, the application of the Raspberry Pi (AcmApplication, which *)
(* this module extends) and the command loop of the STM32, joined by a     *)
(* Bluetooth link and a CAN bus.                                           *)
(*                                                                         *)
(* The unit of time is 25 ms.  Four timers count down in due:              *)
(*   control   systemControl of the Raspberry Pi, every 50 ms              *)
(*   send      canOnTimeToSend, every 25 ms                                *)
(*   tick      canPeriodic of the STM32, every 100 ms                      *)
(*   task      the timer task of the remote, every 200 ms                  *)
(* Time passes only when nothing is due and nothing is on its way, so what *)
(* happens within a unit may happen in any order.                          *)
(*                                                                         *)
(* The remote and the STM32 are here at the grain of what the others see:  *)
(* a handler of the remote is one step (Remote has its fields and races),  *)
(* and the loop of the STM32 has carried out a frame before the next event *)
(* (CarNode has its steps and interrupts).  Directions are left out.       *)
(***************************************************************************)
EXTENDS AcmApplication, Sequences

CONSTANTS
  Patience         \* feedbacks a click on the mode button ignores; 5 in setAutoButton

ASSUME PatienceAssumption == Patience \in Nat

VARIABLES
  screen,          \* state code createMessage makes of the fields of the remote
  patience,        \* modeChanged
  lastMessage,     \* previousMessage of the timer task
  linked,          \* the remote and the Raspberry Pi are connected
  writing,         \* state codes on their way to the Raspberry Pi
  feedback,        \* modes on their way to the remote
  frames,          \* data frames of the STM32 the Raspberry Pi has not read
  heard,           \* nb_rcv is not zero
  motor,           \* SpeedRx[0], and with it the speed of the rear motors
  due,             \* per timer, units until it expires
  wanted,          \* history: the mode asked for by the last click, or "any"
  calm,            \* history: units since a click or a disturbance
  danger,          \* history: units since the zone became critical
  lost             \* history: units since the process ended

remote == <<screen, patience, lastMessage>>
radio == <<linked, writing, feedback>>
node == <<frames, heard, motor>>
history == <<wanted, calm, danger, lost>>
roverVars == <<vars, remote, radio, node, due, history>>

-----------------------------------------------------------------------------
Period == [control |-> 2, send |-> 1, tick |-> 4, task |-> 8]

Expired(timer) == due[timer] = 0

Rearm(timer) == due' = [due EXCEPT ![timer] = Period[timer]]

(* State codes of createMessage.  Those with turbo, which travel like the  *)
(* ones without, are left out.                                             *)
Rest == 0
Started == 1
Driving == 2
Autonomous == 5
StateCode == {Rest, Started, Driving, Autonomous}

NoDirection == 7

(* The bytes of the remote are among those the Raspberry Pi may receive.   *)
ASSUME RemoteAssumption ==
  \A code \in StateCode : code * 32 + NoDirection \in BleValue

CalmCap == 24      \* bound: the histories count no further
DangerCap == 7
LostCap == 9

ModeOf(code) == IF code = Autonomous THEN "autonomous" ELSE "manual"

RoverInit ==
  /\ Init
  /\ screen = Rest /\ patience = 0 /\ lastMessage = Rest
  /\ linked = TRUE /\ writing = <<>> /\ feedback = <<>>
  /\ frames = 0 /\ heard = FALSE /\ motor = Stop
  /\ due \in [control : 1 .. Period.control, send : {1}, tick : 1 .. Period.tick,
              task : {Period.task}]
  /\ wanted = "any" /\ calm = 0 /\ danger = 0 /\ lost = 0

-----------------------------------------------------------------------------
(* What the histories see of a step: whether a button was pressed, which   *)
(* mode it asks for, and whether time passed.  The surroundings disturb    *)
(* the agreement of remote and car when they make the car change its mode. *)

Disturbed == Zone # "clear" \/ RoadCritical \/ mode \in {"obstAvoiding", "emergencyStop"}

(* The screen shows the mode that was requested and that the car is in.    *)
(* Only a click in such a moment is known to prevail, and only when the    *)
(* task has not run in the same unit: five feedbacks are 200 ms, no longer *)
(* than the task may take to come back.                                    *)
Agreed ==
  LET shown == ModeOf(screen)
  IN  /\ mode = shown /\ requestedMode = shown
      /\ due.task < Period.task
      /\ \A i \in 1 .. Len(feedback) : feedback[i] = shown

Count(n, cap, elapsed) == IF elapsed /\ n < cap THEN n + 1 ELSE n

Watch(pressed, asked, elapsed) ==
  /\ wanted' = IF Disturbed' THEN "any" ELSE asked
  /\ calm' = IF pressed \/ Disturbed' \/ ~running' THEN 0 ELSE Count(calm, CalmCap, elapsed)
  /\ danger' = IF Zone' # "critical" THEN 0 ELSE Count(danger, DangerCap, elapsed)
  /\ lost' = IF running' THEN 0 ELSE Count(lost, LostCap, elapsed)

Unseen == Watch(FALSE, wanted, FALSE)

-----------------------------------------------------------------------------
(* The remote.                                                             *)

Press(code) ==
  /\ linked
  /\ screen' = code
  /\ UNCHANGED <<vars, lastMessage, radio, node, due>>

(* Mutant: the click does not ask for patience.                            *)
AutoClickImpatient ==
  LET code == IF screen = Autonomous THEN Rest ELSE Autonomous
  IN  /\ Press(code)
      /\ UNCHANGED patience
      /\ Watch(TRUE, IF Agreed THEN ModeOf(code) ELSE "any", FALSE)

AutoClick ==
  LET code == IF screen = Autonomous THEN Rest ELSE Autonomous
  IN  /\ Press(code)
      /\ patience' = Patience
      /\ Watch(TRUE, IF Agreed THEN ModeOf(code) ELSE "any", FALSE)

(* Start and stop, and the joystick pushed or let go.                      *)
StartClick ==
  /\ screen # Autonomous
  /\ Press(IF screen = Rest THEN Started ELSE Rest)
  /\ UNCHANGED patience
  /\ Watch(TRUE, wanted, FALSE)

OnMove ==
  /\ screen \in {Started, Driving}
  /\ Press(IF screen = Started THEN Driving ELSE Started)
  /\ UNCHANGED patience
  /\ Watch(TRUE, wanted, FALSE)

(* changeMode, run for a feedback.                                         *)
ChangeMode ==
  /\ feedback # <<>>
  /\ feedback' = Tail(feedback)
  /\ \/ /\ Head(feedback) # ModeOf(screen) /\ patience = 0
        /\ screen' = IF screen = Autonomous THEN Rest ELSE Autonomous
        /\ UNCHANGED patience
     \/ /\ Head(feedback) # ModeOf(screen) /\ patience > 0
        /\ patience' = patience - 1
        /\ UNCHANGED screen
     \/ /\ Head(feedback) = ModeOf(screen)
        /\ patience' = 0
        /\ UNCHANGED screen
  /\ UNCHANGED <<vars, lastMessage, linked, writing, node, due>>
  /\ Unseen

TaskRuns ==
  /\ linked
  /\ Expired("task") /\ Rearm("task")
  /\ \/ screen # lastMessage /\ lastMessage' = screen /\ writing' = Append(writing, screen)
     \/ screen = lastMessage /\ UNCHANGED <<lastMessage, writing>>
  /\ UNCHANGED <<vars, screen, patience, linked, feedback, node>>
  /\ Unseen

-----------------------------------------------------------------------------
(* The Raspberry Pi.                                                       *)

Control ==
  /\ Expired("control") /\ Rearm("control")
  /\ SystemControl
  /\ UNCHANGED <<remote, radio, node>>
  /\ Unseen

(* A command frame, and what the loop of the STM32 makes of it.            *)
Command ==
  /\ Expired("send") /\ Rearm("send")
  /\ CanOnTimeToSend
  /\ heard' = TRUE
  /\ motor' = IF sent'.id = "SpeedCmd" THEN sent'.data ELSE motor
  /\ UNCHANGED <<remote, radio, frames>>
  /\ Unseen

Camera ==
  /\ \E img \in Image : CameraProcess(img)
  /\ UNCHANGED <<remote, radio, node, due>>
  /\ Unseen

(* Mutant: a feedback for the frame and one for what it changed.           *)
ReadFrameTwice ==
  /\ \/ frames = 2 /\ \E echo \in Echo : CanOnUltrasound(echo)
     \/ frames = 1 /\ \E f \in TelemetryFrame : CanOnTelemetry(f)
  /\ frames' = frames - 1
  /\ feedback' = feedback \o <<notified'.mode, notified'.mode>>
  /\ UNCHANGED <<remote, linked, writing, heard, motor, due>>
  /\ Unseen

(* An ultrasound frame and one of telemetry, each answered by a feedback.  *)
ReadFrame ==
  /\ \/ frames = 2 /\ \E echo \in Echo : CanOnUltrasound(echo)
     \/ frames = 1 /\ \E f \in TelemetryFrame : CanOnTelemetry(f)
  /\ frames' = frames - 1
  /\ feedback' = Append(feedback, notified'.mode)
  /\ UNCHANGED <<remote, linked, writing, heard, motor, due>>
  /\ Unseen

ReadByte ==
  /\ writing # <<>>
  /\ BleOnDataReceived(Head(writing) * 32 + NoDirection)
  /\ writing' = Tail(writing)
  /\ UNCHANGED <<remote, linked, feedback, node, due>>
  /\ Unseen

(* A signal or an error ends the process and with it the connection, or    *)
(* the end of the connection ends the process; the remote resets itself.   *)
Part ==
  /\ Quit
  /\ linked' = FALSE /\ writing' = <<>> /\ feedback' = <<>>
  /\ screen' = Rest /\ patience' = 0 /\ lastMessage' = Rest
  /\ frames' = 0
  /\ UNCHANGED <<heard, motor, due>>
  /\ Unseen

-----------------------------------------------------------------------------
(* The STM32: canPeriodic with its watchdog.                               *)

(* Mutant: the counter is not reset.                                       *)
TickWithoutReset ==
  /\ Expired("tick") /\ Rearm("tick")
  /\ frames' = IF running THEN 2 ELSE 0
  /\ motor' = IF heard THEN motor ELSE Stop
  /\ UNCHANGED <<vars, remote, radio, heard>>
  /\ Unseen

Tick ==
  /\ Expired("tick") /\ Rearm("tick")
  /\ frames' = IF running THEN 2 ELSE 0
  /\ motor' = IF heard THEN motor ELSE Stop
  /\ heard' = FALSE
  /\ UNCHANGED <<vars, remote, radio>>
  /\ Unseen

(* A unit of time passes.  Timers of a process that has ended, and the     *)
(* task of a remote that has cancelled it, expire unheeded.                *)
Elapse ==
  /\ running => ~Expired("control") /\ ~Expired("send")
  /\ linked => ~Expired("task")
  /\ ~Expired("tick")
  /\ frames = 0 /\ writing = <<>> /\ feedback = <<>>
  /\ due' = [timer \in DOMAIN due |-> IF due[timer] > 0 THEN due[timer] - 1 ELSE 0]
  /\ UNCHANGED <<vars, remote, radio, node>>
  /\ Watch(FALSE, wanted, TRUE)

-----------------------------------------------------------------------------
Operate == AutoClick \/ StartClick \/ OnMove \/ ChangeMode \/ TaskRuns

Decide == Control \/ Command \/ Camera \/ ReadFrame \/ ReadByte \/ Part

RoverNext == Operate \/ Decide \/ Tick \/ Elapse

RoverSpec == RoverInit /\ [][RoverNext]_roverVars

-----------------------------------------------------------------------------
(* Properties.                                                             *)

(* Every variable of the composition keeps its type, and nothing piles up  *)
(* on the links.                                                           *)
RoverTypeOK ==
  /\ TypeOK
  /\ screen \in StateCode /\ patience \in 0 .. Patience /\ lastMessage \in StateCode
  /\ linked \in BOOLEAN /\ linked = running
  /\ writing \in Seq(StateCode) /\ Len(writing) <= 1
  /\ feedback \in Seq({"manual", "autonomous"}) /\ Len(feedback) <= 2
  /\ frames \in 0 .. 2 /\ heard \in BOOLEAN /\ motor \in {Stop, Normal, Turbo}
  /\ due \in [control : 0 .. Period.control, send : 0 .. Period.send,
              tick : 0 .. Period.tick, task : 0 .. Period.task]
  /\ wanted \in {"any", "manual", "autonomous"}
  /\ calm \in 0 .. CalmCap /\ danger \in 0 .. DangerCap /\ lost \in 0 .. LostCap

(* An obstacle critically near has stopped the motors 175 ms after the     *)
(* Raspberry Pi heard of it: two control ticks and the next speed frame,   *)
(* for a direction frame alone leaves the last speed in force.             *)
DangerStopsInTime == danger = DangerCap /\ running => motor = Stop

(* However the connection or the process ends, and whatever the car was    *)
(* doing, 225 ms later the motors stand for good.                          *)
LostLinkStopsInTime == lost = LostCap => motor = Stop

(* What the car does for each state code.                                  *)
SpeedOf(code) == IF code \in {Driving, Autonomous} THEN Normal ELSE Stop

(* 600 ms after the last click or disturbance the car does what the screen *)
(* says, in the mode the last click asked for: the feedback that was on    *)
(* its way, and the modes it makes the remote adopt for a moment, have not *)
(* turned the click round.                                                 *)
ClickPrevails ==
  calm = CalmCap =>
    /\ mode = ModeOf(screen)
    /\ motor = SpeedOf(screen)
    /\ wanted \in {"any", ModeOf(screen)}

(* Remote, links and car all in a manual mode.                             *)
SettledInManual ==
  /\ mode \in {"manual", "obstAvoiding"} /\ requestedMode = "manual"
  /\ screen # Autonomous
  /\ \A i \in 1 .. Len(writing) : writing[i] # Autonomous
  /\ \A i \in 1 .. Len(feedback) : feedback[i] # "autonomous"

(* From there only a click on the mode button, the lane assist on a road   *)
(* edge and an emergency stop lead to the autonomous mode, and to nothing  *)
(* that would lead there later.                                            *)
ManualIsStable ==
  [][SettledInManual /\ ~SettledInManual' =>
       \/ AutoClick
       \/ Control /\ (RoadCritical \/ mode' = "emergencyStop")]_roverVars

=============================================================================
