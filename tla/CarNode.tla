------------------------------- MODULE CarNode -------------------------------
(***************************************************************************)
(* The STM32 node (STM32/Project_Car-master/app/main.c and the receive     *)
(* path of CAN/src/CAN.c).  The main loop shares CAN_RxMsg, CAN_RxRdy,     *)
(* nb_rcv, SpeedRx and DirRx with two interrupts, without masking them:    *)
(*                                                                         *)
(*   CanRxIrq               copies one frame of FIFO 0 into CAN_RxMsg      *)
(*   TimerStart, TimerEnd   canPeriodic, every 100 ms: telemetry and the   *)
(*                          watchdog that stops a car without commands     *)
(*                                                                         *)
(* Both interrupts have the same priority: neither preempts the other, and *)
(* the main loop runs only when no interrupt is pending.  The steps of the *)
(* main loop are the accesses to shared variables an interrupt may come    *)
(* between.  Frames arrive in the FIFO at any time, as long as the         *)
(* Raspberry Pi is alive.                                                  *)
(***************************************************************************)
EXTENDS Naturals, Sequences

CONSTANTS
  SpeedValue,      \* data of a CAN_ID_CMD_SPEED frame
  DirValue,        \* data of a CAN_ID_CMD_DIR frame
  FifoDepth,       \* frames a receive FIFO of the CAN controller holds
  MaxPerPeriod     \* bound: frames that arrive between two timer ticks

ASSUME CommandAssumption == SpeedValue \subseteq 0 .. 255 /\ DirValue \subseteq 0 .. 255
ASSUME BoundAssumption == FifoDepth \in Nat \ {0} /\ MaxPerPeriod \in Nat

VARIABLES
  alive,           \* the Raspberry Pi still sends
  fifo,            \* receive FIFO 0
  rxMsg,           \* CAN_RxMsg
  rxRdy,           \* CAN_RxRdy
  inTimer,         \* canPeriodic is running
  pc,              \* next step of the main loop
  tmp,             \* register holding nb_rcv during nb_rcv++
  nbRcv,           \* nb_rcv
  speedRx,         \* SpeedRx[0]
  dirRx,           \* DirRx[0]
  local,           \* the command main has read and not yet carried out
  motor,           \* speed command of the two rear motors
  steering,        \* direction the last pass regulated to, or NoTarget
  periodicModulo,  \* periodic_modulo
  tx,              \* ids of the frames the last tick sent
  arrivals,        \* frames since the last tick                     (bound)
  passes,          \* passes of the main loop since the last tick    (bound)
  silent,          \* history: ticks in a row that no frame came before
  speedOrder,      \* history: the speed that should be in force once read
  dirOrder         \* history: the direction, likewise

bus == <<alive, fifo, arrivals>>
rx == <<rxMsg, rxRdy>>
commands == <<speedRx, dirRx>>
outputs == <<motor, steering>>
timer == <<inTimer, periodicModulo, tx, silent>>
orders == <<speedOrder, dirOrder>>
vars == <<bus, rx, commands, outputs, timer, orders, pc, tmp, nbRcv, local, passes>>

-----------------------------------------------------------------------------
Frame == [id : {"SpeedCmd"}, data : SpeedValue]
           \cup [id : {"DirectionCmd"}, data : DirValue]

NoMsg == [id |-> "none", data |-> 0]     \* the zeros CAN_RxMsg starts with
NoTarget == 255
Overtaken == 256     \* no byte: the order was overwritten before it was read
TickPasses == 2     \* bound: passes of the loop that fit between two ticks
SilentCap == 3      \* bound: the history counts no further
CountCap == 2       \* bound: nb_rcv, of which only zero is told apart

Init ==
  /\ alive = TRUE /\ fifo = <<>> /\ arrivals = 0
  /\ rxMsg = NoMsg /\ rxRdy = FALSE
  /\ speedRx = 0 /\ dirRx = 0
  /\ motor = 0 /\ steering = NoTarget
  /\ inTimer = FALSE /\ periodicModulo = 0 /\ tx = {} /\ silent = 0
  /\ pc = "poll" /\ tmp = 0 /\ nbRcv = 0 /\ local = 0 /\ passes = 0
  /\ speedOrder = 0 /\ dirOrder = 0

-----------------------------------------------------------------------------
(* History.  The newest frame of a kind is the order, or a zero of the     *)
(* watchdog that came after it.  CAN_RxMsg holds one message: a frame of   *)
(* the other kind that comes in before the loop has copied the order makes *)
(* it Overtaken.                                                           *)

(* The loop still has to copy the order, or is about to.                   *)
SpeedUnread ==
  \/ rxMsg.id = "SpeedCmd" /\ (rxRdy \/ pc = "testSpeed")
  \/ pc = "copySpeed"

DirUnread ==
  \/ rxMsg.id = "DirectionCmd" /\ (rxRdy \/ pc \in {"testSpeed", "copySpeed", "testDir"})
  \/ pc = "copyDir"

Supersede(f) ==
  /\ speedOrder' = IF f.id = "SpeedCmd" THEN f.data
                   ELSE IF SpeedUnread THEN Overtaken ELSE speedOrder
  /\ dirOrder' = IF f.id = "DirectionCmd" THEN f.data
                 ELSE IF DirUnread THEN Overtaken ELSE dirOrder

Withdraw ==
  /\ speedOrder' = IF SpeedUnread THEN speedOrder ELSE 0
  /\ dirOrder' = IF DirUnread THEN dirOrder ELSE 0

-----------------------------------------------------------------------------
(* The CAN bus and controller.                                             *)

(* RFLM is 0: a frame that meets a full FIFO overwrites the newest one.    *)
Store(f) ==
  IF Len(fifo) < FifoDepth THEN Append(fifo, f) ELSE [fifo EXCEPT ![FifoDepth] = f]

Arrive(f) ==
  /\ alive
  /\ arrivals < MaxPerPeriod
  /\ fifo' = Store(f)
  /\ arrivals' = arrivals + 1
  /\ UNCHANGED <<alive, rx, commands, outputs, timer, orders, pc, tmp, nbRcv, local,
                 passes>>

PiDies ==
  /\ alive
  /\ alive' = FALSE
  /\ UNCHANGED <<fifo, arrivals, rx, commands, outputs, timer, orders, pc, tmp,
                 nbRcv, local, passes>>

(* CAN_rdMsg reads the oldest frame and releases it.                       *)
CanRxIrq ==
  /\ ~inTimer
  /\ fifo # <<>>
  /\ rxMsg' = Head(fifo)
  /\ fifo' = Tail(fifo)
  /\ rxRdy' = TRUE
  /\ Supersede(Head(fifo))
  /\ UNCHANGED <<alive, arrivals, commands, outputs, timer, pc, tmp, nbRcv, local,
                 passes>>

-----------------------------------------------------------------------------
(* canPeriodic.  It reads no shared variable before the watchdog at its    *)
(* end, so its start only holds back the other interrupt and the loop.     *)

TimerStart ==
  /\ ~inTimer
  /\ passes = TickPasses
  /\ inTimer' = TRUE
  /\ UNCHANGED <<bus, rx, commands, outputs, periodicModulo, tx, silent, orders, pc,
                 tmp, nbRcv, local, passes>>

Telemetry == <<"DirectionData", "SpeedData", "BatteryData">>

(* Mutant: the direction is not reset.                                     *)
WatchdogForSpeedOnly ==
  /\ speedRx' = IF nbRcv = 0 THEN 0 ELSE speedRx
  /\ dirRx' = dirRx
  /\ nbRcv' = 0

(* Mutant: the counter is not reset, so one frame keeps the car going.     *)
WatchdogWithoutReset ==
  /\ \/ nbRcv = 0 /\ speedRx' = 0 /\ dirRx' = 0
     \/ nbRcv # 0 /\ UNCHANGED commands
  /\ UNCHANGED nbRcv

Watchdog ==
  /\ \/ nbRcv = 0 /\ speedRx' = 0 /\ dirRx' = 0
     \/ nbRcv # 0 /\ UNCHANGED commands
  /\ nbRcv' = 0

TimerEnd ==
  /\ inTimer
  /\ inTimer' = FALSE
  /\ tx' = {"UltrasoundData", Telemetry[periodicModulo + 1]}
  /\ periodicModulo' = (periodicModulo + 1) % 3
  /\ Watchdog
  /\ IF nbRcv = 0 THEN Withdraw ELSE UNCHANGED orders
  /\ silent' = IF arrivals > 0 THEN 0
               ELSE IF silent < SilentCap THEN silent + 1 ELSE silent
  /\ arrivals' = 0
  /\ passes' = 0
  /\ UNCHANGED <<alive, fifo, rx, outputs, pc, tmp, local>>

-----------------------------------------------------------------------------
(* The main loop.                                                          *)

(* No interrupt is running or pending.                                     *)
Undisturbed == ~inTimer /\ fifo = <<>>

Goto(here, there) ==
  /\ Undisturbed
  /\ pc = here
  /\ pc' = there
  /\ UNCHANGED <<bus, timer, orders>>

Poll ==
  /\ Goto("poll", IF rxRdy THEN "count" ELSE "readSpeed")
  /\ UNCHANGED <<rx, commands, outputs, tmp, nbRcv, local, passes>>

(* nb_rcv++ loads, then stores: a tick in between loses its reset.         *)
LoadCount ==
  /\ Goto("count", "store")
  /\ tmp' = nbRcv
  /\ UNCHANGED <<rx, commands, outputs, nbRcv, local, passes>>

StoreCount ==
  /\ Goto("store", "clear")
  /\ nbRcv' = IF tmp < CountCap THEN tmp + 1 ELSE CountCap
  /\ tmp' = 0
  /\ UNCHANGED <<rx, commands, outputs, local, passes>>

ClearRdy ==
  /\ Goto("clear", "testSpeed")
  /\ rxRdy' = FALSE
  /\ UNCHANGED <<rxMsg, commands, outputs, tmp, nbRcv, local, passes>>

(* Mutants: the flag is cleared after the message was looked at, with the  *)
(* last test or at the end of the block.                                   *)
TestDirThenClear ==
  /\ Goto("testDir", IF rxMsg.id = "DirectionCmd" THEN "copyDir" ELSE "readSpeed")
  /\ rxRdy' = FALSE
  /\ UNCHANGED <<rxMsg, commands, outputs, tmp, nbRcv, local, passes>>

ReadSpeedThenClear ==
  /\ Goto("readSpeed", "drive")
  /\ local' = speedRx
  /\ rxRdy' = FALSE
  /\ UNCHANGED <<rxMsg, commands, outputs, tmp, nbRcv, passes>>

(* Mutant: a command of zero is not carried out.                           *)
DriveOnlyForward ==
  /\ Goto("drive", "readDir")
  /\ \/ local \in 1 .. 2 /\ motor' = local
     \/ local \notin 1 .. 2 /\ UNCHANGED motor
     \/ local # speedRx /\ UNCHANGED motor
  /\ local' = 0
  /\ UNCHANGED <<rx, commands, steering, tmp, nbRcv, passes>>

(* Mutant: any code is taken for one of the five positions.                *)
SteerAnywhere ==
  /\ Goto("steer", "poll")
  /\ steering' = local
  /\ local' = 0
  /\ passes' = IF passes < TickPasses THEN passes + 1 ELSE passes
  /\ UNCHANGED <<rx, commands, motor, tmp, nbRcv>>

TestSpeed ==
  /\ Goto("testSpeed", IF rxMsg.id = "SpeedCmd" THEN "copySpeed" ELSE "testDir")
  /\ UNCHANGED <<rx, commands, outputs, tmp, nbRcv, local, passes>>

CopySpeed ==
  /\ Goto("copySpeed", "testDir")
  /\ speedRx' = rxMsg.data
  /\ UNCHANGED <<rx, dirRx, outputs, tmp, nbRcv, local, passes>>

TestDir ==
  /\ Goto("testDir", IF rxMsg.id = "DirectionCmd" THEN "copyDir" ELSE "readSpeed")
  /\ UNCHANGED <<rx, commands, outputs, tmp, nbRcv, local, passes>>

CopyDir ==
  /\ Goto("copyDir", "readSpeed")
  /\ dirRx' = rxMsg.data
  /\ UNCHANGED <<rx, speedRx, outputs, tmp, nbRcv, local, passes>>

ReadSpeed ==
  /\ Goto("readSpeed", "drive")
  /\ local' = speedRx
  /\ UNCHANGED <<rx, commands, outputs, tmp, nbRcv, passes>>

(* The chain of tests reads SpeedRx up to three times: when the watchdog   *)
(* comes in between, no test may succeed and the motors keep their speed.  *)
Drive ==
  /\ Goto("drive", "readDir")
  /\ \/ local \in 0 .. 2 /\ motor' = local
     \/ local \notin 0 .. 2 /\ UNCHANGED motor
     \/ local # speedRx /\ UNCHANGED motor
  /\ local' = 0
  /\ UNCHANGED <<rx, commands, steering, tmp, nbRcv, passes>>

ReadDir ==
  /\ Goto("readDir", "steer")
  /\ local' = dirRx
  /\ UNCHANGED <<rx, commands, outputs, tmp, nbRcv, passes>>

(* Turn regulates to one of five positions; any other code leaves the      *)
(* front motor to its last order.                                          *)
Steer ==
  /\ Goto("steer", "poll")
  /\ \/ local \in 0 .. 4 /\ steering' = local
     \/ local \notin 0 .. 4 /\ steering' = NoTarget
     \/ local # dirRx /\ steering' = NoTarget
  /\ local' = 0
  /\ passes' = IF passes < TickPasses THEN passes + 1 ELSE passes
  /\ UNCHANGED <<rx, commands, motor, tmp, nbRcv>>

MainLoop ==
  \/ Poll \/ LoadCount \/ StoreCount \/ ClearRdy
  \/ TestSpeed \/ CopySpeed \/ TestDir \/ CopyDir
  \/ ReadSpeed \/ Drive \/ ReadDir \/ Steer

-----------------------------------------------------------------------------
Next ==
  \/ \E f \in Frame : Arrive(f)
  \/ PiDies
  \/ CanRxIrq
  \/ TimerStart
  \/ TimerEnd
  \/ MainLoop

(* The processor serves its interrupts and otherwise runs the loop.        *)
Fairness ==
  /\ WF_vars(CanRxIrq)
  /\ WF_vars(TimerStart)
  /\ WF_vars(TimerEnd)
  /\ WF_vars(MainLoop)

Spec == Init /\ [][Next]_vars

FairSpec == Spec /\ Fairness

-----------------------------------------------------------------------------
(* Properties.                                                             *)

(* Every variable keeps its type and its bound.                            *)
TypeOK ==
  /\ alive \in BOOLEAN /\ inTimer \in BOOLEAN /\ rxRdy \in BOOLEAN
  /\ fifo \in Seq(Frame) /\ Len(fifo) <= FifoDepth
  /\ arrivals \in 0 .. MaxPerPeriod
  /\ rxMsg \in Frame \cup {NoMsg}
  /\ pc \in {"poll", "count", "store", "clear", "testSpeed", "copySpeed",
             "testDir", "copyDir", "readSpeed", "drive", "readDir", "steer"}
  /\ tmp \in 0 .. CountCap /\ nbRcv \in 0 .. CountCap
  /\ speedRx \in 0 .. 255 /\ dirRx \in 0 .. 255 /\ local \in 0 .. 255
  /\ motor \in 0 .. 2
  /\ steering \in 0 .. 4 \cup {NoTarget}
  /\ periodicModulo \in 0 .. 2
  /\ tx \subseteq {"UltrasoundData", "DirectionData", "SpeedData", "BatteryData"}
  /\ passes \in 0 .. TickPasses
  /\ silent \in 0 .. SilentCap
  /\ speedOrder \in 0 .. Overtaken /\ dirOrder \in 0 .. Overtaken

(* Two ticks without a frame zero both commands: the race on nb_rcv costs  *)
(* the watchdog one period at most, and no older frame undoes the stop.    *)
SilenceZeroesCommands ==
  silent >= 2 /\ arrivals = 0 => speedRx = 0 /\ dirRx = 0

(* Three ticks without a frame stand the motors still and regulate the     *)
(* wheels to the middle, whatever the loop was doing when the bus fell     *)
(* silent.                                                                 *)
SilenceStopsTheCar ==
  silent = SilentCap /\ arrivals = 0 => motor = 0 /\ steering = 0

(* Once the loop has copied what it had to, the newest speed frame is in   *)
(* force, or the zero of a watchdog that came after it: neither a frame    *)
(* that comes in while the loop copies its predecessor nor a direction     *)
(* frame that follows costs the car its speed command for good.  The one   *)
(* exception is an order that the next frame overwrote in CAN_RxMsg before *)
(* it was copied.                                                          *)
NewestSpeedApplied ==
  ~SpeedUnread => speedOrder \in {speedRx, Overtaken}

(* The same of the direction, which the loop tests for last.               *)
NewestDirectionApplied ==
  ~DirUnread => dirOrder \in {dirRx, Overtaken}

(* The node implements the dead man's switch: every step of its interrupts *)
(* and of its loop is a step of Deadman, or none.                          *)
Switch == INSTANCE Deadman
            WITH Limit <- SilentCap, heard <- arrivals > 0, silence <- silent,
                 moving <- motor # 0

ImplementsDeadman == Switch!Spec

(* Under FairSpec: a Raspberry Pi that dies leaves a car that stops for    *)
(* good.                                                                   *)
DeadPiStopsTheCar ==
  ~alive ~> [](motor = 0)

(* What the code says about itself and does not do.                        *)

(* main.c:46, "Take the value of the speed received on the CAN": SpeedRx   *)
(* holds the data of a speed frame.                                        *)
SpeedIsFromASpeedFrame ==
  speedRx \in SpeedValue \cup {0}

=============================================================================
