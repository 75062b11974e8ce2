---------------------------- MODULE CarNodeProofs ----------------------------
(***************************************************************************)
(* The safety properties of CarNode, for any commands, FIFO depth and      *)
(* number of arrivals.  The inductive invariant follows a silent bus from  *)
(* one tick to the next: the passes of the loop between two ticks drain    *)
(* what had arrived (Drained), so that after one silent tick nothing is    *)
(* left to count (Quiet), after two the commands are zero, and after three *)
(* the loop has carried them out (Standing).  Of each kind's newest order  *)
(* it knows that the message waiting to be copied holds it, until another  *)
(* one overtakes it (UnreadOrder).                                         *)
(***************************************************************************)
EXTENDS CarNode, SequenceTheorems, TLAPS

(* The steps at which the loop holds no message it has not dealt with.     *)
AfterMessage == {"poll", "readSpeed", "drive", "readDir", "steer"}

NothingPending == fifo = <<>> /\ ~rxRdy /\ pc \in AfterMessage

(* canPeriodic starts late enough for the loop to have made two passes.    *)
TimerAfterPasses == inTimer => passes = TickPasses

(* No frame came since the tick: the first pass to end finds the FIFO      *)
(* empty, the second one also deals with the last message.                 *)
Drained ==
  arrivals = 0 =>
    /\ passes >= 1 => fifo = <<>> /\ (rxRdy => pc \in {"poll", "count", "store", "clear"})
    /\ passes = TickPasses => NothingPending

Quiet ==
  arrivals = 0 =>
    /\ silent >= 1 => NothingPending /\ nbRcv = 0
    /\ silent >= 2 => speedRx = 0 /\ dirRx = 0

(* The pass the tick interrupted may still carry out an old command, the   *)
(* next one cannot.                                                        *)
ReadsZero == pc \in {"drive", "steer"} => local = 0

Standing ==
  arrivals = 0 =>
    /\ silent >= 2 /\ passes >= 1 =>
         ReadsZero /\ (pc \in {"readDir", "steer"} => motor = 0)
    /\ silent >= 2 /\ passes = TickPasses => motor = 0 /\ steering = 0
    /\ silent = SilentCap => ReadsZero /\ motor = 0 /\ steering = 0

(* Between the flag's reset and the end of the copies the message is being *)
(* looked at; before the reset the flag is up.                             *)
FlagUp == pc \in {"count", "store", "clear"} => rxRdy

(* What the loop will copy is the order; a copy that was interrupted       *)
(* copies something else only when the order has been overtaken.           *)
UnreadOrder ==
  /\ SpeedUnread /\ rxMsg.id = "SpeedCmd" => speedOrder = rxMsg.data
  /\ DirUnread /\ rxMsg.id = "DirectionCmd" => dirOrder = rxMsg.data
  /\ pc = "copySpeed" => rxMsg.id = "SpeedCmd" \/ speedOrder = Overtaken
  /\ pc = "copyDir" => rxMsg.id = "DirectionCmd" \/ dirOrder = Overtaken

IInv ==
  /\ TypeOK
  /\ TimerAfterPasses
  /\ Drained
  /\ Quiet
  /\ Standing
  /\ FlagUp
  /\ UnreadOrder
  /\ NewestSpeedApplied
  /\ NewestDirectionApplied

-----------------------------------------------------------------------------
(* The FIFO stays a sequence of at most FifoDepth frames.                  *)
LEMMA StoreType ==
  ASSUME fifo \in Seq(Frame), Len(fifo) <= FifoDepth, NEW f \in Frame
  PROVE  Store(f) \in Seq(Frame) /\ Len(Store(f)) <= FifoDepth
<1>0. FifoDepth \in Nat \ {0} /\ Len(fifo) \in Nat
  BY BoundAssumption
<1>1. CASE Len(fifo) < FifoDepth
  BY <1>0, <1>1, AppendProperties DEF Store
<1>2. CASE ~(Len(fifo) < FifoDepth)
  <2>1. FifoDepth \in 1 .. Len(fifo)
    BY <1>0, <1>2
  <2>2. [fifo EXCEPT ![FifoDepth] = f] \in Seq(Frame)
        /\ Len([fifo EXCEPT ![FifoDepth] = f]) = Len(fifo)
    BY <2>1, ExceptSeq
  <2> QED
    BY <1>2, <2>2 DEF Store
<1> QED
  BY <1>1, <1>2

(* The released frame is a frame, and what is left still fits the FIFO.    *)
LEMMA ReleaseType ==
  ASSUME fifo \in Seq(Frame), Len(fifo) <= FifoDepth, fifo # <<>>
  PROVE  /\ Head(fifo) \in Frame
         /\ Tail(fifo) \in Seq(Frame)
         /\ Len(Tail(fifo)) <= FifoDepth
BY HeadTailProperties, BoundAssumption

(* The data of a frame is a byte.                                          *)
LEMMA FrameData ==
  ASSUME NEW f \in Frame
  PROVE  f.data \in 0 .. 255
<1>1. CASE f \in [id : {"SpeedCmd"}, data : SpeedValue]
  BY <1>1, CommandAssumption
<1>2. CASE f \in [id : {"DirectionCmd"}, data : DirValue]
  BY <1>2, CommandAssumption
<1> QED
  BY <1>1, <1>2 DEF Frame

(* So is the data of the message.                                          *)
LEMMA MessageData ==
  ASSUME TypeOK
  PROVE  rxMsg.data \in 0 .. 255
BY FrameData DEF TypeOK, NoMsg

-----------------------------------------------------------------------------
(* Types.                                                                  *)

(* The bus and the interrupts keep the types.                              *)
LEMMA InterruptType ==
  ASSUME TypeOK,
         \/ \E f \in Frame : Arrive(f)
         \/ PiDies \/ CanRxIrq \/ TimerStart \/ TimerEnd
  PROVE  TypeOK'
<1> USE DEF bus, rx, commands, outputs, timer, orders
<1>1. ASSUME NEW f \in Frame, Arrive(f) PROVE TypeOK'
  BY <1>1, StoreType, BoundAssumption DEF TypeOK, Arrive
<1>2. CASE PiDies
  BY <1>2 DEF TypeOK, PiDies
<1>3. CASE CanRxIrq
  <2>1. Head(fifo) \in Frame /\ Tail(fifo) \in Seq(Frame) /\ Len(Tail(fifo)) <= FifoDepth
    BY <1>3, ReleaseType DEF TypeOK, CanRxIrq
  <2>2. speedOrder' \in 0 .. Overtaken /\ dirOrder' \in 0 .. Overtaken
    <3>1. Head(fifo).data \in 0 .. 255 /\ Supersede(Head(fifo))
      BY <1>3, <2>1, FrameData DEF CanRxIrq
    <3>2. /\ speedOrder' \in {Head(fifo).data, Overtaken, speedOrder}
          /\ dirOrder' \in {Head(fifo).data, Overtaken, dirOrder}
      BY <3>1 DEF Supersede
    <3>3. speedOrder \in 0 .. Overtaken /\ dirOrder \in 0 .. Overtaken
      BY DEF TypeOK
    <3> QED
      BY <3>1, <3>2, <3>3 DEF Overtaken
  <2> QED
    BY <1>3, <2>1, <2>2 DEF TypeOK, CanRxIrq
<1>4. CASE TimerStart
  BY <1>4 DEF TypeOK, TimerStart
<1>5. CASE TimerEnd
  <2>1. Telemetry[periodicModulo + 1] \in {"DirectionData", "SpeedData", "BatteryData"}
        /\ periodicModulo' \in 0 .. 2
    <3>1. periodicModulo \in {0, 1, 2}
      BY DEF TypeOK
    <3>2. periodicModulo' = (periodicModulo + 1) % 3
      BY <1>5 DEF TimerEnd
    <3>3. \A i \in {1, 2, 3} :
            Telemetry[i] \in {"DirectionData", "SpeedData", "BatteryData"}
      BY DEF Telemetry
    <3>4. periodicModulo + 1 \in {1, 2, 3}
      BY <3>1
    <3>5. periodicModulo' \in 0 .. 2
      BY <3>1, <3>2
    <3> QED
      BY <3>3, <3>4, <3>5
  <2>2. speedRx' \in 0 .. 255 /\ dirRx' \in 0 .. 255 /\ nbRcv' \in 0 .. CountCap
    <3>1. speedRx' \in {speedRx, 0} /\ dirRx' \in {dirRx, 0} /\ nbRcv' = 0
      BY <1>5 DEF TimerEnd, Watchdog
    <3> QED
      BY <3>1 DEF TypeOK, CountCap
  <2>3. silent' \in 0 .. SilentCap
    BY <1>5 DEF TypeOK, TimerEnd, SilentCap
  <2>4. arrivals' \in 0 .. MaxPerPeriod /\ passes' \in 0 .. TickPasses
    BY <1>5, BoundAssumption DEF TimerEnd, TickPasses
  <2>5. speedOrder' \in 0 .. Overtaken /\ dirOrder' \in 0 .. Overtaken
    <3>1. speedOrder' \in {0, speedOrder} /\ dirOrder' \in {0, dirOrder}
      BY <1>5 DEF TimerEnd, Withdraw
    <3>2. speedOrder \in 0 .. Overtaken /\ dirOrder \in 0 .. Overtaken
      BY DEF TypeOK
    <3> QED
      BY <3>1, <3>2 DEF Overtaken
  <2> QED
    BY <1>5, <2>1, <2>2, <2>3, <2>4, <2>5 DEF TypeOK, TimerEnd
<1> QED
  BY <1>1, <1>2, <1>3, <1>4, <1>5

(* The steps of the main loop keep the types.                              *)
LEMMA MainLoopType ==
  ASSUME TypeOK, MainLoop
  PROVE  TypeOK'
<1> USE DEF bus, rx, commands, outputs, timer, orders, Goto
<1>1. CASE Poll
  BY <1>1 DEF TypeOK, Poll
<1>2. CASE LoadCount
  BY <1>2 DEF TypeOK, LoadCount
<1>3. CASE StoreCount
  BY <1>3 DEF TypeOK, StoreCount, CountCap
<1>4. CASE ClearRdy
  BY <1>4 DEF TypeOK, ClearRdy
<1>5. CASE TestSpeed
  BY <1>5 DEF TypeOK, TestSpeed
<1>6. CASE CopySpeed
  BY <1>6, MessageData DEF TypeOK, CopySpeed
<1>7. CASE TestDir
  BY <1>7 DEF TypeOK, TestDir
<1>8. CASE CopyDir
  BY <1>8, MessageData DEF TypeOK, CopyDir
<1>9. CASE ReadSpeed
  BY <1>9 DEF TypeOK, ReadSpeed
<1>10. CASE Drive
  BY <1>10 DEF TypeOK, Drive
<1>11. CASE ReadDir
  BY <1>11 DEF TypeOK, ReadDir
<1>12. CASE Steer
  BY <1>12 DEF TypeOK, Steer, TickPasses
<1> QED
  BY <1>1, <1>2, <1>3, <1>4, <1>5, <1>6, <1>7, <1>8, <1>9, <1>10, <1>11, <1>12
     DEF MainLoop

-----------------------------------------------------------------------------
(* The parts of the invariant that are not types.                          *)

(* A frame that arrives ends the silence the invariant speaks about.       *)
LEMMA ArriveInductive ==
  ASSUME IInv, NEW f \in Frame, Arrive(f)
  PROVE  /\ TimerAfterPasses' /\ Drained' /\ Quiet' /\ Standing' /\ FlagUp'
<1>1. arrivals' # 0
  BY DEF IInv, TypeOK, Arrive
<1> QED
  BY <1>1
     DEF IInv, Arrive, rx, commands, timer, TimerAfterPasses, Drained, Quiet,
         Standing, FlagUp

(* A message comes in only where the invariant allows one to be pending.   *)
LEMMA CanRxIrqInductive ==
  ASSUME IInv, CanRxIrq
  PROVE  /\ TimerAfterPasses' /\ Drained' /\ Quiet' /\ Standing' /\ FlagUp'
<1>1. rxRdy' /\ fifo # <<>>
  BY DEF CanRxIrq
<1>2. UNCHANGED <<arrivals, passes, silent, pc, inTimer>>
  BY DEF CanRxIrq, timer
<1>3. arrivals = 0 => passes = 0 /\ silent = 0
  BY <1>1 DEF IInv, TypeOK, Drained, Quiet, NothingPending, TickPasses, SilentCap
<1> QED
  BY <1>1, <1>2, <1>3
     DEF IInv, TimerAfterPasses, Drained, Quiet, Standing, FlagUp, TickPasses,
         SilentCap

(* canPeriodic starts after TickPasses passes and changes nothing else.    *)
LEMMA TimerStartInductive ==
  ASSUME IInv, TimerStart
  PROVE  /\ TimerAfterPasses' /\ Drained' /\ Quiet' /\ Standing' /\ FlagUp'
BY DEF IInv, TimerStart, bus, rx, commands, outputs, TimerAfterPasses, Drained,
       Quiet, Standing, FlagUp, NothingPending, ReadsZero

(* The tick: what the loop drained since the last one is what the watchdog *)
(* judges.                                                                 *)
LEMMA TimerEndInductive ==
  ASSUME IInv, TimerEnd
  PROVE  /\ TimerAfterPasses' /\ Drained' /\ Quiet' /\ Standing' /\ FlagUp'
<1>1. passes = TickPasses
  BY DEF IInv, TimerAfterPasses, TimerEnd
<1>2. /\ inTimer' = FALSE /\ arrivals' = 0 /\ passes' = 0 /\ nbRcv' = 0
      /\ UNCHANGED <<fifo, rxMsg, rxRdy, motor, steering, pc, local>>
  BY DEF TimerEnd, Watchdog, rx, outputs
<1>3. /\ speedRx' \in {speedRx, 0} /\ dirRx' \in {dirRx, 0}
      /\ nbRcv = 0 => speedRx' = 0 /\ dirRx' = 0
  BY DEF TimerEnd, Watchdog, commands
<1>4. silent' = IF arrivals > 0 THEN 0
                ELSE IF silent < SilentCap THEN silent + 1 ELSE silent
  BY DEF TimerEnd
<1>5. arrivals \in Nat /\ silent \in 0 .. SilentCap
  BY BoundAssumption DEF IInv, TypeOK
<1>6. silent' >= 1 => arrivals = 0
  BY <1>4, <1>5
<1>7. Quiet'
  <2>1. silent' >= 1 => NothingPending
    BY <1>1, <1>6 DEF IInv, Drained
  <2>2. silent' >= 2 => silent >= 1
    BY <1>4, <1>5 DEF SilentCap
  <2>3. silent' >= 2 => nbRcv = 0
    BY <1>4, <1>5, <1>6, <2>2 DEF IInv, Quiet, SilentCap
  <2> QED
    BY <1>2, <1>3, <2>1, <2>3 DEF Quiet, NothingPending
<1>8. Standing'
  <2>1. silent' = SilentCap => silent >= 2 /\ arrivals = 0
    BY <1>4, <1>5 DEF SilentCap
  <2>2. silent' = SilentCap => ReadsZero /\ motor = 0 /\ steering = 0
    BY <1>1, <2>1 DEF IInv, Standing, TickPasses
  <2> QED
    BY <1>2, <2>2 DEF Standing, ReadsZero, TickPasses
<1>9. TimerAfterPasses' /\ Drained' /\ FlagUp'
  BY <1>2 DEF IInv, TimerAfterPasses, Drained, FlagUp, TickPasses
<1> QED
  BY <1>7, <1>8, <1>9

-----------------------------------------------------------------------------
(* The main loop.  A step that looks at a message runs, on a silent bus,   *)
(* in the first pass only.                                                 *)

(* The steps between the poll and the last look at a message.              *)
LEMMA MessageStepsInductive ==
  ASSUME IInv, LoadCount \/ StoreCount \/ ClearRdy \/ TestSpeed \/ CopySpeed
  PROVE  /\ TimerAfterPasses' /\ Drained' /\ Quiet' /\ Standing' /\ FlagUp'
<1> USE DEF Goto, bus, rx, timer, commands, outputs
<1>1. pc \notin AfterMessage /\ pc' \notin {"readDir", "steer", "drive"}
  BY DEF LoadCount, StoreCount, ClearRdy, TestSpeed, CopySpeed, AfterMessage
<1>2. arrivals = 0 => silent = 0 /\ passes # TickPasses
  BY <1>1 DEF IInv, TypeOK, Drained, Quiet, NothingPending, SilentCap
<1>3. UNCHANGED <<inTimer, arrivals, passes, silent, fifo>>
  BY DEF LoadCount, StoreCount, ClearRdy, TestSpeed, CopySpeed
<1>4. TimerAfterPasses' /\ Quiet' /\ Standing'
  BY <1>2, <1>3 DEF IInv, TimerAfterPasses, Quiet, Standing, SilentCap
<1>5. Drained'
  BY <1>2, <1>3
     DEF IInv, Drained, LoadCount, StoreCount, ClearRdy, TestSpeed, CopySpeed
<1>6. FlagUp'
  BY DEF IInv, FlagUp, LoadCount, StoreCount, ClearRdy, TestSpeed, CopySpeed
<1> QED
  BY <1>4, <1>5, <1>6

(* The last look at a message: what follows finds it dealt with, or the    *)
(* flag up again.                                                          *)
LEMMA LastLookInductive ==
  ASSUME IInv, Poll \/ TestDir \/ CopyDir
  PROVE  /\ TimerAfterPasses' /\ Drained' /\ Quiet' /\ Standing' /\ FlagUp'
<1> USE DEF Goto, bus, rx, timer, commands, outputs
<1>1. UNCHANGED <<inTimer, arrivals, passes, silent, fifo, rxMsg, rxRdy, nbRcv,
                  speedRx, motor, steering, local>>
  BY DEF Poll, TestDir, CopyDir
<1>2. /\ pc \in {"poll", "testDir", "copyDir"}
      /\ pc' \in {"count", "readSpeed", "copyDir"}
      /\ pc' = "count" => rxRdy
      /\ pc = "poll" => pc' \in {"count", "readSpeed"} /\ (pc' = "readSpeed" => ~rxRdy)
  BY DEF Poll, TestDir, CopyDir
<1>3. arrivals = 0 /\ passes = TickPasses => pc' = "readSpeed"
  BY <1>2 DEF IInv, Drained, NothingPending, AfterMessage
<1>4. arrivals = 0 /\ silent >= 1 => pc = "poll" /\ pc' = "readSpeed" /\ UNCHANGED dirRx
  BY <1>2 DEF IInv, Quiet, NothingPending, AfterMessage, Poll, TestDir, CopyDir
<1>5. TimerAfterPasses' /\ FlagUp'
  BY <1>1, <1>2 DEF IInv, TimerAfterPasses, FlagUp
<1>6. Drained'
  BY <1>1, <1>2, <1>3 DEF IInv, Drained, NothingPending, AfterMessage
<1>7. Quiet'
  BY <1>1, <1>4 DEF IInv, TypeOK, Quiet, NothingPending, AfterMessage, SilentCap
<1>8. Standing'
  BY <1>1, <1>2 DEF IInv, Standing, ReadsZero
<1> QED
  BY <1>5, <1>6, <1>7, <1>8

(* The steps that carry out the commands.                                  *)
LEMMA CommandStepsInductive ==
  ASSUME IInv, ReadSpeed \/ Drive \/ ReadDir \/ Steer
  PROVE  /\ TimerAfterPasses' /\ Drained' /\ Quiet' /\ Standing' /\ FlagUp'
<1> USE DEF Goto, bus, rx, timer, commands, outputs
<1>1. UNCHANGED <<inTimer, arrivals, silent, fifo, rxMsg, rxRdy, nbRcv, speedRx, dirRx>>
  BY DEF ReadSpeed, Drive, ReadDir, Steer
<1>2. /\ fifo = <<>> /\ ~inTimer
      /\ pc \in {"readSpeed", "drive", "readDir", "steer"}
      /\ pc' \in {"drive", "readDir", "steer", "poll"}
  BY DEF ReadSpeed, Drive, ReadDir, Steer, Undisturbed
<1>3. /\ pc = "steer" => pc' = "poll"
      /\ pc # "steer" => passes' = passes
      /\ passes' \in {passes, passes + 1}
      /\ passes' \in 0 .. TickPasses
  BY DEF IInv, TypeOK, ReadSpeed, Drive, ReadDir, Steer, TickPasses
<1>4. Drained'
  <2>1. ASSUME arrivals = 0, passes' >= 1 PROVE rxRdy => pc' = "poll"
    BY <1>2, <1>3, <2>1 DEF IInv, TypeOK, Drained, TickPasses
  <2>2. ASSUME arrivals = 0, passes' = TickPasses PROVE ~rxRdy
    <3>1. passes >= 1
      BY <1>3, <2>2 DEF IInv, TypeOK, TickPasses
    <3> QED
      BY <1>2, <2>2, <3>1 DEF IInv, Drained
  <2> QED
    BY <1>1, <1>2, <2>1, <2>2 DEF Drained, NothingPending, AfterMessage
<1>5. TimerAfterPasses' /\ FlagUp'
  BY <1>1, <1>2 DEF IInv, TimerAfterPasses, FlagUp
<1>6. Quiet'
  BY <1>1, <1>2 DEF IInv, Quiet, NothingPending, AfterMessage
<1>7. Standing'
  <2> SUFFICES ASSUME arrivals = 0, silent >= 2, silent \in 0 .. SilentCap
               PROVE  Standing'
    BY <1>1 DEF IInv, TypeOK, Standing, SilentCap
  <2>1. speedRx = 0 /\ dirRx = 0
    BY DEF IInv, Quiet
  <2>2. CASE ReadSpeed
    BY <1>1, <2>1, <2>2 DEF IInv, Standing, ReadsZero, ReadSpeed
  <2>3. CASE Drive
    BY <1>1, <2>1, <2>3 DEF IInv, TypeOK, Standing, ReadsZero, Drive, TickPasses
  <2>4. CASE ReadDir
    BY <1>1, <2>1, <2>4 DEF IInv, Standing, ReadsZero, ReadDir
  <2>5. CASE Steer
    <3>1. pc = "steer" /\ pc' = "poll" /\ UNCHANGED motor
      BY <2>5 DEF Steer
    <3>2. local = 0 => steering' = 0
      BY <2>1, <2>5 DEF Steer
    <3>3. passes' = TickPasses => passes >= 1
      BY <1>3 DEF IInv, TypeOK, TickPasses
    <3> QED
      BY <1>1, <3>1, <3>2, <3>3 DEF IInv, TypeOK, Standing, ReadsZero, TickPasses
  <2> QED
    BY <2>2, <2>3, <2>4, <2>5
<1> QED
  BY <1>4, <1>5, <1>6, <1>7

-----------------------------------------------------------------------------
(* The newest orders.                                                      *)

(* A step that leaves the message, the orders and the commands alone, and  *)
(* does not stop short of a copy, keeps what is known of the orders.       *)
LEMMA OrdersKept ==
  ASSUME IInv, UNCHANGED <<rxMsg, rxRdy, speedRx, dirRx, orders, pc>>
  PROVE  UnreadOrder' /\ NewestSpeedApplied' /\ NewestDirectionApplied'
BY DEF IInv, orders, UnreadOrder, SpeedUnread, DirUnread, NewestSpeedApplied,
       NewestDirectionApplied

(* The frame that comes in is the newest order of its kind, and overtakes  *)
(* one of the other kind that is still to be copied.                       *)
LEMMA CanRxIrqOrders ==
  ASSUME IInv, CanRxIrq
  PROVE  UnreadOrder' /\ NewestSpeedApplied' /\ NewestDirectionApplied'
<1> DEFINE f == Head(fifo)
<1>1. rxMsg' = f /\ rxRdy' = TRUE /\ Supersede(f) /\ UNCHANGED <<pc, speedRx, dirRx>>
  BY DEF CanRxIrq, commands
<1>2. f \in Frame
  BY ReleaseType DEF IInv, TypeOK, CanRxIrq
<1>3. f.id \in {"SpeedCmd", "DirectionCmd"}
  BY <1>2 DEF Frame
<1> HIDE DEF f
<1>4. CASE f.id = "SpeedCmd"
  BY <1>1, <1>4 DEF IInv, Supersede, UnreadOrder, SpeedUnread, DirUnread,
     NewestSpeedApplied, NewestDirectionApplied
<1>5. CASE f.id = "DirectionCmd"
  BY <1>1, <1>5 DEF IInv, Supersede, UnreadOrder, SpeedUnread, DirUnread,
     NewestSpeedApplied, NewestDirectionApplied
<1> QED
  BY <1>3, <1>4, <1>5

(* The watchdog zeroes what is in force; what is still to be copied stays  *)
(* the order.                                                              *)
LEMMA TimerEndOrders ==
  ASSUME IInv, TimerEnd
  PROVE  UnreadOrder' /\ NewestSpeedApplied' /\ NewestDirectionApplied'
<1>1. UNCHANGED <<rxMsg, rxRdy, pc>>
  BY DEF TimerEnd, rx
<1>2. CASE nbRcv = 0
  <2>1. speedRx' = 0 /\ dirRx' = 0 /\ Withdraw
    BY <1>2 DEF TimerEnd, Watchdog
  <2> QED
    BY <1>1, <2>1 DEF IInv, Withdraw, UnreadOrder, SpeedUnread, DirUnread,
       NewestSpeedApplied, NewestDirectionApplied
<1>3. CASE nbRcv # 0
  BY <1>1, <1>3, OrdersKept DEF TimerEnd, Watchdog, commands
<1> QED
  BY <1>2, <1>3

(* The loop: the tests lead to the copy of the order, and the copy puts it *)
(* in force.                                                               *)
LEMMA MainLoopOrders ==
  ASSUME IInv, MainLoop
  PROVE  UnreadOrder' /\ NewestSpeedApplied' /\ NewestDirectionApplied'
<1> USE DEF Goto, rx, commands, orders, UnreadOrder, SpeedUnread, DirUnread,
            NewestSpeedApplied, NewestDirectionApplied
<1>1. CASE Poll \/ LoadCount \/ StoreCount
  BY <1>1 DEF IInv, Poll, LoadCount, StoreCount
<1>2. CASE ClearRdy
  BY <1>2 DEF IInv, FlagUp, ClearRdy
<1>3. CASE TestSpeed
  BY <1>3 DEF IInv, TestSpeed
<1>4. CASE CopySpeed
  BY <1>4 DEF IInv, CopySpeed
<1>5. CASE TestDir
  BY <1>5 DEF IInv, TestDir
<1>6. CASE CopyDir
  BY <1>6 DEF IInv, CopyDir
<1>7. CASE ReadSpeed \/ Drive \/ ReadDir \/ Steer
  BY <1>7 DEF IInv, ReadSpeed, Drive, ReadDir, Steer
<1> QED
  BY <1>1, <1>2, <1>3, <1>4, <1>5, <1>6, <1>7 DEF MainLoop

-----------------------------------------------------------------------------
(* The invariant holds at the start.                                       *)
LEMMA InitIInv == Init => IInv
<1> SUFFICES ASSUME Init PROVE IInv
  OBVIOUS
<1>1. fifo \in Seq(Frame) /\ Len(fifo) = 0
  BY DEF Init
<1>2. TypeOK
  <2>1. Len(fifo) <= FifoDepth /\ arrivals \in 0 .. MaxPerPeriod
    BY <1>1, BoundAssumption DEF Init
  <2>2. alive \in BOOLEAN /\ inTimer \in BOOLEAN /\ rxRdy \in BOOLEAN
    BY DEF Init
  <2>3. rxMsg \in Frame \cup {NoMsg} /\ tx = {}
    BY DEF Init
  <2>4. /\ tmp \in 0 .. CountCap /\ nbRcv \in 0 .. CountCap
        /\ passes \in 0 .. TickPasses /\ silent \in 0 .. SilentCap
    BY DEF Init, CountCap, TickPasses, SilentCap
  <2>5. pc = "poll" /\ speedRx = 0 /\ dirRx = 0 /\ local = 0 /\ motor = 0
        /\ steering = NoTarget /\ periodicModulo = 0
    BY DEF Init
  <2>6. speedOrder \in 0 .. Overtaken /\ dirOrder \in 0 .. Overtaken
    BY DEF Init, Overtaken
  <2> QED
    BY <1>1, <2>1, <2>2, <2>3, <2>4, <2>5, <2>6 DEF TypeOK
<1>3. TimerAfterPasses /\ Drained /\ Quiet /\ Standing /\ FlagUp
  BY DEF Init, TimerAfterPasses, Drained, Quiet, Standing, FlagUp, TickPasses,
         SilentCap
<1>4. UnreadOrder /\ NewestSpeedApplied /\ NewestDirectionApplied
  BY DEF Init, NoMsg, UnreadOrder, SpeedUnread, DirUnread, NewestSpeedApplied,
         NewestDirectionApplied
<1> QED
  BY <1>2, <1>3, <1>4 DEF IInv

(* Every step preserves the invariant.                                     *)
LEMMA NextIInv == IInv /\ [Next]_vars => IInv'
<1> SUFFICES ASSUME IInv, [Next]_vars PROVE IInv'
  OBVIOUS
<1>0. TypeOK
  BY DEF IInv
<1>1. ASSUME NEW f \in Frame, Arrive(f) PROVE IInv'
  <2>1. UnreadOrder' /\ NewestSpeedApplied' /\ NewestDirectionApplied'
    BY <1>1, OrdersKept DEF Arrive, rx, commands
  <2> QED
    BY <1>0, <1>1, <2>1, InterruptType, ArriveInductive DEF IInv
<1>2. CASE PiDies
  <2>1. TypeOK'
    BY <1>0, <1>2, InterruptType
  <2>2. UnreadOrder' /\ NewestSpeedApplied' /\ NewestDirectionApplied'
    BY <1>2, OrdersKept DEF PiDies, rx, commands
  <2> QED
    BY <1>2, <2>1, <2>2
       DEF IInv, PiDies, rx, commands, outputs, timer, TimerAfterPasses, Drained,
           Quiet, Standing, FlagUp, NothingPending, ReadsZero
<1>3. CASE CanRxIrq
  BY <1>0, <1>3, InterruptType, CanRxIrqInductive, CanRxIrqOrders DEF IInv
<1>4. CASE TimerStart
  <2>1. UnreadOrder' /\ NewestSpeedApplied' /\ NewestDirectionApplied'
    BY <1>4, OrdersKept DEF TimerStart, rx, commands
  <2> QED
    BY <1>0, <1>4, <2>1, InterruptType, TimerStartInductive DEF IInv
<1>5. CASE TimerEnd
  BY <1>0, <1>5, InterruptType, TimerEndInductive, TimerEndOrders DEF IInv
<1>6. CASE MainLoop
  <2>1. TypeOK'
    BY <1>0, <1>6, MainLoopType
  <2> QED
    BY <1>6, <2>1, MessageStepsInductive, LastLookInductive, CommandStepsInductive,
       MainLoopOrders
       DEF MainLoop, IInv
<1>7. CASE UNCHANGED vars
  <2>1. UnreadOrder' /\ NewestSpeedApplied' /\ NewestDirectionApplied'
    BY <1>7, OrdersKept DEF vars, rx, commands
  <2> QED
    BY <1>7, <2>1
       DEF vars, bus, rx, commands, outputs, timer, orders, IInv, TypeOK,
           TimerAfterPasses, Drained, Quiet, Standing, FlagUp, NothingPending,
           ReadsZero
<1> QED
  BY <1>1, <1>2, <1>3, <1>4, <1>5, <1>6, <1>7 DEF Next

(* The inductive invariant holds in every reachable state.                 *)
THEOREM Invariance == Spec => []IInv
<1> QED
  BY InitIInv, NextIInv, PTL DEF Spec

(* Every variable keeps its type and its bound.                            *)
THEOREM TypeCorrectness == Spec => []TypeOK
<1>1. IInv => TypeOK
  BY DEF IInv
<1> QED
  BY <1>1, Invariance, PTL

(* Two silent ticks zero both commands.                                    *)
THEOREM WatchdogZeroes == Spec => []SilenceZeroesCommands
<1>1. IInv => SilenceZeroesCommands
  BY DEF IInv, Quiet, SilenceZeroesCommands
<1> QED
  BY <1>1, Invariance, PTL

(* Three silent ticks stand the car still with its wheels straight.        *)
THEOREM WatchdogStops == Spec => []SilenceStopsTheCar
<1>1. IInv => SilenceStopsTheCar
  BY DEF IInv, Standing, SilenceStopsTheCar
<1> QED
  BY <1>1, Invariance, PTL

(* Once the loop has nothing left to copy, the newest speed frame that was *)
(* not overtaken before its copy is in force, unless the watchdog zeroed   *)
(* it.                                                                     *)
THEOREM NewestSpeedInForce == Spec => []NewestSpeedApplied
<1>1. IInv => NewestSpeedApplied
  BY DEF IInv
<1> QED
  BY <1>1, Invariance, PTL

(* So is the newest direction frame.                                       *)
THEOREM NewestDirectionInForce == Spec => []NewestDirectionApplied
<1>1. IInv => NewestDirectionApplied
  BY DEF IInv
<1> QED
  BY <1>1, Invariance, PTL

(* The node implements the dead man's switch: arrivals are heard, the end  *)
(* of canPeriodic is its tick, and of the steps of the loop only Drive     *)
(* changes what the motors do.  Standing is what its tick and its command  *)
(* promise about a silence that has reached its limit.                     *)
LEMMA StepImplements ==
  ASSUME IInv, IInv', [Next]_vars
  PROVE  [Switch!Next]_(Switch!vars)
<1> USE DEF Switch!vars, Switch!Next, bus, timer, outputs
<1>1. ASSUME NEW f \in Frame, Arrive(f) PROVE Switch!Hear
  <2>1. arrivals' > 0 /\ UNCHANGED <<silent, motor>>
    BY <1>1 DEF IInv, TypeOK, Arrive
  <2> QED
    BY <2>1 DEF Switch!Hear
<1>2. CASE PiDies
  BY <1>2 DEF PiDies
<1>3. CASE CanRxIrq
  BY <1>3 DEF CanRxIrq
<1>4. CASE TimerStart
  BY <1>4 DEF TimerStart
<1>5. ASSUME TimerEnd PROVE Switch!Tick
  <2>1. /\ arrivals' = 0 /\ UNCHANGED motor
        /\ silent' = IF arrivals > 0 THEN 0
                     ELSE IF silent < SilentCap THEN silent + 1 ELSE silent
    BY <1>5 DEF TimerEnd
  <2>2. silent' = SilentCap => motor = 0
    BY <2>1 DEF IInv, Standing
  <2> QED
    BY <2>1, <2>2 DEF Switch!Tick
<1>6. ASSUME Drive PROVE Switch!Command
  <2>1. UNCHANGED <<arrivals, silent>>
    BY <1>6 DEF Drive, Goto
  <2>2. arrivals \in Nat /\ silent \in 0 .. SilentCap
    BY BoundAssumption DEF IInv, TypeOK
  <2>3. arrivals > 0 \/ silent < SilentCap \/ motor' = 0
    BY <2>1, <2>2 DEF IInv, Standing, SilentCap
  <2> QED
    BY <2>1, <2>3 DEF Switch!Command
<1>7. CASE MainLoop /\ ~Drive
  <2>1. UNCHANGED <<arrivals, silent, motor>>
    BY <1>7
       DEF MainLoop, Goto, Poll, LoadCount, StoreCount, ClearRdy, TestSpeed,
           CopySpeed, TestDir, CopyDir, ReadSpeed, ReadDir, Steer
  <2> QED
    BY <2>1
<1>8. CASE UNCHANGED vars
  BY <1>8 DEF vars
<1> QED
  BY <1>1, <1>2, <1>3, <1>4, <1>5, <1>6, <1>7, <1>8 DEF Next

(* The car node implements the dead man's switch.                          *)
THEOREM NodeIsDeadman == Spec => ImplementsDeadman
<1>1. Init => Switch!Init
  BY DEF Init, Switch!Init
<1>2. IInv /\ IInv' /\ [Next]_vars => [Switch!Next]_(Switch!vars)
  BY StepImplements
<1> QED
  BY <1>1, <1>2, Invariance, PTL DEF Spec, ImplementsDeadman, Switch!Spec

=============================================================================
