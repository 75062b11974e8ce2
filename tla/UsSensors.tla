------------------------------ MODULE UsSensors -------------------------------
(***************************************************************************)
(* The acquisition of the ultrasound echoes, us_sensors.c.  Timer 4        *)
(* triggers two groups of sensors in turn, every 100 ms.  One sensor of    *)
(* each group shares an echo line (left, right, center) with one of the    *)
(* other; an edge on a line makes a DMA channel copy the count of timer 3  *)
(* into the circular buffer of the line.  When the buffer is full an       *)
(* interrupt handler shares its captures out between the front and the     *)
(* rear sensor, by the parity of the number of triggers.  The first six    *)
(* captures of a line are its calibration: the start of the pulses; later  *)
(* ones are their ends.                                                    *)
(*                                                                         *)
(* A pulse is shorter than the period and longer than any delay of the     *)
(* handlers, except in the calibration, whose handler may run after the    *)
(* end of the pulse that completed it.                                     *)
(***************************************************************************)
EXTENDS Integers

CONSTANTS
  Line,        \* echo lines, one DMA channel and one handler each
  Center,      \* the line of DMA1_Channel3
  Mute,        \* the lines whose sensors may miss an echo
  MaxAge       \* bound of the ages kept, in periods

ASSUME LineAssumption == Mute \subseteq Line
ASSUME AgeAssumption == MaxAge \in Nat

VARIABLES
  group,         \* the group triggered last
  counter_trig,  \* counter_trig % 2
  pulse,         \* the echo of the present period on each line
  edge,          \* the edge timer 3 captures, TIM_ICPolarity
  size,          \* number of captures in a DMA buffer, CNDTR
  next,          \* where the next capture goes
  data,          \* SENSORS_LEFT_DATA, SENSORS_RIGHT_DATA, SENSORS_CENTER_DATA
  complete,      \* the pending DMA interrupts
  calibrated,    \* EoCalibrationL, EoCalibrationR, EoCalibrationC
  changeState,   \* changeStateLeft, changeStateRight, changeStateCenter
  f_dma,         \* fl_dma, fr_dma, fc_dma
  r_dma,         \* rl_dma, rr_dma, rc_dma
  sensors,       \* FALLING_EDGE and RISING_EDGE behind each COUNTER_DIFF
  first,         \* history: counter_trig before the first trigger
  answered       \* history: periods in a row with an echo, up to Settled

dma == <<edge, size, next, data, complete>>
handler == <<calibrated, changeState, f_dma, r_dma, sensors>>
vars == <<group, counter_trig, pulse, dma, handler, first, answered>>

-----------------------------------------------------------------------------
(* A capture is a count of timer 3: of which group's pulse, of which edge  *)
(* of it, and how many periods ago.                                        *)
Group == {"A", "B"}
Edge == {"falling", "rising"}
Age == 0 .. MaxAge
Capture == [group : Group \cup {"none"}, edge : Edge \cup {"none"}, age : Age]
NoCapture == [group |-> "none", edge |-> "none", age |-> MaxAge]

Older(c) == [c EXCEPT !.age = IF c.age < MaxAge THEN c.age + 1 ELSE MaxAge]
Other(g) == IF g = "A" THEN "B" ELSE "A"

Slot == 0 .. 5
Bit == 0 .. 1
PAIR == 0
Place == {"front", "rear"}
Reading == [falling : Capture, rising : Capture]
Settled == 4

(* After US_QuickInit and US_StartAcq.  The update flag TIM_TimeBaseInit   *)
(* sets may or may not have been served as an interrupt of timer 4.        *)
Init ==
  /\ group = "B" /\ counter_trig \in Bit /\ first = counter_trig
  /\ pulse = [l \in Line |-> "none"]
  /\ edge = [l \in Line |-> "falling"]
  /\ size = [l \in Line |-> 6] /\ next = [l \in Line |-> 0]
  /\ data = [l \in Line |-> [i \in Slot |-> NoCapture]]
  /\ complete = {}
  /\ calibrated = {}
  /\ changeState = [l \in Line |-> PAIR]
  /\ f_dma = [l \in Line |-> IF l = Center THEN 1 ELSE 0]
  /\ r_dma = [l \in Line |-> IF l = Center THEN 0 ELSE 1]
  /\ sensors = [l \in Line |-> [p \in Place |->
                  [falling |-> NoCapture, rising |-> NoCapture]]]
  /\ answered = [l \in Line |-> 0]

-----------------------------------------------------------------------------
(* Timer 4 overflows: DMA channel 7 raises the pins of the next group, and *)
(* TIM4_IRQHandler counts.  The sensors of some lines may not answer.      *)
Trigger ==
  /\ \A l \in Line : pulse[l] \notin {"due", "begun"}
  /\ complete = {}
  /\ group' = Other(group)
  /\ counter_trig' = 1 - counter_trig
  /\ \E missed \in SUBSET Mute :
       /\ pulse' = [l \in Line |-> IF l \in missed THEN "none" ELSE "due"]
       /\ answered' = [l \in Line |->
            IF l \in missed THEN 0
            ELSE IF answered[l] < Settled THEN answered[l] + 1 ELSE Settled]
  /\ data' = [l \in Line |-> [i \in Slot |-> Older(data[l][i])]]
  /\ sensors' = [l \in Line |-> [p \in Place |->
       [falling |-> Older(sensors[l][p].falling),
        rising |-> Older(sensors[l][p].rising)]]]
  /\ UNCHANGED <<edge, size, next, complete,
                 calibrated, changeState, f_dma, r_dma, first>>

(* An edge on a line: timer 3 requests a DMA transfer for one polarity.    *)
Captures(l, e) ==
  IF edge[l] = e
  THEN /\ data' = [data EXCEPT ![l][next[l]] =
                     [group |-> group, edge |-> e, age |-> 0]]
       /\ next' = [next EXCEPT ![l] = (@ + 1) % size[l]]
       /\ complete' = IF next[l] + 1 = size[l] THEN complete \cup {l}
                                               ELSE complete
  ELSE UNCHANGED <<data, next, complete>>

PulseBegins(l) ==
  /\ pulse[l] = "due"
  /\ pulse' = [pulse EXCEPT ![l] = "begun"]
  /\ Captures(l, "falling")
  /\ UNCHANGED <<group, counter_trig, edge, size, handler, first, answered>>

PulseEnds(l) ==
  /\ pulse[l] = "begun"
  /\ pulse' = [pulse EXCEPT ![l] = "over"]
  /\ Captures(l, "rising")
  /\ UNCHANGED <<group, counter_trig, edge, size, handler, first, answered>>

-----------------------------------------------------------------------------
(* DMA_Cmd(DISABLE) and (ENABLE) rewind the channel; its size register     *)
(* ignores a DMA_Init of a channel that is enabled, as the center one is.  *)
(* Mutant: every handler enables its channel before DMA_Init.              *)
RestartEarly(l) ==
  /\ next' = [next EXCEPT ![l] = 0]
  /\ UNCHANGED size

Restart(l) ==
  /\ next' = [next EXCEPT ![l] = 0]
  /\ size' = [size EXCEPT ![l] = IF l = Center THEN @ ELSE 2]

(* Mutant: the handler forgets TIM_ICInit.                                 *)
CalibrateOneEdge(l) ==
  /\ l \notin calibrated
  /\ Restart(l)
  /\ sensors' = [sensors EXCEPT ![l].front.falling = data[l][4],
                                ![l].rear.falling = data[l][5]]
  /\ calibrated' = calibrated \cup {l}
  /\ UNCHANGED <<edge, changeState, f_dma, r_dma>>

Calibrate(l) ==
  /\ l \notin calibrated
  /\ Restart(l)
  /\ edge' = [edge EXCEPT ![l] = "rising"]
  /\ sensors' = [sensors EXCEPT ![l].front.falling = data[l][4],
                                ![l].rear.falling = data[l][5]]
  /\ calibrated' = calibrated \cup {l}
  /\ UNCHANGED <<changeState, f_dma, r_dma>>

isParity(value, parity) == (value + parity) % 2 = 1

(* Mutants: the parity is not remembered; it is incremented.               *)
FollowParityOnce(l) ==
  IF isParity(counter_trig, changeState[l])
  THEN /\ f_dma' = [f_dma EXCEPT ![l] = r_dma[l]]
       /\ r_dma' = [r_dma EXCEPT ![l] = f_dma[l]]
       /\ UNCHANGED changeState
  ELSE UNCHANGED <<changeState, f_dma, r_dma>>
FollowParityUp(l) ==
  IF isParity(counter_trig, changeState[l])
  THEN /\ f_dma' = [f_dma EXCEPT ![l] = r_dma[l]]
       /\ r_dma' = [r_dma EXCEPT ![l] = f_dma[l]]
       /\ changeState' = [changeState EXCEPT ![l] = @ + 1]
  ELSE UNCHANGED <<changeState, f_dma, r_dma>>

FollowParity(l) ==
  IF isParity(counter_trig, changeState[l])
  THEN /\ f_dma' = [f_dma EXCEPT ![l] = r_dma[l]]
       /\ r_dma' = [r_dma EXCEPT ![l] = f_dma[l]]
       /\ changeState' = [changeState EXCEPT ![l] = 1 - @]
  ELSE UNCHANGED <<changeState, f_dma, r_dma>>

Share(l) ==
  /\ l \in calibrated
  /\ FollowParity(l)
  /\ sensors' = [sensors EXCEPT ![l].front.rising = data[l][f_dma'[l]],
                                ![l].rear.rising = data[l][r_dma'[l]]]
  /\ UNCHANGED <<edge, size, next, calibrated>>

(* DMA1_Channel2_IRQHandler, DMA1_Channel6_IRQHandler and                  *)
(* DMA1_Channel3_IRQHandler.                                               *)
DMA1_IRQHandler(l) ==
  /\ l \in complete
  /\ Calibrate(l) \/ Share(l)
  /\ complete' = complete \ {l}
  /\ UNCHANGED <<group, counter_trig, pulse, data, first, answered>>

Next ==
  \/ Trigger
  \/ \E l \in Line : PulseBegins(l) \/ PulseEnds(l) \/ DMA1_IRQHandler(l)

Spec == Init /\ [][Next]_vars

-----------------------------------------------------------------------------
(* Properties.                                                             *)

(* Every variable keeps its type, and a handler reads inside its buffer.   *)
TypeOK ==
  /\ group \in Group /\ counter_trig \in Bit /\ first \in Bit
  /\ pulse \in [Line -> {"none", "due", "begun", "over"}]
  /\ edge \in [Line -> Edge]
  /\ size \in [Line -> {2, 6}]
  /\ next \in [Line -> Slot]
  /\ data \in [Line -> [Slot -> Capture]]
  /\ complete \subseteq Line /\ calibrated \subseteq Line
  /\ changeState \in [Line -> Bit]
  /\ f_dma \in [Line -> Bit] /\ r_dma \in [Line -> Bit]
  /\ sensors \in [Line -> [Place -> Reading]]
  /\ answered \in [Line -> 0 .. Settled]

(* The group a front sensor belongs to, by the parity of its triggers.     *)
FrontGroup(l) == IF (first = 0) = (l # Center) THEN "A" ELSE "B"

Side == Line \ {Center}
Front(l) == sensors[l].front
Rear(l) == sensors[l].rear

(* However many echoes were missed, the two sensors of a side line are     *)
(* never taken for each other: when their counts come from two sensors,    *)
(* the front one has its own (us_sensors.c:331-336, 380-385).              *)
NeverSwapped ==
  \A l \in Side :
    {Front(l).rising.group, Rear(l).rising.group} = Group =>
      Front(l).rising.group = FrontGroup(l)

(* A distance is an end minus a start: no end of a pulse is left from or   *)
(* lost to the calibration, on any line (us_sensors.c:300-340).            *)
EndMinusStart ==
  \A l \in Line, p \in Place :
    sensors[l][p].rising.group # "none" =>
      /\ sensors[l][p].rising.edge = "rising"
      /\ sensors[l][p].falling.edge = "falling"

(* Four echoes after a miss both sensors of a line have a count of their   *)
(* own, at most three periods old.                                         *)
Fresh(l) ==
  /\ l \in calibrated /\ l \notin complete
  /\ answered[l] = Settled
  /\ Front(l).rising.group # "none"
  => /\ Front(l).rising.group = FrontGroup(l)
     /\ Rear(l).rising.group = Other(FrontGroup(l))
     /\ Front(l).rising.age <= 3 /\ Rear(l).rising.age <= 3

(* A missed echo is forgotten on the side lines (us_sensors.c:331-339).    *)
MissIsForgotten == \A l \in Side : Fresh(l)

(* What the header says, a group every 100 ms and so every sensor every    *)
(* 200 ms (us_sensors.c:5-7), for all the lines.                           *)
EverySensorInTurn == \A l \in Line : Fresh(l)

=============================================================================
