------------------------------ MODULE Ultrasound ------------------------------
(***************************************************************************)
(* What the ultrasound sensors of the STM32 node tell the Raspberry Pi:    *)
(* canPeriodic (main.c) packs a distance, a "mobile" flag and a "detected" *)
(* flag into one byte per sensor, a CAN frame carries the bytes, and       *)
(* ObstacleDetector unpacks them.  A frame is not sent again when it is    *)
(* lost; a newer one replaces one that has not been sent.                  *)
(***************************************************************************)
EXTENDS Integers, Sequences

CONSTANTS
  Sensor,      \* sensors from left to right, the order of the bytes
  Count,       \* timer counts an echo may take, COUNTER_DIFF
  Speed        \* speeds of the car in cm/s

Position == 1 .. Len(Sensor)
Octet == 0 .. 255
Halfword == 0 .. 65535

ASSUME SensorAssumption ==
  /\ Sensor \in Seq({"SL", "FSL", "FL", "FR", "FSR", "SR"})
  /\ \A p, q \in Position : Sensor[p] = Sensor[q] => p = q
ASSUME CountAssumption == Count \subseteq Halfword /\ Speed \subseteq Octet

VARIABLES
  prev,        \* Prev_SL .. Prev_SR
  wire,        \* the frame in the mailbox or on the bus, or NoFrame
  obstacles,   \* m_carParamIn.obstacles
  sample,      \* history: the last two measurements and the speed behind wire
  basis        \* history: the same behind obstacles

vars == <<prev, wire, obstacles, sample, basis>>

-----------------------------------------------------------------------------
(* The distance of an echo is 0.02621 cm per count, read as an integer.    *)
Coefficient == 2621
Cm == 100000
DetectDist == 200
MaxDist == 252                 \* the largest distance field, six bits up

Near(n) == n * Coefficient < DetectDist * Cm
Far(n) == n * Coefficient > DetectDist * Cm
InCm(n) == (n * Coefficient) \div Cm
Gap(m, n) == InCm(IF m < n THEN n - m ELSE m - n)

NoFrame == <<>>

(* Mutants: a byte takes what is left of a larger distance; or the sum is  *)
(* kept in a wider variable.                                               *)
DistFieldWraps(n) == ((InCm(n) \div 2) * 4) % 256
DistFieldWide(n) == (InCm(n) \div 2) * 4

(* The distance divided by two, in the upper six bits.                     *)
DistField(n) ==
  LET dist == (InCm(n) \div 2) * 4
  IN  IF dist > MaxDist THEN MaxDist ELSE dist

(* What the car itself travels in a period, and a margin.                  *)
CarDist(speed) == speed \div 10 + 2

Neighbour(p) == {q \in Position : q = p - 1 \/ q = p + 1}

(* Mutant: every change counts.                                            *)
MobileIfChanged(p, old, new, speed) ==
  \/ old[p] # new[p]
  \/ \E q \in Neighbour(p) : Near(old[q]) /\ Far(new[q])

(* Mutant: the sensor to the right is forgotten.                           *)
MobileByLeft(p, old, new, speed) ==
  \/ Gap(old[p], new[p]) > CarDist(speed)
  \/ \E q \in Neighbour(p) : q < p /\ Near(old[q]) /\ Far(new[q])

Mobile(p, old, new, speed) ==
  \/ Gap(old[p], new[p]) > CarDist(speed)
  \/ \E q \in Neighbour(p) : Near(old[q]) /\ Far(new[q])

Byte(p, old, new, speed) ==
  IF Near(new[p])
  THEN 1 + DistField(new[p]) + (IF Mobile(p, old, new, speed) THEN 2 ELSE 0)
  ELSE 0

Obstacle == [detected : 0 .. 1, mobile : 0 .. 1, dist : 0 .. 126]

Decode(b) ==
  [detected |-> b % 2, mobile |-> (b \div 2) % 2, dist |-> (b \div 4) * 2]

-----------------------------------------------------------------------------
Nothing == [p \in Position |-> Decode(0)]

Init ==
  /\ prev = [p \in Position |-> 0]
  /\ wire = NoFrame
  /\ obstacles = Nothing
  /\ sample = <<>> /\ basis = <<>>

(* The ultrasound part of canPeriodic; sensors[p] is COUNTER_DIFF, which   *)
(* the capture interrupts may have left at any count.                      *)
SendUltrasound(sensors, speed) ==
  /\ wire' = [p \in Position |-> Byte(p, prev, sensors, speed)]
  /\ prev' = sensors
  /\ sample' = [old |-> prev, new |-> sensors, speed |-> speed]
  /\ UNCHANGED <<obstacles, basis>>

(* canOnDataReceived: ObstacleDetector::detect.                            *)
ReceiveUltrasound ==
  /\ wire # NoFrame
  /\ obstacles' = [p \in Position |-> Decode(wire[p])]
  /\ wire' = NoFrame
  /\ basis' = sample
  /\ sample' = <<>>
  /\ UNCHANGED prev

LoseFrame ==
  /\ wire # NoFrame
  /\ wire' = NoFrame
  /\ sample' = <<>>
  /\ UNCHANGED <<prev, obstacles, basis>>

Next ==
  \/ \E sensors \in [Position -> Count], speed \in Speed :
       SendUltrasound(sensors, speed)
  \/ ReceiveUltrasound
  \/ LoseFrame

Spec == Init /\ [][Next]_vars

-----------------------------------------------------------------------------
(* Properties.                                                             *)

(* Every variable keeps its type; a byte is a byte.                        *)
TypeOK ==
  /\ prev \in [Position -> Halfword]
  /\ wire = NoFrame \/ wire \in [Position -> Octet]
  /\ obstacles \in [Position -> Obstacle]

(* What the Raspberry Pi believes is what the sensors measured, rounded    *)
(* down by less than two centimetres: an obstacle nearer than two metres   *)
(* is seen, and never taken for a farther one.                             *)
FaithfulDistance ==
  basis # <<>> =>
    \A p \in Position :
      /\ obstacles[p].detected = 1 <=> Near(basis.new[p])
      /\ obstacles[p].detected = 1 =>
           /\ obstacles[p].dist * Cm <= basis.new[p] * Coefficient
           /\ \/ basis.new[p] * Coefficient < (obstacles[p].dist + 2) * Cm
              \/ obstacles[p].dist = 126

(* A car among obstacles that stand still does not report them as mobile:  *)
(* no echo changes by more than the car's way in 100 ms, and none is lost. *)
StillSceneIsStatic ==
  basis # <<>>
    /\ (\A p \in Position :
          LET way == basis.old[p] - basis.new[p]
          IN  /\ 10 * way * Coefficient <= basis.speed * Cm
              /\ 10 * way * Coefficient >= -(basis.speed * Cm)
              /\ Near(basis.old[p]) <=> Near(basis.new[p]))
    => \A p \in Position : obstacles[p].mobile = 0

(* An obstacle that leaves a sensor makes its neighbours report what they  *)
(* see as mobile: no echo falls into the gap between the two comparisons   *)
(* with two metres, which are both strict.                                 *)
VanishedIsMobile ==
  basis # <<>> =>
    \A p \in Position : \A q \in Neighbour(p) :
      /\ Near(basis.old[q]) /\ ~Near(basis.new[q])
      /\ Near(basis.new[p])
      => obstacles[p].mobile = 1

(* What the code says about itself and does not do.                        *)

(* The numbers the Raspberry Pi gives the sensors.                         *)
UsSensorId ==
  [SL |-> 0, FL |-> 1, FSL |-> 2, FSR |-> 3, FR |-> 4, SR |-> 5]

(* AcmApplication.hpp:43, "UsSensorId_FrontLeft = 1": the obstacle the     *)
(* control looks up under the number of a sensor is the one that sensor    *)
(* has seen.  The byte with number 1 is that of the front side left one    *)
(* (ObstacleDetector.hpp:53, main.c:137).                                  *)
SensorNumbersAgree ==
  basis # <<>> =>
    \A p \in Position :
      obstacles[UsSensorId[Sensor[p]] + 1].detected = 1 <=> Near(basis.new[p])

=============================================================================
