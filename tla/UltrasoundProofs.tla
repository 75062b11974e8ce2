--------------------------- MODULE UltrasoundProofs ---------------------------
(***************************************************************************)
(* Proofs for Ultrasound, for any sensors, counts and speeds.              *)
(***************************************************************************)
EXTENDS Ultrasound, TLAPS

Sample ==
  [old : [Position -> Halfword], new : [Position -> Halfword], speed : Octet]

Packed(s) == [p \in Position |-> Byte(p, s.old, s.new, s.speed)]
Unpacked(s) == [p \in Position |-> Decode(Packed(s)[p])]

(* A frame packs its sample, and the obstacles unpack theirs.              *)
WireMatchesSample ==
  wire # NoFrame => sample \in Sample /\ wire = Packed(sample)
ObstaclesMatchBasis ==
  basis # <<>> =>
    basis \in Sample /\ obstacles = Unpacked(basis)

IInv == TypeOK /\ WireMatchesSample /\ ObstaclesMatchBasis

-----------------------------------------------------------------------------
(* The distance field is a multiple of four of at most six bits.           *)
LEMMA FieldBounds ==
  ASSUME NEW n \in Nat
  PROVE  /\ DistField(n) \in 0 .. 252
         /\ DistField(n) % 4 = 0
         /\ DistField(n) < 252 => DistField(n) = (InCm(n) \div 2) * 4
         /\ DistField(n) = 252 => InCm(n) >= 126
  BY DEF DistField, MaxDist, InCm, Coefficient, Cm

(* No count is exactly two metres away.                                    *)
LEMMA NearOrFar ==
  ASSUME NEW n \in Nat
  PROVE  /\ ~Near(n) <=> Far(n)
         /\ Near(n) \in BOOLEAN
  BY DEF Near, Far, Coefficient, Cm, DetectDist

(* A sample holds natural numbers.                                         *)
LEMMA Sampled ==
  ASSUME NEW s \in Sample, NEW p \in Position
  PROVE  s.old[p] \in Nat /\ s.new[p] \in Nat /\ s.speed \in Nat
<1>1. s.old[p] \in Halfword /\ s.new[p] \in Halfword /\ s.speed \in Octet
  BY DEF Sample
<1>2. Halfword \subseteq Nat /\ Octet \subseteq Nat
  BY DEF Halfword, Octet
<1> QED BY <1>1, <1>2

(* What the Raspberry Pi reads out of the byte of position p.              *)
Reads(o, s, p) ==
  /\ o \in Obstacle
  /\ o.detected = 1 <=> Near(s.new[p])
  /\ o.mobile = 1 <=> Near(s.new[p]) /\ Mobile(p, s.old, s.new, s.speed)
  /\ Near(s.new[p]) => o.dist = DistField(s.new[p]) \div 2

(* A byte is one, and reads as the distance and the flags it was made of.  *)
LEMMA ByteHolds ==
  ASSUME NEW s \in Sample, NEW p \in Position
  PROVE  Packed(s)[p] \in Octet /\ Reads(Decode(Packed(s)[p]), s, p)
<1> DEFINE n == s.new[p]
           mobile == Mobile(p, s.old, s.new, s.speed)
           d == DistField(n)
           m == IF mobile THEN 2 ELSE 0
           b == Packed(s)[p]
<1>1. n \in Nat
  BY Sampled
<1>2. d \in 0 .. 252 /\ d % 4 = 0
  BY <1>1, FieldBounds
<1>3. m \in {0, 2} /\ (m = 2 <=> mobile)
  OBVIOUS
<1>4. b = IF Near(n) THEN 1 + d + m ELSE 0
  BY DEF Packed, Byte
<1> SUFFICES b \in Octet /\ Reads(Decode(b), s, p)
  OBVIOUS
<1> HIDE DEF d, m, b, mobile
<1>5. CASE ~Near(n)
  <2>1. b = 0
    BY <1>4, <1>5
  <2>2. Decode(0) = [detected |-> 0, mobile |-> 0, dist |-> 0]
    BY DEF Decode
  <2>3. [detected |-> 0, mobile |-> 0, dist |-> 0] \in Obstacle
    BY DEF Obstacle
  <2>4. b \in Octet
    BY <2>1 DEF Octet
  <2> QED BY <1>5, <2>1, <2>2, <2>3, <2>4 DEF Reads
<1>6. CASE Near(n)
  <2>1. b = 1 + d + m
    BY <1>4, <1>6
  <2>2. b \in Octet /\ b % 2 = 1 /\ (b \div 2) % 2 = m \div 2
          /\ (b \div 4) * 2 = d \div 2
    BY <1>2, <1>3, <2>1 DEF Octet
  <2>3. Decode(b) = [detected |-> 1, mobile |-> m \div 2, dist |-> d \div 2]
    BY <2>2 DEF Decode
  <2>4. m \div 2 \in 0 .. 1 /\ (m \div 2 = 1 <=> m = 2) /\ d \div 2 \in 0 .. 126
    BY <1>2, <1>3
  <2>5. Decode(b) \in Obstacle
    BY <2>3, <2>4 DEF Obstacle
  <2>6. Decode(b).mobile = 1 <=> mobile
    BY <1>3, <2>3, <2>4
  <2> QED BY <1>6, <2>2, <2>3, <2>5, <2>6 DEF Reads, d, mobile
<1> QED BY <1>5, <1>6

-----------------------------------------------------------------------------
(* A frame is made of bytes and unpacks to obstacles.                      *)
LEMMA PackedType ==
  ASSUME NEW s \in Sample
  PROVE  Packed(s) \in [Position -> Octet] /\ Unpacked(s) \in [Position -> Obstacle]
<1>1. ASSUME NEW p \in Position
      PROVE  Packed(s)[p] \in Octet /\ Decode(Packed(s)[p]) \in Obstacle
  BY ByteHolds DEF Reads
<1>2. Packed(s) = [p \in Position |-> Packed(s)[p]]
  BY DEF Packed
<1> QED BY <1>1, <1>2 DEF Unpacked

(* The inductive invariant.                                                *)
THEOREM Invariance == Spec => []IInv
<1>1. Init => IInv
  <2> SUFFICES ASSUME Init PROVE IInv
    OBVIOUS
  <2>1. Decode(0) = [detected |-> 0, mobile |-> 0, dist |-> 0]
    BY DEF Decode
  <2>2. Nothing \in [Position -> Obstacle]
    BY <2>1 DEF Nothing, Obstacle
  <2>3. TypeOK
    BY <2>2 DEF Init, TypeOK, Halfword
  <2> QED BY <2>3 DEF Init, IInv, WireMatchesSample, ObstaclesMatchBasis
<1>2. IInv /\ [Next]_vars => IInv'
  <2> SUFFICES ASSUME IInv, [Next]_vars PROVE IInv'
    OBVIOUS
  <2>1. ASSUME NEW sensors \in [Position -> Count], NEW speed \in Speed,
               SendUltrasound(sensors, speed)
        PROVE  IInv'
    <3>1. sensors \in [Position -> Halfword] /\ speed \in Octet
      BY CountAssumption
    <3>2. sample' \in Sample
      BY <2>1, <3>1 DEF SendUltrasound, Sample, IInv, TypeOK
    <3>3. wire' = Packed(sample')
      BY <2>1 DEF SendUltrasound, Packed
    <3>4. wire' \in [Position -> Octet]
      BY <3>2, <3>3, PackedType
    <3>5. TypeOK'
      BY <2>1, <3>1, <3>4 DEF SendUltrasound, IInv, TypeOK
    <3>6. ObstaclesMatchBasis'
      BY <2>1 DEF SendUltrasound, IInv, ObstaclesMatchBasis, Unpacked, Packed
    <3> QED BY <3>2, <3>3, <3>5, <3>6 DEF IInv, WireMatchesSample
  <2>2. CASE ReceiveUltrasound
    <3>1. basis' \in Sample /\ wire = Packed(basis')
      BY <2>2 DEF ReceiveUltrasound, IInv, WireMatchesSample
    <3>2. obstacles' = Unpacked(basis')
      BY <2>2, <3>1 DEF ReceiveUltrasound, Unpacked
    <3>3. obstacles' \in [Position -> Obstacle]
      BY <3>1, <3>2, PackedType
    <3>4. TypeOK'
      BY <2>2, <3>3 DEF ReceiveUltrasound, IInv, TypeOK
    <3>5. wire' = NoFrame
      BY <2>2 DEF ReceiveUltrasound
    <3>6. WireMatchesSample'
      BY <3>5 DEF WireMatchesSample, NoFrame
    <3>7. ObstaclesMatchBasis'
      BY <3>1, <3>2 DEF ObstaclesMatchBasis, Unpacked, Packed
    <3> QED BY <3>4, <3>6, <3>7 DEF IInv
  <2>3. CASE LoseFrame
    <3>1. TypeOK'
      BY <2>3 DEF LoseFrame, IInv, TypeOK
    <3>2. WireMatchesSample'
      BY <2>3 DEF LoseFrame, WireMatchesSample, NoFrame
    <3>3. ObstaclesMatchBasis'
      BY <2>3 DEF LoseFrame, IInv, ObstaclesMatchBasis, Unpacked, Packed
    <3> QED BY <3>1, <3>2, <3>3 DEF IInv
  <2>4. CASE UNCHANGED vars
    BY <2>4 DEF vars, IInv, TypeOK, WireMatchesSample, ObstaclesMatchBasis, Unpacked, Packed
  <2> QED BY <2>1, <2>2, <2>3, <2>4 DEF Next
<1> QED BY <1>1, <1>2, PTL DEF Spec

(* What the byte of a position says, once there is one.                    *)
LEMMA Believed ==
  ASSUME IInv, basis # <<>>, NEW p \in Position
  PROVE  basis \in Sample /\ Reads(obstacles[p], basis, p)
<1>1. basis \in Sample /\ obstacles = Unpacked(basis)
  BY DEF IInv, ObstaclesMatchBasis
<1>2. obstacles[p] = Decode(Packed(basis)[p])
  BY <1>1 DEF Unpacked
<1> QED BY <1>1, <1>2, ByteHolds

-----------------------------------------------------------------------------
(* Every variable keeps its type; a byte is a byte.                        *)
THEOREM TypeCorrectness == Spec => []TypeOK
<1>1. IInv => TypeOK
  BY DEF IInv
<1> QED BY <1>1, Invariance, PTL

(* What the Raspberry Pi believes is what the sensors measured.            *)
THEOREM DistanceIsFaithful == Spec => []FaithfulDistance
<1>1. IInv => FaithfulDistance
  <2> SUFFICES ASSUME IInv, basis # <<>>, NEW p \in Position
               PROVE  /\ obstacles[p].detected = 1 <=> Near(basis.new[p])
                      /\ obstacles[p].detected = 1 =>
                           /\ obstacles[p].dist * Cm <= basis.new[p] * Coefficient
                           /\ \/ basis.new[p] * Coefficient < (obstacles[p].dist + 2) * Cm
                              \/ obstacles[p].dist = 126
    BY DEF FaithfulDistance
  <2>1. /\ obstacles[p].detected = 1 <=> Near(basis.new[p])
        /\ Near(basis.new[p]) => obstacles[p].dist = DistField(basis.new[p]) \div 2
        /\ basis.new[p] \in Nat
    BY Believed, Sampled DEF Reads
  <2>2. ASSUME NEW n \in Nat, NEW d, d = DistField(n) \div 2
        PROVE  /\ d * Cm <= n * Coefficient
               /\ n * Coefficient < (d + 2) * Cm \/ d = 126
    <3> DEFINE c == InCm(n)
               f == DistField(n)
    <3>1. c \in Nat /\ c * 100000 <= n * 2621 /\ n * 2621 < (c + 1) * 100000
      BY DEF InCm, Coefficient, Cm
    <3>2. /\ f \in 0 .. 252
          /\ f < 252 => f = (c \div 2) * 4
          /\ f = 252 => c >= 126
      BY FieldBounds
    <3>3. d = f \div 2
      BY <2>2
    <3> HIDE DEF c, f
    <3>4. d \in Nat /\ d <= c /\ (c < d + 2 \/ d = 126)
      BY <3>1, <3>2, <3>3
    <3> QED BY <3>1, <3>4 DEF Coefficient, Cm
  <2> QED BY <2>1, <2>2
<1> QED BY <1>1, Invariance, PTL

(* Obstacles that stand still are not reported as mobile.                  *)
THEOREM StillIsStatic == Spec => []StillSceneIsStatic
<1>1. IInv => StillSceneIsStatic
  <2> SUFFICES ASSUME IInv, basis # <<>>, NEW p \in Position,
                      \A r \in Position :
                        LET way == basis.old[r] - basis.new[r]
                        IN  /\ 10 * way * Coefficient <= basis.speed * Cm
                            /\ 10 * way * Coefficient >= -(basis.speed * Cm)
                            /\ Near(basis.old[r]) <=> Near(basis.new[r])
               PROVE  obstacles[p].mobile = 0
    BY DEF StillSceneIsStatic
  <2>1. /\ basis \in Sample
        /\ obstacles[p].mobile \in 0 .. 1
        /\ obstacles[p].mobile = 1 => Mobile(p, basis.old, basis.new, basis.speed)
    BY Believed DEF Reads, Obstacle
  <2>2. ~(Gap(basis.old[p], basis.new[p]) > CarDist(basis.speed))
    <3>1. ASSUME NEW m \in Nat, NEW n \in Nat, NEW v \in Nat,
                 10 * (m - n) * Coefficient <= v * Cm,
                 10 * (m - n) * Coefficient >= -(v * Cm)
          PROVE  ~(Gap(m, n) > CarDist(v))
      BY <3>1 DEF Gap, InCm, CarDist, Coefficient, Cm
    <3>2. basis.old[p] \in Nat /\ basis.new[p] \in Nat /\ basis.speed \in Nat
      BY <2>1, Sampled
    <3> QED BY <3>1, <3>2
  <2>3. ASSUME NEW q \in Neighbour(p)
        PROVE  ~(Near(basis.old[q]) /\ Far(basis.new[q]))
    <3>1. q \in Position /\ basis.new[q] \in Nat
      BY <2>1, Sampled DEF Neighbour
    <3> QED BY <3>1, NearOrFar
  <2> QED BY <2>1, <2>2, <2>3 DEF Mobile
<1> QED BY <1>1, Invariance, PTL

(* An obstacle that leaves a sensor makes its neighbours mobile.           *)
THEOREM VanishedMeansMobile == Spec => []VanishedIsMobile
<1>1. IInv => VanishedIsMobile
  <2> SUFFICES ASSUME IInv, basis # <<>>, NEW p \in Position, NEW q \in Neighbour(p),
                      Near(basis.old[q]), ~Near(basis.new[q]), Near(basis.new[p])
               PROVE  obstacles[p].mobile = 1
    BY DEF VanishedIsMobile
  <2>1. q \in Position /\ basis \in Sample
    BY Believed DEF Neighbour
  <2>2. Far(basis.new[q])
    BY <2>1, NearOrFar, Sampled
  <2>3. Mobile(p, basis.old, basis.new, basis.speed)
    BY <2>2 DEF Mobile
  <2> QED BY <2>3, Believed DEF Reads
<1> QED BY <1>1, Invariance, PTL

=============================================================================
