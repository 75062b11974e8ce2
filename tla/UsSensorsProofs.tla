--------------------------- MODULE UsSensorsProofs ----------------------------
(***************************************************************************)
(* Proofs for UsSensors, for any lines, whichever of them miss echoes.     *)
(***************************************************************************)
EXTENDS UsSensors, TLAPS

-----------------------------------------------------------------------------
(* The inductive invariant.                                                *)

(* Group A is triggered at the parity the counter did not start with.      *)
GroupByParity == group = (IF counter_trig = first THEN "B" ELSE "A")

(* changeState and the two indices tell the same parity.                   *)
IndexByParity(l) ==
  /\ f_dma[l] = (IF l = Center THEN 1 - changeState[l] ELSE changeState[l])
  /\ r_dma[l] = 1 - f_dma[l]

(* The channel and the timer are set up for the phase the line is in.      *)
Channel(l) ==
  /\ next[l] < size[l]
  /\ l \notin calibrated => size[l] = 6
  /\ l \in calibrated /\ l # Center => size[l] = 2
  /\ edge[l] = (IF l \in calibrated THEN "rising" ELSE "falling")

(* What has been captured since the last handler is of the present edge.   *)
Captured(l) ==
  \A i \in Slot :
    i < size[l] /\ (l \in complete \/ i < next[l]) =>
      data[l][i].edge = edge[l]

(* A full buffer ends with the echo of the present period, which is over.  *)
LastIsPresent(l) ==
  l \in complete /\ l \in calibrated =>
    /\ pulse[l] = "over"
    /\ l # Center => data[l][1].group = group

(* The readings are of the right edges.                                    *)
Edges(l) ==
  \A p \in Place :
    /\ l \in calibrated => sensors[l][p].falling.edge = "falling"
    /\ l \notin calibrated => sensors[l][p].rising.group = "none"
    /\ sensors[l][p].rising.group # "none" =>
         sensors[l][p].rising.edge = "rising"

LineInv(l) ==
  /\ IndexByParity(l)
  /\ Channel(l)
  /\ Captured(l)
  /\ LastIsPresent(l)
  /\ Edges(l)

IInv ==
  /\ TypeOK
  /\ GroupByParity
  /\ \A l \in Line : LineInv(l)
  /\ NeverSwapped

-----------------------------------------------------------------------------
(* A capture that grows older stays what it is of.                         *)
LEMMA OlderKeeps ==
  ASSUME NEW c \in Capture
  PROVE  /\ Older(c) \in Capture
         /\ Older(c).group = c.group /\ Older(c).edge = c.edge
BY AgeAssumption DEF Older, Capture, Age

(* What a buffer starts with is a capture too.                             *)
LEMMA NoCaptureType == NoCapture \in Capture
BY AgeAssumption DEF NoCapture, Capture, Age

(* After FollowParity the front index is the parity, or its complement.    *)
LEMMA ParityFollowed ==
  ASSUME TypeOK, NEW l \in Line, IndexByParity(l), FollowParity(l)
  PROVE  /\ f_dma' \in [Line -> Bit] /\ r_dma' \in [Line -> Bit]
         /\ changeState' \in [Line -> Bit]
         /\ \A k \in Line : k # l =>
              /\ f_dma'[k] = f_dma[k] /\ r_dma'[k] = r_dma[k]
              /\ changeState'[k] = changeState[k]
         /\ changeState'[l] = counter_trig
         /\ f_dma'[l] = (IF l = Center THEN 1 - counter_trig ELSE counter_trig)
         /\ r_dma'[l] = 1 - f_dma'[l]
<1>1. /\ counter_trig \in Bit /\ changeState \in [Line -> Bit]
      /\ f_dma \in [Line -> Bit] /\ r_dma \in [Line -> Bit]
  BY DEF TypeOK
<1>2. changeState[l] \in Bit /\ f_dma[l] \in Bit /\ r_dma[l] \in Bit
  BY <1>1
<1>3. isParity(counter_trig, changeState[l]) <=> counter_trig # changeState[l]
  BY <1>1, <1>2 DEF isParity, Bit
<1>4. CASE counter_trig # changeState[l]
  <2>1. /\ f_dma' = [f_dma EXCEPT ![l] = r_dma[l]]
        /\ r_dma' = [r_dma EXCEPT ![l] = f_dma[l]]
        /\ changeState' = [changeState EXCEPT ![l] = 1 - changeState[l]]
    BY <1>3, <1>4 DEF FollowParity
  <2>2. 1 - changeState[l] \in Bit /\ 1 - changeState[l] = counter_trig
    BY <1>1, <1>2, <1>4 DEF Bit
  <2>3. r_dma[l] = (IF l = Center THEN 1 - counter_trig ELSE counter_trig)
    BY <1>1, <1>2, <1>4 DEF IndexByParity, Bit
  <2>4. f_dma[l] = 1 - r_dma[l]
    BY <1>2 DEF IndexByParity, Bit
  <2> QED BY <1>1, <1>2, <2>1, <2>2, <2>3, <2>4
<1>5. CASE counter_trig = changeState[l]
  <2>1. f_dma' = f_dma /\ r_dma' = r_dma /\ changeState' = changeState
    BY <1>3, <1>5 DEF FollowParity
  <2> QED BY <1>1, <1>2, <1>5, <2>1 DEF IndexByParity
<1> QED BY <1>4, <1>5

-----------------------------------------------------------------------------
(* The state after US_StartAcq.                                            *)
LEMMA InitInv == Init => IInv
<1> SUFFICES ASSUME Init PROVE IInv
  OBVIOUS
<1> USE NoCaptureType
<1>1. TypeOK
  BY DEF Init, TypeOK, Group, Bit, Edge, Slot, Place, Reading, PAIR, Settled
<1>2. GroupByParity
  BY DEF Init, GroupByParity
<1>3. ASSUME NEW l \in Line PROVE LineInv(l)
  BY DEF Init, LineInv, IndexByParity, Channel, Captured, LastIsPresent, Edges,
         Slot, Place, NoCapture, PAIR
<1>4. NeverSwapped
  BY DEF Init, NeverSwapped, Front, Rear, Side, Place, NoCapture, Group
<1> QED BY <1>1, <1>2, <1>3, <1>4 DEF IInv

(* Time makes captures older and nothing else.                             *)
LEMMA TriggerInv == IInv /\ Trigger => IInv'
<1> SUFFICES ASSUME IInv, Trigger PROVE IInv'
  OBVIOUS
<1>1. TypeOK /\ complete = {} /\ complete' = {}
  BY DEF IInv, Trigger
<1>2. PICK missed \in SUBSET Mute :
        /\ pulse' = [l \in Line |-> IF l \in missed THEN "none" ELSE "due"]
        /\ answered' = [l \in Line |->
             IF l \in missed THEN 0
             ELSE IF answered[l] < Settled THEN answered[l] + 1 ELSE Settled]
  BY DEF Trigger
<1>3. ASSUME NEW l \in Line, NEW i \in Slot
      PROVE  /\ data'[l][i] = Older(data[l][i])
             /\ data'[l][i] \in Capture
             /\ data'[l][i].edge = data[l][i].edge
  <2>1. data[l][i] \in Capture
    BY <1>1 DEF TypeOK
  <2>2. data'[l][i] = Older(data[l][i])
    BY DEF Trigger
  <2> QED BY <2>1, <2>2, OlderKeeps
<1>4. ASSUME NEW l \in Line, NEW p \in Place
      PROVE  /\ sensors'[l][p] \in Reading
             /\ sensors'[l][p].falling.edge = sensors[l][p].falling.edge
             /\ sensors'[l][p].rising.edge = sensors[l][p].rising.edge
             /\ sensors'[l][p].rising.group = sensors[l][p].rising.group
  <2>1. sensors[l][p].falling \in Capture /\ sensors[l][p].rising \in Capture
    BY <1>1 DEF TypeOK, Reading
  <2>2. sensors'[l][p] = [falling |-> Older(sensors[l][p].falling),
                          rising |-> Older(sensors[l][p].rising)]
    BY DEF Trigger
  <2> QED BY <2>1, <2>2, OlderKeeps DEF Reading
<1>5. TypeOK'
  <2>1. group' \in Group /\ counter_trig' \in Bit /\ first' \in Bit
    BY <1>1 DEF Trigger, TypeOK, Group, Other, Bit
  <2>2. /\ edge' \in [Line -> Edge] /\ size' \in [Line -> {2, 6}]
        /\ next' \in [Line -> Slot]
        /\ complete' \subseteq Line /\ calibrated' \subseteq Line
        /\ changeState' \in [Line -> Bit]
        /\ f_dma' \in [Line -> Bit] /\ r_dma' \in [Line -> Bit]
    BY <1>1 DEF Trigger, TypeOK
  <2>3. data' \in [Line -> [Slot -> Capture]]
    <3>1. data' = [l \in Line |-> [i \in Slot |-> Older(data[l][i])]]
      BY DEF Trigger
    <3> QED BY <1>3, <3>1
  <2>4. sensors' \in [Line -> [Place -> Reading]]
    <3>1. sensors' = [l \in Line |-> [p \in Place |->
                        [falling |-> Older(sensors[l][p].falling),
                         rising |-> Older(sensors[l][p].rising)]]]
      BY DEF Trigger
    <3> QED BY <1>4, <3>1
  <2>5. pulse' \in [Line -> {"none", "due", "begun", "over"}]
    BY <1>2
  <2>6. answered' \in [Line -> 0 .. Settled]
    <3> DEFINE A == 0 .. Settled
    <3>1. answered \in [Line -> A]
      BY <1>1 DEF TypeOK
    <3>2. 0 \in A /\ Settled \in A
          /\ \A n \in A : n < Settled => n + 1 \in A
      BY DEF Settled
    <3> HIDE DEF A
    <3>3. answered' \in [Line -> A]
      BY <1>2, <3>1, <3>2
    <3> QED BY <3>3 DEF A
  <2> QED BY <2>1, <2>2, <2>3, <2>4, <2>5, <2>6 DEF TypeOK
<1>6. GroupByParity'
  BY <1>1 DEF Trigger, IInv, GroupByParity, TypeOK, Group, Other, Bit
<1>7. ASSUME NEW l \in Line PROVE LineInv(l)'
  <2>1. /\ next' = next /\ size' = size /\ edge' = edge
        /\ calibrated' = calibrated /\ changeState' = changeState
        /\ f_dma' = f_dma /\ r_dma' = r_dma
    BY DEF Trigger
  <2>2. LineInv(l)
    BY DEF IInv
  <2>3. IndexByParity(l)' /\ Channel(l)'
    BY <2>1, <2>2 DEF LineInv, IndexByParity, Channel
  <2>4. Captured(l)'
    BY <1>1, <1>3, <2>1, <2>2 DEF LineInv, Captured
  <2>5. LastIsPresent(l)'
    BY <1>1 DEF LastIsPresent
  <2>6. Edges(l)'
    BY <1>4, <2>1, <2>2 DEF LineInv, Edges
  <2> QED BY <2>3, <2>4, <2>5, <2>6 DEF LineInv
<1>8. NeverSwapped'
  <2>1. ASSUME NEW l \in Side
        PROVE  /\ Front(l).rising.group' = Front(l).rising.group
               /\ Rear(l).rising.group' = Rear(l).rising.group
               /\ FrontGroup(l)' = FrontGroup(l)
    BY <1>4 DEF Trigger, Front, Rear, Side, Place, FrontGroup
  <2> QED BY <2>1 DEF IInv, NeverSwapped
<1> QED BY <1>5, <1>6, <1>7, <1>8 DEF IInv

-----------------------------------------------------------------------------
(* What a capture leaves alone, and where it writes.                       *)
LEMMA CapturesEffect ==
  ASSUME TypeOK, NEW l \in Line, NEW e \in Edge, Captures(l, e), Channel(l),
         Captured(l), l \in calibrated => l \notin complete
  PROVE  /\ data' \in [Line -> [Slot -> Capture]]
         /\ next' \in [Line -> Slot] /\ next'[l] < size[l]
         /\ complete' \subseteq Line
         /\ \A k \in Line : k # l =>
              /\ data'[k] = data[k] /\ next'[k] = next[k]
              /\ k \in complete' <=> k \in complete
         /\ \A i \in Slot :
              i < size[l] /\ (l \in complete' \/ i < next'[l]) =>
                data'[l][i].edge = edge[l]
         /\ l \in complete' /\ l \in calibrated =>
              /\ e = "rising"
              /\ l # Center => data'[l][1].group = group
<1>1. /\ data \in [Line -> [Slot -> Capture]] /\ next \in [Line -> Slot]
      /\ complete \subseteq Line /\ group \in Group /\ size \in [Line -> {2, 6}]
  BY DEF TypeOK
<1>2. CASE edge[l] # e
  <2>1. data' = data /\ next' = next /\ complete' = complete
    BY <1>2 DEF Captures
  <2> QED BY <1>1, <2>1 DEF Channel, Captured
<1>3. CASE edge[l] = e
  <2> DEFINE c == [group |-> group, edge |-> e, age |-> 0]
             n == next[l]
             s == size[l]
  <2>1. c \in Capture /\ c.edge = edge[l] /\ c.group = group
    BY <1>1, <1>3, AgeAssumption DEF Capture, Age
  <2>2. /\ data' = [data EXCEPT ![l][n] = c]
        /\ next' = [next EXCEPT ![l] = (n + 1) % s]
        /\ complete' = IF n + 1 = s THEN complete \cup {l} ELSE complete
    BY <1>3 DEF Captures
  <2>3. n \in Slot /\ s \in {2, 6} /\ n < s
    BY <1>1 DEF Channel
  <2> HIDE DEF c, n, s
  <2>4. (n + 1) % s \in Slot /\ (n + 1) % s < s
        /\ (n + 1 = s => (n + 1) % s = 0)
        /\ (n + 1 # s => (n + 1) % s = n + 1)
    BY <2>3 DEF Slot
  <2>5. next' \in [Line -> Slot] /\ next'[l] = (n + 1) % s
    BY <1>1, <2>2, <2>4
  <2>6. /\ data' \in [Line -> [Slot -> Capture]]
        /\ \A i \in Slot : data'[l][i] = IF i = n THEN c ELSE data[l][i]
    BY <1>1, <2>1, <2>2, <2>3
  <2>7. ASSUME NEW k \in Line, k # l
        PROVE  /\ data'[k] = data[k] /\ next'[k] = next[k]
               /\ k \in complete' <=> k \in complete
    BY <1>1, <2>2, <2>7
  <2>8. ASSUME NEW i \in Slot, i < s, l \in complete' \/ i < next'[l]
        PROVE  data'[l][i].edge = edge[l]
    <3>1. CASE i = n
      BY <2>1, <2>6, <3>1
    <3>2. CASE i # n
      <4>1. l \in complete \/ i < n
        BY <2>2, <2>3, <2>4, <2>5, <2>8, <3>2 DEF Slot
      <4>2. data[l][i].edge = edge[l]
        BY <2>8, <4>1 DEF Captured, n, s
      <4> QED BY <2>6, <3>2, <4>2
    <3> QED BY <3>1, <3>2
  <2>9. ASSUME l \in complete', l \in calibrated
        PROVE  /\ e = "rising"
               /\ l # Center => data'[l][1].group = group
    <3>1. e = "rising"
      BY <1>3, <2>9 DEF Channel
    <3>2. n + 1 = s
      BY <2>2, <2>9
    <3>3. l # Center => n = 1
      BY <2>3, <2>9, <3>2 DEF Channel, Slot, s
    <3>4. 1 \in Slot
      BY DEF Slot
    <3> QED BY <2>1, <2>6, <3>1, <3>3, <3>4
  <2>10. complete' \subseteq Line
    BY <1>1, <2>2
  <2>11. next'[l] < s
    BY <2>4, <2>5
  <2> QED BY <2>5, <2>6, <2>7, <2>8, <2>9, <2>10, <2>11 DEF s
<1> QED BY <1>2, <1>3

(* A pulse begins or ends on a line.                                       *)
LEMMA PulseInv ==
  ASSUME IInv, NEW l \in Line, PulseBegins(l) \/ PulseEnds(l)
  PROVE  IInv'
<1>1. TypeOK /\ LineInv(l)
  BY DEF IInv
<1>2. PICK e \in Edge :
        /\ Captures(l, e)
        /\ e = "rising" => pulse'[l] = "over"
        /\ pulse' \in [Line -> {"none", "due", "begun", "over"}]
        /\ \A k \in Line : k # l => pulse'[k] = pulse[k]
  <2>1. pulse \in [Line -> {"none", "due", "begun", "over"}]
    BY <1>1 DEF TypeOK
  <2>2. "falling" \in Edge /\ "rising" \in Edge
    BY DEF Edge
  <2>3. CASE PulseBegins(l)
    BY <2>1, <2>2, <2>3 DEF PulseBegins
  <2>4. CASE PulseEnds(l)
    BY <2>1, <2>2, <2>4 DEF PulseEnds
  <2> QED BY <2>3, <2>4
<1>3. /\ group' = group /\ counter_trig' = counter_trig /\ first' = first
      /\ edge' = edge /\ size' = size /\ answered' = answered
      /\ calibrated' = calibrated /\ changeState' = changeState
      /\ f_dma' = f_dma /\ r_dma' = r_dma /\ sensors' = sensors
  BY DEF PulseBegins, PulseEnds, handler
<1>4. l \in calibrated => l \notin complete
  <2>1. pulse[l] # "over"
    BY DEF PulseBegins, PulseEnds
  <2> QED BY <1>1, <2>1 DEF LineInv, LastIsPresent
<1>5. /\ data' \in [Line -> [Slot -> Capture]]
      /\ next' \in [Line -> Slot] /\ next'[l] < size[l]
      /\ complete' \subseteq Line
      /\ \A k \in Line : k # l =>
           /\ data'[k] = data[k] /\ next'[k] = next[k]
           /\ k \in complete' <=> k \in complete
      /\ \A i \in Slot :
           i < size[l] /\ (l \in complete' \/ i < next'[l]) =>
             data'[l][i].edge = edge[l]
      /\ l \in complete' /\ l \in calibrated =>
           /\ e = "rising"
           /\ l # Center => data'[l][1].group = group
  BY <1>1, <1>2, <1>4, CapturesEffect DEF LineInv
<1>6. TypeOK'
  BY <1>1, <1>2, <1>3, <1>5 DEF TypeOK
<1>7. GroupByParity' /\ NeverSwapped'
  BY <1>3 DEF IInv, GroupByParity, NeverSwapped, Front, Rear, FrontGroup
<1>8. ASSUME NEW k \in Line PROVE LineInv(k)'
  <2>1. LineInv(k)
    BY DEF IInv
  <2>2. IndexByParity(k)' /\ Edges(k)'
    BY <1>3, <2>1 DEF LineInv, IndexByParity, Edges
  <2>3. CASE k # l
    BY <1>2, <1>3, <1>5, <2>1, <2>2, <2>3
       DEF LineInv, Channel, Captured, LastIsPresent
  <2>4. CASE k = l
    <3>1. Channel(l)'
      BY <1>3, <1>5, <2>1, <2>4 DEF LineInv, Channel
    <3>2. Captured(l)'
      BY <1>3, <1>5 DEF Captured
    <3>3. LastIsPresent(l)'
      BY <1>2, <1>3, <1>5 DEF LastIsPresent
    <3> QED BY <2>2, <2>4, <3>1, <3>2, <3>3 DEF LineInv
  <2> QED BY <2>3, <2>4
<1> QED BY <1>6, <1>7, <1>8 DEF IInv

-----------------------------------------------------------------------------
(* The handler of a line disturbs no other one.                            *)
LEMMA OtherLines ==
  ASSUME NEW l \in Line, DMA1_IRQHandler(l), NEW k \in Line, k # l, LineInv(k),
         edge'[k] = edge[k], size'[k] = size[k], next'[k] = next[k],
         k \in calibrated' <=> k \in calibrated,
         changeState'[k] = changeState[k],
         f_dma'[k] = f_dma[k], r_dma'[k] = r_dma[k],
         sensors'[k] = sensors[k]
  PROVE  LineInv(k)'
<1>1. /\ data' = data /\ pulse' = pulse /\ group' = group
      /\ k \in complete' <=> k \in complete
  BY DEF DMA1_IRQHandler
<1> QED BY <1>1
        DEF LineInv, IndexByParity, Channel, Captured, LastIsPresent, Edges

(* A handler sets one field of one reading.                                *)
PutFalling(s, l, p, c) == [s EXCEPT ![l][p].falling = c]

(* It changes that reading only, and that field of it only.                *)
LEMMA PutFallingEffect ==
  ASSUME NEW s \in [Line -> [Place -> Reading]], NEW l \in Line,
         NEW p \in Place, NEW c \in Capture
  PROVE  LET t == PutFalling(s, l, p, c)
         IN  /\ t \in [Line -> [Place -> Reading]]
             /\ \A k \in Line : k # l => t[k] = s[k]
             /\ \A q \in Place : q # p => t[l][q] = s[l][q]
             /\ t[l][p].falling = c /\ t[l][p].rising = s[l][p].rising
<1> DEFINE reading == [s[l][p] EXCEPT !.falling = c]
           row == [s[l] EXCEPT ![p] = reading]
<1>1. /\ reading \in Reading
      /\ reading.falling = c /\ reading.rising = s[l][p].rising
  BY DEF Reading
<1>2. PutFalling(s, l, p, c) = [s EXCEPT ![l] = row]
  BY DEF PutFalling
<1> HIDE DEF reading
<1>3. row \in [Place -> Reading] /\ row[p] = reading
      /\ \A q \in Place : q # p => row[q] = s[l][q]
  BY <1>1
<1> HIDE DEF row
<1> QED BY <1>1, <1>2, <1>3

(* The same for the other field.                                           *)
PutRising(s, l, p, c) == [s EXCEPT ![l][p].rising = c]

(* Likewise.                                                               *)
LEMMA PutRisingEffect ==
  ASSUME NEW s \in [Line -> [Place -> Reading]], NEW l \in Line,
         NEW p \in Place, NEW c \in Capture
  PROVE  LET t == PutRising(s, l, p, c)
         IN  /\ t \in [Line -> [Place -> Reading]]
             /\ \A k \in Line : k # l => t[k] = s[k]
             /\ \A q \in Place : q # p => t[l][q] = s[l][q]
             /\ t[l][p].rising = c /\ t[l][p].falling = s[l][p].falling
<1> DEFINE reading == [s[l][p] EXCEPT !.rising = c]
           row == [s[l] EXCEPT ![p] = reading]
<1>1. /\ reading \in Reading
      /\ reading.rising = c /\ reading.falling = s[l][p].falling
  BY DEF Reading
<1>2. PutRising(s, l, p, c) = [s EXCEPT ![l] = row]
  BY DEF PutRising
<1> HIDE DEF reading
<1>3. row \in [Place -> Reading] /\ row[p] = reading
      /\ \A q \in Place : q # p => row[q] = s[l][q]
  BY <1>1
<1> HIDE DEF row
<1> QED BY <1>1, <1>2, <1>3

(* The first full buffer of a line.                                        *)
LEMMA CalibrateInv ==
  ASSUME IInv, NEW l \in Line, DMA1_IRQHandler(l), Calibrate(l)
  PROVE  IInv'
<1>1. TypeOK /\ LineInv(l) /\ l \in complete /\ l \notin calibrated
  BY DEF IInv, DMA1_IRQHandler, Calibrate
<1>2. /\ group' = group /\ counter_trig' = counter_trig /\ first' = first
      /\ pulse' = pulse /\ data' = data /\ answered' = answered
      /\ complete' = complete \ {l}
      /\ changeState' = changeState /\ f_dma' = f_dma /\ r_dma' = r_dma
      /\ calibrated' = calibrated \cup {l}
      /\ edge' = [edge EXCEPT ![l] = "rising"]
      /\ next' = [next EXCEPT ![l] = 0]
      /\ size' = [size EXCEPT ![l] = IF l = Center THEN size[l] ELSE 2]
      /\ sensors' = [sensors EXCEPT ![l].front.falling = data[l][4],
                                    ![l].rear.falling = data[l][5]]
  BY DEF DMA1_IRQHandler, Calibrate, Restart
<1>3. /\ edge' \in [Line -> Edge] /\ next' \in [Line -> Slot]
      /\ size' \in [Line -> {2, 6}]
      /\ edge'[l] = "rising" /\ next'[l] = 0
      /\ size'[l] = (IF l = Center THEN size[l] ELSE 2)
      /\ \A k \in Line : k # l =>
           edge'[k] = edge[k] /\ next'[k] = next[k] /\ size'[k] = size[k]
  BY <1>1, <1>2 DEF TypeOK, Edge, Slot
<1>4. /\ data[l][4] \in Capture /\ data[l][4].edge = "falling"
      /\ data[l][5] \in Capture /\ data[l][5].edge = "falling"
  <2>1. 4 \in Slot /\ 5 \in Slot /\ 4 < 6 /\ 5 < 6
    BY DEF Slot
  <2>2. size[l] = 6 /\ edge[l] = "falling"
    BY <1>1 DEF LineInv, Channel
  <2> QED BY <1>1, <2>1, <2>2 DEF LineInv, Captured, TypeOK
<1>5. /\ sensors' \in [Line -> [Place -> Reading]]
      /\ \A k \in Line : k # l => sensors'[k] = sensors[k]
      /\ \A p \in Place :
           /\ sensors'[l][p].falling.edge = "falling"
           /\ sensors'[l][p].rising = sensors[l][p].rising
  <2> DEFINE half == PutFalling(sensors, l, "front", data[l][4])
  <2>1. sensors \in [Line -> [Place -> Reading]]
        /\ "front" \in Place /\ "rear" \in Place
    BY <1>1 DEF TypeOK, Place
  <2>2. /\ half \in [Line -> [Place -> Reading]]
        /\ \A k \in Line : k # l => half[k] = sensors[k]
        /\ \A q \in Place : q # "front" => half[l][q] = sensors[l][q]
        /\ half[l]["front"].falling = data[l][4]
        /\ half[l]["front"].rising = sensors[l]["front"].rising
    BY <1>4, <2>1, PutFallingEffect
  <2>3. sensors' = PutFalling(half, l, "rear", data[l][5])
    BY <1>2 DEF PutFalling
  <2> HIDE DEF half
  <2>4. /\ sensors' \in [Line -> [Place -> Reading]]
        /\ \A k \in Line : k # l => sensors'[k] = half[k]
        /\ \A q \in Place : q # "rear" => sensors'[l][q] = half[l][q]
        /\ sensors'[l]["rear"].falling = data[l][5]
        /\ sensors'[l]["rear"].rising = half[l]["rear"].rising
    BY <1>4, <2>1, <2>2, <2>3, PutFallingEffect
  <2> QED BY <1>4, <2>2, <2>4 DEF Place
<1>6. TypeOK'
  BY <1>1, <1>2, <1>3, <1>5 DEF TypeOK
<1>7. GroupByParity'
  BY <1>2 DEF IInv, GroupByParity
<1>8. NeverSwapped'
  BY <1>2, <1>5 DEF IInv, NeverSwapped, Front, Rear, FrontGroup, Place, Side
<1>9. ASSUME NEW k \in Line PROVE LineInv(k)'
  <2>1. CASE k # l
    BY <1>2, <1>3, <1>5, <2>1, OtherLines DEF IInv
  <2>2. CASE k = l
    <3>1. IndexByParity(l)'
      BY <1>1, <1>2 DEF LineInv, IndexByParity
    <3>2. Channel(l)'
      BY <1>1, <1>2, <1>3 DEF Channel, TypeOK
    <3>3. Captured(l)'
      BY <1>2, <1>3 DEF Captured, Slot
    <3>4. LastIsPresent(l)'
      BY <1>2 DEF LastIsPresent
    <3>5. Edges(l)'
      BY <1>1, <1>2, <1>5 DEF LineInv, Edges
    <3> QED BY <2>2, <3>1, <3>2, <3>3, <3>4, <3>5 DEF LineInv
  <2> QED BY <2>1, <2>2
<1> QED BY <1>6, <1>7, <1>8, <1>9 DEF IInv

(* What the handler of every other full buffer does to the readings.       *)
LEMMA ShareEffect ==
  ASSUME IInv, NEW l \in Line, DMA1_IRQHandler(l), Share(l)
  PROVE  /\ f_dma' \in [Line -> Bit] /\ r_dma' \in [Line -> Bit]
         /\ changeState' \in [Line -> Bit]
         /\ \A k \in Line : k # l =>
              /\ f_dma'[k] = f_dma[k] /\ r_dma'[k] = r_dma[k]
              /\ changeState'[k] = changeState[k]
         /\ changeState'[l] = counter_trig
         /\ f_dma'[l] = (IF l = Center THEN 1 - counter_trig ELSE counter_trig)
         /\ r_dma'[l] = 1 - f_dma'[l]
         /\ \A i \in Bit : data[l][i] \in Capture /\ data[l][i].edge = "rising"
         /\ sensors' \in [Line -> [Place -> Reading]]
         /\ \A k \in Line : k # l => sensors'[k] = sensors[k]
         /\ \A p \in Place : sensors'[l][p].falling = sensors[l][p].falling
         /\ sensors'[l].front.rising = data[l][f_dma'[l]]
         /\ sensors'[l].rear.rising = data[l][r_dma'[l]]
<1>1. TypeOK /\ LineInv(l) /\ l \in complete /\ l \in calibrated
  BY DEF IInv, DMA1_IRQHandler, Share
<1> DEFINE f == f_dma'[l]
           r == r_dma'[l]
<1>2. /\ group' = group /\ counter_trig' = counter_trig /\ first' = first
      /\ pulse' = pulse /\ data' = data /\ answered' = answered
      /\ complete' = complete \ {l}
      /\ edge' = edge /\ size' = size /\ next' = next
      /\ calibrated' = calibrated
      /\ FollowParity(l)
      /\ sensors' = [sensors EXCEPT ![l].front.rising = data[l][f],
                                    ![l].rear.rising = data[l][r]]
  BY DEF DMA1_IRQHandler, Share
<1>3. /\ f_dma' \in [Line -> Bit] /\ r_dma' \in [Line -> Bit]
      /\ changeState' \in [Line -> Bit]
      /\ \A k \in Line : k # l =>
           /\ f_dma'[k] = f_dma[k] /\ r_dma'[k] = r_dma[k]
           /\ changeState'[k] = changeState[k]
      /\ changeState'[l] = counter_trig
      /\ f = (IF l = Center THEN 1 - counter_trig ELSE counter_trig)
      /\ r = 1 - f
  BY <1>1, <1>2, ParityFollowed DEF LineInv
<1> HIDE DEF f, r
<1>4. counter_trig \in Bit /\ f \in Bit /\ r \in Bit
  BY <1>1, <1>3 DEF TypeOK, f, r
<1>5. ASSUME NEW i \in Bit
      PROVE  data[l][i] \in Capture /\ data[l][i].edge = "rising"
  <2>1. i \in Slot /\ i < 2
    BY DEF Bit, Slot
  <2>2. size[l] \in {2, 6} /\ edge[l] = "rising"
    BY <1>1 DEF TypeOK, LineInv, Channel
  <2>3. i < size[l]
    BY <2>1, <2>2 DEF Slot
  <2> QED BY <1>1, <2>1, <2>2, <2>3 DEF TypeOK, LineInv, Captured
<1>6. data[l][f] \in Capture /\ data[l][r] \in Capture
  BY <1>4, <1>5
<1>7. /\ sensors' \in [Line -> [Place -> Reading]]
      /\ \A k \in Line : k # l => sensors'[k] = sensors[k]
      /\ \A p \in Place : sensors'[l][p].falling = sensors[l][p].falling
      /\ sensors'[l].front.rising = data[l][f]
      /\ sensors'[l].rear.rising = data[l][r]
  <2> DEFINE half == PutRising(sensors, l, "front", data[l][f])
  <2>1. sensors \in [Line -> [Place -> Reading]]
        /\ "front" \in Place /\ "rear" \in Place
    BY <1>1 DEF TypeOK, Place
  <2>2. /\ half \in [Line -> [Place -> Reading]]
        /\ \A k \in Line : k # l => half[k] = sensors[k]
        /\ \A q \in Place : q # "front" => half[l][q] = sensors[l][q]
        /\ half[l]["front"].rising = data[l][f]
        /\ half[l]["front"].falling = sensors[l]["front"].falling
    BY <1>6, <2>1, PutRisingEffect
  <2>3. sensors' = PutRising(half, l, "rear", data[l][r])
    BY <1>2 DEF PutRising
  <2> HIDE DEF half
  <2>4. /\ sensors' \in [Line -> [Place -> Reading]]
        /\ \A k \in Line : k # l => sensors'[k] = half[k]
        /\ \A q \in Place : q # "rear" => sensors'[l][q] = half[l][q]
        /\ sensors'[l]["rear"].rising = data[l][r]
        /\ sensors'[l]["rear"].falling = half[l]["rear"].falling
    BY <1>6, <2>1, <2>2, <2>3, PutRisingEffect
  <2> QED BY <2>2, <2>4 DEF Place
<1> QED BY <1>3, <1>5, <1>7 DEF f, r

(* Every other full buffer.                                                *)
LEMMA ShareInv ==
  ASSUME IInv, NEW l \in Line, DMA1_IRQHandler(l), Share(l)
  PROVE  IInv'
<1>1. TypeOK /\ LineInv(l) /\ l \in complete /\ l \in calibrated
  BY DEF IInv, DMA1_IRQHandler, Share
<1> DEFINE f == f_dma'[l]
           r == r_dma'[l]
<1>2. /\ group' = group /\ counter_trig' = counter_trig /\ first' = first
      /\ pulse' = pulse /\ data' = data /\ answered' = answered
      /\ complete' = complete \ {l}
      /\ edge' = edge /\ size' = size /\ next' = next
      /\ calibrated' = calibrated
      /\ FollowParity(l)
      /\ sensors' = [sensors EXCEPT ![l].front.rising = data[l][f],
                                    ![l].rear.rising = data[l][r]]
  BY DEF DMA1_IRQHandler, Share
<1>3. /\ f_dma' \in [Line -> Bit] /\ r_dma' \in [Line -> Bit]
      /\ changeState' \in [Line -> Bit]
      /\ \A k \in Line : k # l =>
           /\ f_dma'[k] = f_dma[k] /\ r_dma'[k] = r_dma[k]
           /\ changeState'[k] = changeState[k]
      /\ changeState'[l] = counter_trig
      /\ f = (IF l = Center THEN 1 - counter_trig ELSE counter_trig)
      /\ r = 1 - f
  BY ShareEffect
<1>5. \A i \in Bit : data[l][i] \in Capture /\ data[l][i].edge = "rising"
  BY ShareEffect
<1>7. /\ sensors' \in [Line -> [Place -> Reading]]
      /\ \A k \in Line : k # l => sensors'[k] = sensors[k]
      /\ \A p \in Place : sensors'[l][p].falling = sensors[l][p].falling
      /\ sensors'[l].front.rising = data[l][f]
      /\ sensors'[l].rear.rising = data[l][r]
  BY ShareEffect
<1> HIDE DEF f, r
<1>4. counter_trig \in Bit /\ f \in Bit /\ r \in Bit
  BY <1>1, <1>3 DEF TypeOK, f, r
<1>8. TypeOK'
  BY <1>1, <1>2, <1>3, <1>7 DEF TypeOK
<1>9. GroupByParity'
  BY <1>2 DEF IInv, GroupByParity
<1>10. ASSUME NEW k \in Line PROVE LineInv(k)'
  <2>1. CASE k # l
    BY <1>2, <1>3, <1>7, <2>1, OtherLines DEF IInv
  <2>2. CASE k = l
    <3>1. IndexByParity(l)'
      BY <1>3 DEF IndexByParity, f, r
    <3>2. Channel(l)'
      BY <1>1, <1>2 DEF LineInv, Channel
    <3>3. Captured(l)'
      BY <1>1, <1>2 DEF LineInv, Captured
    <3>4. LastIsPresent(l)'
      BY <1>2 DEF LastIsPresent
    <3>5. Edges(l)'
      BY <1>1, <1>2, <1>4, <1>5, <1>7 DEF LineInv, Edges, Place
    <3> QED BY <2>2, <3>1, <3>2, <3>3, <3>4, <3>5 DEF LineInv
  <2> QED BY <2>1, <2>2
<1>11. NeverSwapped'
  <2>1. ASSUME NEW k \in Side,
               {sensors'[k].front.rising.group, sensors'[k].rear.rising.group}
                 = Group
        PROVE  sensors'[k].front.rising.group = FrontGroup(k)'
    <3>1. FrontGroup(k)' = FrontGroup(k) /\ k \in Line
      BY <1>2 DEF FrontGroup, Side
    <3>2. CASE k # l
      BY <1>7, <2>1, <3>1, <3>2 DEF IInv, NeverSwapped, Front, Rear
    <3>3. CASE k = l
      <4>1. /\ f = counter_trig /\ r = 1 - f
            /\ data[l][1].group = group
            /\ FrontGroup(l) = IF first = 0 THEN "A" ELSE "B"
        BY <1>1, <1>3, <2>1, <3>3 DEF Side, LineInv, LastIsPresent, FrontGroup
      <4>2. {data[l][f].group, data[l][r].group} = {"A", "B"}
        BY <1>7, <2>1, <3>3 DEF Group
      <4>3. group = (IF counter_trig = first THEN "B" ELSE "A")
            /\ first \in Bit
        BY <1>1 DEF IInv, GroupByParity, TypeOK
      <4>4. CASE counter_trig = 1
        BY <1>7, <3>1, <3>3, <4>1, <4>3, <4>4 DEF Bit
      <4>5. CASE counter_trig = 0
        <5>1. data[l][r].group = group
          BY <4>1, <4>5
        <5> QED BY <1>7, <3>1, <3>3, <4>1, <4>2, <4>3, <4>5, <5>1 DEF Bit
      <4> QED BY <1>4, <4>4, <4>5 DEF Bit
    <3> QED BY <3>2, <3>3
  <2> QED BY <2>1 DEF NeverSwapped, Front, Rear
<1> QED BY <1>8, <1>9, <1>10, <1>11 DEF IInv

-----------------------------------------------------------------------------
(* The inductive invariant: the parity decides who gets which capture.     *)
THEOREM Invariance == Spec => []IInv
<1>1. Init => IInv
  BY InitInv
<1>2. IInv /\ [Next]_vars => IInv'
  <2> SUFFICES ASSUME IInv, [Next]_vars PROVE IInv'
    OBVIOUS
  <2>1. CASE Trigger
    BY <2>1, TriggerInv
  <2>2. ASSUME NEW l \in Line, PulseBegins(l) \/ PulseEnds(l)
        PROVE  IInv'
    BY <2>2, PulseInv
  <2>3. ASSUME NEW l \in Line, DMA1_IRQHandler(l)
        PROVE  IInv'
    <3>1. Calibrate(l) \/ Share(l)
      BY <2>3 DEF DMA1_IRQHandler
    <3> QED BY <2>3, <3>1, CalibrateInv, ShareInv
  <2>4. CASE UNCHANGED vars
    BY <2>4 DEF vars, dma, handler, IInv, TypeOK, GroupByParity, LineInv,
                IndexByParity, Channel, Captured, LastIsPresent, Edges,
                NeverSwapped, Front, Rear, FrontGroup
  <2> QED BY <2>1, <2>2, <2>3, <2>4 DEF Next
<1> QED BY <1>1, <1>2, PTL DEF Spec

(* Every variable keeps its type and every index stays in its buffer.      *)
THEOREM TypeCorrectness == Spec => []TypeOK
<1>1. IInv => TypeOK
  BY DEF IInv
<1> QED BY <1>1, Invariance, PTL

(* Missed echoes never make front and rear trade places.                   *)
THEOREM FrontStaysFront == Spec => []NeverSwapped
<1>1. IInv => NeverSwapped
  BY DEF IInv
<1> QED BY <1>1, Invariance, PTL

(* Every distance is an end of a pulse minus a start.                      *)
THEOREM DistanceHasBothEdges == Spec => []EndMinusStart
<1>1. IInv => EndMinusStart
  BY DEF IInv, LineInv, Edges, EndMinusStart
<1> QED BY <1>1, Invariance, PTL

-----------------------------------------------------------------------------
(* How old the readings of a side line are.  The two captures of a full    *)
(* buffer are those of the last two echoes, and from one full buffer to    *)
(* the next no more than two periods pass when no echo is missed.          *)

Waiting(l) == pulse[l] \in {"due", "begun"}

(* The capture before the one that is to come, or that completed the       *)
(* buffer.                                                                 *)
Previous(l) == data[l][0].group = Other(group) /\ data[l][0].age <= 1

Echoes(l) ==
  /\ answered[l] >= 1 => pulse[l] # "none"
  /\ l \in calibrated =>
       /\ next[l] = 1 /\ pulse[l] = "over" =>
            data[l][0].group = group /\ data[l][0].age = 0
       /\ next[l] = 1 /\ Waiting(l) /\ answered[l] >= 2 => Previous(l)
       /\ l \in complete => next[l] = 0 /\ data[l][1].age = 0
       /\ l \in complete /\ answered[l] >= 2 => Previous(l)

Reads(l, n) ==
  /\ Front(l).rising.group = FrontGroup(l)
  /\ Rear(l).rising.group = Other(FrontGroup(l))
  /\ Front(l).rising.age <= n /\ Rear(l).rising.age <= n

(* From the handler of a full buffer to that of the next one.              *)
Recent(l) ==
  l \in calibrated \ complete /\ Front(l).rising.group # "none" =>
    /\ next[l] = 0 /\ pulse[l] = "over" /\ answered[l] >= 2 => Reads(l, 1)
    /\ next[l] = 0 /\ Waiting(l) /\ answered[l] >= 3 => Reads(l, 2)
    /\ next[l] = 1 /\ pulse[l] = "over" /\ answered[l] >= 3 => Reads(l, 2)
    /\ next[l] = 1 /\ Waiting(l) /\ answered[l] >= 4 => Reads(l, 3)

AgeInv == \A l \in Side : Echoes(l) /\ Recent(l)

(* A capture grows older by a period at most.                              *)
LEMMA OlderAge ==
  ASSUME NEW c \in Capture
  PROVE  c.age \in Nat /\ Older(c).age \in Nat /\ Older(c).age <= c.age + 1
<1>1. c.age \in Nat /\ c.age <= MaxAge /\ MaxAge \in Nat
  BY AgeAssumption DEF Capture, Age
<1> QED BY <1>1 DEF Older, Capture

(* What the types say of one side line.                                    *)
LEMMA SideTypes ==
  ASSUME IInv, NEW l \in Side
  PROVE  /\ l \in Line /\ l # Center
         /\ next[l] \in 0 .. 5 /\ (l \in calibrated => next[l] \in {0, 1})
         /\ answered[l] \in 0 .. 4
         /\ pulse[l] \in {"none", "due", "begun", "over"}
         /\ data[l][0] \in Capture /\ data[l][1] \in Capture
         /\ Front(l).rising \in Capture /\ Rear(l).rising \in Capture
         /\ group \in Group
<1>1. l \in Line /\ l # Center /\ TypeOK /\ Channel(l)
  BY DEF Side, IInv, LineInv
<1>2. 0 \in Slot /\ 1 \in Slot /\ "front" \in Place /\ "rear" \in Place
  BY DEF Slot, Place
<1>3. next[l] \in 0 .. 5 /\ answered[l] \in 0 .. 4
  BY <1>1 DEF TypeOK, Slot, Settled
<1>4. l \in calibrated => next[l] \in {0, 1}
  BY <1>1, <1>3 DEF Channel
<1> QED BY <1>1, <1>2, <1>3, <1>4 DEF TypeOK, Front, Rear, Reading

(* A period passes: everything is one period older, and the echo of the    *)
(* period before is over or was missed.                                    *)
LEMMA TriggerRecent ==
  ASSUME IInv, Trigger, NEW l \in Side, Echoes(l), Recent(l)
  PROVE  Echoes(l)' /\ Recent(l)'
<1>1. /\ l \in Line /\ l # Center
      /\ l \in calibrated => next[l] \in {0, 1}
      /\ answered[l] \in 0 .. 4
      /\ pulse[l] \in {"none", "due", "begun", "over"}
      /\ data[l][0] \in Capture
      /\ Front(l).rising \in Capture /\ Rear(l).rising \in Capture
      /\ group \in Group
  BY SideTypes
<1>2. /\ ~Waiting(l) /\ complete = {} /\ complete' = {}
      /\ next' = next /\ calibrated' = calibrated /\ first' = first
      /\ group' = Other(group)
  BY <1>1 DEF Trigger, Waiting
<1>3. \/ pulse'[l] = "none" /\ answered'[l] = 0
      \/ pulse'[l] = "due" /\ answered'[l] \in {answered[l] + 1, 4}
                           /\ answered'[l] <= answered[l] + 1
  BY <1>1 DEF Trigger, Settled
<1>4. 0 \in Slot /\ "front" \in Place /\ "rear" \in Place
  BY DEF Slot, Place
<1>5. /\ data'[l][0] = Older(data[l][0])
      /\ Front(l)'.rising = Older(Front(l).rising)
      /\ Rear(l)'.rising = Older(Rear(l).rising)
  BY <1>1, <1>4 DEF Trigger, Front, Rear
<1>6. /\ data'[l][0].group = data[l][0].group
      /\ data[l][0].age \in Nat /\ data'[l][0].age \in Nat
      /\ data'[l][0].age <= data[l][0].age + 1
  BY <1>1, <1>5, OlderKeeps, OlderAge
<1>7. /\ Front(l)'.rising.group = Front(l).rising.group
      /\ Front(l).rising.age \in Nat /\ Front(l)'.rising.age \in Nat
      /\ Front(l)'.rising.age <= Front(l).rising.age + 1
      /\ Rear(l)'.rising.group = Rear(l).rising.group
      /\ Rear(l).rising.age \in Nat /\ Rear(l)'.rising.age \in Nat
      /\ Rear(l)'.rising.age <= Rear(l).rising.age + 1
  BY <1>1, <1>5, OlderKeeps, OlderAge
<1>8. answered'[l] >= 2 => pulse[l] = "over"
  BY <1>1, <1>2, <1>3 DEF Echoes, Waiting
<1>9. Echoes(l)'
  <2>1. answered'[l] >= 1 => pulse'[l] # "none"
    BY <1>3
  <2>2. ASSUME l \in calibrated, next[l] = 1, answered'[l] >= 2
        PROVE  data'[l][0].group = Other(group') /\ data'[l][0].age <= 1
    <3>1. data[l][0].group = group /\ data[l][0].age = 0
      BY <1>8, <2>2 DEF Echoes
    <3>2. Other(Other(group)) = group
      BY <1>1 DEF Group, Other
    <3> QED BY <1>2, <1>6, <3>1, <3>2
  <2>3. pulse'[l] # "over" /\ l \notin complete'
    BY <1>2, <1>3
  <2> QED BY <1>2, <2>1, <2>2, <2>3 DEF Echoes, Previous
<1>10. ASSUME NEW n \in Nat, NEW m \in Nat, m = n + 1, Reads(l, n)
       PROVE  Reads(l, m)'
  BY <1>2, <1>7, <1>10 DEF Reads, FrontGroup
<1>11. Recent(l)'
  <2> SUFFICES ASSUME l \in calibrated, Front(l).rising.group # "none"
               PROVE  /\ next[l] = 0 /\ answered'[l] >= 3 => Reads(l, 2)'
                      /\ next[l] = 1 /\ answered'[l] >= 4 => Reads(l, 3)'
    BY <1>2, <1>3, <1>7 DEF Recent
  <2>1. answered'[l] >= 3 => answered[l] >= 2 /\ pulse[l] = "over"
    BY <1>1, <1>3, <1>8
  <2>2. answered'[l] >= 4 => answered[l] >= 3 /\ pulse[l] = "over"
    BY <1>1, <1>3, <1>8
  <2>3. next[l] = 0 /\ answered'[l] >= 3 => Reads(l, 1)
    BY <1>2, <2>1 DEF Recent
  <2>4. next[l] = 1 /\ answered'[l] >= 4 => Reads(l, 2)
    BY <1>2, <2>2 DEF Recent
  <2> QED BY <1>10, <2>3, <2>4
<1> QED BY <1>9, <1>11

(* An edge of an echo: the end of the pulse is captured when the line is   *)
(* calibrated, the start is not.                                           *)
LEMMA PulseRecent ==
  ASSUME IInv, NEW k \in Line, PulseBegins(k) \/ PulseEnds(k),
         NEW l \in Side, Echoes(l), Recent(l)
  PROVE  Echoes(l)' /\ Recent(l)'
<1>1. /\ l \in Line /\ l # Center
      /\ next[l] \in 0 .. 5 /\ (l \in calibrated => next[l] \in {0, 1})
      /\ answered[l] \in 0 .. 4
      /\ pulse[l] \in {"none", "due", "begun", "over"}
      /\ group \in Group
  BY SideTypes
<1>2. TypeOK /\ Channel(l) /\ LastIsPresent(l)
  BY <1>1 DEF IInv, LineInv
<1>3. /\ calibrated' = calibrated /\ answered' = answered /\ group' = group
      /\ first' = first /\ sensors' = sensors
  BY DEF PulseBegins, PulseEnds, handler
<1>4. ASSUME NEW n PROVE Reads(l, n)' <=> Reads(l, n)
  BY <1>3 DEF Reads, Front, Rear, FrontGroup
<1>5. CASE k # l
  <2>1. /\ pulse'[l] = pulse[l] /\ data'[l] = data[l] /\ next'[l] = next[l]
        /\ l \in complete' <=> l \in complete
    BY <1>1, <1>2, <1>5 DEF PulseBegins, PulseEnds, Captures, TypeOK
  <2> QED BY <1>3, <1>4, <2>1 DEF Echoes, Recent, Previous, Waiting, Front
<1>6. CASE l \notin calibrated
  <2>1. pulse'[l] \in {pulse[l], "begun", "over"}
    BY <1>1, <1>2 DEF PulseBegins, PulseEnds, TypeOK
  <2> QED BY <1>3, <1>6, <2>1 DEF Echoes, Recent
<1>7. CASE k = l /\ PulseBegins(l) /\ l \in calibrated
  <2>1. pulse[l] = "due" /\ pulse'[l] = "begun"
    BY <1>1, <1>2, <1>7 DEF PulseBegins, TypeOK
  <2>2. data' = data /\ next' = next /\ complete' = complete
    BY <1>2, <1>7 DEF PulseBegins, Captures, Channel
  <2> QED BY <1>3, <1>4, <2>1, <2>2 DEF Echoes, Recent, Previous, Waiting, Front
<1>8. CASE k = l /\ PulseEnds(l) /\ l \in calibrated
  <2> DEFINE c == [group |-> group, edge |-> "rising", age |-> 0]
  <2>1. pulse[l] = "begun" /\ pulse'[l] = "over" /\ l \notin complete
    BY <1>1, <1>2, <1>8 DEF PulseEnds, TypeOK, LastIsPresent
  <2>2. size[l] = 2 /\ edge[l] = "rising"
    BY <1>1, <1>2, <1>8 DEF Channel
  <2>3. /\ data' = [data EXCEPT ![l][next[l]] = c]
        /\ next' = [next EXCEPT ![l] = (next[l] + 1) % 2]
        /\ complete' = IF next[l] + 1 = 2 THEN complete \cup {l} ELSE complete
    BY <1>8, <2>2 DEF PulseEnds, Captures
  <2> HIDE DEF c
  <2>4. CASE next[l] = 0
    <3>1. (0 + 1) % 2 = 1 /\ 0 \in Slot
      BY DEF Slot
    <3>2. next'[l] = 1 /\ l \notin complete' /\ data'[l][0] = c
      BY <1>1, <1>2, <2>1, <2>3, <2>4, <3>1 DEF TypeOK
    <3>3. c.group = group /\ c.age = 0
      BY DEF c
    <3>4. Echoes(l)'
      BY <1>3, <2>1, <3>2, <3>3 DEF Echoes, Waiting
    <3> QED BY <1>3, <1>4, <1>8, <2>1, <2>4, <3>2, <3>4 DEF Recent, Waiting, Front
  <2>5. CASE next[l] = 1
    <3>1. (1 + 1) % 2 = 0 /\ 0 \in Slot /\ 1 \in Slot
      BY DEF Slot
    <3>2. /\ next'[l] = 0 /\ l \in complete'
          /\ data'[l][1] = c /\ data'[l][0] = data[l][0]
      BY <1>1, <1>2, <2>3, <2>5, <3>1 DEF TypeOK
    <3>3. c.age = 0
      BY DEF c
    <3>4. answered[l] >= 2 => Previous(l)'
      BY <1>3, <1>8, <2>1, <2>5, <3>2 DEF Echoes, Waiting, Previous
    <3>5. Echoes(l)'
      BY <1>3, <2>1, <3>2, <3>3, <3>4 DEF Echoes
    <3> QED BY <3>2, <3>5 DEF Recent
  <2> QED BY <1>1, <1>8, <2>4, <2>5
<1> QED BY <1>5, <1>6, <1>7, <1>8

(* A handler: the readings of a calibrated line become the captures of the *)
(* present period and the one before.                                      *)
LEMMA HandlerRecent ==
  ASSUME IInv, NEW k \in Line, DMA1_IRQHandler(k),
         NEW l \in Side, Echoes(l), Recent(l)
  PROVE  Echoes(l)' /\ Recent(l)'
<1>1. /\ l \in Line /\ l # Center
      /\ pulse[l] \in {"none", "due", "begun", "over"}
      /\ group \in Group
  BY SideTypes
<1>2. TypeOK /\ LineInv(l)
  BY <1>1 DEF IInv
<1>3. /\ group' = group /\ counter_trig' = counter_trig /\ first' = first
      /\ pulse' = pulse /\ data' = data /\ answered' = answered
      /\ complete' = complete \ {k}
  BY DEF DMA1_IRQHandler
<1>4. CASE k # l
  <2>1. /\ next'[l] = next[l] /\ sensors'[l] = sensors[l]
        /\ l \in calibrated' <=> l \in calibrated
    <3>1. CASE Calibrate(k)
      BY <1>1, <1>2, <1>4, <3>1 DEF Calibrate, Restart, TypeOK
    <3>2. CASE Share(k)
      BY <1>1, <1>4, <3>2, ShareEffect DEF Share
    <3> QED BY <3>1, <3>2 DEF DMA1_IRQHandler
  <2>2. ASSUME NEW n PROVE Reads(l, n)' <=> Reads(l, n)
    BY <1>3, <2>1 DEF Reads, Front, Rear, FrontGroup
  <2> QED BY <1>3, <1>4, <2>1, <2>2 DEF Echoes, Recent, Previous, Waiting, Front
<1>5. CASE k = l /\ Calibrate(l)
  <2>1. next'[l] = 0 /\ l \notin complete'
    BY <1>2, <1>3, <1>5 DEF Calibrate, Restart, TypeOK
  <2>2. Front(l)'.rising = Front(l).rising
    BY <1>1, <1>2, <1>5 DEF Calibrate, Front, TypeOK, Place, Reading
  <2>3. Front(l).rising.group = "none"
    BY <1>2, <1>5 DEF LineInv, Edges, Front, Calibrate, Place
  <2> QED BY <1>3, <2>1, <2>2, <2>3 DEF Echoes, Recent
<1>6. CASE k = l /\ Share(l)
  <2>1. l \in complete /\ l \in calibrated /\ l \notin complete'
        /\ next'[l] = next[l] /\ calibrated' = calibrated
    BY <1>3, <1>6 DEF DMA1_IRQHandler, Share
  <2>2. /\ next[l] = 0 /\ data[l][1].age = 0 /\ pulse[l] = "over"
        /\ data[l][1].group = group
        /\ answered[l] >= 2 => Previous(l)
    BY <1>1, <1>2, <2>1 DEF Echoes, LineInv, LastIsPresent
  <2>3. /\ Front(l)'.rising = data[l][counter_trig]
        /\ Rear(l)'.rising = data[l][1 - counter_trig]
        /\ counter_trig \in {0, 1}
        /\ data[l][0].age \in Nat /\ data[l][1].age \in Nat
    <3>1. counter_trig \in Bit /\ 0 \in Bit /\ 1 \in Bit
      BY <1>2 DEF TypeOK, Bit
    <3>2. data[l][0].age \in Nat /\ data[l][1].age \in Nat
      BY <1>6, <3>1, ShareEffect, OlderAge
    <3>3. /\ f_dma'[l] = counter_trig /\ r_dma'[l] = 1 - counter_trig
          /\ sensors'[l].front.rising = data[l][f_dma'[l]]
          /\ sensors'[l].rear.rising = data[l][r_dma'[l]]
      BY <1>1, <1>6, ShareEffect
    <3> QED BY <3>1, <3>2, <3>3 DEF Front, Rear, Bit
  <2>4. ASSUME answered[l] >= 2 PROVE Reads(l, 1)'
    <3>1. /\ data[l][0].group = Other(group) /\ data[l][0].age <= 1
          /\ data[l][1].group = group /\ data[l][1].age <= 1
      BY <2>2, <2>4 DEF Previous
    <3>2. FrontGroup(l)' = (IF counter_trig = 1 THEN group ELSE Other(group))
      <4>1. /\ group = (IF counter_trig = first THEN "B" ELSE "A")
            /\ first \in {0, 1}
        BY <1>2 DEF IInv, GroupByParity, TypeOK, Bit
      <4> QED BY <1>1, <1>3, <2>3, <4>1 DEF FrontGroup, Other
    <3>3. Other(Other(group)) = group
      BY <1>1 DEF Group, Other
    <3>4. CASE counter_trig = 1
      BY <2>3, <3>1, <3>2, <3>4 DEF Reads
    <3>5. CASE counter_trig = 0
      BY <2>3, <3>1, <3>2, <3>3, <3>5 DEF Reads
    <3> QED BY <2>3, <3>4, <3>5
  <2> QED BY <1>3, <2>1, <2>2, <2>4 DEF Echoes, Recent, Waiting
<1> QED BY <1>4, <1>5, <1>6 DEF DMA1_IRQHandler

(* After a missed echo and four that came, both sensors of a side line     *)
(* have a reading of their own that is at most three periods old.          *)
THEOREM MissesAreForgotten == Spec => []MissIsForgotten
<1>1. Init => AgeInv
  <2> SUFFICES ASSUME Init, NEW l \in Side PROVE Echoes(l) /\ Recent(l)
    BY DEF AgeInv
  <2> QED BY DEF Init, Side, Echoes, Recent
<1>2. IInv /\ AgeInv /\ [Next]_vars => AgeInv'
  <2> SUFFICES ASSUME IInv, [Next]_vars, NEW l \in Side, Echoes(l), Recent(l)
               PROVE  Echoes(l)' /\ Recent(l)'
    BY DEF AgeInv, Side
  <2>1. CASE Trigger
    BY <2>1, TriggerRecent
  <2>2. ASSUME NEW k \in Line, PulseBegins(k) \/ PulseEnds(k)
        PROVE  Echoes(l)' /\ Recent(l)'
    BY <2>2, PulseRecent
  <2>3. ASSUME NEW k \in Line, DMA1_IRQHandler(k)
        PROVE  Echoes(l)' /\ Recent(l)'
    BY <2>3, HandlerRecent
  <2>4. CASE UNCHANGED vars
    BY <2>4 DEF vars, dma, handler, Echoes, Recent, Previous, Waiting, Reads,
                Front, Rear, FrontGroup
  <2> QED BY <2>1, <2>2, <2>3, <2>4 DEF Next
<1>3. IInv /\ AgeInv => MissIsForgotten
  <2> SUFFICES ASSUME IInv, NEW l \in Side, Echoes(l), Recent(l),
                      l \in calibrated, l \notin complete, answered[l] = Settled,
                      Front(l).rising.group # "none"
               PROVE  Reads(l, 3)
    BY DEF AgeInv, MissIsForgotten, Fresh, Reads
  <2>1. /\ next[l] \in {0, 1}
        /\ pulse[l] \in {"none", "due", "begun", "over"}
        /\ Front(l).rising.age \in Nat /\ Rear(l).rising.age \in Nat
    BY SideTypes, OlderAge
  <2>2. answered[l] = 4 /\ pulse[l] # "none"
    BY DEF Settled, Echoes
  <2>3. Reads(l, 1) \/ Reads(l, 2) \/ Reads(l, 3)
    BY <2>1, <2>2 DEF Recent, Waiting
  <2> QED BY <2>1, <2>3 DEF Reads
<1> QED BY <1>1, <1>2, <1>3, Invariance, PTL DEF Spec

=============================================================================
