------------------------ MODULE GattDiscoveryProofs -------------------------
(***************************************************************************)
(* The search of a phone through the database of GattServer: however few   *)
(* entries an answer holds, what was found below the cursor is what there  *)
(* is below it, and all that is on its way is the next question or the     *)
(* answer to it.  So a search that ends has found a well-formed database,  *)
(* whatever is in it; and what the program builds is one.                  *)
(***************************************************************************)
EXTENDS GattServerProofs, FiniteSetTheorems, WellFoundedInduction

-----------------------------------------------------------------------------
(* Least and greatest handles: the induction over the naturals is that of  *)
(* the library, for a relation instead of an operator.                     *)

LEMMA LeastOf ==
  ASSUME NEW S \in SUBSET Nat, S # {}
  PROVE  \E m \in S : \A k \in S : m <= k
<1> DEFINE R == {ss \in Nat \X Nat : ss[1] < ss[2]}
<1>1. IsWellFoundedOn(R, Nat)
  BY NatLessThanWellFounded, Zenon DEF OpToRel
<1> HIDE DEF R
<1>2. PICK m \in S : \A k \in S : ~(<<k, m>> \in R)
  BY <1>1, WFMin, Zenon
<1>3. \A k \in S : ~(k < m)
  BY <1>2 DEF R
<1> QED
  BY <1>3

(* The minimum is what its name says, and so is the maximum.               *)
LEMMA Least ==
  ASSUME NEW S \in SUBSET Nat, S # {}
  PROVE  Min(S) \in S /\ \A k \in S : Min(S) <= k
<1>1. \E m \in S : \A k \in S : m <= k
  BY LeastOf
<1> QED
  BY <1>1, Zenon DEF Min

LEMMA Greatest ==
  ASSUME NEW b \in Nat, NEW S \in SUBSET Nat, S # {}, \A k \in S : k <= b
  PROVE  Max(S) \in S /\ \A k \in S : k <= Max(S)
<1> DEFINE T == {b - k : k \in S}
<1>1. \A k \in S : b - k \in Nat
  OBVIOUS
<1>2. T \in SUBSET Nat /\ T # {}
  BY <1>1
<1>3. PICK t \in T : \A j \in T : t <= j
  BY <1>2, LeastOf
<1>4. PICK m \in S : t = b - m
  OBVIOUS
<1>5. \A k \in S : b - m <= b - k
  BY <1>3, <1>4
<1>6. \A k \in S : k <= m
  BY <1>5
<1> HIDE DEF T
<1>7. \E n \in S : \A k \in S : n >= k
  BY <1>6
<1>8. Max(S) \in S /\ \A k \in S : Max(S) >= k
  BY <1>7, Zenon DEF Max
<1> QED
  BY <1>8

-----------------------------------------------------------------------------
(* What one answer holds of what was found: the low end of it, and         *)
(* something if there is something.                                        *)

LowEnd(F, T) ==
  /\ F \subseteq T
  /\ T # {} => F # {}
  /\ \A h \in F, g \in T : g <= h => g \in F

(* The prover is slow with the number itself.                              *)
LEMMA LastHandleIsNat == LastHandle \in Nat
  BY DEF LastHandle

(* The n lowest of some handles are a low end of them.                     *)
LEMMA LowestIsLowEnd ==
  ASSUME NEW T \in SUBSET Nat, \A h \in T : h <= LastHandle, NEW n \in Nat \ {0}
  PROVE  LowEnd(Lowest(T, n), T) /\ (T # {} => Min(T) \in Lowest(T, n))
<1> DEFINE Lower(h) == {g \in T : g < h}
<1>1. IsFiniteSet(T)
  <2>1. IsFiniteSet(0 .. LastHandle)
    <3>1. LastHandle \in Int /\ 0 \in Int
      BY DEF LastHandle
    <3> QED
      BY <3>1, FS_Interval, Zenon
  <2>2. T \subseteq 0 .. LastHandle
    BY LastHandleIsNat
  <2> QED
    BY <2>1, <2>2, FS_Subset, Zenon
<1>2. \A h : IsFiniteSet(Lower(h)) /\ Cardinality(Lower(h)) \in Nat
  <2> TAKE h
  <2>1. Lower(h) \subseteq T
    OBVIOUS
  <2> HIDE DEF Lower
  <2>2. IsFiniteSet(Lower(h))
    BY <1>1, <2>1, FS_Subset, Zenon
  <2> QED
    BY <2>2, FS_CardinalityType, Zenon
<1>3. Lowest(T, n) = {h \in T : Cardinality(Lower(h)) < n}
  BY DEF Lowest
<1>4. ASSUME T # {} PROVE Min(T) \in Lowest(T, n)
  <2>1. Min(T) \in T /\ \A k \in T : Min(T) <= k
    BY <1>4, Least
  <2>2. Min(T) \in Nat /\ T \subseteq Nat
    BY <2>1
  <2>3. \A g \in T : ~(g < Min(T))
    BY <2>2, <2>1
  <2>4. Lower(Min(T)) = {}
    BY <2>3, Zenon
  <2> HIDE DEF Lower
  <2>5. Cardinality(Lower(Min(T))) = 0
    BY <2>4, FS_EmptySet
  <2> QED
    BY <1>3, <2>1, <2>5
<1>5. ASSUME NEW h \in Lowest(T, n), NEW g \in T, g <= h PROVE g \in Lowest(T, n)
  <2>1. h \in T /\ Cardinality(Lower(h)) < n
    BY <1>3, Zenon
  <2>2. \A k \in T : k < g => k < h
    BY <1>5, <2>1
  <2>3. Lower(g) \subseteq Lower(h)
    BY <2>2, Zenon
  <2> HIDE DEF Lower
  <2>4. Cardinality(Lower(g)) <= Cardinality(Lower(h))
    BY <1>2, <2>3, FS_Subset, Zenon
  <2>5. Cardinality(Lower(g)) < n
    BY <1>2, <2>1, <2>4
  <2> QED
    BY <1>3, <2>5
<1>6. Lowest(T, n) \subseteq T
  BY <1>3, Zenon
<1> HIDE DEF Lower
<1> QED
  BY <1>4, <1>5, <1>6, Zenon DEF LowEnd

(* Entries of the same length, that fit into the smallest answer.          *)
LEMMA FittingIsLowEnd ==
  ASSUME NEW T \in SUBSET Nat, \A h \in T : h <= LastHandle, NEW extra \in Nat,
         \A h \in T : /\ Db.attribute[h].len \in Nat
                      /\ Db.attribute[h].len + extra \in 1 .. DefaultLeMtu - 2
  PROVE  LowEnd(Fitting(Db, T, extra, DefaultLeMtu), T)
<1> DEFINE len == Db.attribute[Min(T)].len
           n == (DefaultLeMtu - 2) \div (len + extra)
           Same(h) == \A g \in T : g <= h => Db.attribute[g].len = len
<1>1. Fitting(Db, T, extra, DefaultLeMtu) = {h \in Lowest(T, n) : Same(h)}
  BY DEF Fitting
<1>2. CASE T = {}
  <2>1. Lowest(T, n) = {}
    BY <1>2, Zenon DEF Lowest
  <2> HIDE DEF n, Same
  <2> QED
    BY <1>1, <1>2, <2>1, Zenon DEF LowEnd
<1>3. CASE T # {}
  <2>1. Min(T) \in T /\ \A k \in T : Min(T) <= k
    BY <1>3, Least
  <2>2. n \in Nat \ {0}
    <3>1. \A x \in Int : x \in 1 .. 21 => 21 \div x \in Nat \ {0}
      OBVIOUS
    <3>2. len + extra \in 1 .. 21 /\ len + extra \in Int
      <4>1. len \in Nat /\ len + extra \in 1 .. DefaultLeMtu - 2
        BY <2>1, Zenon
      <4>2. DefaultLeMtu - 2 = 21
        BY DEF DefaultLeMtu
      <4> HIDE DEF len
      <4> QED
        BY <4>1, <4>2
    <3>3. 21 \div (len + extra) \in Nat \ {0}
      BY <3>1, <3>2, Zenon
    <3> QED
      BY <3>3 DEF DefaultLeMtu
  <2>3. Same(Min(T))
    <3> SUFFICES ASSUME NEW g \in T, g <= Min(T) PROVE Db.attribute[g].len = len
      OBVIOUS
    <3>1. g = Min(T)
      <4>1. Min(T) \in Nat /\ g \in Nat /\ Min(T) <= g
        BY <2>1
      <4> QED
        BY <4>1
    <3> QED
      BY <3>1
  <2>4. ASSUME NEW h \in T, NEW g \in T, g <= h, Same(h) PROVE Same(g)
    <3> SUFFICES ASSUME NEW k \in T, k <= g PROVE Db.attribute[k].len = len
      OBVIOUS
    <3>1. k <= h
      BY <2>4
    <3> QED
      BY <2>4, <3>1, Zenon
  <2> HIDE DEF n, Same
  <2>5. LowEnd(Lowest(T, n), T) /\ Min(T) \in Lowest(T, n)
    BY <1>3, <2>2, LowestIsLowEnd
  <2> QED
    BY <1>1, <2>3, <2>4, <2>5, Zenon DEF LowEnd
<1> QED
  BY <1>2, <1>3

-----------------------------------------------------------------------------
(* The services of a database that is well-formed.                         *)

Stages == {"services", "characteristics", "descriptors"}

Starts == OfType(Db, "service")

EndAt(h) == EndHandle(Db.services[Owner(Db, h)])

(* What is found of a handle, which handles are, and where one ends.       *)
Entry(p, h) == IF p = "services" THEN [handle |-> h, end |-> EndAt(h)] ELSE [handle |-> h]

Target(p) ==
  IF p = "services" THEN Starts
  ELSE IF p = "characteristics" THEN OfType(Db, "characteristic")
  ELSE Handles(Db)

Last(p, h) == IF p = "services" THEN EndAt(h) ELSE h

(* Each service has its range, above those of the services before it.      *)
LEMMA Services ==
  /\ \A i \in 1 .. Len(Db.services) :
       /\ Db.services[i].start \in Nat \ {0} /\ EndHandle(Db.services[i]) \in Nat
       /\ Db.services[i].start <= EndHandle(Db.services[i])
       /\ EndHandle(Db.services[i]) <= LastHandle
  /\ \A i, j \in 1 .. Len(Db.services) :
       i < j => EndHandle(Db.services[i]) < Db.services[j].start
  /\ Len(Db.services) \in Nat
<1>1. /\ Db.services \in Seq([start : Nat \ {0}, slots : Nat \ {0}, used : Nat])
      /\ \A i \in 1 .. Len(Db.services) : EndHandle(Db.services[i]) <= LastHandle
      /\ \A i, j \in 1 .. Len(Db.services) :
           i < j => EndHandle(Db.services[i]) < Db.services[j].start
  BY DbAssumption, Zenon DEF WellFormed
<1>2. ASSUME NEW i \in 1 .. Len(Db.services)
      PROVE  /\ Db.services[i].start \in Nat \ {0} /\ EndHandle(Db.services[i]) \in Nat
             /\ Db.services[i].start <= EndHandle(Db.services[i])
  <2>1. Db.services[i] \in [start : Nat \ {0}, slots : Nat \ {0}, used : Nat]
    BY <1>1, ElementOfSeq, Zenon
  <2>2. Db.services[i].start \in Nat \ {0} /\ Db.services[i].slots \in Nat \ {0}
    BY <2>1
  <2> QED
    BY <2>2 DEF EndHandle
<1>3. Len(Db.services) \in Nat
  BY <1>1, LenProperties, Zenon
<1> QED
  BY <1>1, <1>2, <1>3, Zenon

(* The service a handle belongs to is the one whose range it is in.        *)
LEMMA OwnerOf ==
  ASSUME NEW i \in 1 .. Len(Db.services), NEW h \in Nat,
         Db.services[i].start <= h, h <= EndHandle(Db.services[i])
  PROVE  Owner(Db, h) = i
<1> DEFINE Holds(j) == h >= Db.services[j].start /\ h <= EndHandle(Db.services[j])
<1>1. Holds(i)
  <2>1. Db.services[i].start \in Nat
    BY Services
  <2> QED
    BY <2>1
<1>2. ASSUME NEW j \in 1 .. Len(Db.services), Holds(j) PROVE j = i
  <2>1. /\ i \in Nat /\ j \in Nat
        /\ Db.services[i].start \in Nat /\ EndHandle(Db.services[i]) \in Nat
        /\ Db.services[j].start \in Nat /\ EndHandle(Db.services[j]) \in Nat
    BY Services
  <2>2. ~(i < j)
    <3>1. i < j => EndHandle(Db.services[i]) < Db.services[j].start
      BY Services
    <3> QED
      BY <1>2, <2>1, <3>1
  <2>3. ~(j < i)
    <3>1. j < i => EndHandle(Db.services[j]) < Db.services[i].start
      BY Services
    <3> QED
      BY <1>2, <2>1, <3>1
  <2> QED
    BY <2>1, <2>2, <2>3
<1> HIDE DEF Holds
<1>3. (CHOOSE j \in 1 .. Len(Db.services) : Holds(j)) = i
  BY <1>1, <1>2, Zenon
<1> QED
  BY <1>3, Zenon DEF Owner, Holds

(* A service is known by the handle it starts at.                          *)
LEMMA StartOf ==
  /\ \A i \in 1 .. Len(Db.services) :
       /\ Db.services[i].start \in Starts
       /\ EndAt(Db.services[i].start) = EndHandle(Db.services[i])
  /\ \A h \in Starts : \E i \in 1 .. Len(Db.services) : h = Db.services[i].start
<1>1. Starts = {Db.services[i].start : i \in 1 .. Len(Db.services)}
  BY DbAssumption, Zenon DEF WellFormed, Starts
<1>2. ASSUME NEW i \in 1 .. Len(Db.services)
      PROVE  EndAt(Db.services[i].start) = EndHandle(Db.services[i])
  <2>1. Owner(Db, Db.services[i].start) = i
    <3>1. /\ Db.services[i].start \in Nat
          /\ Db.services[i].start <= Db.services[i].start
          /\ Db.services[i].start <= EndHandle(Db.services[i])
      BY Services
    <3> QED
      BY <3>1, OwnerOf, Zenon
  <2> QED
    BY <2>1, Zenon DEF EndAt
<1> QED
  BY <1>1, <1>2, Zenon

(* Starts of services, and the handles between them.                       *)
LEMMA StartFacts ==
  /\ Starts \subseteq Nat \ {0} /\ Starts \subseteq Handles(Db)
  /\ Handles(Db) \subseteq Nat
  /\ \A h \in Starts : EndAt(h) \in Nat /\ h <= EndAt(h) /\ EndAt(h) <= LastHandle
  /\ \A g, h \in Starts : g < h => EndAt(g) < h
  /\ \A h \in Handles(Db) : \E s \in Starts : s <= h /\ h <= EndAt(s)
<1>1. Handles(Db) \subseteq Nat
  BY DbAssumption, Zenon DEF WellFormed
<1>2. Starts \subseteq Handles(Db)
  BY DEF Starts, OfType
<1>3. ASSUME NEW h \in Starts
      PROVE  /\ h \in Nat \ {0} /\ EndAt(h) \in Nat
             /\ h <= EndAt(h) /\ EndAt(h) <= LastHandle
  <2>1. PICK i \in 1 .. Len(Db.services) : h = Db.services[i].start
    BY StartOf
  <2> QED
    BY <2>1, StartOf, Services
<1>4. ASSUME NEW g \in Starts, NEW h \in Starts, g < h PROVE EndAt(g) < h
  <2>1. PICK i \in 1 .. Len(Db.services) : g = Db.services[i].start
    BY StartOf
  <2>2. PICK j \in 1 .. Len(Db.services) : h = Db.services[j].start
    BY StartOf
  <2>3. /\ i \in Nat /\ j \in Nat /\ g \in Nat /\ h \in Nat /\ h <= EndAt(h)
        /\ EndAt(h) \in Nat /\ EndAt(g) \in Nat
    BY <1>3, Services
  <2>4. EndAt(g) = EndHandle(Db.services[i]) /\ EndAt(h) = EndHandle(Db.services[j])
    BY <2>1, <2>2, StartOf, Zenon
  <2>5. i # j
    <3>1. g # h
      BY <1>4, <2>3
    <3> QED
      BY <2>1, <2>2, <3>1, Zenon
  <2>6. ~(j < i)
    <3>1. j < i => EndAt(h) < g
      BY <2>1, <2>4, Services, Zenon
    <3> QED
      BY <1>4, <2>3, <3>1
  <2>7. i < j
    BY <2>3, <2>5, <2>6
  <2> QED
    BY <2>2, <2>4, <2>7, Services, Zenon
<1>5. ASSUME NEW h \in Handles(Db)
      PROVE  \E s \in Starts : s <= h /\ h <= EndAt(s)
  <2>1. PICK i \in 1 .. Len(Db.services) :
          h >= Db.services[i].start /\ h <= EndHandle(Db.services[i])
    BY DbAssumption, Zenon DEF WellFormed
  <2>2. h \in Nat /\ Db.services[i].start \in Nat
    BY <1>1, Services
  <2>3. Db.services[i].start <= h
    BY <2>1, <2>2
  <2> QED
    BY <2>1, <2>3, StartOf, Zenon
<1> QED
  BY <1>1, <1>2, <1>3, <1>4, <1>5, Zenon

(* Targets lie apart: each ends before the next one.                       *)
LEMMA TargetFacts ==
  ASSUME NEW p \in Stages
  PROVE  /\ Target(p) \subseteq Nat \ {0}
         /\ \A h \in Target(p) : Last(p, h) \in Nat /\ h <= Last(p, h)
         /\ \A h \in Target(p) : Last(p, h) <= LastHandle
         /\ \A g, h \in Target(p) : g < h => Last(p, g) < h
         /\ Target(p) \subseteq Handles(Db)
<1>1. CASE p = "services"
  <2>1. Target(p) = Starts /\ \A h : Last(p, h) = EndAt(h)
    BY <1>1, Zenon DEF Target, Last
  <2> QED
    BY <2>1, StartFacts, Zenon
<1>2. CASE p # "services"
  <2>1. Target(p) \subseteq Handles(Db) /\ \A h : Last(p, h) = h
    BY <1>2 DEF Target, Last, OfType
  <2>2. ASSUME NEW h \in Target(p) PROVE h \in Nat \ {0} /\ h <= LastHandle
    <3>1. PICK s \in Starts : s <= h /\ h <= EndAt(s)
      BY <2>1, StartFacts
    <3>2. /\ h \in Nat /\ s \in Nat \ {0} /\ EndAt(s) \in Nat /\ EndAt(s) <= LastHandle
      BY <2>1, StartFacts
    <3> QED
      BY <3>1, <3>2, LastHandleIsNat
  <2> QED
    BY <2>1, <2>2
<1> QED
  BY <1>1, <1>2

-----------------------------------------------------------------------------
(* How far an answer takes the search of a range.                          *)

(* Where some of them end; which are in a range; which come before it.     *)
Lasts(p, S) == {Last(p, h) : h \in S}

Within(p, c, e) == {h \in Target(p) : c <= h /\ h <= e}

Until(p, c) == {h \in Target(p) : h < c}

Entries(p, S) == {Entry(p, h) : h \in S}

(* An answer to a search: the low end of what is there, or an error.       *)
Replies(a, p, T) ==
  \E F : LowEnd(F, T) /\ a.entries = Entries(p, F) /\ (a.ok <=> T # {})

(* What follows the last entry was not found yet, all before it was.       *)
LEMMA Progress ==
  ASSUME NEW p \in Stages, NEW c \in Nat, NEW e \in Nat,
         NEW F, LowEnd(F, Within(p, c, e)), F # {},
         NEW upTo, upTo = Max(Lasts(p, F))
  PROVE  /\ upTo \in Nat /\ c <= upTo /\ upTo <= LastHandle
         /\ upTo < e => /\ Until(p, upTo + 1) = Until(p, c) \cup F
                        /\ \A h \in Until(p, upTo + 1) : Last(p, h) < upTo + 1
         /\ ~(upTo < e) => F = Within(p, c, e)
<1> DEFINE L == Lasts(p, F)
<1>0. L = {Last(p, h) : h \in F}
  BY Zenon DEF Lasts
<1> HIDE DEF L
<1>1. /\ F \subseteq Within(p, c, e)
      /\ \A h \in F, g \in Within(p, c, e) : g <= h => g \in F
  BY Zenon DEF LowEnd
<1>2. /\ Target(p) \subseteq Nat \ {0}
      /\ \A h \in Target(p) : Last(p, h) \in Nat /\ h <= Last(p, h)
      /\ \A h \in Target(p) : Last(p, h) <= LastHandle
      /\ \A g, h \in Target(p) : g < h => Last(p, g) < h
  BY TargetFacts, Zenon
<1>3. F \subseteq Target(p) /\ \A h \in F : c <= h /\ h <= e
  BY <1>1, Zenon DEF Within
<1>4. upTo \in L /\ \A k \in L : k <= upTo
  <2>1. L \subseteq Nat /\ L # {} /\ \A k \in L : k <= LastHandle
    BY <1>0, <1>2, <1>3
  <2> QED
    BY <2>1, LastHandleIsNat, Greatest DEF L
<1>5. PICK m \in F : upTo = Last(p, m)
  BY <1>0, <1>4
<1>6. \A h \in F : Last(p, h) <= upTo
  BY <1>0, <1>4
<1>7. m \in Target(p) /\ m \in Nat /\ upTo \in Nat /\ m <= upTo /\ c <= m
  BY <1>2, <1>3, <1>5
<1>8. ASSUME NEW g \in Target(p), g <= upTo, c <= g, g <= e PROVE g \in F
  <2>1. ~(m < g)
    <3>1. m < g => Last(p, m) < g
      BY <1>2, <1>7, Zenon
    <3> QED
      BY <1>2, <1>5, <1>7, <1>8, <3>1
  <2>2. g <= m
    BY <1>2, <1>7, <2>1
  <2>3. g \in Within(p, c, e)
    BY <1>8, Zenon DEF Within
  <2> QED
    BY <1>1, <2>2, <2>3, Zenon
<1>9. c <= upTo /\ upTo <= LastHandle
  BY <1>2, <1>5, <1>7, LastHandleIsNat
<1>10. ASSUME upTo < e
       PROVE  /\ Until(p, upTo + 1) = Until(p, c) \cup F
              /\ \A h \in Until(p, upTo + 1) : Last(p, h) < upTo + 1
  <2>1. ASSUME NEW g \in Target(p), g < upTo + 1 PROVE g < c \/ g \in F
    <3>1. g \in Nat /\ g <= upTo /\ g <= e
      BY <1>2, <1>7, <1>10, <2>1
    <3>2. g < c \/ c <= g
      BY <3>1
    <3> QED
      BY <1>8, <3>1, <3>2, Zenon
  <2>2. ASSUME NEW g \in Target(p), g < c \/ g \in F PROVE g < upTo + 1
    <3>1. g \in F => Last(p, g) <= upTo
      BY <1>6
    <3>2. g \in Nat /\ Last(p, g) \in Nat /\ g <= Last(p, g)
      BY <1>2
    <3> QED
      BY <1>7, <1>9, <2>2, <3>1, <3>2
  <2>3. ASSUME NEW g \in Target(p), g < upTo + 1 PROVE Last(p, g) < upTo + 1
    <3>1. g \in Nat /\ Last(p, g) \in Nat
      BY <1>2
    <3>2. g < m => Last(p, g) < m
      BY <1>2, <1>7, Zenon
    <3>3. ~(m < g)
      <4>1. m < g => Last(p, m) < g
        BY <1>2, <1>7, Zenon
      <4> QED
        BY <1>5, <1>7, <2>3, <3>1, <4>1
    <3>4. CASE g < m
      BY <1>7, <3>1, <3>2, <3>4
    <3>5. CASE g = m
      BY <1>5, <1>7, <3>5
    <3> QED
      BY <1>7, <3>1, <3>3, <3>4, <3>5
  <2>4. Until(p, upTo + 1) = Until(p, c) \cup F
    BY <1>3, <2>1, <2>2, Zenon DEF Until
  <2> QED
    BY <2>3, <2>4, Zenon DEF Until
<1>11. ASSUME ~(upTo < e) PROVE F = Within(p, c, e)
  <2>1. ASSUME NEW g \in Within(p, c, e) PROVE g \in F
    <3>1. g \in Target(p) /\ c <= g /\ g <= e
      BY Zenon DEF Within
    <3>2. g \in Nat /\ g <= upTo
      BY <1>2, <1>7, <1>11, <3>1
    <3> QED
      BY <1>8, <3>1, <3>2, Zenon
  <2> QED
    BY <1>1, <2>1, Zenon
<1> QED
  BY <1>7, <1>9, <1>10, <1>11, Zenon

(* A search of the range of a service leaves nothing before the next one,  *)
(* and that of the last one nothing at all.                                *)
LEMMA NextService ==
  ASSUME NEW p \in Stages, NEW s \in Starts, NEW c \in s .. EndAt(s)
  PROVE  LET later == {h \in Starts : h > s}
         IN  /\ later # {} =>
                  /\ Min(later) \in Starts
                  /\ Until(p, Min(later)) = Until(p, c) \cup Within(p, c, EndAt(s))
             /\ later = {} => Target(p) = Until(p, c) \cup Within(p, c, EndAt(s))
<1> DEFINE later == {h \in Starts : h > s}
           Done == Until(p, c) \cup Within(p, c, EndAt(s))
<1>1. /\ s \in Nat \ {0} /\ EndAt(s) \in Nat /\ s <= EndAt(s) /\ c \in Nat
      /\ c <= EndAt(s)
  <2>1. s \in Nat \ {0} /\ EndAt(s) \in Nat /\ s <= EndAt(s)
    BY StartFacts
  <2> QED
    BY <2>1
<1>2. Target(p) \subseteq Nat /\ Target(p) \subseteq Handles(Db)
  BY TargetFacts
<1>3. ASSUME NEW g \in Target(p) PROVE g \in Done <=> g <= EndAt(s)
  <2>1. g \in Nat
    BY <1>2
  <2>2. g < c \/ (c <= g /\ g <= EndAt(s)) <=> g <= EndAt(s)
    BY <1>1, <2>1
  <2> QED
    BY <2>2, Zenon DEF Until, Within
<1>4. Done \subseteq Target(p)
  BY Zenon DEF Until, Within
<1>5. ASSUME NEW g \in Target(p), \A t \in later : ~(t <= g) PROVE g <= EndAt(s)
  <2>1. PICK t \in Starts : t <= g /\ g <= EndAt(t)
    BY <1>2, StartFacts
  <2>2. t \in Nat /\ g \in Nat /\ EndAt(t) \in Nat
    BY <1>2, StartFacts
  <2>3. ~(t > s)
    BY <1>5, <2>1
  <2>4. t < s \/ t = s
    BY <1>1, <2>2, <2>3
  <2>5. CASE t < s
    <3>1. EndAt(t) < s
      BY <2>5, StartFacts, Zenon
    <3> QED
      BY <1>1, <2>1, <2>2, <3>1
  <2>6. CASE t = s
    BY <2>1, <2>6
  <2> QED
    BY <2>4, <2>5, <2>6
<1>6. ASSUME later # {}
      PROVE  Min(later) \in Starts /\ Until(p, Min(later)) = Done
  <2>1. later \subseteq Nat
    BY StartFacts
  <2>2. Min(later) \in later /\ \A t \in later : Min(later) <= t
    BY <1>6, <2>1, Least
  <2> DEFINE n == Min(later)
  <2>3. n \in Starts /\ n > s /\ n \in Nat
    BY <2>1, <2>2
  <2>4. \A t \in later : n <= t /\ t \in Nat
    BY <2>1, <2>2
  <2> HIDE DEF n
  <2>5. EndAt(s) < n
    <3>1. s < n
      BY <1>1, <2>3
    <3> QED
      BY <2>3, <3>1, StartFacts, Zenon
  <2>6. ASSUME NEW g \in Target(p) PROVE g < n <=> g \in Done
    <3>1. g \in Nat
      BY <1>2
    <3>2. ASSUME g < n PROVE g <= EndAt(s)
      <4>1. \A t \in later : ~(t <= g)
        BY <2>3, <2>4, <3>1, <3>2
      <4> HIDE DEF later
      <4> QED
        BY <1>5, <4>1
    <3>3. g <= EndAt(s) => g < n
      BY <1>1, <2>3, <2>5, <3>1
    <3> HIDE DEF Done
    <3> QED
      BY <1>3, <3>2, <3>3, Zenon
  <2> HIDE DEF Done
  <2>7. Until(p, n) = Done
    BY <1>4, <2>6, Zenon DEF Until
  <2> QED
    BY <2>3, <2>7 DEF n
<1>7. ASSUME later = {} PROVE Target(p) = Done
  <2>1. \A g \in Target(p) : g <= EndAt(s)
    BY <1>5, <1>7
  <2> HIDE DEF Done
  <2> QED
    BY <1>3, <1>4, <2>1, Zenon
<1> QED
  BY <1>6, <1>7, Zenon

(* Nothing comes before the first service.                                 *)
LEMMA FirstService ==
  /\ Starts = {} => \A p \in Stages : Target(p) = {}
  /\ Starts # {} => Min(Starts) \in Starts /\ \A p \in Stages : Until(p, Min(Starts)) = {}
<1>1. ASSUME NEW p \in Stages, NEW g \in Target(p)
      PROVE  g \in Nat /\ \E s \in Starts : s <= g
  BY StartFacts, TargetFacts, Zenon
<1>2. ASSUME Starts # {}
      PROVE  Min(Starts) \in Starts /\ \A p \in Stages : Until(p, Min(Starts)) = {}
  <2>1. Starts \subseteq Nat
    BY StartFacts
  <2>2. Min(Starts) \in Starts /\ \A s \in Starts : Min(Starts) <= s
    BY <1>2, <2>1, Least
  <2>3. ASSUME NEW p \in Stages, NEW g \in Target(p) PROVE ~(g < Min(Starts))
    <3>1. g \in Nat
      BY <1>1
    <3>2. PICK s \in Starts : s <= g
      BY <1>1
    <3>3. Min(Starts) <= s /\ s \in Nat /\ Min(Starts) \in Nat
      BY <2>1, <2>2
    <3> QED
      BY <3>1, <3>2, <3>3
  <2> QED
    BY <2>2, <2>3, Zenon DEF Until
<1> QED
  BY <1>1, <1>2, Zenon
-----------------------------------------------------------------------------
(* What the server answers: the request of each stage of the search.       *)

Searches ==
  [services |-> "ReadByGroupType", characteristics |-> "ReadByType",
   descriptors |-> "FindInformation"]

(* Nothing found is an error, and only that is.                            *)
LEMMA FoundReplies ==
  ASSUME NEW p, NEW T, NEW F, LowEnd(F, T), NEW r
  PROVE  Replies(Found(r, Entries(p, F)), p, T)
<1>1. CASE T = {}
  <2>1. F = {} /\ Entries(p, F) = {}
    BY <1>1 DEF LowEnd, Entries
  <2>2. Found(r, Entries(p, F)) = Err(r)
    BY <2>1 DEF Found
  <2>3. Found(r, Entries(p, F)).entries = {} /\ Found(r, Entries(p, F)).ok = FALSE
    BY <2>2 DEF Err
  <2> QED
    BY <1>1, <2>1, <2>3, Zenon DEF Replies
<1>2. CASE T # {}
  <2>1. F # {} /\ Entries(p, F) # {}
    BY <1>2 DEF LowEnd, Entries
  <2>2. Found(r, Entries(p, F)) = Rsp(r, Entries(p, F))
    BY <2>1 DEF Found
  <2>3. /\ Found(r, Entries(p, F)).entries = Entries(p, F)
        /\ Found(r, Entries(p, F)).ok = TRUE
    BY <2>2 DEF Rsp
  <2> QED
    BY <1>2, <2>3, Zenon DEF Replies
<1> QED
  BY <1>1, <1>2

(* The server answers a search with the low end of what is in its range.   *)
LEMMA LookupReplies ==
  ASSUME mtu = DefaultLeMtu, NEW p \in Stages, NEW c \in Nat, NEW e \in Nat,
         NEW r, r.op = Searches[p], r.start = c, r.end = e
  PROVE  Replies(Lookup(r), p, Within(p, c, e))
<1> DEFINE T == Within(p, c, e)
<1>1. T \in SUBSET Nat /\ \A h \in T : h <= LastHandle
  <2>1. ASSUME NEW h \in T PROVE h \in Nat /\ h <= LastHandle
    <3>1. /\ h \in Nat /\ Last(p, h) \in Nat /\ h <= Last(p, h)
          /\ Last(p, h) <= LastHandle
      BY TargetFacts DEF Within
    <3> QED
      BY <3>1, LastHandleIsNat
  <2> QED
    BY <2>1
<1>2. InRange(Db, c, e) = {h \in Handles(Db) : c <= h /\ h <= e}
  <2>1. \A h \in Handles(Db) : h >= c <=> c <= h
    <3>1. Handles(Db) \subseteq Nat
      BY StartFacts
    <3> QED
      BY <3>1
  <2> QED
    BY <2>1, Zenon DEF InRange
<1>3. CASE p = "services"
  <2>1. T = ReadByGroupType(Db, c, e)
    BY <1>2, <1>3 DEF Within, Target, Starts, OfType, ReadByGroupType
  <2>2. r.op = "ReadByGroupType"
    BY <1>3 DEF Searches
  <2>3. Lookup(r) = Found(r, GroupEntries(Db, T, DefaultLeMtu))
    BY <2>1, <2>2 DEF Lookup
  <2>4. LowEnd(Fitting(Db, T, 4, DefaultLeMtu), T)
    <3>1. ASSUME NEW h \in T
          PROVE  /\ Db.attribute[h].len \in Nat
                 /\ Db.attribute[h].len + 4 \in 1 .. DefaultLeMtu - 2
      <4>1. h \in OfType(Db, "service")
        BY <2>1, Zenon DEF ReadByGroupType
      <4>2. Db.attribute[h].len \in 0 .. DefaultLeMtu - 6
        BY <4>1, DbAssumption, Zenon
      <4> QED
        BY <4>2 DEF DefaultLeMtu
    <3> HIDE DEF T
    <3> QED
      BY <1>1, <3>1, FittingIsLowEnd
  <2>5. GroupEntries(Db, T, DefaultLeMtu) = Entries(p, Fitting(Db, T, 4, DefaultLeMtu))
    BY <1>3 DEF GroupEntries, Entries, Entry, EndAt
  <2> QED
    BY <2>3, <2>4, <2>5, FoundReplies
<1>4. CASE p = "characteristics"
  <2>1. T = ReadByType(Db, c, e, "characteristic")
    BY <1>2, <1>4 DEF Within, Target, OfType, ReadByType
  <2>2. r.op = "ReadByType"
    BY <1>4 DEF Searches
  <2>3. ASSUME NEW h \in T
        PROVE  /\ h \in OfType(Db, "characteristic") /\ h \in Handles(Db)
               /\ Db.attribute[h].len \in 0 .. DefaultLeMtu - 4
               /\ Db.attribute[h].perm = {} \/ "read" \in Db.attribute[h].perm
    <3>1. h \in OfType(Db, "characteristic")
      BY <2>1, Zenon DEF ReadByType
    <3> QED
      BY <3>1, DbAssumption, Zenon DEF OfType
  <2>4. \A h \in T : Permits(h, "read")
    BY <2>3, Zenon DEF Permits
  <2>5. Lookup(r) = Found(r, TypeEntries(Db, T, DefaultLeMtu))
    BY <2>1, <2>2, <2>4 DEF Lookup
  <2>6. LowEnd(Fitting(Db, T, 2, DefaultLeMtu), T)
    <3>1. ASSUME NEW h \in T
          PROVE  /\ Db.attribute[h].len \in Nat
                 /\ Db.attribute[h].len + 2 \in 1 .. DefaultLeMtu - 2
      <4>1. Db.attribute[h].len \in 0 .. DefaultLeMtu - 4
        BY <2>3, Zenon
      <4> QED
        BY <4>1 DEF DefaultLeMtu
    <3> HIDE DEF T
    <3> QED
      BY <1>1, <3>1, FittingIsLowEnd
  <2>7. TypeEntries(Db, T, DefaultLeMtu) = Entries(p, Fitting(Db, T, 2, DefaultLeMtu))
    BY <1>4 DEF TypeEntries, Entries, Entry
  <2> QED
    BY <2>5, <2>6, <2>7, FoundReplies
<1>5. CASE p = "descriptors"
  <2>1. T = FindInformation(Db, c, e)
    BY <1>2, <1>5 DEF Within, Target, FindInformation
  <2>2. r.op = "FindInformation"
    BY <1>5 DEF Searches
  <2>3. Lookup(r) = Found(r, InfoEntries(Db, T, DefaultLeMtu))
    BY <2>1, <2>2 DEF Lookup
  <2> DEFINE n == (DefaultLeMtu - 2) \div 4
  <2>4. LowEnd(Lowest(T, n), T)
    <3>1. n \in Nat \ {0}
      BY DEF DefaultLeMtu
    <3> HIDE DEF T, n
    <3> QED
      BY <1>1, <3>1, LowestIsLowEnd
  <2>5. InfoEntries(Db, T, DefaultLeMtu) = Entries(p, Lowest(T, n))
    BY <1>5 DEF InfoEntries, Entries, Entry
  <2> HIDE DEF n
  <2> QED
    BY <2>3, <2>4, <2>5, FoundReplies
<1> QED
  BY <1>3, <1>4, <1>5 DEF Stages

-----------------------------------------------------------------------------
(* The search: how far it has come, and what is on its way about it.       *)

All(p) == Entries(p, Target(p))

InService == service \in Starts /\ cursor \in service .. EndAt(service)

Reached ==
  /\ found = [p \in Stages |-> found[p]]
  /\ \/ /\ phase = "services" /\ service = 0
        /\ cursor \in Nat \ {0} /\ cursor <= LastHandle
        /\ \A h \in Until(phase, cursor) : EndAt(h) < cursor
        /\ found["services"] = Entries("services", Until("services", cursor))
        /\ found["characteristics"] = {} /\ found["descriptors"] = {}
     \/ /\ phase = "characteristics" /\ InService
        /\ found["services"] = All("services")
        /\ found["characteristics"] =
             Entries("characteristics", Until("characteristics", cursor))
        /\ found["descriptors"] = {}
     \/ /\ phase = "descriptors" /\ InService
        /\ found["services"] = All("services")
        /\ found["characteristics"] = All("characteristics")
        /\ found["descriptors"] = Entries("descriptors", Until("descriptors", cursor))
     \/ phase = "ready" /\ \A p \in Stages : found[p] = All(p)

Question == [op |-> Searches[phase], start |-> cursor, end |-> EndOfRange]

(* What the phone asked is q, and what answers it says what of T is found. *)
OnTheWay(q, p, T) ==
  /\ pendingWrite = None
  /\ \A i \in 1 .. Len(toServer) : toServer[i] = q
  /\ \A i \in Queued : Replies(writeQueue[i], p, T)
  /\ \A i \in Delivered : Replies(toPhone[i], p, T)

(* All the phone is waiting for is the answer to its last question.        *)
Asking ==
  link = "up" /\ phase # "ready" =>
    OnTheWay(Question, phase, Within(phase, cursor, EndOfRange))

(* The services that were found end where the ranges of the search do.     *)
LEMMA FoundStarts ==
  ASSUME NEW S \in SUBSET Starts
  PROVE  /\ {s.handle : s \in Entries("services", S)} = S
         /\ \A h \in S : (CHOOSE s \in Entries("services", S) : s.handle = h).end = EndAt(h)
<1> DEFINE E(h) == Entry("services", h)
<1>1. \A h : E(h).handle = h /\ E(h).end = EndAt(h)
  BY DEF Entry
<1> HIDE DEF E
<1>2. Entries("services", S) = {E(h) : h \in S}
  BY DEF Entries, E
<1>3. {s.handle : s \in Entries("services", S)} = S
  <2>1. \A h \in S : \E s \in Entries("services", S) : s.handle = h
    BY <1>1, <1>2
  <2>2. \A s \in Entries("services", S) : s.handle \in S
    BY <1>1, <1>2
  <2> QED
    BY <2>1, <2>2
<1>4. ASSUME NEW h \in S
      PROVE  (CHOOSE s \in Entries("services", S) : s.handle = h).end = EndAt(h)
  <2> DEFINE e == CHOOSE s \in Entries("services", S) : s.handle = h
  <2>1. \E s \in Entries("services", S) : s.handle = h
    BY <1>1, <1>2
  <2>2. e \in Entries("services", S) /\ e.handle = h
    BY <2>1, Zenon
  <2> HIDE DEF e
  <2>3. e.end = EndAt(h)
    BY <1>1, <1>2, <2>2
  <2> QED
    BY <2>3 DEF e
<1> QED
  BY <1>3, <1>4, Zenon

(* The phone asks up to the end of its service.                            *)
LEMMA RangeEnd ==
  ASSUME Reached, phase # "ready"
  PROVE  /\ phase \in Stages /\ cursor \in Nat /\ EndOfRange \in Nat
         /\ phase = "services" => EndOfRange = LastHandle
         /\ phase # "services" => InService /\ EndOfRange = EndAt(service)
<1>1. CASE phase = "services"
  BY <1>1, LastHandleIsNat, Zenon DEF Reached, EndOfRange, Stages
<1>2. CASE phase # "services"
  <2>1. /\ phase \in Stages /\ InService /\ found["services"] = All("services")
    BY <1>2, Zenon DEF Reached, Stages
  <2>2. EndOfRange = EndAt(service)
    <3>1. Target("services") = Starts
      BY DEF Target
    <3>2. (CHOOSE s \in All("services") : s.handle = service).end = EndAt(service)
      BY <2>1, <3>1, FoundStarts, Zenon DEF InService, All
    <3> QED
      BY <1>2, <2>1, <3>2, Zenon DEF EndOfRange
  <2>3. service \in Nat /\ EndAt(service) \in Nat
    BY <2>1, StartFacts DEF InService
  <2>4. cursor \in Nat
    BY <2>1, <2>3 DEF InService
  <2> QED
    BY <1>2, <2>1, <2>2, <2>3, <2>4, Zenon
<1> QED
  BY <1>1, <1>2

-----------------------------------------------------------------------------
(* What the phone learns.                                                  *)

LEMMA EntriesJoin ==
  ASSUME NEW p, NEW S, NEW T
  PROVE  Entries(p, S) \cup Entries(p, T) = Entries(p, S \cup T)
BY DEF Entries

(* Where the answer ends, and what it adds.                                *)
LEMMA LearnFrom ==
  ASSUME NEW p \in Stages, p = phase, NEW F, F \subseteq Target(p),
         NEW a, a.entries = Entries(p, F), NEW upTo, upTo = Max(Lasts(p, F)),
         Learn(a), found = [q \in Stages |-> found[q]]
  PROVE  /\ found' = [q \in Stages |-> found'[q]]
         /\ found'[p] = found[p] \cup Entries(p, F)
         /\ \A q \in Stages \ {p} : found'[q] = found[q]
         /\ IF a.ok /\ upTo < EndOfRange
            THEN cursor' = upTo + 1 /\ phase' = phase /\ service' = service
            ELSE NextRange
<1> DEFINE ends == {IF p = "services" THEN e.end ELSE e.handle : e \in Entries(p, F)}
<1>1. ends = Lasts(p, F)
  <2> DEFINE E(h) == Entry(p, h)
             l(e) == IF p = "services" THEN e.end ELSE e.handle
  <2>1. \A h : l(E(h)) = Last(p, h)
    BY DEF Entry, Last
  <2> HIDE DEF E, l
  <2>2. Entries(p, F) = {E(h) : h \in F}
    BY DEF Entries, E
  <2>3. {l(e) : e \in Entries(p, F)} = {Last(p, h) : h \in F}
    BY <2>1, <2>2
  <2> QED
    BY <2>3, Zenon DEF l, Lasts
<1> HIDE DEF ends
<1>2. /\ found' = [found EXCEPT ![p] = @ \cup a.entries]
      /\ IF a.ok /\ Max(ends) < EndOfRange
         THEN cursor' = Max(ends) + 1 /\ UNCHANGED <<phase, service>>
         ELSE NextRange
  BY Zenon DEF Learn, ends
<1>3. Max(ends) = upTo
  BY <1>1, Zenon
<1>4. /\ found' = [q \in Stages |-> found'[q]]
      /\ found'[p] = found[p] \cup a.entries
      /\ \A q \in Stages \ {p} : found'[q] = found[q]
  BY <1>2
<1>5. IF a.ok /\ upTo < EndOfRange
      THEN cursor' = upTo + 1 /\ phase' = phase /\ service' = service
      ELSE NextRange
  BY <1>2, <1>3, Zenon
<1> QED
  BY <1>4, <1>5, Zenon

(* The search goes on in the same range.                                   *)
LEMMA SameRange ==
  ASSUME Reached, phase # "ready", NEW p \in Stages, p = phase, NEW c \in Nat, c = cursor,
         NEW F, LowEnd(F, Within(p, c, EndOfRange)), F # {},
         NEW upTo, upTo = Max(Lasts(p, F)), upTo < EndOfRange,
         found' = [q \in Stages |-> found'[q]],
         found'[p] = found[p] \cup Entries(p, F),
         \A q \in Stages \ {p} : found'[q] = found[q],
         cursor' = upTo + 1, phase' = phase, service' = service
  PROVE  Reached'
<1> DEFINE d == upTo + 1
<1>1. PICK e \in Nat : e = EndOfRange
  BY RangeEnd
<1>2. /\ upTo \in Nat /\ c <= upTo /\ upTo <= LastHandle
      /\ Until(p, upTo + 1) = Until(p, c) \cup F
      /\ \A h \in Until(p, upTo + 1) : Last(p, h) < upTo + 1
  <2>1. LowEnd(F, Within(p, c, e)) /\ upTo < e
    BY <1>1, Zenon
  <2> QED
    BY <2>1, Progress
<1>3. d \in Nat \ {0} /\ c <= d /\ d <= e
  BY <1>1, <1>2
<1>4. cursor' = d /\ Until(p, d) = Until(p, c) \cup F /\ \A h \in Until(p, d) : Last(p, h) < d
  BY <1>2, Zenon
<1> HIDE DEF d
<1>5. /\ phase = "services" => e = LastHandle
      /\ phase # "services" => service \in Starts /\ c \in service .. EndAt(service)
                               /\ e = EndAt(service)
  BY <1>1, RangeEnd, Zenon DEF InService
<1>6. found[p] = Entries(p, Until(p, c)) => found'[p] = Entries(p, Until(p, d))
  BY <1>4, EntriesJoin
<1>7. ASSUME phase # "services"
      PROVE  service' \in Starts /\ cursor' \in service' .. EndAt(service')
  <2>1. service \in Nat /\ EndAt(service) \in Nat /\ service <= c /\ c <= EndAt(service)
    <3>1. service \in Nat /\ EndAt(service) \in Nat
      BY <1>5, <1>7, StartFacts
    <3> QED
      BY <1>5, <1>7, <3>1
  <2>2. d \in service .. EndAt(service)
    BY <1>3, <1>5, <1>7, <2>1
  <2> QED
    BY <1>4, <1>5, <1>7, <2>2, Zenon
<1>8. CASE p = "services"
  <2>1. /\ found["services"] = Entries("services", Until("services", c))
        /\ found["characteristics"] = {} /\ found["descriptors"] = {}
        /\ service = 0
    BY <1>8, Zenon DEF Reached
  <2>2. found'["services"] = Entries("services", Until("services", d))
    BY <1>6, <1>8, <2>1
  <2>3. found'["characteristics"] = {} /\ found'["descriptors"] = {}
    BY <1>8, <2>1 DEF Stages
  <2>4. \A h \in Until("services", d) : EndAt(h) < d
    BY <1>4, <1>8, Zenon DEF Last
  <2>5. d \in Nat \ {0} /\ d <= LastHandle
    BY <1>3, <1>5, <1>8, Zenon
  <2> QED
    BY <1>4, <1>8, <2>1, <2>2, <2>3, <2>4, <2>5, Zenon DEF Reached
<1>9. CASE p = "characteristics"
  <2>1. /\ found["services"] = All("services") /\ found["descriptors"] = {}
        /\ found["characteristics"] = Entries("characteristics", Until("characteristics", c))
    BY <1>9, Zenon DEF Reached
  <2>2. found'["characteristics"] = Entries("characteristics", Until("characteristics", d))
    BY <1>6, <1>9, <2>1
  <2>3. found'["services"] = All("services") /\ found'["descriptors"] = {}
    BY <1>9, <2>1 DEF Stages
  <2> QED
    BY <1>4, <1>7, <1>9, <2>2, <2>3, Zenon DEF Reached, InService
<1>10. CASE p = "descriptors"
  <2>1. /\ found["services"] = All("services")
        /\ found["characteristics"] = All("characteristics")
        /\ found["descriptors"] = Entries("descriptors", Until("descriptors", c))
    BY <1>10, Zenon DEF Reached
  <2>2. found'["descriptors"] = Entries("descriptors", Until("descriptors", d))
    BY <1>6, <1>10, <2>1
  <2>3. /\ found'["services"] = All("services")
        /\ found'["characteristics"] = All("characteristics")
    BY <1>10, <2>1 DEF Stages
  <2> QED
    BY <1>4, <1>7, <1>10, <2>2, <2>3, Zenon DEF Reached, InService
<1> QED
  BY <1>8, <1>9, <1>10 DEF Stages

(* The search of a range is done, and goes on in the next one.             *)
LEMMA RangeDone ==
  ASSUME Reached, phase # "ready", NEW p \in Stages, p = phase, NEW c \in Nat, c = cursor,
         NEW e \in Nat, e = EndOfRange,
         found' = [q \in Stages |-> found'[q]],
         found'[p] = found[p] \cup Entries(p, Within(p, c, e)),
         \A q \in Stages \ {p} : found'[q] = found[q],
         NextRange
  PROVE  Reached'
<1> DEFINE done == Until(p, c) \cup Within(p, c, e)
           later == {h \in Starts : h > service}
<1>1. found[p] = Entries(p, Until(p, c)) => found'[p] = Entries(p, done)
  BY EntriesJoin
<1>2. /\ p = "services" => e = LastHandle
      /\ p # "services" => service \in Starts /\ c \in service .. EndAt(service)
                               /\ e = EndAt(service)
  BY RangeEnd, Zenon DEF InService
<1>3. p = "services" => done = Target(p)
  <2> SUFFICES ASSUME p = "services" PROVE done = Target(p)
    OBVIOUS
  <2>1. ASSUME NEW h \in Target(p) PROVE h < c \/ (c <= h /\ h <= e)
    <3>1. /\ h \in Nat /\ Last(p, h) \in Nat /\ h <= Last(p, h)
          /\ Last(p, h) <= LastHandle
      BY TargetFacts
    <3> QED
      BY <1>2, <3>1, LastHandleIsNat
  <2> QED
    BY <2>1, Zenon DEF Until, Within
<1>4. found'["services"] = All("services")
  <2>1. CASE p = "services"
    <3>1. found[p] = Entries(p, Until(p, c))
      BY <2>1, Zenon DEF Reached
    <3> QED
      BY <1>1, <1>3, <2>1, <3>1, Zenon DEF All
  <2>2. CASE p # "services"
    <3>1. found["services"] = All("services")
      BY <2>2, Zenon DEF Reached
    <3> QED
      BY <2>2, <3>1 DEF Stages
  <2> QED
    BY <2>1, <2>2
<1>5. {s.handle : s \in found'["services"]} = Starts
  <2>1. Target("services") = Starts
    BY DEF Target
  <2> QED
    BY <1>4, <2>1, FoundStarts, Zenon DEF All
<1>6. \/ /\ phase # "services" /\ later # {}
         /\ service' = Min(later) /\ phase' = phase /\ cursor' = service'
      \/ /\ phase = "services" \/ later = {}
         /\ service' = IF Starts = {} THEN 0 ELSE Min(Starts)
         /\ phase' = IF Starts = {} THEN "ready" ELSE NextPhase[phase]
         /\ cursor' = service'
  BY <1>5, Zenon DEF NextRange
<1>7. ASSUME NEW s \in Starts PROVE s \in s .. EndAt(s)
  BY StartFacts
<1>8. ASSUME p # "services", later # {}
      PROVE  /\ phase' = p /\ service' \in Starts /\ cursor' \in service' .. EndAt(service')
             /\ Until(p, cursor') = done
  <2>1. phase' = p /\ service' = Min(later) /\ cursor' = service'
    BY <1>6, <1>8, Zenon
  <2>2. Min(later) \in Starts /\ Until(p, Min(later)) = done
    BY <1>2, <1>8, NextService
  <2> HIDE DEF later, done
  <2> QED
    BY <1>7, <2>1, <2>2, Zenon
<1>9. ASSUME p # "services", later = {}
      PROVE  done = Target(p)
  BY <1>2, <1>9, NextService
<1>10. ASSUME p = "services" \/ later = {}, Starts # {}
       PROVE  /\ phase' = NextPhase[p]
              /\ service' \in Starts /\ cursor' \in service' .. EndAt(service')
              /\ \A q \in Stages : Until(q, cursor') = {}
  <2>1. phase' = NextPhase[p] /\ service' = Min(Starts) /\ cursor' = service'
    BY <1>6, <1>10, Zenon
  <2>2. Min(Starts) \in Starts /\ \A q \in Stages : Until(q, Min(Starts)) = {}
    BY <1>10, FirstService
  <2> HIDE DEF later, done
  <2> QED
    BY <1>7, <2>1, <2>2, Zenon
<1>11. \A q : Entries(q, {}) = {}
  BY DEF Entries
<1> HIDE DEF later, done
<1>12. CASE p = "services"
  <2>1. found["characteristics"] = {} /\ found["descriptors"] = {}
    BY <1>12, Zenon DEF Reached
  <2>2. found'["characteristics"] = {} /\ found'["descriptors"] = {}
    BY <1>12, <2>1 DEF Stages
  <2>3. CASE Starts = {}
    <3>1. phase' = "ready"
      BY <1>6, <1>12, <2>3, Zenon
    <3>2. All("characteristics") = {} /\ All("descriptors") = {}
      <4>1. \A q \in Stages : All(q) = {}
        BY <1>11, <2>3, FirstService, Zenon DEF All
      <4> QED
        BY <4>1 DEF Stages
    <3>3. \A q \in Stages : found'[q] = All(q)
      BY <1>4, <2>2, <3>2, Zenon DEF Stages
    <3> QED
      BY <3>1, <3>3, Zenon DEF Reached
  <2>4. CASE Starts # {}
    <3>1. NextPhase[p] = "characteristics"
      BY <1>12 DEF NextPhase
    <3>2. Until("characteristics", cursor') = {}
      BY <1>10, <1>12, <2>4, Zenon DEF Stages
    <3> QED
      BY <1>4, <1>10, <1>11, <1>12, <2>2, <2>4, <3>1, <3>2, Zenon DEF Reached, InService
  <2> QED
    BY <2>3, <2>4
<1>13. CASE p = "characteristics"
  <2>1. /\ found["characteristics"] = Entries("characteristics", Until("characteristics", c))
        /\ found["descriptors"] = {} /\ service \in Starts
    BY <1>13, Zenon DEF Reached, InService
  <2>2. /\ found'["characteristics"] = Entries("characteristics", done)
        /\ found'["descriptors"] = {}
    BY <1>1, <1>13, <2>1 DEF Stages
  <2>3. CASE later # {}
    BY <1>4, <1>8, <1>13, <2>2, <2>3, Zenon DEF Reached, InService
  <2>4. CASE later = {}
    <3>1. NextPhase[p] = "descriptors"
      BY <1>13 DEF NextPhase
    <3>2. found'["characteristics"] = All("characteristics")
      BY <1>9, <1>13, <2>2, <2>4, Zenon DEF All
    <3>3. Starts # {}
      BY <2>1
    <3>4. Until("descriptors", cursor') = {}
      BY <1>10, <2>4, <3>3, Zenon DEF Stages
    <3> QED
      BY <1>4, <1>10, <1>11, <2>2, <2>4, <3>1, <3>2, <3>3, <3>4, Zenon
         DEF Reached, InService
  <2> QED
    BY <2>3, <2>4
<1>14. CASE p = "descriptors"
  <2>1. /\ found["descriptors"] = Entries("descriptors", Until("descriptors", c))
        /\ found["characteristics"] = All("characteristics") /\ service \in Starts
    BY <1>14, Zenon DEF Reached, InService
  <2>2. /\ found'["descriptors"] = Entries("descriptors", done)
        /\ found'["characteristics"] = All("characteristics")
    BY <1>1, <1>14, <2>1 DEF Stages
  <2>3. CASE later # {}
    BY <1>4, <1>8, <1>14, <2>2, <2>3, Zenon DEF Reached, InService
  <2>4. CASE later = {}
    <3>1. NextPhase[p] = "ready"
      BY <1>14 DEF NextPhase
    <3>2. found'["descriptors"] = All("descriptors")
      BY <1>9, <1>14, <2>2, <2>4, Zenon DEF All
    <3>3. phase' = "ready"
      BY <1>10, <2>1, <2>4, <3>1
    <3>4. \A q \in Stages : found'[q] = All(q)
      BY <1>4, <2>2, <3>2, Zenon DEF Stages
    <3> QED
      BY <3>3, <3>4, Zenon DEF Reached
  <2> QED
    BY <2>3, <2>4
<1> QED
  BY <1>12, <1>13, <1>14 DEF Stages

(* What the phone learns keeps its search in step with the database.       *)
LEMMA LearnReached ==
  ASSUME Reached, phase # "ready", NEW a,
         Replies(a, phase, Within(phase, cursor, EndOfRange)), Learn(a)
  PROVE  Reached'
<1>1. PICK p \in Stages : p = phase
  BY RangeEnd
<1>2. PICK c \in Nat : c = cursor
  BY RangeEnd
<1>3. PICK e \in Nat : e = EndOfRange
  BY RangeEnd
<1>4. Replies(a, p, Within(p, c, e))
  BY <1>1, <1>2, <1>3
<1>5. PICK F : /\ LowEnd(F, Within(p, c, e)) /\ a.entries = Entries(p, F)
               /\ a.ok <=> Within(p, c, e) # {}
  BY <1>4, Zenon DEF Replies
<1>6. F \subseteq Target(p)
  BY <1>5 DEF LowEnd, Within
<1>7. PICK upTo : upTo = Max(Lasts(p, F))
  OBVIOUS
<1>8. found = [q \in Stages |-> found[q]]
  BY Zenon DEF Reached
<1>9. /\ found' = [q \in Stages |-> found'[q]]
      /\ found'[p] = found[p] \cup Entries(p, F)
      /\ \A q \in Stages \ {p} : found'[q] = found[q]
      /\ IF a.ok /\ upTo < EndOfRange
         THEN cursor' = upTo + 1 /\ phase' = phase /\ service' = service
         ELSE NextRange
  BY <1>1, <1>5, <1>6, <1>7, <1>8, LearnFrom
<1>10. CASE a.ok /\ upTo < EndOfRange
  <2>1. F # {} /\ LowEnd(F, Within(p, c, EndOfRange))
    BY <1>3, <1>5, <1>10 DEF LowEnd
  <2>2. cursor' = upTo + 1 /\ phase' = phase /\ service' = service
    BY <1>9, <1>10, Zenon
  <2> QED
    BY <1>1, <1>2, <1>7, <1>9, <1>10, <2>1, <2>2, SameRange
<1>11. CASE ~(a.ok /\ upTo < EndOfRange)
  <2>1. F = Within(p, c, e)
    <3>1. CASE F = {}
      BY <1>5, <3>1 DEF LowEnd
    <3>2. CASE F # {}
      <4>1. ~(upTo < e)
        BY <1>3, <1>5, <1>11, <3>2 DEF LowEnd
      <4> QED
        BY <1>5, <1>7, <3>2, <4>1, Progress
    <3> QED
      BY <3>1, <3>2
  <2>2. NextRange
    BY <1>9, <1>11, Zenon
  <2> QED
    BY <1>1, <1>2, <1>3, <1>9, <2>1, <2>2, RangeDone
<1> QED
  BY <1>10, <1>11

-----------------------------------------------------------------------------
(* The steps of the phone and of the server.                               *)

(* What leaves the search alone and what is on the way about it.           *)
LEMMA SameSearch ==
  ASSUME Reached, Asking, UNCHANGED search, link' = "up" => link = "up",
         \A q, p, T : link = "up" /\ OnTheWay(q, p, T) => OnTheWay(q, p, T)'
  PROVE  Reached' /\ Asking'
<1>1. UNCHANGED <<phase, cursor, service, found>>
  BY DEF search
<1>2. Reached'
  BY <1>1 DEF Reached, InService
<1>3. ASSUME link' = "up", phase' # "ready"
      PROVE  OnTheWay(Question, phase, Within(phase, cursor, EndOfRange))'
  <2>1. PICK p, c, e : p = phase /\ c = cursor /\ e = EndOfRange
    OBVIOUS
  <2>2. p = phase' /\ c = cursor'
    BY <1>1, <2>1
  <2>3. e = EndOfRange'
    BY <1>1, <2>1 DEF EndOfRange
  <2> DEFINE q == [op |-> Searches[p], start |-> c, end |-> e]
  <2>4. q = Question /\ q = Question'
    BY <2>1, <2>2, <2>3 DEF Question
  <2>5. OnTheWay(q, p, Within(p, c, e))
    BY <1>1, <1>3, <2>1, <2>4 DEF Asking
  <2> HIDE DEF q
  <2>6. OnTheWay(q, p, Within(p, c, e))'
    BY <1>3, <2>5
  <2> QED
    BY <2>2, <2>3, <2>4, <2>6 DEF OnTheWay
<1> QED
  BY <1>2, <1>3, Zenon DEF Asking

(* The question is asked when nothing else is on the way.                  *)
LEMMA ExploreAsking ==
  ASSUME AInv, Reached, Asking, Explore
  PROVE  Reached' /\ Asking'
<1> DEFINE op == CASE phase = "services" -> "ReadByGroupType"
                   [] phase = "characteristics" -> "ReadByType"
                   [] phase = "descriptors" -> "FindInformation"
           r == [op |-> op, start |-> cursor, end |-> EndOfRange]
<1>0. /\ phase # "ready" /\ Ask(r)
  BY Zenon DEF Explore
<1>1. op = Searches[phase] /\ op # "WriteCmd"
  BY <1>0 DEF AInv, TInv, TypeOK, Searches
<1>2. /\ link = "up" /\ outstanding = None /\ Send(r)
      /\ UNCHANGED <<search, link, toPhone, writeQueue, pendingWrite>>
  BY <1>0 DEF Ask, att, server
<1> HIDE DEF op
<1>3. r = Question /\ r.op # "WriteCmd"
  BY <1>1 DEF Question
<1>4. /\ Messages /\ Asked = {} /\ Queued = {} /\ Delivered = {}
  BY <1>2 DEF AInv, TInv, WhileUp, Places
<1>5. Queued' = {} /\ Delivered' = {}
  BY <1>2, <1>4 DEF Queued, Delivered, Answers
<1>6. OnTheWay(Question, phase, Within(phase, cursor, EndOfRange))
  BY <1>0, <1>2 DEF Asking
<1>7. PICK q : q = r
  OBVIOUS
<1> HIDE DEF r
<1>8. /\ Len(toServer) \in Nat /\ Len(toServer') = Len(toServer) + 1
      /\ toServer'[Len(toServer')] = q
      /\ \A i \in 1 .. Len(toServer) : toServer'[i] = toServer[i]
  BY <1>2, <1>4, <1>7, Sent
<1>9. \A i \in 1 .. Len(toServer) : toServer[i] = q
  BY <1>3, <1>6, <1>7 DEF OnTheWay
<1>10. \A i \in 1 .. Len(toServer') : toServer'[i] = q
  BY <1>8, <1>9
<1>11. UNCHANGED <<phase, cursor, service, found>>
  BY <1>2 DEF search
<1>12. q = Question'
  <2>1. EndOfRange' = EndOfRange
    BY <1>11 DEF EndOfRange
  <2> QED
    BY <1>3, <1>7, <1>11, <2>1 DEF Question
<1>13. pendingWrite' = None
  BY <1>2, <1>6 DEF OnTheWay
<1>14. Asking'
  BY <1>5, <1>10, <1>12, <1>13 DEF Asking, OnTheWay
<1> QED
  BY <1>11, <1>14 DEF Reached, InService

(* The phone takes the answer to its question, and asks the next one.      *)
LEMMA ReceiveAsking ==
  ASSUME AInv, Reached, Asking, Receive
  PROVE  Reached' /\ Asking'
<1>0. /\ link = "up" /\ Places /\ Listed(toPhone) /\ Messages
  BY DEF AInv, TInv, WhileUp, Receive
<1>1. /\ UNCHANGED <<link, toServer, writeQueue, pendingWrite>>
      /\ toPhone # <<>> /\ toPhone' = Tail(toPhone)
  BY DEF Receive, att, server
<1>2. /\ Head(toPhone) # Notification => Delivered = {1} /\ Delivered' = {}
      /\ \A i \in Delivered' : i + 1 \in Delivered /\ toPhone'[i] = toPhone[i + 1]
      /\ Head(toPhone) = toPhone[1]
  BY <1>0, <1>1, RestAnswers DEF Places, Delivered
<1>3. Queued' = Queued
  BY <1>1 DEF Queued, Answers
<1>4. CASE UNCHANGED search
  <2>1. ASSUME NEW q, NEW p, NEW T, OnTheWay(q, p, T)
        PROVE  OnTheWay(q, p, T)'
    BY <1>1, <1>2, <1>3, <2>1 DEF OnTheWay
  <2> QED
    BY <1>1, <1>4, <2>1, SameSearch
<1>5. CASE /\ Head(toPhone) # Notification /\ phase # "ready" /\ Learn(Head(toPhone))
  <2>1. PICK a : a = Head(toPhone)
    OBVIOUS
  <2>2. OnTheWay(Question, phase, Within(phase, cursor, EndOfRange))
    BY <1>0, <1>5 DEF Asking
  <2>3. Replies(a, phase, Within(phase, cursor, EndOfRange))
    BY <1>2, <1>5, <2>1, <2>2 DEF OnTheWay
  <2>4. Reached'
    BY <1>5, <2>1, <2>3, LearnReached
  <2>5. Asked = {} /\ Queued' = {} /\ Delivered' = {}
    BY <1>0, <1>2, <1>3, <1>5 DEF Places
  <2>6. 1 .. Len(toServer') = {}
    <3>1. Question.op # "WriteCmd"
      <4>1. phase \in Stages
        BY <1>5, RangeEnd
      <4> QED
        BY <4>1 DEF Question, Searches, Stages
    <3>2. \A i \in 1 .. Len(toServer) : toServer[i].op # "WriteCmd"
      BY <2>2, <3>1 DEF OnTheWay
    <3> QED
      BY <1>1, <2>5, <3>2 DEF Asked
  <2>7. pendingWrite' = None
    BY <1>1, <2>2 DEF OnTheWay
  <2>8. Asking'
    BY <2>5, <2>6, <2>7, Zenon DEF Asking, OnTheWay
  <2> QED
    BY <2>4, <2>8
<1> QED
  BY <1>4, <1>5 DEF Receive

(* The question is answered at once.                                       *)
LEMMA CanReadDataAsking ==
  ASSUME AInv, Reached, Asking, CanReadData
  PROVE  Reached' /\ Asking'
<1>1. /\ UNCHANGED <<search, toPhone>> /\ toServer # <<>> /\ toServer' = Tail(toServer)
  BY DEF CanReadData, phone
<1>2. UNCHANGED <<phase, cursor, service, found>>
  BY <1>1 DEF search
<1>3. Reached'
  BY <1>2 DEF Reached, InService
<1>4. EndOfRange' = EndOfRange
  BY <1>2 DEF EndOfRange
<1> SUFFICES ASSUME link' = "up", phase # "ready"
             PROVE  OnTheWay(Question, phase, Within(phase, cursor, EndOfRange))'
  BY <1>2, <1>3, Zenon DEF Asking
<1>5. link = "up"
  BY DEF CanReadData
<1>6. /\ Messages /\ io /\ Places /\ Listed(writeQueue) /\ mtu = DefaultLeMtu
  BY <1>5 DEF AInv, TInv, TypeOK, WhileUp
<1>7. PICK p \in Stages : p = phase
  BY RangeEnd
<1>8. PICK c \in Nat : c = cursor
  BY RangeEnd
<1>9. PICK e \in Nat : e = EndOfRange
  BY RangeEnd
<1> DEFINE q == [op |-> Searches[p], start |-> c, end |-> e]
           T == Within(p, c, e)
<1>10. q.op = Searches[p] /\ q.start = c /\ q.end = e
  OBVIOUS
<1>11. /\ q.op \in Ops
       /\ q.op \notin {"WriteReq", "WriteCmd", "PrepWrite", "ExecWrite", "Mtu"}
  BY <1>10 DEF Searches, Stages, Ops
<1>12. Question = q /\ Question' = q
  BY <1>2, <1>4, <1>7, <1>8, <1>9 DEF Question
<1>13. OnTheWay(q, p, T)
  BY <1>5, <1>7, <1>8, <1>9, <1>12, Zenon DEF Asking
<1> HIDE DEF q
<1>14. Replies(Lookup(q), p, T)
  BY <1>6, <1>10, LookupReplies
<1>15. Lookup(q) # Notification
  BY <1>11, LookupAnswers
<1> HIDE DEF T
<1>16. /\ Len(toServer) \in Nat \ {0} /\ Len(toServer') = Len(toServer) - 1
       /\ Head(toServer) = toServer[1]
       /\ \A i \in 1 .. Len(toServer') : toServer'[i] = toServer[i + 1]
  BY <1>1, <1>6, Taken
<1>17. 1 \in 1 .. Len(toServer) /\ \A i \in 1 .. Len(toServer') : i + 1 \in 1 .. Len(toServer)
  BY <1>16
<1>18. Head(toServer) = q /\ \A i \in 1 .. Len(toServer') : toServer'[i] = q
  BY <1>13, <1>16, <1>17 DEF OnTheWay
<1>19. Handle(q)
  BY <1>5, <1>11, <1>18 DEF CanReadData
<1>20. /\ writeQueue' = writeQueue \o <<Lookup(q)>> /\ pendingWrite' = pendingWrite
  BY <1>6, <1>11, <1>19 DEF Handle, Post, server
<1>21. PICK m : m = Lookup(q)
  OBVIOUS
<1>22. Queued = {}
  <2>1. 1 \in Asked
    BY <1>11, <1>16, <1>17, <1>18 DEF Asked
  <2> QED
    BY <1>6, <2>1 DEF Places
<1>23. /\ writeQueue' = Append(writeQueue, m)
       /\ Queued' = {Len(writeQueue) + 1} /\ writeQueue'[Len(writeQueue) + 1] = m
  <2>1. writeQueue' = Append(writeQueue, m)
    BY <1>6, <1>20, <1>21, Added
  <2>2. /\ Answers(Append(writeQueue, m)) = {Len(writeQueue) + 1}
        /\ Append(writeQueue, m)[Len(writeQueue) + 1] = m
    BY <1>6, <1>15, <1>21, <1>22, AddedAnswers DEF Queued
  <2> QED
    BY <2>1, <2>2 DEF Queued
<1>24. \A i \in Queued' : Replies(writeQueue'[i], p, T)
  BY <1>14, <1>21, <1>23
<1>25. \A i \in Delivered' : Replies(toPhone'[i], p, T)
  <2>1. Delivered' = Delivered
    BY <1>1 DEF Delivered, Answers
  <2> QED
    BY <1>1, <1>13, <2>1 DEF OnTheWay
<1>26. OnTheWay(q, p, T)'
  BY <1>13, <1>18, <1>20, <1>24, <1>25 DEF OnTheWay
<1>27. p = phase' /\ c = cursor' /\ e = EndOfRange'
  BY <1>2, <1>4, <1>7, <1>8, <1>9
<1> QED
  BY <1>12, <1>26, <1>27 DEF OnTheWay, T

(* The answer goes from the queue to the phone.                            *)
LEMMA CanWriteDataAsking ==
  ASSUME AInv, Reached, Asking, CanWriteData
  PROVE  Reached' /\ Asking'
<1>1. UNCHANGED <<search, link, toServer, pendingWrite>>
  BY DEF CanWriteData, phone, server
<1> SUFFICES ASSUME NEW q, NEW p, NEW T, link = "up", OnTheWay(q, p, T)
             PROVE  OnTheWay(q, p, T)'
  BY <1>1, SameSearch
<1>2. Places /\ Listed(writeQueue) /\ Listed(toPhone)
  BY DEF AInv, WhileUp
<1>3. CASE writeQueue = <<>>
  <2>1. UNCHANGED <<writeQueue, toPhone>>
    BY <1>3 DEF CanWriteData
  <2> QED
    BY <1>1, <2>1 DEF OnTheWay, Queued, Delivered, Answers
<1>4. CASE writeQueue # <<>>
  <2> DEFINE m == Head(writeQueue)
  <2>1. writeQueue' = Tail(writeQueue) /\ toPhone' = Append(toPhone, m)
    BY <1>4 DEF CanWriteData
  <2>2. /\ m # Notification => Queued = {1} /\ Queued' = {}
        /\ \A i \in Queued' : i + 1 \in Queued /\ writeQueue'[i] = writeQueue[i + 1]
        /\ m = writeQueue[1]
    BY <1>2, <1>4, <2>1, RestAnswers DEF Places, Queued
  <2> HIDE DEF m
  <2>3. /\ m = Notification => Delivered' = Delivered
        /\ m # Notification /\ Delivered = {} => Delivered' = {Len(toPhone) + 1}
        /\ \A i \in Delivered : toPhone'[i] = toPhone[i]
        /\ toPhone'[Len(toPhone) + 1] = m
    BY <1>2, <2>1, AddedAnswers DEF Delivered
  <2>4. m # Notification => Delivered = {} /\ Replies(m, p, T)
    BY <1>2, <2>2 DEF Places, OnTheWay
  <2>5. \A i \in Delivered' : Replies(toPhone'[i], p, T)
    BY <2>3, <2>4 DEF OnTheWay
  <2>6. \A i \in Queued' : Replies(writeQueue'[i], p, T)
    BY <2>2 DEF OnTheWay
  <2> QED
    BY <1>1, <2>5, <2>6 DEF OnTheWay
<1> QED
  BY <1>3, <1>4

(* The others add no answer.                                               *)
LEMMA OtherAsking ==
  ASSUME AInv, Reached, Asking,
         \/ SendNotification \/ HangUp \/ TimerExpires \/ WriteTimeout
         \/ DisconnectCb \/ Exit \/ Tick \/ UNCHANGED vars
         \/ TaskWrites
         \/ phase = "ready" /\ \E r \in Request : Ask(r)
  PROVE  Reached' /\ Asking'
<1>1. UNCHANGED search /\ (link' = "up" => link = "up")
  BY DEF SendNotification, HangUp, TimerExpires, WriteTimeout, DisconnectCb, Exit, Tick,
         TaskWrites, Ask, vars, phone
<1>2. CASE phase = "ready"
  <2>1. UNCHANGED <<phase, cursor, service, found>>
    BY <1>1 DEF search
  <2> QED
    BY <1>2, <2>1 DEF Reached, InService, Asking
<1> SUFFICES ASSUME phase # "ready", link' = "up"
             PROVE  Reached' /\ Asking'
  <2>1. link' # "up" => Asking'
    BY DEF Asking
  <2>2. Reached'
    <3>1. UNCHANGED <<phase, cursor, service, found>>
      BY <1>1 DEF search
    <3> QED
      BY <3>1 DEF Reached, InService
  <2> QED
    BY <1>2, <2>1, <2>2
<1>3. link = "up" /\ OnTheWay(Question, phase, Within(phase, cursor, EndOfRange))
  BY <1>1 DEF Asking
<1>4. pendingWrite = None /\ timer = "off"
  BY <1>3 DEF OnTheWay, AInv, TInv, TimerMatchesWrite
<1>5. CASE SendNotification
  <2>1. UNCHANGED <<toServer, toPhone, pendingWrite>> /\ Listed(writeQueue) /\ io
    BY <1>3, <1>5 DEF SendNotification, server, AInv, WhileUp
  <2>2. writeQueue' = writeQueue \o <<Notification>>
    BY <1>5, <2>1 DEF SendNotification, Post
  <2>3. writeQueue' = Append(writeQueue, Notification)
    BY <2>1, <2>2, Added
  <2>4. /\ Answers(Append(writeQueue, Notification)) = Answers(writeQueue)
        /\ \A i \in Answers(writeQueue) : Append(writeQueue, Notification)[i] = writeQueue[i]
    BY <2>1, AddedAnswers
  <2>5. Queued' = Queued /\ \A i \in Queued : writeQueue'[i] = writeQueue[i]
    BY <2>3, <2>4 DEF Queued
  <2>6. \A q, p, T : OnTheWay(q, p, T) => OnTheWay(q, p, T)'
    BY <2>1, <2>5 DEF OnTheWay, Delivered, Answers
  <2> QED
    BY <1>1, <2>6, SameSearch
<1>6. CASE TimerExpires \/ Exit \/ Tick \/ UNCHANGED vars
  <2>1. UNCHANGED <<toServer, toPhone, writeQueue, pendingWrite>>
    BY <1>6 DEF TimerExpires, Exit, Tick, vars, att, server
  <2>2. \A q, p, T : OnTheWay(q, p, T) => OnTheWay(q, p, T)'
    BY <2>1 DEF OnTheWay, Queued, Delivered, Answers
  <2> QED
    BY <1>1, <2>2, SameSearch
<1>7. ~HangUp /\ ~WriteTimeout /\ ~DisconnectCb /\ ~TaskWrites
  BY <1>3, <1>4 DEF HangUp, WriteTimeout, DisconnectCb, TaskWrites
<1> QED
  BY <1>5, <1>6, <1>7

(* Nothing was found and nothing is on the way; each step keeps both.      *)
LEMMA InitAsking == Init => Reached /\ Asking
<1> SUFFICES ASSUME Init PROVE Reached /\ Asking
  OBVIOUS
<1>1. /\ phase = "services" /\ cursor = 1 /\ service = 0 /\ pendingWrite = None
      /\ found = [p \in Stages |-> {}]
      /\ toServer = <<>> /\ writeQueue = <<>> /\ toPhone = <<>>
  BY DEF Init, Stages
<1>2. Until("services", 1) = {}
  <2>1. \A h \in Target("services") : ~(h < 1)
    BY TargetFacts DEF Stages
  <2> QED
    BY <2>1, Zenon DEF Until
<1>3. Entries("services", {}) = {}
  BY DEF Entries
<1>4. 1 \in Nat \ {0} /\ 1 <= LastHandle
  BY DEF LastHandle
<1>5. \A p \in Stages : found[p] = {}
  BY <1>1
<1>6. found = [p \in Stages |-> found[p]]
  BY <1>1
<1>7. Reached
  BY <1>1, <1>2, <1>3, <1>4, <1>5, <1>6, Zenon DEF Reached, Stages
<1>8. 1 .. Len(toServer) = {} /\ Queued = {} /\ Delivered = {}
  BY <1>1 DEF Queued, Delivered, Answers
<1>9. Asking
  BY <1>1, <1>8, Zenon DEF Asking, OnTheWay
<1> QED
  BY <1>7, <1>9

LEMMA StepAsking == AInv /\ Reached /\ Asking /\ [Next]_vars => Reached' /\ Asking'
<1> SUFFICES ASSUME AInv, Reached, Asking, [Next]_vars PROVE Reached' /\ Asking'
  OBVIOUS
<1>1. CASE Explore
  BY <1>1, ExploreAsking
<1>2. CASE Receive
  BY <1>2, ReceiveAsking
<1>3. CASE CanReadData
  BY <1>3, CanReadDataAsking
<1>4. CASE CanWriteData
  BY <1>4, CanWriteDataAsking
<1>5. CASE \/ SendNotification \/ HangUp \/ TimerExpires \/ WriteTimeout
           \/ DisconnectCb \/ Exit \/ Tick \/ UNCHANGED vars
           \/ TaskWrites
           \/ phase = "ready" /\ \E r \in Request : Ask(r)
  BY <1>5, OtherAsking
<1> QED
  BY <1>1, <1>2, <1>3, <1>4, <1>5, Zenon DEF Next, ServerStep, PhoneStep

(* The three searches of a phone, whose answers hold as many entries as    *)
(* fit into an MTU (encode_read_by_grp_type_rsp, process_read_by_type,     *)
(* encode_find_info_rsp), end with the whole of any well-formed database.  *)
THEOREM DiscoveryIsExactHolds == Spec => []DiscoveryIsExact
<1>1. Init => AInv /\ Reached /\ Asking
  BY InitAnswers, InitAsking
<1>2. (AInv /\ Reached /\ Asking) /\ [Next]_vars => (AInv /\ Reached /\ Asking)'
  BY StepAnswers, StepAsking
<1>3. Reached => DiscoveryIsExact
  <2> SUFFICES ASSUME Reached, phase = "ready" PROVE DiscoveryIsExact
    BY DEF DiscoveryIsExact
  <2>1. \A p \in Stages : found[p] = All(p)
    BY Zenon DEF Reached
  <2>2. All("services") = {[handle |-> s.start, end |-> EndHandle(s)] :
                            s \in {Db.services[i] : i \in 1 .. Len(Db.services)}}
    <3>1. All("services") = {[handle |-> h, end |-> EndAt(h)] : h \in Starts}
      BY DEF All, Entries, Entry, Target
    <3>2. /\ \A i \in 1 .. Len(Db.services) :
               /\ Db.services[i].start \in Starts
               /\ EndAt(Db.services[i].start) = EndHandle(Db.services[i])
          /\ \A h \in Starts : \E i \in 1 .. Len(Db.services) : h = Db.services[i].start
      BY StartOf, Zenon
    <3> QED
      BY <3>1, <3>2
  <2>3. All("characteristics") = {[handle |-> h] : h \in OfType(Db, "characteristic")}
    BY DEF All, Entries, Entry, Target
  <2>4. All("descriptors") = {[handle |-> h] : h \in Handles(Db)}
    BY DEF All, Entries, Entry, Target
  <2> QED
    BY <2>1, <2>2, <2>3, <2>4 DEF DiscoveryIsExact, Stages
<1> QED
  BY <1>1, <1>2, <1>3, PTL DEF Spec

-----------------------------------------------------------------------------
(* Building.  Where the next service goes lies above all of them, and the  *)
(* first attribute of each declares it.                                    *)

ServiceRange == [start : Nat \ {0}, slots : Nat \ {0}, used : Nat]

Built(db) ==
  /\ WellFormed(db)
  /\ db.next \in Nat \ {0}
  /\ \A i \in 1 .. Len(db.services) :
       EndHandle(db.services[i]) < db.next /\ db.services[i].used >= 1

(* A database starts with no service and no attribute.                     *)
LEMMA EmptyIsBuilt == Built(EmptyDb)
<1>1. EmptyDb.next = 1 /\ EmptyDb.services = <<>> /\ EmptyDb.attribute = <<>>
  BY DEF EmptyDb
<1>2. 1 .. Len(EmptyDb.services) = {} /\ Handles(EmptyDb) = {}
  BY <1>1 DEF Handles
<1>3. EmptyDb.services \in Seq(ServiceRange)
  BY <1>1
<1>4. OfType(EmptyDb, "service") = {}
  BY <1>2 DEF OfType
<1>5. WellFormed(EmptyDb)
  BY <1>2, <1>3, <1>4 DEF WellFormed, ServiceRange
<1>6. EmptyDb.next \in Nat \ {0}
  BY <1>1
<1> QED
  BY <1>2, <1>5, <1>6, Zenon DEF Built

(* gatt_db_insert_service, whose test of UINT16_MAX is the assumption.     *)
LEMMA AddServiceBuilds ==
  ASSUME NEW db, Built(db), NEW uuid, NEW slots \in Nat \ {0},
         db.next + slots - 1 <= LastHandle
  PROVE  LET new == AddService(db, uuid, slots)
         IN  /\ Built(new) /\ new.next = db.next + slots
             /\ Len(new.services) = Len(db.services) + 1
<1> DEFINE new == AddService(db, uuid, slots)
           s == [start |-> db.next, slots |-> slots, used |-> 1]
           n == Len(db.services)
           starts == {db.services[i].start : i \in 1 .. n}
<1>1. /\ db.services \in Seq(ServiceRange)
      /\ \A i \in 1 .. n : EndHandle(db.services[i]) <= LastHandle
      /\ \A i, j \in 1 .. n :
           i < j => EndHandle(db.services[i]) < db.services[j].start
      /\ Handles(db) \subseteq Nat
      /\ \A h \in Handles(db) : \E i \in 1 .. n :
           h >= db.services[i].start /\ h <= EndHandle(db.services[i])
      /\ OfType(db, "service") = starts
  BY Zenon DEF Built, WellFormed, ServiceRange
<1>2. /\ db.next \in Nat \ {0} /\ n \in Nat
      /\ \A i \in 1 .. n : EndHandle(db.services[i]) < db.next
      /\ \A i \in 1 .. n : db.services[i].used >= 1
  BY <1>1, LenProperties DEF Built
<1>3. \A i \in 1 .. n :
        /\ db.services[i].start \in Nat \ {0} /\ db.services[i].slots \in Nat \ {0}
        /\ EndHandle(db.services[i]) \in Nat
        /\ db.services[i].start <= EndHandle(db.services[i])
  <2> SUFFICES ASSUME NEW i \in 1 .. n
               PROVE  /\ db.services[i].start \in Nat \ {0}
                      /\ db.services[i].slots \in Nat \ {0}
                      /\ EndHandle(db.services[i]) \in Nat
                      /\ db.services[i].start <= EndHandle(db.services[i])
    OBVIOUS
  <2>1. db.services[i] \in ServiceRange
    BY <1>1, ElementOfSeq
  <2>2. db.services[i].start \in Nat \ {0} /\ db.services[i].slots \in Nat \ {0}
    BY <2>1 DEF ServiceRange
  <2> QED
    BY <2>2 DEF EndHandle
<1>4. /\ new.next = db.next + slots
      /\ new.services = Append(db.services, s)
      /\ Handles(new) = Handles(db) \cup {db.next}
      /\ \A h \in Handles(new) :
           new.attribute[h] = IF h = db.next THEN NewAttribute("service", uuid, 2)
                              ELSE db.attribute[h]
  BY DEF AddService, Handles
<1> HIDE DEF new
<1>5. s \in ServiceRange /\ s.start = db.next /\ s.used = 1 /\ s.slots = slots
  BY <1>2 DEF ServiceRange
<1>6. EndHandle(s) = db.next + slots - 1
  BY <1>5 DEF EndHandle
<1> HIDE DEF s
<1>7. /\ new.services \in Seq(ServiceRange) /\ Len(new.services) = n + 1
      /\ new.services[n + 1] = s
      /\ \A i \in 1 .. n : new.services[i] = db.services[i]
  BY <1>1, <1>4, <1>5, AppendProperties
<1>8. 1 .. n + 1 = (1 .. n) \cup {n + 1} /\ n + 1 \notin 1 .. n
  BY <1>2
<1>9. /\ \A i \in 1 .. n + 1 : EndHandle(new.services[i]) <= LastHandle
      /\ \A i \in 1 .. n + 1 : EndHandle(new.services[i]) < new.next
      /\ \A i \in 1 .. n + 1 : new.services[i].used >= 1
  <2> SUFFICES ASSUME NEW i \in 1 .. n + 1
               PROVE  /\ EndHandle(new.services[i]) <= LastHandle
                      /\ EndHandle(new.services[i]) < new.next
                      /\ new.services[i].used >= 1
    OBVIOUS
  <2>1. CASE i \in 1 .. n
    BY <1>1, <1>2, <1>3, <1>4, <1>7, <2>1
  <2>2. CASE i = n + 1
    BY <1>2, <1>4, <1>5, <1>6, <1>7, <2>2
  <2> QED
    BY <1>8, <2>1, <2>2
<1>10. ASSUME NEW i \in 1 .. n + 1, NEW j \in 1 .. n + 1, i < j
       PROVE  EndHandle(new.services[i]) < new.services[j].start
  <2>1. i \in 1 .. n
    BY <1>2, <1>10
  <2>2. CASE j \in 1 .. n
    BY <1>1, <1>7, <1>10, <2>1, <2>2
  <2>3. CASE j = n + 1
    BY <1>2, <1>5, <1>7, <2>1, <2>3
  <2> QED
    BY <1>8, <2>2, <2>3
<1>11. Handles(new) \subseteq Nat
  BY <1>1, <1>2, <1>4
<1>12. ASSUME NEW h \in Handles(new)
       PROVE  \E i \in 1 .. n + 1 :
                h >= new.services[i].start /\ h <= EndHandle(new.services[i])
  <2>1. CASE h \in Handles(db)
    <3>1. PICK i \in 1 .. n : h >= db.services[i].start /\ h <= EndHandle(db.services[i])
      BY <1>1, <2>1
    <3> QED
      BY <1>7, <1>8, <3>1
  <2>2. CASE h = db.next
    <3>1. db.next >= s.start /\ db.next <= EndHandle(s)
      BY <1>2, <1>5, <1>6
    <3> QED
      BY <1>7, <1>8, <2>2, <3>1
  <2> QED
    BY <1>4, <2>1, <2>2
<1>13. OfType(new, "service") = {new.services[i].start : i \in 1 .. n + 1}
  <2>1. NewAttribute("service", uuid, 2).type = "service"
    BY DEF NewAttribute
  <2>2. OfType(new, "service") = OfType(db, "service") \cup {db.next}
    <3>1. db.next \notin Handles(db)
      <4> SUFFICES ASSUME db.next \in Handles(db) PROVE FALSE
        OBVIOUS
      <4>1. PICK i \in 1 .. n : db.next <= EndHandle(db.services[i])
        BY <1>1
      <4> QED
        BY <1>2, <1>3, <4>1
    <3> QED
      BY <1>4, <2>1, <3>1 DEF OfType
  <2>3. {new.services[i].start : i \in 1 .. n + 1} = starts \cup {db.next}
    BY <1>5, <1>7, <1>8
  <2> QED
    BY <1>1, <2>2, <2>3
<1>14. WellFormed(new)
  BY <1>7, <1>9, <1>10, <1>11, <1>12, <1>13, Zenon DEF WellFormed, ServiceRange
<1>15. new.next \in Nat \ {0}
  BY <1>2, <1>4
<1>16. Built(new)
  BY <1>7, <1>9, <1>14, <1>15, Zenon DEF Built
<1> QED
  BY <1>4, <1>7, <1>16 DEF new

(* A built database holds ranges of handles, none of them empty.           *)
LEMMA BuiltFacts ==
  ASSUME NEW db, Built(db)
  PROVE  /\ db.services \in Seq(ServiceRange) /\ Len(db.services) \in Nat
         /\ \A i \in 1 .. Len(db.services) :
              /\ db.services[i] \in ServiceRange
              /\ db.services[i].start \in Nat \ {0} /\ db.services[i].slots \in Nat \ {0}
              /\ db.services[i].used \in Nat /\ db.services[i].used >= 1
              /\ EndHandle(db.services[i]) \in Nat
              /\ db.services[i].start <= EndHandle(db.services[i])
<1>1. db.services \in Seq(ServiceRange)
  BY Zenon DEF Built, WellFormed, ServiceRange
<1>2. Len(db.services) \in Nat
  BY <1>1, LenProperties
<1> SUFFICES ASSUME NEW i \in 1 .. Len(db.services)
             PROVE  /\ db.services[i] \in ServiceRange
                    /\ db.services[i].start \in Nat \ {0}
                    /\ db.services[i].slots \in Nat \ {0}
                    /\ db.services[i].used \in Nat /\ db.services[i].used >= 1
                    /\ EndHandle(db.services[i]) \in Nat
                    /\ db.services[i].start <= EndHandle(db.services[i])
  BY <1>1, <1>2
<1>3. db.services[i] \in ServiceRange
  BY <1>1, ElementOfSeq
<1>4. db.services[i].start \in Nat \ {0} /\ db.services[i].slots \in Nat \ {0}
      /\ db.services[i].used \in Nat
  BY <1>3 DEF ServiceRange
<1>5. db.services[i].used >= 1
  BY DEF Built
<1> QED
  BY <1>3, <1>4, <1>5 DEF EndHandle

(* The handles an insertion takes are those after the ones in use.         *)
LEMMA TakenHandles ==
  ASSUME NEW start \in Nat, NEW used \in Nat, NEW slots \in Nat, NEW k \in Nat,
         used + k <= slots, NEW h \in start + used .. start + used + k - 1
  PROVE  /\ h \in Nat /\ h >= start /\ h <= start + slots - 1
         /\ h - (start + used) + 1 \in 1 .. k
OBVIOUS

(* What is inserted lies above the start of the last service, which is the *)
(* only one that changes, and declares no other.                           *)
LEMMA InsertBuilds ==
  ASSUME NEW db, Built(db), Len(db.services) # 0,
         NEW attributes, Len(attributes) \in Nat,
         \A i \in 1 .. Len(attributes) : attributes[i].type # "service"
  PROVE  LET new == Insert(db, attributes)
         IN  Built(new) /\ new.next = db.next /\ Len(new.services) = Len(db.services)
<1> DEFINE new == Insert(db, attributes)
           n == Len(db.services)
           k == Len(attributes)
           s == db.services[n]
           first == s.start + s.used
           places == first .. first + k - 1
<1>1. CASE s.used + k > s.slots
  <2>1. new = db
    BY <1>1 DEF Insert
  <2> QED
    BY <2>1
<1>2. CASE ~(s.used + k > s.slots)
  <2>1. /\ new.next = db.next
        /\ new.services = [db.services EXCEPT ![n].used = @ + k]
        /\ Handles(new) = Handles(db) \cup places
        /\ \A h \in Handles(new) :
             new.attribute[h] = IF h \in places THEN attributes[h - first + 1]
                                ELSE db.attribute[h]
    BY <1>2 DEF Insert, Handles
  <2>2. n \in 1 .. n /\ n \in Nat
    BY BuiltFacts
  <2>3. /\ s \in ServiceRange /\ s.start \in Nat \ {0} /\ s.slots \in Nat \ {0}
        /\ s.used \in Nat /\ s.used >= 1 /\ EndHandle(s) = s.start + s.slots - 1
    BY <2>2, BuiltFacts DEF EndHandle
  <2> HIDE DEF new
  <2> DEFINE t == [s EXCEPT !.used = @ + k]
  <2>4. /\ t \in ServiceRange /\ t.start = s.start /\ t.slots = s.slots
        /\ t.used = s.used + k
    BY <2>3 DEF ServiceRange
  <2>5. EndHandle(t) = EndHandle(s)
    BY <2>4 DEF EndHandle
  <2>6. new.services = [db.services EXCEPT ![n] = t]
    BY <2>1
  <2> HIDE DEF t
  <2>7. /\ new.services \in Seq(ServiceRange) /\ Len(new.services) = n
        /\ \A i \in 1 .. n : new.services[i] = IF i = n THEN t ELSE db.services[i]
    BY <2>2, <2>4, <2>6, BuiltFacts, ExceptSeq
  <2>8. \A i \in 1 .. n :
          /\ new.services[i].start = db.services[i].start
          /\ EndHandle(new.services[i]) = EndHandle(db.services[i])
          /\ new.services[i].used >= 1
    <3> SUFFICES ASSUME NEW i \in 1 .. n
                 PROVE  /\ new.services[i].start = db.services[i].start
                        /\ EndHandle(new.services[i]) = EndHandle(db.services[i])
                        /\ new.services[i].used >= 1
      OBVIOUS
    <3>1. CASE i = n
      <4>1. new.services[i] = t /\ db.services[i] = s
        BY <2>7, <3>1
      <4>2. s.used \in Nat /\ s.used >= 1 /\ k \in Nat
        BY <2>3
      <4> HIDE DEF s, k
      <4>3. t.used >= 1
        BY <2>4, <4>2
      <4> QED
        BY <2>4, <2>5, <4>1, <4>3, Zenon
    <3>2. CASE i # n
      <4>1. new.services[i] = db.services[i]
        BY <2>7, <3>2
      <4>2. db.services[i].used >= 1
        BY BuiltFacts
      <4> QED
        BY <4>1, <4>2, Zenon
    <3> QED
      BY <3>1, <3>2
  <2>9. /\ \A i \in 1 .. n : EndHandle(db.services[i]) <= LastHandle
        /\ \A i, j \in 1 .. n :
             i < j => EndHandle(db.services[i]) < db.services[j].start
        /\ Handles(db) \subseteq Nat
        /\ \A h \in Handles(db) : \E i \in 1 .. n :
             h >= db.services[i].start /\ h <= EndHandle(db.services[i])
        /\ OfType(db, "service") = {db.services[i].start : i \in 1 .. n}
    BY Zenon DEF Built, WellFormed
  <2>10. \A h \in places :
           /\ h \in Nat /\ h >= s.start /\ h <= EndHandle(s) /\ h - first + 1 \in 1 .. k
    <3>1. s.used \in Nat /\ s.start \in Nat /\ s.slots \in Nat /\ k \in Nat
      BY <2>3
    <3> HIDE DEF s, k
    <3>2. s.used + k <= s.slots
      BY <1>2, <3>1
    <3> QED
      BY <2>3, <3>1, <3>2, TakenHandles
  <2>11. \A i \in 1 .. n : db.services[i].start \notin places
    <3> SUFFICES ASSUME NEW i \in 1 .. n, db.services[i].start \in places PROVE FALSE
      OBVIOUS
    <3>1. first \in Nat /\ s.start < first /\ first <= db.services[i].start
      BY <2>3
    <3>2. CASE i = n
      BY <2>3, <3>1, <3>2
    <3>3. CASE i # n
      <4>1. i < n
        BY <2>2, <3>3
      <4>2. EndHandle(db.services[i]) < s.start
        BY <2>2, <2>9, <4>1
      <4>3. /\ db.services[i].start \in Nat /\ EndHandle(db.services[i]) \in Nat
            /\ db.services[i].start <= EndHandle(db.services[i])
        BY BuiltFacts
      <4> QED
        BY <2>3, <3>1, <4>2, <4>3
    <3> QED
      BY <3>2, <3>3
  <2>12. OfType(new, "service") = OfType(db, "service")
    <3>1. \A h \in places : h \in Handles(new) /\ new.attribute[h].type # "service"
      BY <2>1, <2>10
    <3>2. \A h \in Handles(new) \ places :
            h \in Handles(db) /\ new.attribute[h] = db.attribute[h]
      BY <2>1
    <3>3. \A h \in OfType(db, "service") : h \in Handles(new) \ places
      <4>1. OfType(db, "service") \subseteq Handles(db)
        BY DEF OfType
      <4>2. \A h \in OfType(db, "service") : h \notin places
        BY <2>9, <2>11
      <4> QED
        BY <2>1, <4>1, <4>2
    <3> HIDE DEF places
    <3> QED
      BY <3>1, <3>2, <3>3 DEF OfType
  <2>13. {new.services[i].start : i \in 1 .. n} = {db.services[i].start : i \in 1 .. n}
    BY <2>8
  <2>14. Handles(new) \subseteq Nat
    BY <2>1, <2>9, <2>10
  <2>15. ASSUME NEW h \in Handles(new)
         PROVE  \E i \in 1 .. n :
                  h >= new.services[i].start /\ h <= EndHandle(new.services[i])
    <3>1. CASE h \in Handles(db)
      BY <2>8, <2>9, <3>1
    <3>2. CASE h \in places
      BY <2>2, <2>8, <2>10, <3>2
    <3> QED
      BY <2>1, <3>1, <3>2
  <2> HIDE DEF places
  <2>16. OfType(new, "service") = {new.services[i].start : i \in 1 .. n}
    BY <2>9, <2>12, <2>13
  <2>17. /\ \A i \in 1 .. n : EndHandle(new.services[i]) <= LastHandle
         /\ \A i, j \in 1 .. n :
              i < j => EndHandle(new.services[i]) < new.services[j].start
    BY <2>8, <2>9
  <2>18. WellFormed(new)
    BY <2>7, <2>14, <2>15, <2>16, <2>17, Zenon DEF WellFormed, ServiceRange
  <2>19. /\ new.next \in Nat \ {0}
         /\ \A i \in 1 .. n : EndHandle(new.services[i]) < new.next
    BY <2>1, <2>8 DEF Built
  <2>20. Built(new)
    BY <2>7, <2>8, <2>18, <2>19, Zenon DEF Built
  <2> QED
    BY <2>1, <2>7, <2>20 DEF new
<1> QED
  BY <1>1, <1>2

(* gatt_db_service_add_characteristic: the declaration and the value.      *)
LEMMA CharacteristicBuilds ==
  ASSUME NEW db, Built(db), Len(db.services) # 0,
         NEW uuid, uuid # "service", NEW len, NEW perm, NEW at
  PROVE  LET new == AddCharacteristic(db, uuid, len, perm, at)
         IN  Built(new) /\ new.next = db.next /\ Len(new.services) = Len(db.services)
<1> DEFINE value == [NewAttribute(uuid, uuid, len) EXCEPT !.perm = perm, !.at = at]
           both == <<NewAttribute("characteristic", uuid, 5), value>>
<1>1. NewAttribute("characteristic", uuid, 5).type = "characteristic"
  BY DEF NewAttribute
<1>2. value.type = uuid
  BY DEF NewAttribute
<1> HIDE DEF value
<1>3. /\ Len(both) = 2 /\ both[2] = value
      /\ both[1] = NewAttribute("characteristic", uuid, 5)
  OBVIOUS
<1> HIDE DEF both
<1>4. Len(both) \in Nat /\ \A i \in 1 .. Len(both) : both[i].type # "service"
  <2>1. \A i \in 1 .. Len(both) : i = 1 \/ i = 2
    BY <1>3
  <2> QED
    BY <1>1, <1>2, <1>3, <2>1
<1>5. AddCharacteristic(db, uuid, len, perm, at) = Insert(db, both)
  BY DEF AddCharacteristic, both, value
<1> QED
  BY <1>4, <1>5, InsertBuilds

(* gatt_db_service_add_descriptor.                                         *)
LEMMA DescriptorBuilds ==
  ASSUME NEW db, Built(db), Len(db.services) # 0,
         NEW uuid, uuid # "service", NEW len, NEW perm, NEW at
  PROVE  LET new == AddDescriptor(db, uuid, len, perm, at)
         IN  Built(new) /\ new.next = db.next /\ Len(new.services) = Len(db.services)
<1> DEFINE value == [NewAttribute(uuid, uuid, len) EXCEPT !.perm = perm, !.at = at]
           one == <<value>>
<1>1. value.type = uuid
  BY DEF NewAttribute
<1> HIDE DEF value
<1>2. Len(one) = 1 /\ one[1] = value
  OBVIOUS
<1> HIDE DEF one
<1>3. Len(one) \in Nat /\ \A i \in 1 .. Len(one) : one[i].type # "service"
  <2>1. \A i \in 1 .. Len(one) : i = 1
    BY <1>2
  <2> QED
    BY <1>1, <1>2, <2>1
<1>4. AddDescriptor(db, uuid, len, perm, at) = Insert(db, one)
  BY DEF AddDescriptor, one, value
<1> QED
  BY <1>3, <1>4, InsertBuilds

(* What populate_gap_service, populate_gatt_service and Application::run   *)
(* build is well-formed, as DbAssumption has it: the three services follow *)
(* each other, and leave handle 21 to the next one.                        *)
THEOREM AcmDbIsWellFormed == WellFormed(AcmDb) /\ AcmDb.next = 21
<1> DEFINE Holds(db, next, n) == /\ Built(db) /\ db.next = next /\ next \in Nat
                                 /\ Len(db.services) = n
           Uuids == {"DeviceName", "ExtendedProperties", "Appearance",
                     "ServiceChanged", "ClientConfiguration", "AcmCharState",
                     "AcmCharFeedb"}
<1>1. "service" \notin Uuids
  OBVIOUS
<1>2. Holds(EmptyDb, 1, 0)
  <2>1. EmptyDb.next = 1 /\ Len(EmptyDb.services) = 0
    BY DEF EmptyDb
  <2> QED
    BY <2>1, EmptyIsBuilt
<1>3. ASSUME NEW db, NEW next \in Nat, NEW n \in Nat, Holds(db, next, n),
             NEW uuid, NEW slots \in Nat \ {0}, next + slots <= LastHandle
      PROVE  Holds(AddService(db, uuid, slots), next + slots, n + 1)
  BY <1>3, LastHandleIsNat, AddServiceBuilds
<1>4. ASSUME NEW db, NEW next, NEW n \in Nat \ {0}, Holds(db, next, n),
             NEW uuid \in Uuids, NEW len, NEW perm, NEW at
      PROVE  Holds(AddCharacteristic(db, uuid, len, perm, at), next, n)
  BY <1>1, <1>4, CharacteristicBuilds
<1>5. ASSUME NEW db, NEW next, NEW n \in Nat \ {0}, Holds(db, next, n),
             NEW uuid \in Uuids, NEW len, NEW perm, NEW at
      PROVE  Holds(AddDescriptor(db, uuid, len, perm, at), next, n)
  BY <1>1, <1>5, DescriptorBuilds
<1>6. 7 <= LastHandle /\ 11 <= LastHandle /\ 21 <= LastHandle
  BY DEF LastHandle
<1>7. /\ "DeviceName" \in Uuids /\ "ExtendedProperties" \in Uuids
      /\ "Appearance" \in Uuids /\ "ServiceChanged" \in Uuids
      /\ "ClientConfiguration" \in Uuids /\ "AcmCharState" \in Uuids
      /\ "AcmCharFeedb" \in Uuids
  OBVIOUS
<1> HIDE DEF Holds, Uuids
<1>8. ASSUME NEW db, Holds(db, 1, 0)
      PROVE  Holds(PopulateGap(db), 7, 1)
  <2> DEFINE empty == AddService(db, "GAP", 6)
             name == AddCharacteristic(empty, "DeviceName", 11, {"read", "write"}, "name")
             props == AddDescriptor(name, "ExtendedProperties", 2, {"read"}, "props")
             all == AddCharacteristic(props, "Appearance", 2, {"read"}, "db")
  <2>1. Holds(empty, 7, 1)
    <3>1. Holds(empty, 1 + 6, 0 + 1)
      BY <1>3, <1>6, <1>8
    <3> QED
      BY <3>1
  <2>2. Holds(name, 7, 1)
    BY <1>4, <1>7, <2>1
  <2>3. Holds(props, 7, 1)
    BY <1>5, <1>7, <2>2
  <2>4. Holds(all, 7, 1)
    BY <1>4, <1>7, <2>3
  <2> QED
    BY <2>4 DEF PopulateGap
<1>9. ASSUME NEW db, Holds(db, 7, 1)
      PROVE  Holds(PopulateGatt(db), 11, 2)
  <2> DEFINE empty == AddService(db, "GATT", 4)
             changed == AddCharacteristic(empty, "ServiceChanged", 0, {"read"}, "changed")
             all == AddDescriptor(changed, "ClientConfiguration", 2, {"read", "write"}, "ccc")
  <2>1. Holds(empty, 11, 2)
    <3>1. Holds(empty, 7 + 4, 1 + 1)
      BY <1>3, <1>6, <1>9
    <3> QED
      BY <3>1
  <2>2. Holds(changed, 11, 2)
    BY <1>4, <1>7, <2>1
  <2>3. Holds(all, 11, 2)
    BY <1>5, <1>7, <2>2
  <2> QED
    BY <2>3 DEF PopulateGatt
<1>10. ASSUME NEW db, Holds(db, 11, 2)
       PROVE  Holds(AddAcmService(db), 21, 3)
  <2> DEFINE empty == AddService(db, "AcmService", 10)
             state == AddCharacteristic(empty, "AcmCharState", 0, {"write"}, "state")
             feedback == AddCharacteristic(state, "AcmCharFeedb", 0, {"read"}, "db")
             all == AddDescriptor(feedback, "ClientConfiguration", 0, {"read"}, "db")
  <2>1. Holds(empty, 21, 3)
    <3>1. Holds(empty, 11 + 10, 2 + 1)
      BY <1>3, <1>6, <1>10
    <3> QED
      BY <3>1
  <2>2. Holds(state, 21, 3)
    BY <1>4, <1>7, <2>1
  <2>3. Holds(feedback, 21, 3)
    BY <1>4, <1>7, <2>2
  <2>4. Holds(all, 21, 3)
    BY <1>5, <1>7, <2>3
  <2> QED
    BY <2>4 DEF AddAcmService
<1>11. Holds(AcmDb, 21, 3)
  BY <1>2, <1>8, <1>9, <1>10 DEF AcmDb
<1> QED
  BY <1>11 DEF Holds, Built

=============================================================================
