--------------------------- MODULE SmartVerdictProofs ---------------------------
(***************************************************************************)
(* Proofs about SmartVerdict for every set of makes, levels and word size. *)
(* First, no percentage shown leaves 0 .. 100, whatever a firmware counts. *)
(* Second, a worn-out drive is critical, as long as no drive counts past   *)
(* its rated life in an encoding that cannot say so.                       *)
(***************************************************************************)
EXTENDS SmartVerdict, TLAPS

Percent == 0 .. 100

(* Attributes and payloads as far as the arithmetic depends on them.       *)
Numeric(a) == a.value \in Int /\ a.raw \in Nat
NumericTable(t) == \A id \in DOMAIN t : Numeric(t[id])
NumericPayload(p) ==
  /\ \A t \in p.table : NumericTable(t)
  /\ \A l \in p.log : l.used \in Nat
  /\ p.hours \in Nat

(* Each reading of a wear attribute is a percentage, or nothing.           *)
LEMMA WearPercentInRange ==
  ASSUME NEW id, NEW a, Numeric(a)
  PROVE  WearPercent(id, a) \subseteq Percent
<1>1. NormalizedDown(a) \subseteq Percent
  BY DEF NormalizedDown, Clamp, Numeric, Percent
<1>2. LifetimeRemain(a) \subseteq Percent
  BY DEF LifetimeRemain, Clamp, Numeric, Percent
<1> QED  BY <1>1, <1>2 DEF WearPercent

(* ... and so is the life taken from the first attribute that resolves.    *)
LEMMA SsdLifeInRange ==
  ASSUME NEW t, NumericTable(t)
  PROVE  SsdLife(t) \subseteq Percent
<1>1. \A i \in 1 .. 6 : Resolves(t, i) =>
        WearPercent(WearIds[i], t[WearIds[i]]) \subseteq Percent
  <2> SUFFICES ASSUME NEW i \in 1 .. 6, Resolves(t, i)
               PROVE  WearPercent(WearIds[i], t[WearIds[i]]) \subseteq Percent
    OBVIOUS
  <2>1. Numeric(t[WearIds[i]])
    BY DEF Resolves, NumericTable
  <2> QED  BY <2>1, WearPercentInRange
<1> QED  BY <1>1 DEF SsdLife

(* The endurance and the age of any payload.                               *)
LEMMA ParseInRange ==
  ASSUME NEW p, NumericPayload(p)
  PROVE  Parse(p) \in [status : Statuses, life : SUBSET Percent, age : SUBSET Percent]
<1>1. Life(p) \subseteq Percent
  <2>1. \A l \in p.log : Clamp(100 - l.used, 0, 100) \in Percent
    BY DEF NumericPayload, Clamp, Percent
  <2>2. \A t \in p.table : SsdLife(t) \subseteq Percent
    BY SsdLifeInRange DEF NumericPayload
  <2> QED  BY <2>1, <2>2 DEF Life
<1>2. Age(p) \subseteq Percent
  <2>1. (p.hours * 100) \div HddLifeRefHours \in Int
    BY DEF NumericPayload, HddLifeRefHours
  <2>2. \A q \in Int : Clamp(q, 0, 100) \in Percent
    BY DEF Clamp, Percent
  <2> QED  BY <2>1, <2>2 DEF Age
<1>3. Verdict(p) \in Statuses
  BY DEF Verdict, Statuses
<1> QED  BY <1>1, <1>2, <1>3 DEF Parse, NoHealth, Statuses

(* smartctl's numbers for a drive are numbers.                             *)
LEMMA PayloadIsNumeric ==
  ASSUME NEW d \in Drives
  PROVE  NumericPayload(Payload(d))
<1>1. /\ d.used \in Nat /\ d.hours \in Nat /\ d.temp \in Nat
      /\ \A c \in Counters : d.count[c] \in Nat
  <2>1. d.used \in UsedLevels /\ d.hours \in HourLevels /\ d.temp \in Temps
    BY DEF Drives
  <2>2. d.count \in [Counters -> CountLevels]
    BY DEF Drives
  <2>3. \A c \in Counters : d.count[c] \in CountLevels
    BY <2>2
  <2>4. UsedLevels \subseteq Nat /\ HourLevels \subseteq Nat /\ CountLevels \subseteq Nat
    BY VerdictConstants
  <2>5. Temps \subseteq Nat
    BY DEF Temps, Cool, Warm, Hot
  <2> QED  BY <2>1, <2>3, <2>4, <2>5
<1>2. \A id \in DOMAIN WearTable(d) : Numeric(WearTable(d)[id])
  <2>1. Left(d) \in Int  BY <1>1 DEF Left
  <2> QED  BY <1>1, <2>1 DEF WearTable, Gauge, LifeGauge, Numeric
<1>3. \A c \in Counters : Numeric(Counter(d, c))
  BY <1>1, VerdictConstants DEF Counter, Numeric
<1>4. NumericTable(Table(d))
  <2> SUFFICES ASSUME NEW id \in CounterIds \cup DOMAIN WearTable(d)
               PROVE  Numeric(Table(d)[id])
    BY DEF NumericTable, Table
  <2>1. CASE id \in DOMAIN WearTable(d)
    <3>1. Table(d)[id] = WearTable(d)[id]  BY <2>1 DEF Table
    <3> QED  BY <3>1, <2>1, <1>2
  <2>2. CASE id \notin DOMAIN WearTable(d)
    <3>1. \E c \in Counters : IdOf(c) = id  BY <2>2 DEF CounterIds
    <3> DEFINE c0 == CHOOSE c \in Counters : IdOf(c) = id
    <3>2. c0 \in Counters  BY <3>1
    <3>3. Table(d)[id] = Counter(d, c0)  BY <2>2 DEF Table
    <3> QED  BY <3>2, <3>3, <1>3
  <2> QED  BY <2>1, <2>2
<1>5. /\ Payload(d).table \subseteq {Table(d)}
      /\ Payload(d).log \subseteq {HealthLog(d)}
      /\ Payload(d).hours = d.hours
  BY DEF Payload
<1>6. HealthLog(d).used \in Nat  BY <1>1 DEF HealthLog
<1> QED  BY <1>1, <1>4, <1>5, <1>6 DEF NumericPayload

(* TypeOK for every make, level and word size: the percentages the daemon  *)
(* serves stay in 0 .. 100 through a drive's whole life.                   *)
THEOREM PercentagesArePercentages == Spec => []TypeOK
<1>1. Init => TypeOK
  <2> SUFFICES ASSUME Init PROVE TypeOK  OBVIOUS
  <2>1. drive \in Drives
    <3>1. PICK make \in Makes, encoding \in Encodings : drive = NewDrive(make, encoding)
      BY DEF Init
    <3> QED  BY <3>1, VerdictConstants DEF NewDrive, Drives, Temps
  <2>2. health = Parse(Payload(drive))  BY DEF Init
  <2> QED  BY <2>1, <2>2, PayloadIsNumeric, ParseInRange DEF TypeOK, Percent
<1>2. TypeOK /\ [Next]_vars => TypeOK'
  <2> SUFFICES ASSUME TypeOK, [Next]_vars PROVE TypeOK'  OBVIOUS
  <2>1. ASSUME drive' \in Drives, Probed PROVE TypeOK'
    BY <2>1, PayloadIsNumeric, ParseInRange DEF TypeOK, Percent, Probed
  <2>2. ASSUME NEW used \in UsedLevels, Wear(used) PROVE TypeOK'
    BY <2>1, <2>2 DEF Wear, TypeOK, Drives
  <2>3. ASSUME NEW hours \in HourLevels, Run(hours) PROVE TypeOK'
    BY <2>1, <2>3 DEF Run, TypeOK, Drives
  <2>4. ASSUME NEW c \in Counters, NEW n \in CountLevels, Damage(c, n) PROVE TypeOK'
    <3>1. [drive.count EXCEPT ![c] = n] \in [Counters -> CountLevels]
      BY DEF TypeOK, Drives
    <3>2. drive' = [drive EXCEPT !.count = [drive.count EXCEPT ![c] = n]]
      BY <2>4 DEF Damage
    <3> QED  BY <2>1, <2>4, <3>1, <3>2 DEF Damage, TypeOK, Drives
  <2>5. CASE FailSelfTest
    BY <2>1, <2>5 DEF FailSelfTest, TypeOK, Drives
  <2>6. ASSUME NEW t \in Temps, ChangeTemp(t) PROVE TypeOK'
    <3>1. (drive.baked \/ t = Hot) \in BOOLEAN  OBVIOUS
    <3> QED  BY <2>1, <2>6, <3>1 DEF ChangeTemp, TypeOK, Drives
  <2>7. CASE ProbeGarbled
    <3>1. health' = NoHealth  BY <2>7 DEF ProbeGarbled, Parse, Payload
    <3>2. NoHealth \in [status : Statuses, life : SUBSET Percent, age : SUBSET Percent]
      BY DEF NoHealth, Statuses
    <3>3. drive' \in Drives  BY <2>7 DEF ProbeGarbled, TypeOK
    <3> QED  BY <3>1, <3>2, <3>3 DEF TypeOK, Percent
  <2>8. CASE ProbeUnread
    <3> DEFINE unread == [Payload(drive) EXCEPT !.passed = {}, !.table = {}, !.log = {}]
    <3>1. NumericPayload(unread)
      <4>1. NumericPayload(Payload(drive))  BY PayloadIsNumeric DEF TypeOK
      <4>2. unread.table = {} /\ unread.log = {} /\ unread.hours = Payload(drive).hours
        BY DEF Payload
      <4> QED  BY <4>1, <4>2 DEF NumericPayload
    <3>2. health' = Parse(unread) /\ drive' = drive  BY <2>8 DEF ProbeUnread
    <3> HIDE DEF unread
    <3> QED  BY <3>1, <3>2, ParseInRange DEF TypeOK, Percent
  <2>9. CASE UNCHANGED vars
    BY <2>9 DEF vars, TypeOK
  <2> QED  BY <2>2, <2>3, <2>4, <2>5, <2>6, <2>7, <2>8, <2>9 DEF Next
<1> QED  BY <1>1, <1>2, PTL DEF Spec

--------------------------------------------------------------------------------
(***************************************************************************)
(* A worn-out drive is critical.                                           *)
(***************************************************************************)
CannotSayMore == {"pinned", "reversed"}

(* The first wear attribute that resolves decides.                         *)
LEMMA FirstResolvedDecides ==
  ASSUME NEW t, NEW i \in 1 .. 6, NEW id, WearIds[i] = id, id \in DOMAIN t,
         NEW v, WearPercent(id, t[id]) = {v},
         \A j \in 1 .. 6 : j < i => ~Resolves(t, j)
  PROVE  SsdLife(t) = {v}
<1> DEFINE First == {k \in 1 .. 6 : Resolves(t, k) /\ \A j \in 1 .. k - 1 : ~Resolves(t, j)}
<1>1. Resolves(t, i)  BY DEF Resolves
<1>2. i \in First  BY <1>1
<1>3. \A k \in First : k = i
  <2> SUFFICES ASSUME NEW k \in First, k # i PROVE FALSE  OBVIOUS
  <2>1. k < i \/ i < k  OBVIOUS
  <2>2. CASE k < i  BY <2>2
  <2>3. CASE i < k
    <3>1. i \in 1 .. k - 1  BY <2>3
    <3> QED  BY <1>1, <3>1
  <2> QED  BY <2>1, <2>2, <2>3
<1>4. SsdLife(t) = UNION {WearPercent(WearIds[k], t[WearIds[k]]) : k \in First}
  BY DEF SsdLife
<1> HIDE DEF First
<1>5. First = {i}  BY <1>2, <1>3
<1>6. {WearPercent(WearIds[k], t[WearIds[k]]) : k \in First} = {{v}}  BY <1>5
<1> QED  BY <1>4, <1>6

(* The table of a drive holds its wear attributes and its counters.        *)
LEMMA TableOf ==
  ASSUME NEW d
  PROVE  /\ DOMAIN Table(d) = {5, 187, 197, 198, 199} \cup DOMAIN WearTable(d)
         /\ \A id \in DOMAIN WearTable(d) : Table(d)[id] = WearTable(d)[id]
<1>1. CounterIds = {5, 187, 197, 198, 199}
  <2>1. /\ IdOf("reallocated") = 5 /\ IdOf("uncorrectable") = 187
        /\ IdOf("pending") = 197 /\ IdOf("offline") = 198 /\ IdOf("crc") = 199
    BY DEF IdOf
  <2> QED  BY <2>1 DEF CounterIds, Counters
<1> QED  BY <1>1 DEF Table

(* The life every make but a spinning disk shows: what is left of it, but  *)
(* for the first two percent of a pinned drive, which look mirrored.       *)
ShownLife(d) == IF d.make = "pinned" /\ d.used <= 2 THEN 100 ELSE Left(d)

(* In whichever attribute and direction a drive counts, that is all that   *)
(* is shown.                                                               *)
LEMMA LifeShown ==
  ASSUME NEW d \in Drives, d.make \in SsdMakes \cup {"nvme"},
         d.used <= 100 \/ d.make \notin CannotSayMore
  PROVE  Life(Payload(d)) = {ShownLife(d)}
<1> DEFINE t == Table(d)
<1>1. d.used \in Nat /\ d.temp \in Temps
  BY VerdictConstants DEF Drives
<1>2. Left(d) \in 0 .. 100
  BY <1>1 DEF Left
<1>3. /\ WearIds[1] = 231 /\ WearIds[2] = 233 /\ WearIds[3] = 177
      /\ WearIds[4] = 169 /\ WearIds[5] = 202 /\ WearIds[6] = 173
  BY DEF WearIds
<1>dom. DOMAIN t = {5, 187, 197, 198, 199} \cup DOMAIN WearTable(d)
  BY TableOf
<1>row. \A id \in DOMAIN WearTable(d) : t[id] = WearTable(d)[id]
  BY TableOf
<1> HIDE DEF t
<1>4. CASE d.make = "nvme"
  <2>1. Class(Payload(d)) = "nvme" /\ Payload(d).log = {HealthLog(d)}
    BY <1>4 DEF Class, Payload
  <2>2. Clamp(100 - HealthLog(d).used, 0, 100) = ShownLife(d)
    BY <1>1, <1>4 DEF HealthLog, Clamp, ShownLife, Left
  <2> QED  BY <2>1, <2>2 DEF Life
<1>5. CASE d.make \in SsdMakes
  <2>1. Life(Payload(d)) = SsdLife(t)
    <3>1. Class(Payload(d)) = "ssd" /\ Payload(d).table = {t}
      BY <1>5 DEF t, Class, Payload, SsdMakes
    <3> QED  BY <3>1 DEF Life
  <2>2. CASE d.make = "gauge"
    <3>1. WearTable(d) = [id \in {233} |-> Gauge(Left(d), 0)]  BY <2>2 DEF WearTable
    <3>2. DOMAIN t = {5, 187, 197, 198, 199} \cup {233} /\ t[233] = Gauge(Left(d), 0)
      <4>1. DOMAIN WearTable(d) = {233} /\ WearTable(d)[233] = Gauge(Left(d), 0)
        BY <3>1
      <4> QED  BY <4>1, <1>dom, <1>row
    <3>3. WearPercent(233, t[233]) = {Left(d)}
      BY <1>2, <3>2 DEF WearPercent, NormalizedDown, Gauge
    <3>4. \A j \in 1 .. 6 : j < 2 => ~Resolves(t, j)  BY <1>3, <3>2 DEF Resolves
    <3>5. SsdLife(t) = {Left(d)}
      BY <1>3, <3>2, <3>3, <3>4, FirstResolvedDecides
    <3> QED  BY <2>1, <2>2, <3>5 DEF ShownLife
  <2>3. CASE d.make = "life"
    <3>1. WearTable(d) = [id \in {231} |-> LifeGauge(Left(d))]  BY <2>3 DEF WearTable
    <3>2. DOMAIN t = {5, 187, 197, 198, 199} \cup {231} /\ t[231] = LifeGauge(Left(d))
      <4>1. DOMAIN WearTable(d) = {231} /\ WearTable(d)[231] = LifeGauge(Left(d))
        BY <3>1
      <4> QED  BY <4>1, <1>dom, <1>row
    <3>3. WearPercent(231, t[231]) = {Left(d)}
      BY <1>2, <3>2 DEF WearPercent, NormalizedDown, Gauge, LifeGauge
    <3>5. SsdLife(t) = {Left(d)}
      <4>1. \A j \in 1 .. 6 : j < 1 => ~Resolves(t, j)  OBVIOUS
      <4>2. 231 \in DOMAIN t /\ WearIds[1] = 231 /\ 1 \in 1 .. 6  BY <1>3, <3>2
      <4> QED  BY <3>3, <4>1, <4>2, FirstResolvedDecides
    <3> QED  BY <2>1, <2>3, <3>5 DEF ShownLife
  <2>4. CASE d.make = "misnamed"
    <3>1. WearTable(d) = [id \in {231, 233} |->
                            Gauge(IF id = 231 THEN 100 - d.temp ELSE Left(d), 0)]
      BY <2>4 DEF WearTable
    <3>2. /\ DOMAIN t = {5, 187, 197, 198, 199} \cup {231, 233}
          /\ t[231] = Gauge(100 - d.temp, 0) /\ t[233] = Gauge(Left(d), 0)
      <4>1. /\ DOMAIN WearTable(d) = {231, 233}
            /\ WearTable(d)[231] = Gauge(100 - d.temp, 0)
            /\ WearTable(d)[233] = Gauge(Left(d), 0)
        BY <3>1
      <4> QED  BY <4>1, <1>dom, <1>row
    <3>3. WearPercent(233, t[233]) = {Left(d)}
      BY <1>2, <3>2 DEF WearPercent, NormalizedDown, Gauge
    <3>4. \A j \in 1 .. 6 : j < 2 => ~Resolves(t, j)
      BY <1>3, <3>2 DEF Resolves, WearPercent, Gauge
    <3>5. SsdLife(t) = {Left(d)}
      BY <1>3, <3>2, <3>3, <3>4, FirstResolvedDecides
    <3> QED  BY <2>1, <2>4, <3>5 DEF ShownLife
  <2>5. CASE d.make = "mirrored"
    <3>1. WearTable(d) = [id \in {202} |-> Gauge(Left(d), d.used)]  BY <2>5 DEF WearTable
    <3>2. DOMAIN t = {5, 187, 197, 198, 199} \cup {202} /\ t[202] = Gauge(Left(d), d.used)
      <4>1. DOMAIN WearTable(d) = {202} /\ WearTable(d)[202] = Gauge(Left(d), d.used)
        BY <3>1
      <4> QED  BY <4>1, <1>dom, <1>row
    <3>3. WearPercent(202, t[202]) = {Left(d)}
      BY <1>1, <1>2, <3>2 DEF WearPercent, LifetimeRemain, Gauge, Left, Clamp, Abs
    <3>4. \A j \in 1 .. 6 : j < 5 => ~Resolves(t, j)
      BY <1>3, <3>2 DEF Resolves
    <3>5. SsdLife(t) = {Left(d)}
      BY <1>3, <3>2, <3>3, <3>4, FirstResolvedDecides
    <3> QED  BY <2>1, <2>5, <3>5 DEF ShownLife
  <2>6. CASE d.make = "pinned"
    <3>1. WearTable(d) = [id \in {202} |-> Gauge(100, d.used)]  BY <2>6 DEF WearTable
    <3>2. DOMAIN t = {5, 187, 197, 198, 199} \cup {202} /\ t[202] = Gauge(100, d.used)
      <4>1. DOMAIN WearTable(d) = {202} /\ WearTable(d)[202] = Gauge(100, d.used)
        BY <3>1
      <4> QED  BY <4>1, <1>dom, <1>row
    <3>3. WearPercent(202, t[202]) = {ShownLife(d)}
      BY <1>1, <2>6, <3>2 DEF WearPercent, LifetimeRemain, Gauge, Clamp, Abs, CannotSayMore,
           ShownLife, Left
    <3>4. \A j \in 1 .. 6 : j < 5 => ~Resolves(t, j)
      BY <1>3, <3>2 DEF Resolves
    <3>5. SsdLife(t) = {ShownLife(d)}
      BY <1>3, <3>2, <3>3, <3>4, FirstResolvedDecides
    <3> QED  BY <2>1, <3>5
  <2>7. CASE d.make = "reversed"
    <3>1. WearTable(d) = [id \in {177} |-> Gauge(200, d.used)]  BY <2>7 DEF WearTable
    <3>2. DOMAIN t = {5, 187, 197, 198, 199} \cup {177} /\ t[177] = Gauge(200, d.used)
      <4>1. DOMAIN WearTable(d) = {177} /\ WearTable(d)[177] = Gauge(200, d.used)
        BY <3>1
      <4> QED  BY <4>1, <1>dom, <1>row
    <3>3. WearPercent(177, t[177]) = {ShownLife(d)}
      BY <1>1, <2>7, <3>2 DEF WearPercent, NormalizedDown, Gauge, Clamp, CannotSayMore,
           ShownLife, Left
    <3>4. \A j \in 1 .. 6 : j < 3 => ~Resolves(t, j)
      BY <1>3, <3>2 DEF Resolves
    <3>5. SsdLife(t) = {ShownLife(d)}
      BY <1>3, <3>2, <3>3, <3>4, FirstResolvedDecides
    <3> QED  BY <2>1, <3>5
  <2> QED  BY <1>5, <2>2, <2>3, <2>4, <2>5, <2>6, <2>7 DEF SsdMakes
<1> QED  BY <1>4, <1>5

(* The strengthening: what is shown is the drive's last probe or nothing,  *)
(* and only makes in Overrun are past their rated life.                    *)
ShownIsProbed ==
  /\ drive \in Drives
  /\ health.status # "none" => health = Parse(Payload(drive))
  /\ drive.used <= 100 \/ drive.make \in Overrun
  /\ drive.make = "hdd" => drive.used = 0

(* The strengthening holds from the first probe on.                        *)
LEMMA ShownIsProbedInvariant == Spec => []ShownIsProbed
<1>1. Init => ShownIsProbed
  <2> SUFFICES ASSUME Init PROVE ShownIsProbed  OBVIOUS
  <2>1. PICK make \in Makes, encoding \in Encodings : drive = NewDrive(make, encoding)
    BY DEF Init
  <2>2. drive \in Drives /\ drive.used = 0
    BY <2>1, VerdictConstants DEF NewDrive, Drives, Temps
  <2> QED  BY <2>2 DEF Init, ShownIsProbed
<1>2. ShownIsProbed /\ [Next]_vars => ShownIsProbed'
  <2> SUFFICES ASSUME ShownIsProbed, [Next]_vars PROVE ShownIsProbed'  OBVIOUS
  <2>0. drive \in Drives  BY DEF ShownIsProbed
  <2>1. ASSUME NEW used \in UsedLevels, Wear(used) PROVE ShownIsProbed'
    <3>1. /\ drive' \in Drives /\ drive'.used = used /\ drive'.make = drive.make
      BY <2>0, <2>1 DEF Wear, Drives
    <3> QED  BY <3>1, <2>1 DEF Wear, Probed, ShownIsProbed
  <2>2. ASSUME NEW hours \in HourLevels, Run(hours) PROVE ShownIsProbed'
    <3>1. /\ drive' \in Drives /\ drive'.used = drive.used /\ drive'.make = drive.make
      BY <2>0, <2>2 DEF Run, Drives
    <3> QED  BY <3>1, <2>2 DEF Run, Probed, ShownIsProbed
  <2>3. ASSUME NEW c \in Counters, NEW n \in CountLevels, Damage(c, n) PROVE ShownIsProbed'
    <3>1. [drive.count EXCEPT ![c] = n] \in [Counters -> CountLevels]
      BY <2>0 DEF Drives
    <3>2. drive' = [drive EXCEPT !.count = [drive.count EXCEPT ![c] = n]]
      BY <2>3 DEF Damage
    <3>3. /\ drive' \in Drives /\ drive'.used = drive.used /\ drive'.make = drive.make
      BY <2>0, <3>1, <3>2 DEF Drives
    <3> QED  BY <3>3, <2>3 DEF Damage, Probed, ShownIsProbed
  <2>4. CASE FailSelfTest
    <3>1. /\ drive' \in Drives /\ drive'.used = drive.used /\ drive'.make = drive.make
      BY <2>0, <2>4 DEF FailSelfTest, Drives
    <3> QED  BY <3>1, <2>4 DEF FailSelfTest, Probed, ShownIsProbed
  <2>5. ASSUME NEW t \in Temps, ChangeTemp(t) PROVE ShownIsProbed'
    <3>1. (drive.baked \/ t = Hot) \in BOOLEAN  OBVIOUS
    <3>2. /\ drive' \in Drives /\ drive'.used = drive.used /\ drive'.make = drive.make
      BY <2>0, <2>5, <3>1 DEF ChangeTemp, Drives
    <3> QED  BY <3>2, <2>5 DEF ChangeTemp, Probed, ShownIsProbed
  <2>6. CASE ProbeGarbled
    <3>1. health'.status = "none"  BY <2>6 DEF ProbeGarbled, Parse, Payload, NoHealth
    <3> QED  BY <3>1, <2>6 DEF ProbeGarbled, ShownIsProbed
  <2>7. CASE ProbeUnread
    <3> DEFINE unread == [Payload(drive) EXCEPT !.passed = {}, !.table = {}, !.log = {}]
    <3>1. unread.passed = {} /\ unread.table = {} /\ unread.log = {} /\ unread.valid
      BY DEF Payload
    <3>2. health' = Parse(unread) /\ drive' = drive  BY <2>7 DEF ProbeUnread
    <3> HIDE DEF unread
    <3>3. health'.status = "none"
      BY <3>1, <3>2 DEF Parse, Verdict, HasSignal
    <3> QED  BY <3>2, <3>3 DEF ShownIsProbed
  <2>8. CASE UNCHANGED vars
    BY <2>8 DEF vars, ShownIsProbed
  <2> QED  BY <2>1, <2>2, <2>3, <2>4, <2>5, <2>6, <2>7, <2>8 DEF Next
<1> QED  BY <1>1, <1>2, PTL DEF Spec

(* A worn-out drive is shown as critical in every encoding of wear, if no  *)
(* pinned or reversed drive counts past its rated life.                    *)
THEOREM WornOutDrivesAreCritical ==
  ASSUME Overrun \cap CannotSayMore = {}
  PROVE  Spec => []WornOutIsCritical
<1>1. ShownIsProbed => WornOutIsCritical
  <2> SUFFICES ASSUME ShownIsProbed, drive.used >= 95, Read(health)
               PROVE  health.status = "critical"
    BY DEF WornOutIsCritical
  <2>1. drive \in Drives /\ drive.make \in SsdMakes \cup {"nvme"}
    BY VerdictConstants DEF ShownIsProbed, Drives, AllMakes
  <2>2. drive.used <= 100 \/ drive.make \notin CannotSayMore
    BY DEF ShownIsProbed
  <2>3. Life(Payload(drive)) = {ShownLife(drive)}
    BY <2>1, <2>2, LifeShown
  <2>4. Critical(Payload(drive))
    <3>1. drive.used \in Nat
      BY <2>1, VerdictConstants DEF Drives
    <3>2. ShownLife(drive) <= 5
      BY <3>1 DEF ShownLife, Left
    <3> QED  BY <2>3, <3>2 DEF Critical
  <2>5. HasSignal(Payload(drive))
    BY DEF HasSignal, Payload
  <2>6. health = Parse(Payload(drive)) /\ Payload(drive).valid
    BY DEF ShownIsProbed, Read, Payload
  <2> QED  BY <2>4, <2>5, <2>6 DEF Parse, Verdict
<1> QED  BY <1>1, ShownIsProbedInvariant, PTL

--------------------------------------------------------------------------------
(***************************************************************************)
(* The defects of a drive and the alarms.                                  *)
(***************************************************************************)
(* The low word of a packed counter is the counter.                        *)
LEMMA LowWord ==
  ASSUME NEW n \in Nat, n < Word
  PROVE  (n + Word) % Word = n
<1>1. Word \in Nat /\ Word > 0
  BY VerdictConstants
<1> DEFINE q == (n + Word) \div Word
           m == (n + Word) % Word
<1>2. q \in Int /\ m \in 0 .. Word - 1 /\ n + Word = Word * q + m
  BY <1>1
<1> HIDE DEF q
<1>3. m = (n + Word) % Word
  OBVIOUS
<1> HIDE DEF m
<1>4. q = 1
  <2>1. CASE q <= 0
    <3>1. Word * q <= 0  BY <1>1, <1>2, <2>1
    <3> QED  BY <1>1, <1>2, <3>1
  <2>2. CASE q >= 2
    <3>1. Word * q >= Word * 2  BY <1>1, <1>2, <2>2
    <3> QED  BY <1>1, <1>2, <3>1
  <2> QED  BY <1>2, <2>1, <2>2
<1> QED  BY <1>1, <1>2, <1>3, <1>4

(* A counter is read as it is, packed or spelled out.                      *)
LEMMA CounterRead ==
  ASSUME NEW d \in Drives, NEW c \in Counters
  PROVE  RawCount(Counter(d, c)) = d.count[c]
<1>1. d.count[c] \in CountLevels
  BY DEF Drives
<1>2. d.count[c] \in Nat /\ d.count[c] < Word
  BY <1>1, VerdictConstants
<1>3. CASE d.encoding = "packed"
  <2>1. Counter(d, c).text = {} /\ Counter(d, c).raw = d.count[c] + Word
    BY <1>3 DEF Counter
  <2> QED  BY <1>2, <2>1, LowWord DEF RawCount
<1>4. CASE d.encoding # "packed"
  <2>1. Counter(d, c).text = {d.count[c]}
    BY <1>4 DEF Counter
  <2> QED  BY <2>1 DEF RawCount
<1> QED  BY <1>3, <1>4

(* No wear attribute has the number of a counter.                          *)
LEMMA WearIsNoCounter ==
  ASSUME NEW d
  PROVE  DOMAIN WearTable(d) \subseteq {177, 202, 231, 233}
BY DEF WearTable

(* The verdict counts what the drive counts, attribute by attribute.       *)
LEMMA CountIsDefects ==
  ASSUME NEW d \in Drives
  PROVE  /\ \A c \in Counters : Count(Table(d), IdOf(c)) = d.count[c]
         /\ Count(Table(d), 10) = 0
<1>1. /\ IdOf("reallocated") = 5 /\ IdOf("uncorrectable") = 187
      /\ IdOf("pending") = 197 /\ IdOf("offline") = 198 /\ IdOf("crc") = 199
  BY DEF IdOf
<1>2. ASSUME NEW c \in Counters PROVE Count(Table(d), IdOf(c)) = d.count[c]
  <2>1. \A b \in Counters : IdOf(b) = IdOf(c) => b = c
    BY <1>1 DEF Counters
  <2>2. (CHOOSE b \in Counters : IdOf(b) = IdOf(c)) = c
    BY <2>1
  <2>3. IdOf(c) \in CounterIds /\ IdOf(c) \notin DOMAIN WearTable(d)
    BY <1>1, WearIsNoCounter DEF CounterIds, Counters
  <2>4. IdOf(c) \in DOMAIN Table(d) /\ Table(d)[IdOf(c)] = Counter(d, c)
    BY <2>2, <2>3 DEF Table
  <2> QED  BY <2>4, CounterRead DEF Count
<1>3. 10 \notin DOMAIN Table(d)
  <2>1. DOMAIN Table(d) = {5, 187, 197, 198, 199} \cup DOMAIN WearTable(d)
    BY TableOf
  <2> QED  BY <2>1, WearIsNoCounter
<1> QED  BY <1>2, <1>3 DEF Count

(* ... so the table is critical or warned of by the drive's defects alone. *)
LEMMA TableDefects ==
  ASSUME NEW d \in Drives
  PROVE  /\ AtaCritical(Table(d)) <=> d.count["uncorrectable"] > 0 \/ d.count["offline"] > 0
         /\ AtaWarned(Table(d)) <=> d.count["reallocated"] > 0 \/ d.count["pending"] > 0
<1>1. /\ IdOf("reallocated") = 5 /\ IdOf("uncorrectable") = 187
      /\ IdOf("pending") = 197 /\ IdOf("offline") = 198
  BY DEF IdOf
<1>2. /\ Count(Table(d), 5) = d.count["reallocated"]
      /\ Count(Table(d), 187) = d.count["uncorrectable"]
      /\ Count(Table(d), 197) = d.count["pending"]
      /\ Count(Table(d), 198) = d.count["offline"]
  BY <1>1, CountIsDefects DEF Counters
<1>3. Count(Table(d), 10) = 0
  BY CountIsDefects
<1> QED  BY <1>2, <1>3 DEF AtaCritical, AtaWarned

(* What smartctl prints for a drive, as far as the verdict looks at it.    *)
LEMMA PayloadOf ==
  ASSUME NEW d \in Drives
  PROVE  /\ Payload(d).passed = {~d.failed} /\ HasSignal(Payload(d)) /\ Payload(d).valid = TRUE
         /\ Temp(Payload(d)) = d.temp
         /\ d.make = "nvme" => /\ Class(Payload(d)) = "nvme" /\ Payload(d).table = {}
                               /\ Payload(d).log = {HealthLog(d)}
         /\ d.make # "nvme" => /\ Class(Payload(d)) = IF d.make = "hdd" THEN "hdd" ELSE "ssd"
                               /\ Payload(d).table = {Table(d)} /\ Payload(d).log = {}
<1>1. Payload(d).passed = {~d.failed} /\ Payload(d).valid = TRUE
  BY DEF Payload
<1>2. HasSignal(Payload(d))
  BY <1>1 DEF HasSignal
<1>3. CASE d.make = "nvme"
  <2>1. Payload(d).table = {} /\ Payload(d).log = {HealthLog(d)} /\ Payload(d).temp = 0
    BY <1>3 DEF Payload
  <2>2. Class(Payload(d)) = "nvme"
    BY <2>1 DEF Class
  <2>3. (CHOOSE l \in Payload(d).log : TRUE) = HealthLog(d)
    BY <2>1
  <2>4. Temp(Payload(d)) = d.temp
    BY <2>1, <2>3 DEF Temp, HealthLog
  <2> QED  BY <1>1, <1>2, <1>3, <2>1, <2>2, <2>4
<1>4. CASE d.make # "nvme"
  <2>1. /\ Payload(d).table = {Table(d)} /\ Payload(d).log = {} /\ Payload(d).temp = d.temp
        /\ Payload(d).protocol = "ATA" /\ Payload(d).rotation = IF d.make = "hdd" THEN 7200 ELSE 0
    BY <1>4 DEF Payload
  <2>2. Class(Payload(d)) = IF d.make = "hdd" THEN "hdd" ELSE "ssd"
    BY <2>1 DEF Class
  <2>3. Temp(Payload(d)) = d.temp
    BY <2>1 DEF Temp
  <2> QED  BY <1>1, <1>2, <1>4, <2>1, <2>2, <2>3
<1> QED  BY <1>3, <1>4

(* What is left of a drive shows, and a spinning disk shows no life.       *)
LEMMA LifeOfAny ==
  ASSUME NEW d \in Drives, d.used <= 100 \/ d.make \notin CannotSayMore
  PROVE  Life(Payload(d)) = IF d.make = "hdd" THEN {} ELSE {ShownLife(d)}
<1>1. d.make \in SsdMakes \cup {"nvme", "hdd"}
  BY VerdictConstants DEF Drives, AllMakes
<1>2. CASE d.make = "hdd"
  BY <1>2, PayloadOf DEF Life
<1>3. CASE d.make # "hdd"
  BY <1>1, <1>3, LifeShown
<1> QED  BY <1>2, <1>3

(* The levels of a drive are numbers.                                      *)
LEMMA LevelsOf ==
  ASSUME NEW d \in Drives
  PROVE  d.used \in Nat /\ d.temp \in Nat /\ \A c \in Counters : d.count[c] \in Nat
<1>1. d.used \in UsedLevels /\ d.temp \in Temps /\ \A c \in Counters : d.count[c] \in CountLevels
  BY DEF Drives
<1>2. d.temp \in Nat
  BY <1>1 DEF Temps, Cool, Warm, Hot
<1> QED  BY <1>1, <1>2, VerdictConstants

(* The findings about a drive: a verdict is worse than healthy exactly for *)
(* a defect, a failed test, heat now or before, or little life left.       *)
LEMMA SoundRaisesNothing ==
  ASSUME NEW d \in Drives, \A c \in Counters \ {"crc"} : d.count[c] = 0, d.used < 90,
         d.failed = FALSE, d.baked = FALSE, ~TooHot(d)
  PROVE  ~Critical(Payload(d)) /\ ~Warned(Payload(d))
<1>1. /\ d.count["uncorrectable"] = 0 /\ d.count["offline"] = 0
      /\ d.count["reallocated"] = 0 /\ d.count["pending"] = 0
  BY DEF Counters
<1>2. d.used \in Nat /\ d.temp \in Nat
  BY LevelsOf
<1>3. ShownLife(d) > 10 /\ ShownLife(d) \in Int
  BY <1>2 DEF ShownLife, Left
<1>shown. Life(Payload(d)) \subseteq {ShownLife(d)}
  BY <1>2, LifeOfAny
<1>4. \A v \in Life(Payload(d)) : v \in Int /\ v > 10
  BY <1>3, <1>shown
<1>5. FALSE \notin Payload(d).passed /\ Temp(Payload(d)) = d.temp
  BY PayloadOf
<1>6. CASE d.make = "nvme"
  <2>1. Class(Payload(d)) = "nvme" /\ Payload(d).log = {HealthLog(d)}
    BY <1>6, PayloadOf
  <2>2. /\ HealthLog(d).warning = 0 /\ HealthLog(d).threshold = 10 /\ HealthLog(d).spare = 100
        /\ HealthLog(d).mediaErrors = 0 /\ HealthLog(d).hotTime = 0
    BY <1>1 DEF HealthLog, SpareThreshold
  <2>3. ~NvmeCritical(HealthLog(d)) /\ ~NvmeWarned(HealthLog(d))
    BY <2>2 DEF NvmeCritical, NvmeWarned
  <2>4. d.temp < 70
    BY <1>2, <1>6 DEF TooHot
  <2>5. ~Critical(Payload(d))
    <3>1. ~\E v \in Life(Payload(d)) : v <= 5
      BY <1>4
    <3> QED  BY <3>1, <1>5, <2>1, <2>3 DEF Critical
  <2>6. Temp(Payload(d)) < IF Class(Payload(d)) = "hdd" THEN 60 ELSE 70
    BY <1>5, <2>1, <2>4
  <2>7. ~(Temp(Payload(d)) >= IF Class(Payload(d)) = "hdd" THEN 60 ELSE 70)
    BY <1>2, <1>5, <2>6
  <2>8. ~\E v \in Life(Payload(d)) : v <= 10
    BY <1>4
  <2> QED  BY <2>1, <2>3, <2>5, <2>7, <2>8 DEF Warned
<1>7. CASE d.make # "nvme"
  <2>1. /\ Class(Payload(d)) = IF d.make = "hdd" THEN "hdd" ELSE "ssd"
        /\ Payload(d).table = {Table(d)} /\ Payload(d).log = {}
    BY <1>7, PayloadOf
  <2>2. ~AtaCritical(Table(d)) /\ ~AtaWarned(Table(d))
    BY <1>1, TableDefects
  <2>3. d.temp < IF d.make = "hdd" THEN 60 ELSE 70
    BY <1>2 DEF TooHot
  <2>4. ~Critical(Payload(d))
    <3>1. ~\E v \in Life(Payload(d)) : v <= 5
      BY <1>4
    <3> QED  BY <3>1, <1>5, <2>1, <2>2 DEF Critical
  <2>5. ~(Temp(Payload(d)) >= IF Class(Payload(d)) = "hdd" THEN 60 ELSE 70)
    BY <1>2, <1>5, <2>1, <2>3
  <2>6. ~\E v \in Life(Payload(d)) : v <= 10
    BY <1>4
  <2> QED  BY <2>1, <2>2, <2>4, <2>5, <2>6 DEF Warned
<1> QED  BY <1>6, <1>7

(* ... and for each of these the verdict is worse.                         *)
LEMMA DefectRaises ==
  ASSUME NEW d \in Drives, d.used <= 100 \/ d.make \notin CannotSayMore,
         d.make = "hdd" => d.used = 0,
         \/ \E c \in CountersOf(d.make) \ {"crc"} : d.count[c] # 0
         \/ d.failed = TRUE \/ TooHot(d) \/ d.used >= 90
  PROVE  Critical(Payload(d)) \/ Warned(Payload(d))
<1>1. d.used \in Nat /\ d.temp \in Nat /\ \A c \in Counters : d.count[c] \in Nat
  BY LevelsOf
<1>2. CASE d.failed = TRUE
  BY <1>2, PayloadOf DEF Critical
<1>3. CASE d.used >= 90
  <2>1. d.make # "hdd"
    BY <1>1, <1>3
  <2>2. ShownLife(d) <= 10
    BY <1>1, <1>3 DEF ShownLife, Left
  <2> QED  BY <2>1, <2>2, LifeOfAny DEF Warned
<1>4. CASE TooHot(d)
  <2>1. Temp(Payload(d)) >= IF d.make = "hdd" THEN 60 ELSE 70
    BY <1>4, PayloadOf DEF TooHot
  <2>2. Class(Payload(d)) = "hdd" <=> d.make = "hdd"
    BY PayloadOf
  <2> QED  BY <2>1, <2>2 DEF Warned
<1>5. ASSUME NEW c \in CountersOf(d.make) \ {"crc"}, d.count[c] # 0
      PROVE  Critical(Payload(d)) \/ Warned(Payload(d))
  <2>1. c \in Counters
    BY DEF CountersOf, Counters
  <2>2. d.count[c] > 0
    BY <1>1, <1>5, <2>1
  <2>3. CASE d.make = "nvme"
    <3>1. Payload(d).log = {HealthLog(d)} /\ c \in {"uncorrectable", "reallocated", "offline"}
      BY <2>3, PayloadOf DEF CountersOf
    <3>2. /\ HealthLog(d).threshold = 10 /\ HealthLog(d).mediaErrors = d.count["uncorrectable"]
          /\ HealthLog(d).spare = IF d.count["offline"] > 0 THEN 5
                                  ELSE IF d.count["reallocated"] > 0 THEN 15 ELSE 100
      BY DEF HealthLog, SpareThreshold
    <3>3. NvmeCritical(HealthLog(d)) \/ NvmeWarned(HealthLog(d))
      BY <2>2, <3>1, <3>2 DEF NvmeCritical, NvmeWarned
    <3> QED  BY <3>1, <3>3 DEF Critical, Warned
  <2>4. CASE d.make # "nvme"
    <3>1. Class(Payload(d)) # "nvme" /\ Payload(d).table = {Table(d)}
      BY <2>4, PayloadOf
    <3>2. c \in {"uncorrectable", "offline", "reallocated", "pending"}
      BY <2>1 DEF Counters
    <3>3. AtaCritical(Table(d)) \/ AtaWarned(Table(d))
      BY <2>2, <3>2, TableDefects
    <3> QED  BY <3>1, <3>3 DEF Critical, Warned
  <2> QED  BY <2>3, <2>4
<1> QED  BY <1>2, <1>3, <1>4, <1>5

(* For every make, encoding and level, nothing but a defect, a failed test,*)
(* spent life or heat makes the verdict worse than healthy.                *)
THEOREM AlarmsAreEarned == Spec => []NoFalseAlarm
<1>1. ASSUME ShownIsProbed PROVE NoFalseAlarm
  <2>1. SUFFICES ASSUME \A c \in Counters \ {"crc"} : drive.count[c] = 0, drive.used < 90,
                        ~drive.failed, ~drive.baked, ~TooHot(drive), health.status # "none"
                 PROVE  health.status = "healthy"
    BY DEF NoFalseAlarm
  <2>2. drive \in Drives /\ health = Parse(Payload(drive))
    BY <1>1, <2>1 DEF ShownIsProbed
  <2>3. drive.failed \in BOOLEAN /\ drive.baked \in BOOLEAN
    BY <2>2 DEF Drives
  <2>4. drive.failed = FALSE /\ drive.baked = FALSE
    BY <2>1, <2>3
  <2>5. ~Critical(Payload(drive)) /\ ~Warned(Payload(drive))
    BY <2>1, <2>2, <2>4, SoundRaisesNothing
  <2> QED  BY <2>2, <2>5, PayloadOf DEF Parse, Verdict
<1> QED  BY <1>1, ShownIsProbedInvariant, PTL

(* "healthy" is never false reassurance, in any encoding that can say what *)
(* the drive counts.                                                       *)
THEOREM HealthyDrivesAreSound ==
  ASSUME Overrun \cap CannotSayMore = {}
  PROVE  Spec => []HealthyMeansSound
<1>1. ASSUME ShownIsProbed PROVE HealthyMeansSound
  <2>1. SUFFICES ASSUME health.status = "healthy"
                 PROVE  /\ \A c \in CountersOf(drive.make) \ {"crc"} : drive.count[c] = 0
                        /\ ~drive.failed /\ ~TooHot(drive) /\ drive.used < 90
    BY DEF HealthyMeansSound
  <2>2. /\ drive \in Drives /\ health = Parse(Payload(drive))
        /\ drive.used <= 100 \/ drive.make \notin CannotSayMore
        /\ drive.make = "hdd" => drive.used = 0
    BY <1>1, <2>1 DEF ShownIsProbed
  <2>3. ~Critical(Payload(drive)) /\ ~Warned(Payload(drive))
    BY <2>1, <2>2, PayloadOf DEF Parse, Verdict
  <2>4. drive.failed \in BOOLEAN /\ drive.used \in Nat
    BY <2>2, VerdictConstants DEF Drives
  <2>5. ~(\/ \E c \in CountersOf(drive.make) \ {"crc"} : drive.count[c] # 0
          \/ drive.failed = TRUE \/ TooHot(drive) \/ drive.used >= 90)
    BY <2>2, <2>3, DefectRaises
  <2> QED  BY <2>4, <2>5
<1> QED  BY <1>1, ShownIsProbedInvariant, PTL

--------------------------------------------------------------------------------
(* A step keeps the make of the drive and gives none of its life back.     *)
LEMMA DriveAges ==
  ASSUME drive \in Drives, [Next]_vars
  PROVE  drive'.make = drive.make /\ drive'.used >= drive.used
<1>0. drive.used \in Nat
  BY LevelsOf
<1>1. ASSUME NEW used \in UsedLevels, Wear(used) PROVE drive'.make = drive.make /\ drive'.used >= drive.used
  <2>1. drive' = [drive EXCEPT !.used = used] /\ used > drive.used /\ used \in Nat
    BY <1>1, VerdictConstants DEF Wear
  <2> QED  BY <2>1, <1>0 DEF Drives
<1>2. ASSUME NEW hours \in HourLevels, Run(hours) PROVE drive'.make = drive.make /\ drive'.used = drive.used
  BY <1>2 DEF Run, Drives
<1>3. ASSUME NEW c \in Counters, NEW n \in CountLevels, Damage(c, n)
      PROVE  drive'.make = drive.make /\ drive'.used = drive.used
  <2>1. drive' = [drive EXCEPT !.count = [drive.count EXCEPT ![c] = n]]
    BY <1>3 DEF Damage
  <2> QED  BY <2>1 DEF Drives
<1>4. CASE FailSelfTest
  BY <1>0, <1>4 DEF FailSelfTest, Drives
<1>5. ASSUME NEW t \in Temps, ChangeTemp(t) PROVE drive'.make = drive.make /\ drive'.used = drive.used
  BY <1>5 DEF ChangeTemp, Drives
<1>6. CASE ProbeGarbled \/ ProbeUnread \/ UNCHANGED vars
  BY <1>0, <1>6 DEF ProbeGarbled, ProbeUnread, vars
<1> QED  BY <1>0, <1>1, <1>2, <1>3, <1>4, <1>5, <1>6 DEF Next

(* The endurance shown neither rises nor disappears between two probes, in *)
(* any encoding that can say what the drive counts.                        *)
THEOREM LifeFalls ==
  ASSUME Overrun \cap CannotSayMore = {}
  PROVE  Spec => LifeOnlyFalls
<1>1. ASSUME ShownIsProbed, ShownIsProbed', [Next]_vars, Read(health), Read(health'), NEW old \in health.life
      PROVE  \E new \in health'.life : new <= old
  <2>1. /\ drive \in Drives /\ health = Parse(Payload(drive))
        /\ drive.used <= 100 \/ drive.make \notin CannotSayMore
    BY <1>1 DEF ShownIsProbed, Read
  <2>2. /\ drive' \in Drives /\ health' = Parse(Payload(drive'))
        /\ drive'.used <= 100 \/ drive'.make \notin CannotSayMore
    BY <1>1 DEF ShownIsProbed, Read
  <2>3. drive'.make = drive.make /\ drive'.used >= drive.used
    BY <1>1, <2>1, DriveAges
  <2>4. health.life = Life(Payload(drive))
    BY <2>1, PayloadOf DEF Parse
  <2>5. health'.life = Life(Payload(drive'))
    BY <2>2, PayloadOf DEF Parse
  <2>6. drive.make # "hdd" /\ old = ShownLife(drive)
    BY <2>1, <2>4, <1>1, LifeOfAny
  <2>7. health'.life = {ShownLife(drive')}
    BY <2>2, <2>3, <2>5, <2>6, LifeOfAny
  <2>8. drive.used \in Nat
    BY <2>1, LevelsOf
  <2>9. drive'.used \in Nat
    BY <2>2, LevelsOf
  <2>10. ShownLife(drive') <= ShownLife(drive)
    BY <2>3, <2>8, <2>9 DEF ShownLife, Left
  <2> QED  BY <2>6, <2>7, <2>10
<1>2. ShownIsProbed /\ ShownIsProbed' /\ [Next]_vars =>
        [Read(health) /\ Read(health') =>
           \A old \in health.life : \E new \in health'.life : new <= old]_vars
  BY <1>1
<1> QED  BY <1>2, ShownIsProbedInvariant, PTL DEF Spec, LifeOnlyFalls

--------------------------------------------------------------------------------
(* What makes a verdict critical, and what at least warns.                 *)
SpentTo(d, percent) == d.make # "hdd" /\ ShownLife(d) <= percent
Grave(d) ==
  d.failed = TRUE \/ d.count["uncorrectable"] > 0 \/ d.count["offline"] > 0 \/ SpentTo(d, 5)
Worrying(d) ==
  \/ d.count["reallocated"] > 0 \/ TooHot(d) \/ SpentTo(d, 10)
  \/ d.make = "nvme" /\ (d.count["offline"] > 0 \/ d.baked = TRUE)
  \/ d.make # "nvme" /\ d.count["pending"] > 0

(* The two lists are complete.                                             *)
LEMMA FindingsAre ==
  ASSUME NEW d \in Drives, d.used <= 100 \/ d.make \notin CannotSayMore
  PROVE  (Critical(Payload(d)) <=> Grave(d)) /\ (Warned(Payload(d)) <=> Worrying(d))
<1>1. d.used \in Nat /\ d.temp \in Nat /\ \A c \in Counters : d.count[c] \in Nat
  BY LevelsOf
<1>2. \A percent \in {5, 10} : (\E v \in Life(Payload(d)) : v <= percent) <=> SpentTo(d, percent)
  BY LifeOfAny DEF SpentTo
<1>3. FALSE \in Payload(d).passed <=> d.failed = TRUE
  <2>1. d.failed \in BOOLEAN  BY DEF Drives
  <2> QED  BY <2>1, PayloadOf
<1>4. Temp(Payload(d)) >= (IF Class(Payload(d)) = "hdd" THEN 60 ELSE 70) <=> TooHot(d)
  <2>1. Class(Payload(d)) = "hdd" <=> d.make = "hdd"  BY PayloadOf
  <2> QED  BY <2>1, PayloadOf DEF TooHot
<1>5. CASE d.make = "nvme"
  <2>1. Class(Payload(d)) = "nvme" /\ Payload(d).log = {HealthLog(d)} /\ Payload(d).table = {}
    BY <1>5, PayloadOf
  <2>2. /\ HealthLog(d).threshold = 10 /\ HealthLog(d).mediaErrors = d.count["uncorrectable"]
        /\ HealthLog(d).spare = IF d.count["offline"] > 0 THEN 5
                                ELSE IF d.count["reallocated"] > 0 THEN 15 ELSE 100
        /\ HealthLog(d).warning = (IF d.failed THEN 1 ELSE 0)
        /\ HealthLog(d).hotTime = (IF d.baked THEN 1 ELSE 0)
    BY DEF HealthLog, SpareThreshold
  <2>3. d.failed \in BOOLEAN /\ d.baked \in BOOLEAN
    BY DEF Drives
  <2>4. NvmeCritical(HealthLog(d)) <=>
          d.failed = TRUE \/ d.count["offline"] > 0 \/ d.count["uncorrectable"] > 0
    BY <2>2, <2>3 DEF NvmeCritical
  <2>5. NvmeWarned(HealthLog(d)) <=>
          d.count["offline"] > 0 \/ d.count["reallocated"] > 0 \/ d.baked = TRUE
    BY <2>2, <2>3 DEF NvmeWarned
  <2>6. Critical(Payload(d)) <=> Grave(d)
    BY <1>2, <1>3, <2>1, <2>4 DEF Critical, Grave
  <2>7. Warned(Payload(d)) <=> Worrying(d)
    BY <1>2, <1>4, <1>5, <2>1, <2>5 DEF Warned, Worrying
  <2> QED  BY <2>6, <2>7
<1>6. CASE d.make # "nvme"
  <2>1. Class(Payload(d)) # "nvme" /\ Payload(d).log = {} /\ Payload(d).table = {Table(d)}
    BY <1>6, PayloadOf
  <2>2. Critical(Payload(d)) <=> Grave(d)
    BY <1>2, <1>3, <2>1, TableDefects DEF Critical, Grave
  <2>3. Warned(Payload(d)) <=> Worrying(d)
    BY <1>2, <1>4, <1>6, <2>1, TableDefects DEF Warned, Worrying
  <2> QED  BY <2>2, <2>3
<1> QED  BY <1>5, <1>6

(* No step takes a defect back.                                            *)
LEMMA DefectsStay ==
  ASSUME drive \in Drives, [Next]_vars
  PROVE  /\ \A c \in Counters : drive.count[c] > 0 => drive'.count[c] > 0
         /\ drive.failed = TRUE => drive'.failed = TRUE
         /\ drive.baked = TRUE => drive'.baked = TRUE
<1>0. \A c \in Counters : drive.count[c] \in Nat
  BY LevelsOf
<1>1. CASE UNCHANGED <<drive.count, drive.failed, drive.baked>>
  BY <1>1
<1>2. ASSUME NEW used \in UsedLevels, Wear(used) PROVE UNCHANGED <<drive.count, drive.failed, drive.baked>>
  BY <1>2 DEF Wear, Drives
<1>3. ASSUME NEW hours \in HourLevels, Run(hours) PROVE UNCHANGED <<drive.count, drive.failed, drive.baked>>
  BY <1>3 DEF Run, Drives
<1>4. ASSUME NEW c \in Counters, NEW n \in CountLevels, Damage(c, n)
      PROVE  /\ \A b \in Counters : drive.count[b] > 0 => drive'.count[b] > 0
             /\ UNCHANGED <<drive.failed, drive.baked>>
  <2> DEFINE count == [drive.count EXCEPT ![c] = n]
  <2>1. drive' = [drive EXCEPT !.count = count] /\ n > drive.count[c] /\ n \in Nat
    BY <1>4, VerdictConstants DEF Damage
  <2>2. drive.count \in [Counters -> CountLevels]
    BY DEF Drives
  <2>3. \A b \in Counters : drive.count[b] > 0 => count[b] > 0
    BY <1>0, <2>1, <2>2
  <2> HIDE DEF count
  <2>4. drive'.count = count /\ UNCHANGED <<drive.failed, drive.baked>>
    BY <2>1 DEF Drives
  <2> QED  BY <2>3, <2>4
<1>5. CASE FailSelfTest
  <2>1. drive'.count = drive.count /\ drive'.failed = TRUE /\ drive'.baked = drive.baked
    BY <1>5 DEF FailSelfTest, Drives
  <2> QED  BY <2>1
<1>6. ASSUME NEW t \in Temps, ChangeTemp(t)
      PROVE  UNCHANGED <<drive.count, drive.failed>> /\ (drive.baked = TRUE => drive'.baked = TRUE)
  <2>1. /\ drive'.count = drive.count /\ drive'.failed = drive.failed
        /\ drive'.baked = (drive.baked \/ t = Hot)
    BY <1>6 DEF ChangeTemp, Drives
  <2> QED  BY <2>1
<1>7. CASE ProbeGarbled \/ ProbeUnread \/ UNCHANGED vars
  BY <1>1, <1>7 DEF ProbeGarbled, ProbeUnread, vars
<1> QED  BY <1>1, <1>2, <1>3, <1>4, <1>5, <1>6, <1>7 DEF Next

(* A verdict gets better only because the drive got cooler: whatever other *)
(* findings come, in whatever order, the worst one stays the verdict.      *)
THEOREM FindingsAreKept ==
  ASSUME Overrun \cap CannotSayMore = {}
  PROVE  Spec => VerdictImprovesOnlyByCooling
<1>1. ASSUME ShownIsProbed, ShownIsProbed', [Next]_vars, Read(health'),
             Rank(health'.status) < Rank(health.status), ~(drive'.temp < drive.temp)
      PROVE  FALSE
  <2>0. Read(health)
    <3>1. Rank("none") = 0  BY DEF Rank
    <3>2. Rank(health'.status) \in {0, 1, 2, 3}  BY DEF Rank
    <3> QED  BY <1>1, <3>1, <3>2 DEF Read
  <2>1. /\ drive \in Drives /\ health = Parse(Payload(drive))
        /\ drive.used <= 100 \/ drive.make \notin CannotSayMore
    BY <1>1, <2>0 DEF ShownIsProbed, Read
  <2>2. /\ drive' \in Drives /\ health' = Parse(Payload(drive'))
        /\ drive'.used <= 100 \/ drive'.make \notin CannotSayMore
    BY <1>1 DEF ShownIsProbed, Read
  <2>3. drive'.make = drive.make /\ drive'.used >= drive.used
    BY <1>1, <2>1, DriveAges
  <2>4. /\ \A c \in Counters : drive.count[c] > 0 => drive'.count[c] > 0
        /\ drive.failed = TRUE => drive'.failed = TRUE
        /\ drive.baked = TRUE => drive'.baked = TRUE
    BY <1>1, <2>1, DefectsStay
  <2>5. drive.used \in Nat /\ drive.temp \in Nat
    BY <2>1, LevelsOf
  <2>6. drive'.used \in Nat /\ drive'.temp \in Nat
    BY <2>2, LevelsOf
  <2>7. ShownLife(drive') <= ShownLife(drive) /\ ShownLife(drive') \in Int /\ ShownLife(drive) \in Int
    BY <2>3, <2>5, <2>6 DEF ShownLife, Left
  <2>8. TooHot(drive) => TooHot(drive')
    BY <1>1, <2>3, <2>5, <2>6 DEF TooHot
  <2>9. Grave(drive) => Grave(drive')
    BY <2>3, <2>4, <2>7 DEF Grave, SpentTo, Counters
  <2>10. Worrying(drive) => Worrying(drive')
    BY <2>3, <2>4, <2>7, <2>8 DEF Worrying, SpentTo, Counters
  <2>11. health.status = IF Grave(drive) THEN "critical" ELSE IF Worrying(drive) THEN "warning" ELSE "healthy"
    BY <2>1, FindingsAre, PayloadOf DEF Parse, Verdict
  <2>12. health'.status = IF Grave(drive') THEN "critical" ELSE IF Worrying(drive') THEN "warning" ELSE "healthy"
    BY <2>2, FindingsAre, PayloadOf DEF Parse, Verdict
  <2>13. Rank("healthy") = 1 /\ Rank("warning") = 2 /\ Rank("critical") = 3
    BY DEF Rank
  <2> QED  BY <1>1, <2>9, <2>10, <2>11, <2>12, <2>13
<1>2. ShownIsProbed /\ ShownIsProbed' /\ [Next]_vars =>
        [Read(health') /\ Rank(health'.status) < Rank(health.status) => drive'.temp < drive.temp]_vars
  BY <1>1
<1> QED  BY <1>2, ShownIsProbedInvariant, PTL DEF Spec, VerdictImprovesOnlyByCooling
================================================================================
